---------------------------- MODULE AtomicIndex -----------------------------
(***************************************************************************)
(* What threads rely on that share hash maps (access_index.h): a call on   *)
(* one key takes effect at one moment between its start and its return; a  *)
(* call on whole maps does so for every key, but not for all at once.      *)
(***************************************************************************)
EXTENDS FiniteSets, PartialMaps

CONSTANTS AIThread, AIKey, AIValue, AIMap,
          Nothing             \* no value

VARIABLES has,                \* map -> (key -> value)
          doing               \* thread -> its call, the keys it has left, its answer

KeyCall == {"insert", "update", "assign", "modify", "find", "erase", "erase_if"}
TableCall == {"clear", "rehash", "list"}
PairCall == {"merge", "swap", "equal"}

Request == [call : KeyCall \cup TableCall \cup PairCall, map : AIMap, other : AIMap, key : AIKey, value : AIValue]

AIIdle == [call |-> "none"]

\* The maps after the part of request r that concerns the keys ks.
Effect(r, ks) ==
  LET mine == has[r.map] theirs == has[r.other]
  IN  CASE r.call = "insert" -> [has EXCEPT ![r.map] = IF r.key \in DOMAIN mine THEN mine ELSE PutEntry(mine, r.key, r.value)]
        [] r.call \in {"update", "assign"} \/ (r.call = "modify" /\ r.key \in DOMAIN mine) -> [has EXCEPT ![r.map] = PutEntry(mine, r.key, r.value)]
        [] r.call \in {"erase", "erase_if", "clear"} -> [has EXCEPT ![r.map] = DropKeys(mine, ks)]
        [] r.call = "merge" -> [has EXCEPT ![r.map] = Join(mine, KeepKeys(theirs, ks)), ![r.other] = DropKeys(theirs, ks \ DOMAIN mine)]
        [] r.call = "swap" -> [has EXCEPT ![r.map] = Join(DropKeys(mine, ks), KeepKeys(theirs, ks)), ![r.other] = Join(DropKeys(theirs, ks), KeepKeys(mine, ks))]
        [] OTHER -> has

\* What the call returns, <<>> when it returns nothing; equal has found no difference so far.
Answer(r, ks) ==
  CASE r.call = "find" -> <<IF r.key \in DOMAIN has[r.map] THEN has[r.map][r.key] ELSE Nothing>>
    [] r.call \in {"insert", "update"} -> <<r.key \notin DOMAIN has[r.map]>>
    [] r.call \in {"modify", "erase", "erase_if"} -> <<r.key \in DOMAIN has[r.map]>>
    [] r.call = "list" -> <<DOMAIN has[r.map]>>
    [] r.call = "equal" -> <<KeepKeys(has[r.map], ks) = KeepKeys(has[r.other], ks)>>
    [] OTHER -> <<>>

\* A comparison ends at the first difference.
Ends(r, ks) == r.call = "equal" /\ Answer(r, ks) = <<FALSE>>

AICall(t, r) ==
  /\ doing[t] = AIIdle
  /\ r \in Request
  /\ doing' = [doing EXCEPT ![t] = [call |-> r.call, request |-> r, answer |-> <<>>,
                                    left |-> IF r.call \in KeyCall THEN {r.key} ELSE AIKey]]
  /\ UNCHANGED has

AIApply(t, ks) ==
  /\ doing[t].call # "none"
  /\ ks # {}
  /\ ks \subseteq doing[t].left
  /\ LET r == doing[t].request
     IN  /\ has' = Effect(r, ks)
         /\ doing' = [doing EXCEPT ![t] = [call |-> r.call, request |-> r, answer |-> Answer(r, ks),
                                           left |-> IF Ends(r, ks) THEN {} ELSE doing[t].left \ ks]]

AIReturn(t) == /\ doing[t].call # "none"
               /\ doing[t].left = {}
               /\ doing' = [doing EXCEPT ![t] = AIIdle]
               /\ UNCHANGED has

AIInit == /\ DOMAIN has = AIMap
          /\ \A m \in AIMap : DOMAIN has[m] \subseteq AIKey /\ \A k \in DOMAIN has[m] : has[m][k] \in AIValue
          /\ doing = [t \in AIThread |-> AIIdle]

AINext == \E t \in AIThread : \/ doing'[t].call # "none" /\ AICall(t, doing'[t].request)
                              \/ \E ks \in SUBSET AIKey : AIApply(t, ks)
                              \/ AIReturn(t)

AISpec == AIInit /\ [][AINext]_<<has, doing>>
=============================================================================
