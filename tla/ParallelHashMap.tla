-------------------------- MODULE ParallelHashMap ---------------------------
(***************************************************************************)
(* The parallel hash maps (src/utils/phmap/phmap.h, parallel_hash_set and  *)
(* parallel_hash_map) under the access index: 2^N tables, each behind a    *)
(* std::shared_mutex of its own.  A table is the map it implements (see    *)
(* FlatHashMap); what is modelled here are the threads, their locks, and   *)
(* what they touch without one.                                            *)
(***************************************************************************)
EXTENDS Integers, FiniteSetsExt, PartialMaps

CONSTANTS N,             \* log2 of the number of tables
          AIThread, AIKey, AIValue, AIMap,
          HashVal,       \* key -> hash value
          Offered,       \* the requests that are made
          Filling,       \* contents of the maps at the start
          MaxRequests,   \* requests per thread
          Nothing        \* no thread, no table, no request, no value

VARIABLES subs,          \* map -> table -> (key -> value)
          guard,         \* map -> table -> its mutex
          pc, request, table, front, seen, walk, reply,   \* thread -> the frame of its call
          requests       \* thread -> the requests it made

parVars == <<subs, guard, pc, request, table, front, seen, walk, reply, requests>>

NumTables == 2 ^ N
Tables == 0 .. NumTables - 1

ASSUME NAssumption == N \in Nat

Bit(hash, i) == (hash \div 2 ^ i) % 2

\* Three bytes of the hash, exclusive or, masked.
SubIdx == [k \in AIKey |-> MapThenSumSet(LAMBDA i : 2 ^ i * ((Bit(HashVal[k], 8 + i) + Bit(HashVal[k], 16 + i) + Bit(HashVal[k], 24 + i)) % 2), 0 .. N - 1)]

KeysOf(i) == {k \in AIKey : SubIdx[k] = i}

Split(m, i) == [k \in DOMAIN m \cap KeysOf(i) |-> m[k]]
Whole(m) == [k \in UNION {DOMAIN subs[m][i] : i \in Tables} |-> subs[m][SubIdx[k]][k]]

KeyCall == {"insert", "update", "modify", "find", "erase", "erase_if"}
TableCall == {"clear", "rehash"}
PairCall == {"merge", "swap", "equal"}

ASSUME TablesAssumption == NumTables \in Nat \ {0} /\ \A k \in AIKey : SubIdx[k] \in Tables
ASSUME OfferedAssumption ==
  Offered \subseteq [call : KeyCall \cup TableCall \cup PairCall, map : AIMap, other : AIMap, key : AIKey, value : AIValue]
ASSUME FillingAssumption == \A fill \in Filling, m \in AIMap : \E D \in SUBSET AIKey : fill[m] \in [D -> AIValue]
ASSUME NothingAssumption == Nothing \notin AIThread

OfKey(t) == request[t].call \in KeyCall
OfPair(t) == request[t].call \in PairCall

\* The keys that the call of t is still to deal with.
Left(t) == IF pc[t] \in {"idle", "return"} THEN {}
           ELSE IF OfKey(t) THEN {request[t].key} ELSE UNION {KeysOf(i) : i \in table[t] .. NumTables - 1}

\* A comparison that went through tables without keys only has not compared anything.
Told(t) == IF Left(t) = AIKey THEN <<>> ELSE reply[t]

CallOf(t) == IF pc[t] = "idle" THEN [call |-> "none"]
             ELSE [call |-> request[t].call, request |-> request[t], answer |-> Told(t), left |-> Left(t)]

Index == INSTANCE AtomicIndex WITH has <- [m \in AIMap |-> Whole(m)], doing <- [t \in AIThread |-> CallOf(t)]

-----------------------------------------------------------------------------
(* Mutexes *)

Unlocked == [writer |-> Nothing, readers |-> {}]

BadShared(t) == request[t].call \in {"find", "equal", "insert"}

Shared(t) == request[t].call \in {"find", "equal"}

Grantable(m, i, shared) == guard[m][i].writer = Nothing /\ (shared \/ guard[m][i].readers = {})

Taken(g, t, shared) == IF shared THEN [g EXCEPT !.readers = @ \cup {t}] ELSE [g EXCEPT !.writer = t]

Dropped(g, t) == IF g.writer = t THEN [g EXCEPT !.writer = Nothing] ELSE [g EXCEPT !.readers = @ \ {t}]

\* The maps of the call, the one of them whose mutex is taken first, and the other one.
Both(t) == {request[t].map} \cup (IF OfPair(t) THEN {request[t].other} ELSE {})
Behind(t) == IF front[t] = request[t].map THEN request[t].other ELSE request[t].map

-----------------------------------------------------------------------------
(* Calls *)

Begin(t, r) == /\ pc[t] = "idle"
               /\ requests[t] < MaxRequests
               /\ requests' = [requests EXCEPT ![t] = @ + 1]
               /\ pc' = [pc EXCEPT ![t] = "lock"]
               /\ request' = [request EXCEPT ![t] = r]
               /\ table' = [table EXCEPT ![t] = IF r.call \in KeyCall THEN SubIdx[r.key] ELSE 0]
               /\ front' = [front EXCEPT ![t] = r.map]
               /\ reply' = [reply EXCEPT ![t] = <<>>]
               /\ UNCHANGED <<subs, guard, seen, walk>>

\* The only mutex of a call on one map, or the first of two.
Lock(t) == /\ pc[t] = "lock"
           /\ Grantable(front[t], table[t], Shared(t))
           /\ guard' = [guard EXCEPT ![front[t]][table[t]] = Taken(@, t, Shared(t))]
           /\ pc' = [pc EXCEPT ![t] = IF OfPair(t) THEN "half" ELSE "in"]
           /\ UNCHANGED <<subs, request, table, front, seen, walk, reply, requests>>

\* ReadLocks waits for the second mutex; std::lock only tries it.
LockSecond(t) == /\ pc[t] = "half"
                 /\ Grantable(Behind(t), table[t], Shared(t))
                 /\ guard' = [guard EXCEPT ![Behind(t)][table[t]] = Taken(@, t, Shared(t))]
                 /\ pc' = [pc EXCEPT ![t] = "in"]
                 /\ UNCHANGED <<subs, request, table, front, seen, walk, reply, requests>>

\* std::lock drops the first mutex and begins again, with either of the two.
BackOff(t) == /\ pc[t] = "half"
              /\ ~Shared(t)
              /\ ~Grantable(Behind(t), table[t], FALSE)
              /\ guard' = [guard EXCEPT ![front[t]][table[t]] = Dropped(@, t)]
              /\ \E m \in Both(t) : front' = [front EXCEPT ![t] = m]
              /\ pc' = [pc EXCEPT ![t] = "lock"]
              /\ UNCHANGED <<subs, request, table, seen, walk, reply, requests>>

\* The locked tables.
Mine(t) == subs[request[t].map][table[t]]
Theirs(t) == subs[request[t].other][table[t]]

\* What the calls make of the two tables. Those on a key go by what their search
\* has seen: insert and emplace leave an entry that is there, insert_or_assign
\* changes it, modify_if only changes.
Inserted(t, m) == IF seen[t] THEN m ELSE PutEntry(m, request[t].key, request[t].value)
Updated(t, m) == PutEntry(m, request[t].key, request[t].value)
Modified(t, m) == IF seen[t] THEN PutEntry(m, request[t].key, request[t].value) ELSE m
Erased(t, m) == IF seen[t] THEN DropKeys(m, {request[t].key}) ELSE m
Cleared(m) == DropKeys(m, DOMAIN m)
Merged(m, source) == Join(m, source)
NotMerged(m, source) == KeepKeys(source, DOMAIN m)

NewMine(t) == CASE request[t].call = "insert" -> Inserted(t, Mine(t))
                [] request[t].call = "update" -> Updated(t, Mine(t))
                [] request[t].call = "modify" -> Modified(t, Mine(t))
                [] request[t].call \in {"erase", "erase_if"} -> Erased(t, Mine(t))
                [] request[t].call = "clear" -> Cleared(Mine(t))
                [] request[t].call = "merge" -> Merged(Mine(t), Theirs(t))
                [] request[t].call = "swap" -> Theirs(t)
                [] OTHER -> Mine(t)

NewTheirs(t) == CASE request[t].call = "merge" -> NotMerged(Mine(t), Theirs(t))
                  [] request[t].call = "swap" -> Mine(t)
                  [] OTHER -> Theirs(t)

Reply(t) == CASE request[t].call = "find" -> <<IF seen[t] THEN Mine(t)[request[t].key] ELSE Nothing>>
              [] request[t].call \in {"insert", "update"} -> <<~seen[t]>>
              [] request[t].call \in {"modify", "erase", "erase_if"} -> <<seen[t]>>
              [] request[t].call = "equal" -> <<Mine(t) = Theirs(t)>>
              [] OTHER -> <<>>

\* A comparison ends at the first difference.
AtLast(t) == OfKey(t) \/ table[t] = NumTables - 1 \/ (request[t].call = "equal" /\ Mine(t) # Theirs(t))

\* The search of a call on a key (find_or_prepare_insert, find_ptr, find).
Search(t) == /\ pc[t] = "in"
             /\ OfKey(t)
             /\ seen' = [seen EXCEPT ![t] = request[t].key \in DOMAIN Mine(t)]
             /\ pc' = [pc EXCEPT ![t] = IF request[t].call = "erase_if" /\ seen'[t] THEN "step" ELSE "act"]
             /\ UNCHANGED <<subs, guard, request, table, front, walk, reply, requests>>

\* What is done to the locked tables and the unlocking; the next table, if there is one.
Work(t) ==
  /\ subs' = [m \in AIMap |-> [subs[m] EXCEPT ![table[t]] = IF m = request[t].map THEN NewMine(t)
                                                           ELSE IF m = request[t].other THEN NewTheirs(t) ELSE @]]
  /\ reply' = [reply EXCEPT ![t] = Reply(t)]
  /\ guard' = [m \in AIMap |-> IF m \in Both(t) THEN [guard[m] EXCEPT ![table[t]] = Dropped(@, t)] ELSE guard[m]]
  /\ front' = [front EXCEPT ![t] = request[t].map]
  /\ pc' = [pc EXCEPT ![t] = IF AtLast(t) THEN "return" ELSE "lock"]
  /\ table' = [table EXCEPT ![t] = IF AtLast(t) THEN @ ELSE @ + 1]
  /\ UNCHANGED <<request, seen, walk, requests>>

Act(t) == (pc[t] = "act" \/ (pc[t] = "in" /\ ~OfKey(t))) /\ Work(t)

Return(t) == /\ pc[t] = "return"
             /\ pc' = [pc EXCEPT ![t] = "idle"]
             /\ request' = [request EXCEPT ![t] = Nothing]
             /\ UNCHANGED <<subs, guard, table, front, seen, walk, reply, requests>>

-----------------------------------------------------------------------------
(* erase_if passes the iterator it found to erase, which moves it on before *)
(* it erases: over the end of the locked table into the next ones.          *)

NextTable(i) == IF i + 1 = NumTables THEN Nothing ELSE i + 1

\* The entry is the last of its table, or another one follows it there.
StepOn(t) == /\ pc[t] = "step"
             /\ \E last \in BOOLEAN : /\ DOMAIN Mine(t) = {request[t].key} => last
                                      /\ walk' = [walk EXCEPT ![t] = IF last THEN NextTable(table[t]) ELSE Nothing]
             /\ pc' = [pc EXCEPT ![t] = "walk"]
             /\ UNCHANGED <<subs, guard, request, table, front, seen, reply, requests>>

\* begin() of the next table. A table that is being changed may look either way.
Walk(t) == /\ pc[t] = "walk"
           /\ walk[t] # Nothing
           /\ LET m == request[t].map
              IN  \E empty \in BOOLEAN : /\ guard[m][walk[t]].writer = Nothing => (empty <=> DOMAIN subs[m][walk[t]] = {})
                                         /\ walk' = [walk EXCEPT ![t] = IF empty THEN NextTable(walk[t]) ELSE Nothing]
           /\ UNCHANGED <<subs, guard, pc, request, table, front, seen, reply, requests>>

\* Where the walk ended is not used.
EraseFound(t) == pc[t] = "walk" /\ walk[t] = Nothing /\ Work(t)

-----------------------------------------------------------------------------
ParInit == /\ \E fill \in Filling : subs = [m \in AIMap |-> [i \in Tables |-> Split(fill[m], i)]]
           /\ guard = [m \in AIMap |-> [i \in Tables |-> Unlocked]]
           /\ pc = [t \in AIThread |-> "idle"]
           /\ request = [t \in AIThread |-> Nothing]
           /\ table = [t \in AIThread |-> 0]
           /\ front = [t \in AIThread |-> Nothing]
           /\ seen = [t \in AIThread |-> FALSE]
           /\ walk = [t \in AIThread |-> Nothing]
           /\ reply = [t \in AIThread |-> <<>>]
           /\ requests = [t \in AIThread |-> 0]

ParNext == \E t \in AIThread : \/ \E r \in Offered : Begin(t, r)
                               \/ Lock(t) \/ LockSecond(t) \/ BackOff(t) \/ Search(t) \/ Act(t)
                               \/ StepOn(t) \/ Walk(t) \/ EraseFound(t) \/ Return(t)

ParSpec == ParInit /\ [][ParNext]_parVars

-----------------------------------------------------------------------------
(* Correctness *)

AtWork(t) == pc[t] \in {"in", "act", "step", "walk"}
Reads(t) == request[t].call \in {"find", "equal"}

\* While a thread changes a table no other thread is at work in it, and every
\* entry is in the table that its hash selects: whatever mix of calls on keys,
\* on maps and on pairs of maps (in any order of the two) takes the mutexes.
OneWriter ==
  /\ \A t, u \in AIThread : AtWork(t) /\ AtWork(u) /\ t # u /\ table[t] = table[u] /\ Both(t) \cap Both(u) # {} => Reads(t) /\ Reads(u)
  /\ \A m \in AIMap, i \in Tables : DOMAIN subs[m][i] \subseteq KeysOf(i)

\* Whatever the interleaving of the locks, calls on a key are atomic, calls on
\* whole maps are atomic key by key, and every answer is that of its moment.
CallsAreAtomic == Index!AISpec
=============================================================================
