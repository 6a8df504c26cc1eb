--------------------------- MODULE AbstractOrder ---------------------------
(***************************************************************************)
(* What a client of two ordered containers relies on: each is a row of     *)
(* entries in the order of their keys.  `said` is the last call and what   *)
(* it returned; an iterator is the place of its entry in the row, the one  *)
(* behind the last for end().                                              *)
(***************************************************************************)
EXTENDS Integers, SequencesExt

CONSTANT AOEntry

VARIABLES repeats,         \* whether keys may repeat; it never changes
          rows, said

AOSide == {"a", "b"}
AOOther(x) == CHOOSE y \in AOSide : y # x

Keyed(s, k) == \E i \in DOMAIN s : s[i].key = k
Drop(s, from, to) == SubSeq(s, 1, from - 1) \o SubSeq(s, to, Len(s))

\* Places where an entry with key k keeps the row in order, the last one as a rule.
Places(s, k) == {i \in 1 .. Len(s) + 1 : \A j \in DOMAIN s : IF j < i THEN s[j].key <= k ELSE s[j].key >= k}
LastPlace(s, k) == Max(Places(s, k))

Put(s, e) == IF Keyed(s, e.key) /\ ~repeats THEN s ELSE InsertAt(s, LastPlace(s, e.key), e)

Says(call, ret) == said'[1] = call /\ said' = <<call, ret>>

Turns(x, s) == rows' = [rows EXCEPT ![x] = s]

\* The place of an entry that was there is what the call returns.
AOInsert(x, e) == /\ said'[1] = "insert"
                  /\ Turns(x, Put(rows[x], e))
                  /\ IF Keyed(rows[x], e.key) /\ ~repeats THEN rows[x][said'[2]].key = e.key /\ said' = <<"insert", said'[2]>>
                     ELSE Says("insert", LastPlace(rows[x], e.key))

\* A hint may choose among equal keys, nothing else.
AOInsertHint(x, e) == /\ said'[1] = "hint"
                      /\ IF Keyed(rows[x], e.key) /\ ~repeats THEN Turns(x, rows[x]) /\ rows[x][said'[2]].key = e.key
                         ELSE said'[2] \in Places(rows[x], e.key) /\ Turns(x, InsertAt(rows[x], said'[2], e))

AOInsertAll(x, es) == Says("insert_all", es) /\ Turns(x, FoldLeft(Put, rows[x], es))

AOErase(x, from, to) == Says("erase", from) /\ Turns(x, Drop(rows[x], from, to))

AOKeep(x, Keeps(_)) == Turns(x, SelectSeq(rows[x], Keeps))

AOEraseKey(x, k) == Says("erase_key", Cardinality({i \in DOMAIN rows[x] : rows[x][i].key = k})) /\ AOKeep(x, LAMBDA e : e.key # k)

AOEraseIf(x, ks) == AOKeep(x, LAMBDA e : e.key \notin ks) /\ Says("erase_if", ks)

AOClear(x) == Turns(x, <<>>) /\ Says("clear", 0)

AOCopy(x) == Turns(x, rows[AOOther(x)]) /\ Says("copy", 0)

AOMove(x) == rows' = [rows EXCEPT ![x] = rows[AOOther(x)], ![AOOther(x)] = <<>>] /\ Says("move", 0)

AOSwap == rows' = [x \in AOSide |-> rows[AOOther(x)]] /\ Says("swap", 0)

\* Without repeated keys, entries whose key is there stay in the other container.
AOMerge(x) == /\ Says("merge", 0)
              /\ rows' = [rows EXCEPT ![x] = FoldLeft(Put, @, rows[AOOther(x)]),
                                      ![AOOther(x)] = IF repeats THEN <<>> ELSE SelectSeq(@, LAMBDA e : Keyed(rows[x], e.key))]

AOInit == rows \in [AOSide -> Seq(AOEntry)] /\ \A x \in AOSide : \A i, j \in DOMAIN rows[x] : i < j => rows[x][i].key <= rows[x][j].key

AONext == /\ UNCHANGED repeats
          /\ \/ AOSwap
             \/ \E x \in AOSide : \/ AOClear(x) \/ AOCopy(x) \/ AOMove(x) \/ AOMerge(x)
                                  \/ \E e \in AOEntry : AOInsert(x, e) \/ AOInsertHint(x, e) \/ AOEraseKey(x, e.key)
                                  \/ \E from \in 1 .. Len(rows[x]) + 1 : \E to \in from .. Len(rows[x]) + 1 : AOErase(x, from, to)
                                  \/ said'[1] = "insert_all" /\ AOInsertAll(x, said'[2])
                                  \/ said'[1] = "erase_if" /\ AOEraseIf(x, said'[2])

AOSpec == AOInit /\ [][AONext]_<<repeats, rows, said>>
=============================================================================
