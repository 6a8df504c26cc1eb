---------------------------- MODULE HandleTable ----------------------------
(***************************************************************************)
(* The hash table of an LRU container (src/utils/lru_container.cpp): as    *)
(* many buckets as a power of two, each a chain of entries that are linked *)
(* through next_hash.  key gives the key that each entry carries.          *)
(***************************************************************************)
EXTENDS Integers, SequencesExt

CONSTANTS KeyHash,       \* key -> its 32-bit hash value
          NoCell         \* the null pointer

ASSUME KeyHashAssumption == \A k \in DOMAIN KeyHash : KeyHash[k] \in Nat

EmptyChains(length) == [b \in 0 .. length - 1 |-> <<>>]

\* The constructor resizes a table of length 0.
EmptyHandles == [length |-> 4, elems |-> 0, list |-> EmptyChains(4)]

Bucket(t, k) == KeyHash[k] % t.length
Chain(t, k) == t.list[Bucket(t, k)]

\* The place in the chain, 0 for the slot behind it.
FindPointer(t, key, k) == SelectInSeq(Chain(t, k), LAMBDA e : KeyHash[key[e]] = KeyHash[k] /\ key[e] = k)

AtPointer(t, k, i) == IF i = 0 THEN NoCell ELSE Chain(t, k)[i]

LookupHandle(t, key, k) == AtPointer(t, k, FindPointer(t, key, k))

\* 4, 8, 16 and so on, up to the first that is not below elems.
Doubled(length, elems) == IF length < elems THEN 2 * length ELSE length
NewLength(elems) == FoldLeft(LAMBDA length, i : Doubled(length, elems), 4, [i \in 1 .. elems |-> i])

\* Chain by chain, each entry before those that are in its new chain.
Pushed(list, key, length, e) == [list EXCEPT ![KeyHash[key[e]] % length] = <<e>> \o @]
Moved(list, key, length, chain) == FoldLeft(LAMBDA new, e : Pushed(new, key, length, e), list, chain)

Rehashed(t, key, length) ==
  [t EXCEPT !.length = length,
            !.list = FoldLeft(LAMBDA new, chain : Moved(new, key, length, chain), EmptyChains(length), [i \in 1 .. t.length |-> t.list[i - 1]])]

Counted(list) == SumFunction([b \in DOMAIN list |-> Len(list[b])])

\* Without memory for more buckets, or when the chains do not have as many
\* entries as were counted, the table stays as it is.
Grown(t, key, memory) ==
  IF t.elems > t.length /\ memory /\ Counted(t.list) = t.elems THEN Rehashed(t, key, NewLength(t.elems)) ELSE t

\* An entry takes the place of the one with its key.
InsertHandle(t, key, e, i, memory) ==
  IF i > 0 THEN [t EXCEPT !.list[Bucket(t, key[e])][i] = e]
  ELSE Grown([t EXCEPT !.list[Bucket(t, key[e])] = Append(@, e), !.elems = @ + 1], key, memory)

\* The chain ends before the entry that goes.
BadRemoveHandle(t, k, i) == IF i = 0 THEN t ELSE [t EXCEPT !.list[Bucket(t, k)] = SubSeq(@, 1, i - 1), !.elems = @ - 1]

RemoveHandle(t, k, i) == IF i = 0 THEN t ELSE [t EXCEPT !.list[Bucket(t, k)] = RemoveAt(@, i), !.elems = @ - 1]

-----------------------------------------------------------------------------
\* Every entry can be found in the bucket of its hash value, by its key alone.
Files(t, key) ==
  /\ DOMAIN t.list = 0 .. t.length - 1
  /\ t.elems = Counted(t.list)
  /\ \A b \in DOMAIN t.list : \A i \in DOMAIN t.list[b] : LookupHandle(t, key, key[t.list[b][i]]) = t.list[b][i]
=============================================================================
