--------------------------- MODULE EvictionPolicy ---------------------------
(***************************************************************************)
(* What the interface in src/src/eviction_policy.h promises to the two     *)
(* caches that use it.  A key is tracked from add to remove or evict; a    *)
(* touch hands out a handle, and a key is not evicted while a handle that  *)
(* was taken on its current entry is outstanding.  add on a key that is    *)
(* already tracked makes a new entry, so the handles on the old one stop   *)
(* protecting the key.  The order in which victims are chosen is left to   *)
(* the implementation (LRUContainer).                                      *)
(***************************************************************************)
CONSTANTS
    Key,     \* the keys that can be tracked
    Handle   \* the handles the callers can hold at one time

VARIABLES
    tracked, \* keys present in the eviction component
    holders  \* pairs <<h, k>>: handle h is on the current entry of key k

vars == <<tracked, holders>>

Holding(h) == \E k \in Key : <<h, k>> \in holders

Evictable == {k \in tracked : \A h \in Handle : <<h, k>> \notin holders}

Init ==
    /\ tracked = {}
    /\ holders = {}

\* add, first half: the caller of add holds the new entry until it has
\* released the handle the container returned.
Add(h, k) ==
    /\ ~Holding(h)
    /\ tracked' = tracked \cup {k}
    /\ holders' = {p \in holders : p[2] # k} \cup {<<h, k>>}

Touch(h, k) ==
    /\ ~Holding(h)
    /\ k \in tracked
    /\ holders' = holders \cup {<<h, k>>}
    /\ UNCHANGED tracked

\* A handle on an entry that was replaced or removed is released without
\* any effect on the keys.
Release(h) ==
    /\ Holding(h)
    /\ holders' = {p \in holders : p[1] # h}
    /\ UNCHANGED tracked

Remove(k) ==
    /\ k \in tracked
    /\ tracked' = tracked \ {k}
    /\ holders' = {p \in holders : p[2] # k}

Evict(S) ==
    /\ S \subseteq Evictable
    /\ S # {}
    /\ tracked' = tracked \ S
    /\ UNCHANGED holders

Next ==
    \/ \E h \in Handle, k \in Key : Add(h, k) \/ Touch(h, k)
    \/ \E h \in Handle : Release(h)
    \/ \E k \in Key : Remove(k)
    \/ \E S \in SUBSET Key : Evict(S)

Spec == Init /\ [][Next]_vars
=============================================================================
