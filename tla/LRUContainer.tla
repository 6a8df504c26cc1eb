---------------------------- MODULE LRUContainer ----------------------------
(***************************************************************************)
(* One shard of ShardedLRUContainer (src/src/utils/lru_container.cpp), as  *)
(* LruEvictionPolicy drives it.  Every operation runs under the shard's    *)
(* mutex and is one action; the free() calls that the code makes after the *)
(* mutex is dropped are an action of their own (Free), so that any thread  *)
(* may run between an entry leaving the container and its memory going     *)
(* back to the allocator.  The hash table is the function it implements.   *)
(***************************************************************************)
EXTENDS Integers, Sequences, FiniteSets, FiniteSetsExt, SequencesExt

CONSTANTS
    Key,        \* keys that map to this shard
    Entry,      \* heap cells an LRUHandle can be allocated in
    Handle,     \* LRUHandle pointers that callers can hold at one time
    Charge,     \* sizes that callers pass
    NoEntry     \* the null pointer

ASSUME NoEntryAssumption == NoEntry \notin Entry
ASSUME HandleAssumption == IsFiniteSet(Handle)
ASSUME ChargeAssumption == Charge \subseteq Nat

VARIABLES
    table,      \* HandleTable: the entry of each key, or NoEntry
    lru,        \* the LRU list, oldest entry first
    key,        \* LRUHandle::key_data of each cell
    charge,     \* LRUHandle::charge
    valid,      \* LRUHandle::valid
    refs,       \* LRUHandle::refs
    cell,       \* the cell's memory: free, live, or unlinked (refs fell to
                \* 0, free() not called yet)
    usage,      \* LRUContainer::_usage
    ref         \* the entry each caller's handle points to, or NoEntry

vars == <<table, lru, key, charge, valid, refs, cell, usage, ref>>

\* _lru_remove: the list without entry e.
LruRemove(s, e) == RemoveAt(s, CHOOSE i \in 1..Len(s) : s[i] = e)

(***************************************************************************)
(* The pieces that the operations share.  A definition whose name starts   *)
(* with Bad is not part of the model: it is the definition after it with a *)
(* plausible bug, and PROJECT.json names the property that catches it.     *)
(***************************************************************************)

\* What _unref answers: dropping a reference on e leaves none.
BadLastRef(e) == valid[e] /\ refs[e] = 1
LastRef(e) == refs[e] = 1

\* Memory and usage after a reference on e is dropped.
BadCellsAfterUnref(e) ==
    IF refs[e] \in {1, 2} THEN [cell EXCEPT ![e] = "unlinked"] ELSE cell
CellsAfterUnref(e) ==
    IF LastRef(e) THEN [cell EXCEPT ![e] = "unlinked"] ELSE cell

BadUsageAfterUnref(e) == usage - charge[e]
UsageAfterUnref(e) == IF LastRef(e) THEN usage - charge[e] ELSE usage

\* The list after a reference is taken: an entry in use is not on it.
BadListAfterRef(e) == lru
ListAfterRef(e) == IF LastRef(e) THEN LruRemove(lru, e) ELSE lru

\* The list after a handle is released: an entry that only the table still
\* references becomes the newest one.
BadListAfterRelease(e) == IF refs[e] = 2 THEN Append(lru, e) ELSE lru
ListAfterRelease(e) == IF valid[e] /\ refs[e] = 2 THEN Append(lru, e) ELSE lru

\* The valid flags and reference counts once e has replaced old in the table.
BadValidAfterInsert(e, old) == [valid EXCEPT ![e] = TRUE]
ValidAfterInsert(e, old) == [x \in Entry |-> x = e \/ (valid[x] /\ x # old)]

BadRefsAfterInsert(e, old) == [refs EXCEPT ![e] = 2]
RefsAfterInsert(e, old) ==
    [x \in Entry |-> CASE x = e   -> 2
                       [] x = old -> refs[x] - 1
                       [] OTHER   -> refs[x]]

Init ==
    /\ table = [k \in Key |-> NoEntry]
    /\ lru = << >>
    /\ key \in [Entry -> Key]     \* memory not written yet
    /\ charge = [e \in Entry |-> 0]
    /\ valid = [e \in Entry |-> FALSE]
    /\ refs = [e \in Entry |-> 0]
    /\ cell = [e \in Entry |-> "free"]
    /\ usage = 0
    /\ ref = [h \in Handle |-> NoEntry]

(***************************************************************************)
(* insert: the new entry starts with two references, the table's and the   *)
(* returned handle's, and is not on the LRU list.  An entry it replaces    *)
(* loses the table's reference.                                            *)
(***************************************************************************)
Insert(h, k, c) ==
    /\ ref[h] = NoEntry
    /\ \E e \in Entry :
         LET old       == table[k]
             unlinkOld == old # NoEntry /\ LastRef(old)
         IN
         /\ cell[e] = "free"
         /\ table' = [table EXCEPT ![k] = e]
         /\ key' = [key EXCEPT ![e] = k]
         /\ charge' = [charge EXCEPT ![e] = c]
         /\ valid' = ValidAfterInsert(e, old)
         /\ refs' = RefsAfterInsert(e, old)
         /\ cell' = [x \in Entry |-> CASE x = e                 -> "live"
                                       [] x = old /\ unlinkOld  -> "unlinked"
                                       [] OTHER                 -> cell[x]]
         /\ lru' = IF unlinkOld THEN LruRemove(lru, old) ELSE lru
         /\ usage' = (usage + c) - (IF unlinkOld THEN charge[old] ELSE 0)
         /\ ref' = [ref EXCEPT ![h] = e]

\* lookup: an entry that only the table references leaves the list.
Lookup(h, k) ==
    LET e == table[k] IN
    /\ ref[h] = NoEntry
    /\ e # NoEntry
    /\ lru' = ListAfterRef(e)
    /\ refs' = [refs EXCEPT ![e] = @ + 1]
    /\ ref' = [ref EXCEPT ![h] = e]
    /\ UNCHANGED <<table, key, charge, valid, cell, usage>>

\* release: the last reference unlinks the entry, the last but one puts a
\* valid entry at the newest end of the list.
Release(h) ==
    LET e == ref[h] IN
    /\ e # NoEntry
    /\ refs' = [refs EXCEPT ![e] = @ - 1]
    /\ cell' = CellsAfterUnref(e)
    /\ usage' = UsageAfterUnref(e)
    /\ lru' = ListAfterRelease(e)
    /\ ref' = [ref EXCEPT ![h] = NoEntry]
    /\ UNCHANGED <<table, key, charge, valid>>

\* erase: an entry that is held survives until its handles are released.
Erase(k) ==
    LET e == table[k] IN
    /\ e # NoEntry
    /\ table' = [table EXCEPT ![k] = NoEntry]
    /\ refs' = [refs EXCEPT ![e] = @ - 1]
    /\ valid' = [valid EXCEPT ![e] = FALSE]
    /\ cell' = CellsAfterUnref(e)
    /\ usage' = UsageAfterUnref(e)
    /\ lru' = IF LastRef(e) /\ valid[e] THEN LruRemove(lru, e) ELSE lru
    /\ UNCHANGED <<key, charge, ref>>

\* The entries at the positions 1..n of the list.
Oldest(n) == {lru[i] : i \in 1..n}

\* The size of the n oldest entries.
OldestCharge(n) == SumFunction([i \in 1..n |-> charge[lru[i]]])

\* _evict_one_entry on each of the n oldest entries.
EvictOldest(n) ==
    /\ lru' = SubSeq(lru, n + 1, Len(lru))
    /\ table' = [k \in Key |-> IF table[k] \in Oldest(n) THEN NoEntry ELSE table[k]]
    /\ valid' = [e \in Entry |-> valid[e] /\ e \notin Oldest(n)]
    /\ refs' = [e \in Entry |-> IF e \in Oldest(n) THEN refs[e] - 1 ELSE refs[e]]
    /\ cell' = [e \in Entry |-> IF e \in Oldest(n) THEN "unlinked" ELSE cell[e]]
    /\ usage' = usage - OldestCharge(n)
    /\ UNCHANGED <<key, charge, ref>>

\* _evict_from_lru stops at the first entry that brings the evicted size to
\* the requested one, or at the end of the list.
Evict(size) ==
    \E n \in 1..Len(lru) :
        /\ OldestCharge(n - 1) < size
        /\ n < Len(lru) => OldestCharge(n) >= size
        /\ EvictOldest(n)

Prune ==
    /\ lru # << >>
    /\ EvictOldest(Len(lru))

\* free() outside the mutex, by whoever dropped the last reference.
Free(e) ==
    /\ cell[e] = "unlinked"
    /\ cell' = [cell EXCEPT ![e] = "free"]
    /\ UNCHANGED <<table, lru, key, charge, valid, refs, usage, ref>>

Next ==
    \/ \E h \in Handle, k \in Key, c \in Charge : Insert(h, k, c)
    \/ \E h \in Handle, k \in Key : Lookup(h, k)
    \/ \E h \in Handle : Release(h)
    \/ \E k \in Key : Erase(k)
    \/ \E size \in Charge : Evict(size)
    \/ Prune
    \/ \E e \in Entry : Free(e)

Spec == Init /\ [][Next]_vars

(***************************************************************************)
(* A handle is an RAII object (EvictionPolicy::Handle) or is released by   *)
(* the add that created it, and free() follows the mutex in the same       *)
(* function: both are steps that a running thread always gets to.          *)
(***************************************************************************)
FairSpec ==
    /\ Spec
    /\ \A h \in Handle : WF_vars(Release(h))
    /\ \A e \in Entry : WF_vars(Free(e))

-----------------------------------------------------------------------------
HandlesOn(e) == {h \in Handle : ref[h] = e}

\* usage is typed by UsageIsLiveCharge, which gives its value.
TypeOK ==
    /\ table \in [Key -> Entry \cup {NoEntry}]
    /\ lru \in Seq(Entry)
    /\ key \in [Entry -> Key]
    /\ charge \in [Entry -> Nat]
    /\ valid \in [Entry -> BOOLEAN]
    /\ refs \in [Entry -> Nat]
    /\ cell \in [Entry -> {"free", "live", "unlinked"}]
    /\ ref \in [Handle -> Entry \cup {NoEntry}]

\* refs counts exactly the table's reference and the outstanding handles, so
\* that no interleaving of insert, erase, evict and release drops an entry
\* early or keeps it for ever.
RefsCountReferences ==
    \A e \in Entry :
        refs[e] = Cardinality(HandlesOn(e)) + (IF valid[e] THEN 1 ELSE 0)

\* "Entries have refs==1 and valid==true" (lru_container.h:219), each entry
\* once; and every entry like that is on the list, so that it can be evicted.
LruHoldsTheIdle ==
    /\ \A e \in Entry : Contains(lru, e) <=> (valid[e] /\ refs[e] = 1)
    /\ IsInjective(lru)

\* The table and the valid flag agree, and the table files an entry under
\* its own key.
ValidIsTabled ==
    /\ \A e \in Entry : valid[e] => table[key[e]] = e
    /\ \A k \in Key : table[k] # NoEntry => valid[table[k]] /\ key[table[k]] = k

\* No pointer that an operation can follow (table, list or handle) reaches a
\* cell that has been freed or is about to be, although the code calls
\* free() after it has dropped the mutex.
NoUseAfterFree ==
    /\ \A h \in Handle : ref[h] # NoEntry => cell[ref[h]] = "live"
    /\ \A k \in Key : table[k] # NoEntry => cell[table[k]] = "live"
    /\ \A i \in 1..Len(lru) : cell[lru[i]] = "live"

\* The entries that are allocated.
Live == {e \in Entry : cell[e] = "live"}

\* get_usage is the charge of the entries that are still allocated: the
\* size_t never wraps and nothing is counted after its last release.
UsageIsLiveCharge == usage = SumFunctionOnSet(charge, Live)

\* An entry that has left the table is given back to the allocator once its
\* handles are gone, whatever the order of release, erase and replacement.
DroppedIsFreed ==
    \A e \in Entry : (cell[e] # "free" /\ ~valid[e]) ~> cell[e] = "free"

\* The container implements the promises of eviction_policy.h.
Tracked == {k \in Key : table[k] # NoEntry}
Holders == {p \in Handle \X Key : ref[p[1]] # NoEntry /\ table[p[2]] = ref[p[1]]}

Policy == INSTANCE EvictionPolicy WITH tracked <- Tracked, holders <- Holders

PolicySpec == Policy!Spec
=============================================================================
