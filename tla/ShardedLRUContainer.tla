------------------------- MODULE ShardedLRUContainer -------------------------
(***************************************************************************)
(* LruEvictionPolicy over all shards of a ShardedLRUContainer, with their  *)
(* hash tables, shared by threads (src/lru_eviction_policy-inl.h,          *)
(* src/utils/lru_container.cpp).  What runs under a shard's mutex is one   *)
(* step; a call that goes on in the next shard, that releases the handle   *)
(* it got, or that frees entries behind the mutex has several.             *)
(***************************************************************************)
EXTENDS HandleTable

CONSTANTS Cell,          \* heap cells for entries
          ShardCount,
          User,          \* threads
          UsedKey,       \* keys that calls are made with
          Size,          \* what entries are charged, and what evictions ask for
          MaxUses        \* calls per thread

\* A power of two.
ASSUME ShardCountAssumption == ShardCount \in Nat \ {0} /\ \E n \in 0 .. 30 : ShardCount = 2 ^ n
ASSUME CellAssumption == IsFiniteSet(Cell) /\ NoCell \notin Cell
ASSUME UserAssumption == IsFiniteSet(User)
ASSUME UsedKeyAssumption == UsedKey # {} /\ UsedKey \subseteq DOMAIN KeyHash
ASSUME SizeAssumption == Size \subseteq Nat

VARIABLES container,     \* the shards and the cells
          users,         \* thread -> [doing, shard, size, cell it holds, cells it has to free]
          uses           \* thread -> calls made

shardVars == <<container, users, uses>>

Shard == 0 .. ShardCount - 1

\* The low bits of the hash value.
ShardOf(k) == KeyHash[k] % ShardCount

KeysOfCells(c) == [e \in Cell |-> c.cells[e].key]
Home(c, e) == ShardOf(c.cells[e].key)
Pointer(c, k) == FindPointer(c.tables[ShardOf(k)], KeysOfCells(c), k)
Find(c, k) == AtPointer(c.tables[ShardOf(k)], k, Pointer(c, k))

-----------------------------------------------------------------------------
(* LRUContainer: what happens to an entry under the mutex of its shard      *)

Unlisted(c, e) == [c EXCEPT !.orders[Home(c, e)] = RemoveFirst(@, e)]
Listed(c, e) == [c EXCEPT !.orders[Home(c, e)] = Append(@, e)]

Unfiled(c, k) == [c EXCEPT !.tables[ShardOf(k)] = RemoveHandle(@, k, Pointer(c, k))]

LastUse(c, e) == c.cells[e].refs = 1

\* _unref, and the usage that goes with the last reference.
Unreferenced(c, e) ==
  [c EXCEPT !.cells[e].mem = IF LastUse(c, e) THEN "unlinked" ELSE @, !.cells[e].refs = @ - 1,
            !.used[Home(c, e)] = IF LastUse(c, e) THEN @ - c.cells[e].charge ELSE @]

\* An entry that the table has lost.
Lost(c, e) == [Unreferenced(IF LastUse(c, e) /\ c.cells[e].valid THEN Unlisted(c, e) ELSE c, e) EXCEPT !.cells[e].valid = FALSE]

Filed(c, e, k, memory) == [c EXCEPT !.tables[ShardOf(k)] = InsertHandle(@, KeysOfCells(c), e, Pointer(c, k), memory)]

\* Two references: one for the handle that is returned, one for the table.
Allocated(c, e, k, size) ==
  [c EXCEPT !.cells[e] = [key |-> k, charge |-> size, valid |-> TRUE, refs |-> 2, mem |-> "live"], !.used[ShardOf(k)] = @ + size]

LoseOld(c, old) == IF old = NoCell THEN c ELSE Lost(c, old)

InsertEntry(c, e, k, size, memory) == LoseOld(Filed(Allocated(c, e, k, size), e, k, memory), Find(c, k))

BadReferenced(c, e) == [c EXCEPT !.cells[e].refs = @ + 1]

\* lookup: the first handle takes the entry off the list.
Referenced(c, e) == [(IF LastUse(c, e) THEN Unlisted(c, e) ELSE c) EXCEPT !.cells[e].refs = @ + 1]

\* release: the last handle puts it back, at the newest end.
Relisted(c, e) == IF c.cells[e].valid /\ LastUse(c, e) THEN Listed(c, e) ELSE c
ReleaseEntry(c, e) == Relisted(Unreferenced(c, e), e)

EraseEntry(c, e) == Lost(Unfiled(c, c.cells[e].key), e)

\* The entries that go for an eviction of that size, oldest first.
Victims(c, s, size) ==
  LET row == c.orders[s]
      Freed(n) == FoldLeft(LAMBDA sum, e : sum + c.cells[e].charge, 0, SubSeq(row, 1, n))
  IN  SubSeq(row, 1, Min({n \in 0 .. Len(row) : n = Len(row) \/ Freed(n) >= size}))

EvictEntries(c, es) == FoldLeft(EraseEntry, c, es)

-----------------------------------------------------------------------------
(* LruEvictionPolicy: the calls of the threads *)

Idle == [doing |-> "idle", shard |-> 0, size |-> 0, cell |-> NoCell, garbage |-> {}]

\* A call ends with the calls to free().
Ready(t) == users[t] = Idle /\ uses[t] < MaxUses

Call(t, frame) == Ready(t) /\ users' = [users EXCEPT ![t] = frame] /\ uses' = [uses EXCEPT ![t] = @ + 1]

\* The cells among es that nothing refers to any more.
Garbage(c, es) == {e \in es : e # NoCell /\ c.cells[e].mem = "live" /\ LastUse(c, e)}

\* add: insert, and release of the handle.
AddKey(t, k, size) ==
  \E e \in Cell, memory \in BOOLEAN :
     /\ container.cells[e].mem = "free"
     /\ container' = InsertEntry(container, e, k, size, memory)
     /\ Call(t, [Idle EXCEPT !.doing = "release", !.cell = e, !.garbage = Garbage(container, {Find(container, k)})])

\* touch: the caller keeps the handle as long as it likes.
TouchKey(t, k) ==
  /\ Find(container, k) # NoCell
  /\ container' = Referenced(container, Find(container, k))
  /\ Call(t, [Idle EXCEPT !.doing = "release", !.cell = Find(container, k)])

ReleaseHandle(t) ==
  /\ users[t].doing = "release" /\ users[t].garbage = {}
  /\ container' = ReleaseEntry(container, users[t].cell)
  /\ users' = [users EXCEPT ![t] = [Idle EXCEPT !.garbage = Garbage(container, {users[t].cell})]]
  /\ UNCHANGED uses

RemoveKey(t, k) ==
  /\ Find(container, k) # NoCell
  /\ container' = EraseEntry(container, Find(container, k))
  /\ Call(t, [Idle EXCEPT !.garbage = Garbage(container, {Find(container, k)})])

\* evict_for: the victims are in the shard of the key.
EvictForKey(t, k, size) ==
  /\ container' = EvictEntries(container, Victims(container, ShardOf(k), size))
  /\ Call(t, [Idle EXCEPT !.garbage = ToSet(Victims(container, ShardOf(k), size))])

\* evict and clear go from shard to shard.
StartEvict(t, size) == Call(t, [Idle EXCEPT !.doing = "evict", !.size = size]) /\ UNCHANGED container
StartPrune(t) == Call(t, [Idle EXCEPT !.doing = "prune"]) /\ UNCHANGED container

InShard(t, es) ==
  LET garbage == users[t].garbage \cup ToSet(es)
      next == users[t].shard + 1
  IN  /\ container' = EvictEntries(container, es)
      /\ users' = [users EXCEPT ![t] = IF next = ShardCount THEN [Idle EXCEPT !.garbage = garbage]
                                       ELSE [users[t] EXCEPT !.garbage = garbage, !.shard = next]]
      /\ UNCHANGED uses

\* Every shard is asked for the whole size, and what it gives is freed after the last one.
EvictInShard(t) == users[t].doing = "evict" /\ InShard(t, Victims(container, users[t].shard, users[t].size))

\* What a shard loses is freed before the next one is locked.
PruneShard(t) == users[t].doing = "prune" /\ users[t].garbage = {} /\ InShard(t, container.orders[users[t].shard])

FreeEntries(t) ==
  /\ users[t].doing # "evict" /\ users[t].garbage # {}
  /\ container' = [container EXCEPT !.cells = [e \in Cell |-> [container.cells[e] EXCEPT !.mem = IF e \in users[t].garbage THEN "free" ELSE @]]]
  /\ users' = [users EXCEPT ![t].garbage = {}]
  /\ UNCHANGED uses

-----------------------------------------------------------------------------
EmptyContainer ==
  [tables |-> [s \in Shard |-> EmptyHandles], orders |-> [s \in Shard |-> <<>>], used |-> [s \in Shard |-> 0],
   cells |-> [e \in Cell |-> [key |-> CHOOSE k \in DOMAIN KeyHash : TRUE, charge |-> 0, valid |-> FALSE, refs |-> 0, mem |-> "free"]]]

ThreadsIdle == users = [t \in User |-> Idle] /\ uses = [t \in User |-> 0]

ShardedInit == container = EmptyContainer /\ ThreadsIdle

ShardedNext ==
  \E t \in User : \/ \E k \in UsedKey, size \in Size : AddKey(t, k, size) \/ EvictForKey(t, k, size)
                  \/ \E k \in UsedKey : TouchKey(t, k) \/ RemoveKey(t, k)
                  \/ \E size \in Size : StartEvict(t, size)
                  \/ StartPrune(t) \/ EvictInShard(t) \/ PruneShard(t)
                  \/ ReleaseHandle(t) \/ FreeEntries(t)

ShardedSpec == ShardedInit /\ [][ShardedNext]_shardVars

-----------------------------------------------------------------------------
(* Correctness *)

InTable(s) == UNION {ToSet(container.tables[s].list[b]) : b \in DOMAIN container.tables[s].list}
LiveIn(s) == {e \in Cell : container.cells[e].mem = "live" /\ Home(container, e) = s}

\* Every entry can be found in the chain that its hash selects, at any length
\* of the table and after any chain of insertions, replacements, removals and
\* failed growths; a shard knows its own entries and their size only; and what
\* the threads have taken out of the shards is freed by one of them, once.
ShardsSound ==
  /\ \A s \in Shard :
        /\ Files(container.tables[s], KeysOfCells(container))
        /\ InTable(s) = {e \in LiveIn(s) : container.cells[e].valid}
        /\ ToSet(container.orders[s]) = {e \in InTable(s) : LastUse(container, e)}
        /\ container.used[s] = SumFunctionOnSet([e \in Cell |-> container.cells[e].charge], LiveIn(s))
  /\ \A e \in Cell : Cardinality({t \in User : e \in users[t].garbage}) = (IF container.cells[e].mem = "unlinked" THEN 1 ELSE 0)

StoredKeys == {k \in DOMAIN KeyHash : Find(container, k) # NoCell}
KeyHeld(t) == container.cells[users[t].cell].key
Protecting == {t \in User : users[t].cell # NoCell /\ Find(container, KeyHeld(t)) = users[t].cell}
HandlesOut == {<<t, KeyHeld(t)>> : t \in Protecting}

Promise == INSTANCE EvictionPolicy WITH Key <- DOMAIN KeyHash, Handle <- User, tracked <- StoredKeys, holders <- HandlesOut

\* All shards together keep the promises of eviction_policy.h, although an
\* eviction or a clear visits them one by one while other threads add, touch
\* and remove keys in shards it has visited or is yet to visit.
ShardsKeepPromise == [][UNCHANGED Promise!vars \/ Promise!Next]_shardVars
=============================================================================
