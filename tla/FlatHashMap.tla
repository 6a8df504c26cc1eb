---------------------------- MODULE FlatHashMap -----------------------------
(***************************************************************************)
(* Two flat_hash_maps in the hands of one thread: every sequence of calls  *)
(* of their interface (src/utils/phmap/phmap.h, raw_hash_set and           *)
(* raw_hash_map).  The access index guards each of its tables by a lock,   *)
(* so what one thread sees is all there is.                                *)
(***************************************************************************)
EXTENDS RawHashSet

CONSTANTS LiveKey,       \* the keys calls are made with
          MapValue,
          CallSide,      \* the sides that calls other than those on both are made on
          MaxCalls,      \* calls from the start on
          StartTables,   \* pairs of tables that a sequence of calls has built
          RangeArg,      \* sequences of entries to insert
          RehashArg      \* arguments of rehash and reserve

VARIABLES tables,        \* side -> table
          node,          \* the node_handle: an entry outside the tables, or Vacant
          answer,        \* the last call and what it returned
          calls          \* how many there were

mapVars == <<tables, node, answer, calls>>

Side == {"a", "b"}
OtherSide(x) == CHOOSE y \in Side : y # x
MapEntry == [key : LiveKey, value : MapValue]

ValueAt(t, i) == IF i = NotFound THEN Vacant ELSE t.slots[i].value

Answers(call, ret) == answer' = <<call, ret>> /\ UNCHANGED node

Replace(x, t) == tables' = [tables EXCEPT ![x] = t]

Find(x, k) == /\ Answers("find", ValueAt(tables[x], FindImpl(tables[x], k)))
              /\ UNCHANGED tables

Compare == Answers("compare", Equal(tables["a"], tables["b"])) /\ UNCHANGED tables

\* The value is built and dropped when the key is there.
InsertEntry(x, e) == LET r == FindOrPrepareInsert(tables[x], e.key)
                     IN  Replace(x, Emplaced(r, e)) /\ Answers("insert", r.new)

AssignEntry(x, e) == LET r == FindOrPrepareInsert(tables[x], e.key)
                     IN  Replace(x, EmplaceAt(r, e)) /\ Answers("assign", r.new)

\* The array for a larger table cannot be allocated: the capacity is put back
\* before anything was moved.
GrowthThrows(x, k) == /\ FindImpl(tables[x], k) = NotFound
                      /\ MustRehash(tables[x], HashOf[k])
                      /\ tables[x].cap = 0 \/ 2 * tables[x].size > CapacityToGrowth(tables[x].width, tables[x].cap)
                      /\ Answers("throw", Vacant)
                      /\ UNCHANGED tables

\* lazy_emplace: the slot is there, its constructor throws.
ConstructorThrows(x, k) == /\ FindImpl(tables[x], k) = NotFound
                           /\ Replace(x, LazyEmplaceFails(tables[x], k))
                           /\ Answers("throw", Vacant)

InsertEntries(x, es) == Replace(x, InsertRange(tables[x], es)) /\ Answers("insert_all", es)

EraseEntry(x, k) == /\ Replace(x, EraseKey(tables[x], k))
                    /\ Answers("erase", FindImpl(tables[x], k) # NotFound)

\* From one iterator to another, or to end().
EraseBetween(x, first, last) == /\ Replace(x, EraseRange(tables[x], first, last))
                                /\ Answers("erase_range", {tables[x].slots[i].key : i \in FullSlots(tables[x]) \cap first .. last - 1})

ClearTable(x) == Replace(x, Clear(tables[x])) /\ Answers("clear", Vacant)

RehashTable(x, n) == Replace(x, Rehash(tables[x], n)) /\ Answers("rehash", Vacant)

ReserveTable(x, n) == Replace(x, Reserve(tables[x], n)) /\ Answers("rehash", Vacant)

MergeTables(x) == LET p == Merge(tables[x], tables[OtherSide(x)])
                  IN  tables' = [y \in Side |-> IF y = x THEN p.dst ELSE p.src] /\ Answers("merge", Vacant)

SwapTables == tables' = [x \in Side |-> tables[OtherSide(x)]] /\ Answers("swap", Vacant)

\* Assignment by copy, or by move: the source is left without an array.
MovedFrom(t) == EmptyTable(t.width)

CopyTable(x) == Replace(x, CopyOf(tables[OtherSide(x)])) /\ Answers("copy", Vacant)

MoveTable(x) == /\ tables' = [tables EXCEPT ![x] = tables[OtherSide(x)], ![OtherSide(x)] = MovedFrom(@)]
                /\ Answers("move", Vacant)

Extract(x, k) == /\ node = Vacant
                 /\ FindImpl(tables[x], k) # NotFound
                 /\ node' = tables[x].slots[FindImpl(tables[x], k)]
                 /\ Replace(x, EraseKey(tables[x], k))
                 /\ answer' = <<"extract", Vacant>>

\* The slot that the node handle owns moves into the table, unless its key is there.
InsertSlot(t, slot) == Emplaced(FindOrPrepareInsert(t, slot.key), slot)

InsertNode(x) == /\ node # Vacant
                 /\ Replace(x, InsertSlot(tables[x], node))
                 /\ node' = IF FindImpl(tables[x], node.key) = NotFound THEN Vacant ELSE node
                 /\ answer' = <<"insert_node", Vacant>>

MapInit == /\ tables \in StartTables
           /\ node = Vacant
           /\ answer = <<"new", Vacant>>
           /\ calls = 0

OnBoth == \/ Compare \/ SwapTables
          \/ \E x \in Side : MergeTables(x) \/ CopyTable(x) \/ MoveTable(x)

OnEntry(x) == \/ \E k \in LiveKey : Find(x, k) \/ EraseEntry(x, k) \/ Extract(x, k) \/ GrowthThrows(x, k) \/ ConstructorThrows(x, k)
              \/ \E e \in MapEntry : InsertEntry(x, e) \/ AssignEntry(x, e)
              \/ InsertNode(x)

\* A range of one entry, or all to the end.
OnTable(x) == \/ ClearTable(x)
              \/ \E es \in RangeArg : InsertEntries(x, es)
              \/ \E n \in RehashArg : RehashTable(x, n) \/ ReserveTable(x, n)
              \/ \E i \in FullSlots(tables[x]) : EraseBetween(x, i, IterNext(tables[x], i)) \/ EraseBetween(x, i, tables[x].cap)

MapNext == /\ calls < MaxCalls
           /\ calls' = calls + 1
           /\ OnBoth \/ \E x \in CallSide : OnEntry(x) \/ OnTable(x)

MapSpec == MapInit /\ [][MapNext]_mapVars

-----------------------------------------------------------------------------
(* Correctness *)

Bytes(t, Kind(_)) == {i \in 0 .. t.cap - 1 : Kind(t.ctrl[i])}

\* The control bytes, the slots and the counters of a table agree: the repeated
\* bytes are current, a full byte has the tag of the entry in its slot, the size
\* is the number of full bytes, and the growth left is what the load factor
\* leaves after the full bytes and the tombstones. Tables that are too small
\* to fill a window have no tombstones.
Agree(t) ==
  /\ t.ctrl[t.cap] = kSentinel
  /\ t.cap = 0 \/ IsValidCapacity(t.cap)
  /\ t.cap > 0 => \A i \in 0 .. t.cap - 1 : t.ctrl[CloneOf(t, i)] = t.ctrl[i]
  /\ \A i \in 0 .. t.cap - 1 : IF IsFull(t.ctrl[i]) THEN t.slots[i] # Vacant /\ t.ctrl[i] = H2(HashOf[t.slots[i].key]) ELSE t.slots[i] = Vacant
  /\ t.size = Cardinality(Bytes(t, IsFull))
  /\ t.growth = CapacityToGrowth(t.width, t.cap) - t.size - Cardinality(Bytes(t, IsDeleted))
  /\ t.cap < t.width => Bytes(t, IsDeleted) = {}

\* Every counter and control byte is right after every sequence of calls
\* (set_ctrl, erase_meta_only, drop_deletes_without_resize, resize), and no
\* sequence uses up the empty bytes that end an unsuccessful lookup.
TablesAgree == \A x \in Side : Agree(tables[x]) /\ tables[x].growth >= 0

MapOf(t) == [k \in {e.key : e \in Entries(t)} |-> (CHOOSE e \in Entries(t) : e.key = k).value]

Maps == INSTANCE AbstractMaps WITH AMKey <- HashKey, AMValue <- MapValue, Nobody <- Vacant,
                                   maps <- [x \in Side |-> MapOf(tables[x])], held <- node, told <- answer

\* The tables implement maps: whatever was erased, squashed, grown or merged
\* before, a lookup finds exactly the entries that are in the map, no key is
\* there twice, and every lookup ends.
ImplementsMaps == Maps!AMSpec
=============================================================================
