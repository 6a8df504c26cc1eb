----------------------------- MODULE RawHashSet -----------------------------
(***************************************************************************)
(* The open-addressing hash table under the access index                   *)
(* (src/utils/phmap/phmap.h, class raw_hash_set): one table is a record,   *)
(* every member function an operator from tables to tables.                *)
(*                                                                         *)
(* A slot has a control byte: empty, deleted (a tombstone), or the low     *)
(* seven bits of the hash of the entry in the slot.  A key is looked for   *)
(* in windows of `width` control bytes, from the position its hash gives   *)
(* on, until a window holds an empty byte.  The bytes of the first slots   *)
(* are repeated behind the sentinel, so that a window may run over the     *)
(* end.  All that can go wrong is in the bookkeeping: a lost empty byte    *)
(* makes every unsuccessful lookup endless, a byte emptied too early hides *)
(* the entries behind it.                                                  *)
(***************************************************************************)
EXTENDS Integers, Sequences, FiniteSetsExt

CONSTANTS HashOf,      \* key -> hash value, after mixing
          Vacant      \* content of a slot that holds no entry

HashKey == DOMAIN HashOf

\* The mixed hash is a size_t.
ASSUME HashAssumption == \A k \in HashKey : HashOf[k] \in Nat

-----------------------------------------------------------------------------
(* Control bytes *)

kEmpty    == -128
kDeleted  == -2
kSentinel == -1

H1(hash) == hash \div 128
H2(hash) == hash % 128

IsEmpty(c) == c = kEmpty
IsFull(c) == c >= 0
IsDeleted(c) == c = kDeleted
IsEmptyOrDeleted(c) == c < kSentinel

\* The byte that differs from h in the lowest bit.
LastBitFlipped(h) == IF h % 2 = 0 THEN h + 1 ELSE h - 1

\* Positions in the window at pos whose byte equals h.  A group of 16 bytes
\* is compared exactly.  The 64-bit arithmetic of a group of 8 also reports
\* bytes that follow a match without a gap and differ in the lowest bit.
Match(t, pos, h) == {i \in 0 .. t.width - 1 : \/ t.ctrl[pos + i] = h
                                              \/ /\ t.width = 8
                                                 /\ \E j \in 0 .. i - 1 : /\ t.ctrl[pos + j] = h
                                                                          /\ \A m \in j + 1 .. i : t.ctrl[pos + m] = LastBitFlipped(h)}

MatchEmpty(t, pos) == {i \in 0 .. t.width - 1 : IsEmpty(t.ctrl[pos + i])}

MatchEmptyOrDeleted(t, pos) == {i \in 0 .. t.width - 1 : IsEmptyOrDeleted(t.ctrl[pos + i])}

\* A BitMask is the set of its positions.
LowestBitSet(mask) == Min(mask)
LeadingZeros(t, mask) == t.width - 1 - Max(mask)

-----------------------------------------------------------------------------
(* Capacities *)

IsValidCapacity(n) == \E e \in 1 .. 30 : n = 2 ^ e - 1

\* The smallest 2^e - 1 that is at least n, and at least 1.
NormalizeCapacity(n) == 2 ^ Min({e \in 1 .. 30 : 2 ^ e > n}) - 1

CapacityToGrowth(width, capacity) == IF width = 8 /\ capacity = 7 THEN 6 ELSE capacity - capacity \div 8

\* C++ divides towards zero: (0 - 1) / 7 is 0.
GrowthToLowerboundCapacity(width, growth) == IF width = 8 /\ growth = 7 THEN 8 ELSE growth + (IF growth = 0 THEN 0 ELSE (growth - 1) \div 7)

-----------------------------------------------------------------------------
(* Tables *)

ResetCtrl(width, capacity) == [i \in 0 .. capacity + width |-> IF i = capacity THEN kSentinel ELSE kEmpty]

\* A table without an array shares one static group of control bytes.
EmptyTable(width) ==
  [width |-> width, cap |-> 0, size |-> 0, growth |-> 0, slots |-> <<>>,
   ctrl |-> ResetCtrl(width, 0)]

ResetGrowthLeft(t) == [t EXCEPT !.growth = CapacityToGrowth(t.width, t.cap) - t.size]

\* A new array, for a table of `size` entries that are yet to be moved there.
InitializeSlots(width, capacity, size) ==
  ResetGrowthLeft([width |-> width, cap |-> capacity, size |-> size, growth |-> 0,
                   slots |-> [i \in 0 .. capacity - 1 |-> Vacant],
                   ctrl |-> ResetCtrl(width, capacity)])

\* Where the byte of slot i is repeated (i itself if nowhere).
CloneOf(t, i) == ((i - t.width) % (t.cap + 1)) + 1 + ((t.width - 1) % (t.cap + 1))

SetCtrl(t, i, c) == [t EXCEPT !.ctrl = [@ EXCEPT ![i] = c, ![CloneOf(t, i)] = c]]

\* Puts an entry in slot i: the control byte and the transfer of the slot.
PlaceAt(t, i, e) == [SetCtrl(t, i, H2(HashOf[e.key])) EXCEPT !.slots[i] = e]

\* Start of the n-th window of a probe.
ProbeOffset(t, hash, n) == (H1(hash) + t.width * ((n * (n + 1)) \div 2)) % (t.cap + 1)

\* Slots in the n-th window that hold the key.
HitsIn(t, key, n) == LET start == ProbeOffset(t, HashOf[key], n)
                     IN  {s \in {(start + i) % (t.cap + 1) : i \in Match(t, start, H2(HashOf[key]))} : t.slots[s].key = key}

\* The lookup stops in window n: it has the key or an empty byte.
StopsIn(t, key, n) == HitsIn(t, key, n) # {} \/ MatchEmpty(t, ProbeOffset(t, HashOf[key], n)) # {}

NotFound == -1

\* A lookup that finds no empty byte never returns.
Endless == -2

\* Windows repeat after at most cap + 1 steps.
FindImpl(t, key) == IF \A n \in 0 .. t.cap : ~StopsIn(t, key, n) THEN Endless
                    ELSE LET last == CHOOSE n \in 0 .. t.cap : StopsIn(t, key, n) /\ \A m \in 0 .. n - 1 : ~StopsIn(t, key, m)
                             hits == HitsIn(t, key, last)
                         IN  IF hits = {} THEN NotFound ELSE CHOOSE s \in hits : TRUE

\* The number of the first window with room.
RoomIn(t, hash) == CHOOSE n \in 0 .. t.cap : /\ MatchEmptyOrDeleted(t, ProbeOffset(t, hash, n)) # {}
                                             /\ \A m \in 0 .. n - 1 : MatchEmptyOrDeleted(t, ProbeOffset(t, hash, m)) = {}

FindFirstNonFull(t, hash) == LET start == ProbeOffset(t, hash, RoomIn(t, hash))
                             IN  (start + LowestBitSet(MatchEmptyOrDeleted(t, start))) % (t.cap + 1)

-----------------------------------------------------------------------------
(* Iteration *)

\* The first full slot from i on, or cap, which is end().
SkipEmptyOrDeleted(t, i) == Min({j \in i .. t.cap : j = t.cap \/ IsFull(t.ctrl[j])})

\* ++; begin() is what follows -1.
IterNext(t, i) == SkipEmptyOrDeleted(t, i + 1)

FullSlots(t) == {i \in 0 .. t.cap - 1 : IsFull(t.ctrl[i])}

Entries(t) == {t.slots[i] : i \in FullSlots(t)}

-----------------------------------------------------------------------------
(* Growing and squashing *)

\* Moves an entry to a table that does not hold its key.
MoveIn(t, e) == PlaceAt(t, FindFirstNonFull(t, HashOf[e.key]), e)

Resize(t, capacity) == LET new[i \in 0 .. t.cap] == IF i = 0 THEN InitializeSlots(t.width, capacity, t.size)
                                                    ELSE IF IsFull(t.ctrl[i - 1]) THEN MoveIn(new[i - 1], t.slots[i - 1]) ELSE new[i - 1]
                       IN  new[t.cap]

SpecialToEmptyAndFullToDeleted(c) == IF IsFull(c) THEN kDeleted ELSE kEmpty

\* The bytes are converted, those of the first slots repeated and the sentinel restored.
ConvertDeletedToEmptyAndFullToDeleted(t) ==
  [t EXCEPT !.ctrl = [i \in DOMAIN @ |-> CASE i = t.cap -> kSentinel
                                           [] i < t.cap -> SpecialToEmptyAndFullToDeleted(@[i])
                                           [] OTHER -> SpecialToEmptyAndFullToDeleted(@[i - t.cap - 1])]]

ProbeIndex(t, hash, pos) == ((pos - ProbeOffset(t, hash, 0)) % (t.cap + 1)) \div t.width

\* One turn of the loop of drop_deletes_without_resize for slot i, whose entry
\* would now be placed at `to`: keep it, move it, or exchange it and look at i again.
Squash(t, i, e, to) ==
  CASE ProbeIndex(t, HashOf[e.key], to) = ProbeIndex(t, HashOf[e.key], i) -> [t |-> SetCtrl(t, i, H2(HashOf[e.key])), i |-> i + 1]
    [] OTHER -> IF IsEmpty(t.ctrl[to])
                THEN [t |-> [SetCtrl(PlaceAt(t, to, e), i, kEmpty) EXCEPT !.slots[i] = Vacant], i |-> i + 1]
                ELSE [t |-> [PlaceAt(t, to, e) EXCEPT !.slots[i] = t.slots[to]], i |-> i]

SquashTurn(s) ==
  IF s.i = s.t.cap THEN s
  ELSE IF ~IsDeleted(s.t.ctrl[s.i]) THEN [s EXCEPT !.i = @ + 1]
  ELSE Squash(s.t, s.i, s.t.slots[s.i], FindFirstNonFull(s.t, HashOf[s.t.slots[s.i].key]))

\* Every turn advances i or marks a slot full for good.
DropDeletesWithoutResize(t) ==
  LET turn[n \in 0 .. 2 * t.cap] == IF n = 0 THEN [t |-> ConvertDeletedToEmptyAndFullToDeleted(t), i |-> 0] ELSE SquashTurn(turn[n - 1])
  IN  ResetGrowthLeft(turn[2 * t.cap].t)

RehashAndGrowIfNecessary(t) ==
  CASE t.cap = 0 -> Resize(t, 1)
    [] t.cap # 0 /\ t.size <= CapacityToGrowth(t.width, t.cap) \div 2 -> DropDeletesWithoutResize(t)
    [] OTHER -> Resize(t, 2 * t.cap + 1)

-----------------------------------------------------------------------------
(* Inserting *)

\* The insertion for a hash first has to rehash: no growth left, no tombstone to reuse.
MustRehash(t, hash) == t.growth = 0 /\ ~IsDeleted(t.ctrl[FindFirstNonFull(t, hash)])

\* Bug: a tombstone that is reused is counted as a new slot.
BadTakeSlot(t, i, hash) == [t |-> SetCtrl([t EXCEPT !.size = @ + 1, !.growth = @ - 1], i, H2(hash)), at |-> i, new |-> TRUE]

\* Takes slot i of a table that has room. An entry is put there afterwards.
TakeSlot(t, i, hash) == [t |-> SetCtrl([t EXCEPT !.size = @ + 1, !.growth = IF IsEmpty(t.ctrl[i]) THEN @ - 1 ELSE @], i, H2(hash)),
                         at |-> i, new |-> TRUE]

TakeFirst(t, hash) == TakeSlot(t, FindFirstNonFull(t, hash), hash)

PrepareInsert(t, hash) == TakeFirst(IF MustRehash(t, hash) THEN RehashAndGrowIfNecessary(t) ELSE t, hash)

FindOrPrepareInsert(t, key) == IF FindImpl(t, key) = NotFound THEN PrepareInsert(t, HashOf[key])
                               ELSE [t |-> t, at |-> FindImpl(t, key), new |-> FALSE]

EmplaceAt(r, e) == [r.t EXCEPT !.slots[r.at] = e]

\* insert, emplace and try_emplace leave an entry with the key alone ...
Emplaced(r, e) == IF r.new THEN EmplaceAt(r, e) ELSE r.t
Emplace(t, e) == Emplaced(FindOrPrepareInsert(t, e.key), e)

\* ... insert_or_assign replaces its value.
InsertOrAssign(t, e) == EmplaceAt(FindOrPrepareInsert(t, e.key), e)

\* insert(first, last), from its own reserve on.
EmplaceAll(t, es) == LET done[i \in 0 .. Len(es)] == IF i = 0 THEN t ELSE Emplace(done[i - 1], es[i]) IN done[Len(es)]

-----------------------------------------------------------------------------
(* Erasing *)

\* Bug: a slot next to an empty byte is taken for one that no probe ever passed.
BadWasNeverFull(t, i, after, before) == after # {} /\ before # {}

\* No window over slot i was ever without an empty byte.
WasNeverFull(t, i, after, before) ==
  /\ before # {} /\ after # {}
  /\ LowestBitSet(after) + LeadingZeros(t, before) < t.width

EraseMetaOnly(t, i) ==
  LET never == WasNeverFull(t, i, MatchEmpty(t, i), MatchEmpty(t, (i - t.width) % (t.cap + 1)))
  IN  SetCtrl([t EXCEPT !.size = @ - 1, !.growth = IF never THEN @ + 1 ELSE @], i, IF never THEN kEmpty ELSE kDeleted)

\* Destroys the entry in slot i.
EraseAt(t, i) == [EraseMetaOnly(t, i) EXCEPT !.slots[i] = Vacant]

EraseKey(t, key) == IF FindImpl(t, key) = NotFound THEN t ELSE EraseAt(t, FindImpl(t, key))

\* erase(first, last): the iterator moves on before its slot is erased.
EraseRange(t, first, last) ==
  LET done[i \in first .. last] == IF i = first THEN t ELSE IF IsFull(t.ctrl[i - 1]) THEN EraseAt(done[i - 1], i - 1) ELSE done[i - 1]
  IN  done[last]

\* The constructor given to lazy_emplace may throw: the slot is taken back.
LazyEmplaceFails(t, key) == EraseAt(FindOrPrepareInsert(t, key).t, FindOrPrepareInsert(t, key).at)

DestroySlots(t) == EmptyTable(t.width)

\* A table without entries keeps its tombstones.
Clear(t) == CASE t.size = 0 -> t
              [] t.size # 0 /\ t.cap > 127 -> DestroySlots(t)
              [] OTHER -> InitializeSlots(t.width, t.cap, 0)

-----------------------------------------------------------------------------
(* Whole tables *)

Rehash(t, n) ==
  LET m == NormalizeCapacity(IF n > t.size THEN n ELSE t.size)
  IN  CASE n = 0 /\ t.cap = 0 -> t
        [] n = 0 /\ t.cap # 0 /\ t.size = 0 -> DestroySlots(t)
        [] OTHER -> IF n = 0 \/ m > t.cap THEN Resize(t, m) ELSE t

Reserve(t, n) == Rehash(t, GrowthToLowerboundCapacity(t.width, n))

\* insert(first, last) of a range whose length is known.
InsertRange(t, es) == EmplaceAll(Reserve(t, t.size + Len(es)), es)

\* The copy constructor. The source is walked from its first slot on.
CopyOf(that) ==
  LET new == Reserve(EmptyTable(that.width), that.size)
      done[i \in 0 .. that.cap] == IF i = 0 THEN new ELSE IF IsFull(that.ctrl[i - 1]) THEN MoveIn(done[i - 1], that.slots[i - 1]) ELSE done[i - 1]
  IN  [done[that.cap] EXCEPT !.size = that.size, !.growth = @ - that.size]

\* One step of merge: the entry in slot i of src goes to dst unless its key is there.
MergeSlot(p, i) ==
  LET r == FindOrPrepareInsert(p.dst, p.src.slots[i].key)
  IN  IF r.new THEN [dst |-> EmplaceAt(r, p.src.slots[i]), src |-> EraseAt(p.src, i)] ELSE p

Merge(dst, src) ==
  LET done[i \in 0 .. src.cap] == IF i = 0 THEN [dst |-> dst, src |-> src]
                                  ELSE IF IsFull(src.ctrl[i - 1]) THEN MergeSlot(done[i - 1], i - 1) ELSE done[i - 1]
  IN  done[src.cap]

\* has_element compares whole entries; the first window with an empty byte ends it.
HasElement(t, e) == FindImpl(t, e.key) \notin {NotFound, Endless} /\ t.slots[FindImpl(t, e.key)] = e

\* operator== looks the entries of the smaller array up in the other.
Equal(a, b) == /\ a.size = b.size
               /\ IF a.cap > b.cap THEN \A e \in Entries(b) : HasElement(a, e) ELSE \A e \in Entries(a) : HasElement(b, e)
=============================================================================
