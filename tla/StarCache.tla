----------------------------- MODULE StarCache -----------------------------
(***************************************************************************)
(* The cache itself (src/src/star_cache_impl.cpp over cache_item.h and     *)
(* block_item.h): set, get/read, remove, pin and unpin as threads run      *)
(* them, with the evictions, flushes and promotions they perform on the    *)
(* way.  A routine called by another is a label on the thread's stack, so  *)
(* that one definition stands for all of its call sites.                   *)
(*                                                                         *)
(* A step ends where the code takes or drops a block lock, reads state it  *)
(* will use later without one, or calls the index, an eviction component   *)
(* or an allocator.  Data is abstracted to its owner: a slice of a disk    *)
(* block holds the bytes of one cache item or junk.  Whether memory        *)
(* suffices is MemSpaceManager's question and is left open here; disk      *)
(* blocks are counted.  A CacheItem is destroyed, and its disk blocks      *)
(* freed, once no index entry and no thread refers to it.                  *)
(***************************************************************************)
EXTENDS Integers, FiniteSets, Sequences, SequencesExt

CONSTANTS
    Thread,
    Key,         \* cache ids
    Item,        \* CacheItem objects that can exist at one time
    Slot,        \* disk blocks; {} when no disk directory is configured
    MaxBlocks,   \* the largest block_count of an item
    SliceCount,  \* slices in a block
    MaxRetry,    \* max_retry_when_allocate
    Admission,   \* the answers check_admission may give for a small object
    MaxCheckSize, \* admission_max_check_size, in slices
    Calls,       \* the API calls the clients make (all, unless a run bounds them)
    DiskFails,   \* writes of the block files can fail
    RouterFails, \* alloc_block can fail with a free block (see DiskSpaceManager)
    DcheckOn,    \* DCHECK aborts the process (a debug build)
    NoKey, NoItem, NoSlot, Junk

ASSUME ConstantsAssumption ==
    /\ IsFiniteSet(Thread) /\ IsFiniteSet(Key) /\ IsFiniteSet(Item) /\ IsFiniteSet(Slot)
    /\ MaxBlocks \in Nat \ {0} /\ SliceCount \in Nat \ {0} /\ MaxRetry \in Nat \ {0}
    /\ Admission \subseteq {"FLUSH", "DELETE", "SKIP"} /\ MaxCheckSize \in Nat
    /\ Calls \subseteq {"set", "set pinned", "read", "remove", "pin", "unpin"}
    /\ DiskFails \in BOOLEAN /\ RouterFails \in BOOLEAN /\ DcheckOn \in BOOLEAN
    /\ NoKey \notin Key /\ NoItem \notin Item /\ NoSlot \notin Slot /\ Junk \notin Item \X Nat

VARIABLES
    index,    \* _access_index
    item,     \* the fields of each CacheItem
    mem,      \* per item and block: mem_block_item
    disk,     \* per item and block: disk_block_item
    content,  \* per disk block and slice: whose bytes the block file holds
    memEv,    \* the eviction component of MemCache, keyed by BlockKey
    diskEv,   \* the eviction component of DiskCache, keyed by CacheId
    stack,    \* per thread: the routines it is in, the innermost last
    op,       \* locals of the API call
    memCall,  \* locals of the memory allocation loop and of its eviction
    flush,    \* locals of _flush_block and _flush_block_segments
    diskCall, \* locals of the disk allocation loop and of its eviction
    removal   \* locals of _remove_cache_item

store == <<index, item, mem, disk, content>>
locals == <<op, memCall, flush, diskCall, removal>>
vars == <<store, memEv, diskEv, stack, locals>>

Block == 0..(MaxBlocks - 1)
Slice == 0..(SliceCount - 1)
BlockKey == Key \X Block

has_disk_layer == Slot # {}

\* Definitions that start with Bad are faults put next to the definition they
\* stand in for; nothing here uses them.

(***************************************************************************)
(* The values of the variables                                             *)
(***************************************************************************)
NullItem == [key |-> NoKey, count |-> 0, pinned |-> FALSE, released |-> FALSE]
NullMem == [slices |-> {}, dirty |-> FALSE]
NoOp == [key |-> NoKey, item |-> NoItem, count |-> 0, pinned |-> FALSE, b |-> 0,
         want |-> {}, slot |-> NoSlot, held |-> FALSE]
NoMemCall == [key |-> NoKey, ok |-> FALSE, tries |-> 0, evicted |-> {}]
NoFlush == [key |-> NoKey, item |-> NoItem, b |-> 0, segs |-> {}, slot |-> NoSlot,
            held |-> FALSE, pinned |-> FALSE, ok |-> FALSE]
NoDiskCall == [slot |-> NoSlot, tries |-> 0, evicted |-> {}, item |-> NoItem]
NoRemoval == [key |-> NoKey, item |-> NoItem, b |-> 0]

\* What a process starts with, in the order of VARIABLES; nothing of an
\* earlier process is used.
Fresh(index_, item_, mem_, disk_, content_, memEv_, diskEv_, stack_, op_, alloc_, flush_, call_, rem_) ==
    /\ index_ = [k \in Key |-> NoItem]
    /\ item_ = [i \in Item |-> NullItem]
    /\ mem_ = [i \in Item |-> [b \in Block |-> NullMem]]
    /\ disk_ = [i \in Item |-> [b \in Block |-> NoSlot]]
    /\ content_ = [d \in Slot |-> [s \in Slice |-> Junk]]
    /\ memEv_ = [tracked |-> {}, holders |-> {}]
    /\ diskEv_ = [tracked |-> {}, holders |-> {}]
    /\ stack_ = [t \in Thread |-> <<>>]
    /\ op_ = [t \in Thread |-> NoOp]
    /\ alloc_ = [t \in Thread |-> NoMemCall]
    /\ flush_ = [t \in Thread |-> NoFlush]
    /\ call_ = [t \in Thread |-> NoDiskCall]
    /\ rem_ = [t \in Thread |-> NoRemoval]

Init == Fresh(index, item, mem, disk, content, memEv, diskEv, stack,
              op, memCall, flush, diskCall, removal)

(***************************************************************************)
(* The call stack                                                          *)
(***************************************************************************)
At(t, label) == stack[t] # <<>> /\ Last(stack[t]) = label
Goto(t, label) == stack' = [stack EXCEPT ![t] = Append(Front(@), label)]
\* Call a routine and continue at label when it returns.
Call(t, label, routine) == stack' = [stack EXCEPT ![t] = Front(@) \o <<label, routine>>]
Return(t) == stack' = [stack EXCEPT ![t] = Front(@)]
Finish(t) == Return(t) /\ op' = [op EXCEPT ![t] = NoOp]

(***************************************************************************)
(* The eviction components, as EvictionPolicy specifies them: adding or    *)
(* removing a key ends the protection of the handles on its old entry.     *)
(***************************************************************************)
Track(ev, k) == [tracked |-> ev.tracked \cup {k}, holders |-> {p \in ev.holders : p[2] # k}]
Untrack(ev, k) == [tracked |-> ev.tracked \ {k}, holders |-> {p \in ev.holders : p[2] # k}]
Touch(ev, t, k) ==
    IF k \in ev.tracked THEN [ev EXCEPT !.holders = @ \cup {<<t, k>>}] ELSE ev
Drop(ev, t) == [ev EXCEPT !.holders = {p \in @ : p[1] # t}]
Evict(ev, S) == [ev EXCEPT !.tracked = @ \ S]
Evictable(ev) == {k \in ev.tracked : \A p \in ev.holders : p[2] # k}

(***************************************************************************)
(* References                                                              *)
(***************************************************************************)
\* The items a shared_ptr of thread t points to.
BadRefs(t) == {flush[t].item, diskCall[t].item, removal[t].item}
Refs(t) == {op[t].item, flush[t].item, diskCall[t].item, removal[t].item}
Live(i) == (\E k \in Key : index[k] = i) \/ (\E t \in Thread : i \in Refs(t))
Unused == {i \in Item : item[i] = NullItem /\ ~Live(i)}

\* The disk blocks a DiskBlockPtr of a block or of a thread points to.
BlockSlots == {disk[i][b] : i \in Item, b \in Block}
LocalSlots == UNION {{op[t].slot, flush[t].slot, diskCall[t].slot} : t \in Thread}
BadFreeSlots == Slot \ BlockSlots
FreeSlots == Slot \ (BlockSlots \cup LocalSlots)

\* _read_block holds the shared lock of the block across its disk reads.
ReadLocked(k, b) == \E t \in Thread : At(t, "read.disk") /\ op[t].key = k /\ op[t].b = b

EmptyBlock(i, b) == mem[i][b].slices = {} /\ disk[i][b] = NoSlot
Blocks(i) == 0..(item[i].count - 1)
Empty(i) == \A b \in Blocks(i) : EmptyBlock(i, b)

\* The bytes of slices S of block b of item i written into a disk block.
Written(d, i, b, S) == [s \in Slice |-> IF s \in S THEN <<i, b>> ELSE content[d][s]]

\* The last shared_ptr to a CacheItem is gone: its deleter frees the blocks.
Destroy(i) ==
    /\ item[i] # NullItem
    /\ ~Live(i)
    /\ item' = [item EXCEPT ![i] = NullItem]
    /\ mem' = [mem EXCEPT ![i] = [b \in Block |-> NullMem]]
    /\ disk' = [disk EXCEPT ![i] = [b \in Block |-> NoSlot]]
    /\ content' = [d \in Slot |-> [s \in Slice |->
                     IF \E b \in Block : content[d][s] = <<i, b>> THEN Junk ELSE content[d][s]]]
    /\ UNCHANGED <<index, memEv, diskEv, stack, locals>>

(***************************************************************************)
(* Memory allocation: _alloc_cache_item, _alloc_block_segment, and the     *)
(* eviction of memory blocks they start.                                   *)
(***************************************************************************)
EnterMemAlloc(t) == memCall' = [memCall EXCEPT ![t] = NoMemCall]

\* The retry loops: another attempt while fewer than MaxRetry failed.
MayTry(c) == c.tries < MaxRetry

BadRetry(c, S) == [c EXCEPT !.evicted = S]
Retry(c, S) == [c EXCEPT !.tries = @ + 1, !.evicted = S]

MemAllocOk(t) ==
    /\ At(t, "mem.alloc")
    /\ MayTry(memCall[t])
    /\ memCall' = [memCall EXCEPT ![t] = [NoMemCall EXCEPT !.ok = TRUE]]
    /\ Return(t)
    /\ UNCHANGED <<store, memEv, diskEv, op, flush, diskCall, removal>>

MemAllocEvicts(t) ==
    /\ At(t, "mem.alloc")
    /\ MayTry(memCall[t])
    /\ \E S \in SUBSET Evictable(memEv) :
         /\ memEv' = Evict(memEv, S)
         /\ memCall' = [memCall EXCEPT ![t] = Retry(@, S)]
    /\ Call(t, "mem.alloc", "mem.evicted")
    /\ UNCHANGED <<store, diskEv, op, flush, diskCall, removal>>

MemAllocFails(t) ==
    /\ At(t, "mem.alloc")
    /\ ~MayTry(memCall[t])
    /\ EnterMemAlloc(t)
    /\ Return(t)
    /\ UNCHANGED <<store, memEv, diskEv, op, flush, diskCall, removal>>

\* One iteration of _process_evicted_mem_blocks.
ProcessEvictedMem(t) ==
    /\ At(t, "mem.evicted")
    /\ \E k \in Key, b \in Block :
         LET i == index[k] IN
         /\ <<k, b>> \in memCall[t].evicted
         /\ memCall' = [memCall EXCEPT ![t].evicted = @ \ {<<k, b>>}]
         /\ IF i = NoItem
            THEN UNCHANGED <<mem, stack, flush>>
            ELSE /\ ~ReadLocked(k, b)
                 /\ IF b \notin Blocks(i) \/ mem[i][b].slices = {}
                    THEN UNCHANGED <<mem, stack, flush>>
                    ELSE IF mem[i][b].dirty \/ disk[i][b] = NoSlot
                    THEN /\ flush' = [flush EXCEPT ![t] = [NoFlush EXCEPT !.key = k, !.item = i, !.b = b]]
                         /\ Call(t, "mem.evicted", "flush.begin")
                         /\ UNCHANGED mem
                    ELSE /\ mem' = [mem EXCEPT ![i][b] = NullMem]
                         /\ UNCHANGED <<stack, flush>>
    /\ UNCHANGED <<index, item, disk, content, memEv, diskEv, op, diskCall, removal>>

ProcessedMem(t) ==
    /\ At(t, "mem.evicted")
    /\ memCall[t].evicted = {}
    /\ Return(t)
    /\ UNCHANGED <<store, memEv, diskEv, locals>>

(***************************************************************************)
(* _flush_block and _flush_block_segments                                  *)
(***************************************************************************)
EndFlush(t) == flush' = [flush EXCEPT ![t] = NoFlush] /\ Return(t)

FlushBegin(t) ==
    LET f == flush[t] IN
    /\ At(t, "flush.begin")
    /\ IF item[f.item].released
       THEN EndFlush(t) /\ UNCHANGED diskEv
       ELSE /\ flush' = [flush EXCEPT ![t].held = f.key \in diskEv.tracked]
            /\ diskEv' = Touch(diskEv, t, f.key)
            /\ Goto(t, "flush.decide")
    /\ UNCHANGED <<store, memEv, op, memCall, diskCall, removal>>

\* A large object always goes to disk, a small one by chance.
CheckAdmission(i) == IF item[i].count * SliceCount >= MaxCheckSize THEN {"FLUSH"} ELSE Admission

Admissions(i) ==
    IF item[i].pinned THEN {IF has_disk_layer THEN "FLUSH" ELSE "SKIP"}
    ELSE IF has_disk_layer THEN CheckAdmission(i) ELSE {"DELETE"}

\* A memory block may go to a new disk block only as a whole.
MayFlush(i, b) == disk[i][b] # NoSlot \/ mem[i][b].slices = Slice
\* _continuous_segments_size can miss a whole block that promotions filled:
\* their segments may overlap.  A dirty block is the one segment of a set.
MayNotFlush(i, b) == disk[i][b] = NoSlot /\ (mem[i][b].slices # Slice \/ ~mem[i][b].dirty)

\* From the unlocked read of mem_block_item to that of disk_block_item.
FlushDecide(t) ==
    LET f == flush[t]
        m == mem[f.item][f.b]
    IN
    /\ At(t, "flush.decide")
    /\ \/ /\ m.slices = {}
          /\ diskEv' = Drop(diskEv, t)
          /\ EndFlush(t)
          /\ UNCHANGED memEv
       \/ /\ m.slices # {}
          /\ "FLUSH" \in Admissions(f.item)
          /\ MayFlush(f.item, f.b)
          /\ flush' = [flush EXCEPT ![t].segs = m.slices, ![t].pinned = item[f.item].pinned]
          /\ Goto(t, "flush.target")
          /\ UNCHANGED <<memEv, diskEv>>
       \/ /\ m.slices # {}
          /\ "SKIP" \in Admissions(f.item)
          /\ memEv' = IF item[f.item].pinned THEN memEv ELSE Track(memEv, <<f.key, f.b>>)
          /\ diskEv' = Drop(diskEv, t)
          /\ EndFlush(t)
       \/ /\ m.slices # {}
          /\ \/ "DELETE" \in Admissions(f.item)
             \/ "FLUSH" \in Admissions(f.item) /\ MayNotFlush(f.item, f.b)
          /\ Goto(t, "flush.delete")
          /\ UNCHANGED <<memEv, diskEv, flush>>
    /\ UNCHANGED <<store, op, memCall, diskCall, removal>>

FlushDelete(t) ==
    LET f == flush[t] IN
    /\ At(t, "flush.delete")
    /\ ~ReadLocked(f.key, f.b)
    /\ mem' = [mem EXCEPT ![f.item][f.b] = NullMem]
    /\ disk' = [disk EXCEPT ![f.item][f.b] = NoSlot]
    /\ Goto(t, "flush.empty")
    /\ UNCHANGED <<index, item, content, memEv, diskEv, locals>>

\* release_if_empty, and the removal when it returns true.
BadReleaseIfEmpty(t, k, i, label) ==
    /\ item' = [item EXCEPT ![i].released = @ \/ Empty(i)]
    /\ Goto(t, label)
    /\ UNCHANGED removal
ReleaseIfEmpty(t, k, i, label) ==
    IF ~item[i].released /\ Empty(i)
    THEN /\ item' = [item EXCEPT ![i].released = TRUE]
         /\ removal' = [removal EXCEPT ![t] = [key |-> k, item |-> i, b |-> 0]]
         /\ Call(t, label, "remove.index")
    ELSE /\ Goto(t, label)
         /\ UNCHANGED <<item, removal>>

FlushEmpty(t) ==
    /\ At(t, "flush.empty")
    /\ ReleaseIfEmpty(t, flush[t].key, flush[t].item, "flush.return")
    /\ UNCHANGED <<index, mem, disk, content, memEv, diskEv, op, memCall, flush, diskCall>>

FlushReturn(t) ==
    /\ At(t, "flush.return")
    /\ diskEv' = Drop(diskEv, t)
    /\ EndFlush(t)
    /\ UNCHANGED <<store, memEv, op, memCall, diskCall, removal>>

\* The disk block is looked up again: it may have been cleared meanwhile.
FlushTarget(t) ==
    LET f == flush[t]
        d == disk[f.item][f.b]
    IN
    /\ At(t, "flush.target")
    /\ \/ /\ d # NoSlot
          /\ flush' = [flush EXCEPT ![t].slot = d]
          /\ Goto(t, "flush.write")
          /\ UNCHANGED diskCall
       \/ /\ d = NoSlot
          /\ DcheckOn => f.segs = Slice
          /\ diskCall' = [diskCall EXCEPT ![t] = NoDiskCall]
          /\ Call(t, "flush.alloc", "disk.alloc")
          /\ UNCHANGED flush
    /\ UNCHANGED <<store, memEv, diskEv, op, memCall, removal>>

FlushAlloc(t) ==
    LET d == diskCall[t].slot IN
    /\ At(t, "flush.alloc")
    /\ flush' = [flush EXCEPT ![t].slot = d]
    /\ diskCall' = [diskCall EXCEPT ![t] = NoDiskCall]
    /\ Goto(t, IF d = NoSlot THEN "flush.drop" ELSE "flush.write")
    /\ UNCHANGED <<store, memEv, diskEv, op, memCall, removal>>

\* The slices are written, and the disk block (re)installed under the lock.
FlushWrite(t) ==
    LET f == flush[t] IN
    /\ At(t, "flush.write")
    /\ ~ReadLocked(f.key, f.b)
    /\ content' = [content EXCEPT ![f.slot] = Written(f.slot, f.item, f.b, f.segs)]
    /\ disk' = [disk EXCEPT ![f.item][f.b] = f.slot]
    /\ flush' = [flush EXCEPT ![t].ok = TRUE, ![t].slot = NoSlot]
    /\ Goto(t, "flush.drop")
    /\ UNCHANGED <<index, item, mem, memEv, diskEv, op, memCall, diskCall, removal>>

\* A write of the block file fails.
FlushWriteFails(t) ==
    /\ DiskFails
    /\ At(t, "flush.write")
    /\ ~ReadLocked(flush[t].key, flush[t].b)
    /\ flush' = [flush EXCEPT ![t].slot = NoSlot]
    /\ Goto(t, "flush.drop")
    /\ UNCHANGED <<store, memEv, diskEv, op, memCall, diskCall, removal>>

\* The memory block is dropped whatever became of the write.
FlushDrop(t) ==
    LET f == flush[t] IN
    /\ At(t, "flush.drop")
    /\ ~ReadLocked(f.key, f.b)
    /\ mem' = [mem EXCEPT ![f.item][f.b] = NullMem]
    /\ diskEv' = IF f.ok /\ ~f.held /\ ~f.pinned
                 THEN Track(diskEv, f.key) ELSE Drop(diskEv, t)
    /\ EndFlush(t)
    /\ UNCHANGED <<index, item, disk, content, memEv, op, memCall, diskCall, removal>>

(***************************************************************************)
(* Disk allocation: _alloc_disk_block and the eviction of disk items       *)
(***************************************************************************)
DiskAllocOk(t) ==
    /\ At(t, "disk.alloc")
    /\ MayTry(diskCall[t])
    /\ \E d \in FreeSlots : diskCall' = [diskCall EXCEPT ![t] = [NoDiskCall EXCEPT !.slot = d]]
    /\ Return(t)
    /\ UNCHANGED <<store, memEv, diskEv, op, memCall, flush, removal>>

DiskAllocEvicts(t) ==
    /\ At(t, "disk.alloc")
    /\ MayTry(diskCall[t])
    /\ FreeSlots = {} \/ RouterFails
    /\ \E S \in SUBSET Evictable(diskEv) :
         /\ diskEv' = Evict(diskEv, S)
         /\ diskCall' = [diskCall EXCEPT ![t] = Retry(@, S)]
    /\ Call(t, "disk.alloc", "disk.evicted")
    /\ UNCHANGED <<store, memEv, op, memCall, flush, removal>>

DiskAllocFails(t) ==
    /\ At(t, "disk.alloc")
    /\ ~MayTry(diskCall[t])
    /\ diskCall' = [diskCall EXCEPT ![t] = NoDiskCall]
    /\ Return(t)
    /\ UNCHANGED <<store, memEv, diskEv, op, memCall, flush, removal>>

\* One iteration of _process_evicted_disk_items up to release_if_empty; an
\* id that is not in the index ends the loop.
ProcessEvictedDisk(t) ==
    /\ At(t, "disk.evicted")
    /\ \E k \in diskCall[t].evicted :
         LET i == index[k] IN
         IF i = NoItem
         THEN /\ diskCall' = [diskCall EXCEPT ![t].evicted = {}]
              /\ UNCHANGED <<disk, stack>>
         ELSE /\ disk' = [disk EXCEPT ![i] = [b \in Block |-> NoSlot]]
              /\ diskCall' = [diskCall EXCEPT ![t].evicted = @ \ {k}, ![t].item = i]
              /\ Goto(t, "disk.empty")
    /\ UNCHANGED <<index, item, mem, content, memEv, diskEv, op, memCall, flush, removal>>

DiskEmpty(t) ==
    LET i == diskCall[t].item IN
    /\ At(t, "disk.empty")
    /\ ReleaseIfEmpty(t, item[i].key, i, "disk.evicted")
    /\ diskCall' = [diskCall EXCEPT ![t].item = NoItem]
    /\ UNCHANGED <<index, mem, disk, content, memEv, diskEv, op, memCall, flush>>

ProcessedDisk(t) ==
    /\ At(t, "disk.evicted")
    /\ diskCall[t].evicted = {}
    /\ Return(t)
    /\ UNCHANGED <<store, memEv, diskEv, locals>>

(***************************************************************************)
(* _remove_cache_item                                                      *)
(***************************************************************************)
RemoveIndex(t) ==
    /\ At(t, "remove.index")
    /\ index' = [index EXCEPT ![removal[t].key] = NoItem]
    /\ Goto(t, "remove.block")
    /\ UNCHANGED <<item, mem, disk, content, memEv, diskEv, locals>>

RemoveBlock(t) ==
    LET r == removal[t] IN
    /\ At(t, "remove.block")
    /\ r.b \in Blocks(r.item)
    /\ ~ReadLocked(r.key, r.b)
    /\ mem' = [mem EXCEPT ![r.item][r.b] = NullMem]
    /\ disk' = [disk EXCEPT ![r.item][r.b] = NoSlot]
    /\ memEv' = Untrack(memEv, <<r.key, r.b>>)
    /\ removal' = [removal EXCEPT ![t].b = @ + 1]
    /\ UNCHANGED <<index, item, content, diskEv, stack, op, memCall, flush, diskCall>>

RemoveDone(t) ==
    /\ At(t, "remove.block")
    /\ removal[t].b \notin Blocks(removal[t].item)
    /\ diskEv' = Untrack(diskEv, removal[t].key)
    /\ removal' = [removal EXCEPT ![t] = NoRemoval]
    /\ Return(t)
    /\ UNCHANGED <<store, memEv, op, memCall, flush, diskCall>>

(***************************************************************************)
(* set                                                                     *)
(***************************************************************************)
\* The lookup; an existing object is removed first (overwrite).  Without
\* overwrite an existing object makes set return EEXIST and change nothing.
SetStart(t, k, n, pinned) ==
    /\ stack[t] = <<>>
    /\ \E i \in Unused :
         op' = [op EXCEPT ![t] = [NoOp EXCEPT !.key = k, !.item = i, !.count = n, !.pinned = pinned]]
    /\ EnterMemAlloc(t)
    /\ IF index[k] = NoItem
       THEN /\ stack' = [stack EXCEPT ![t] = <<"set.item", "mem.alloc">>]
            /\ UNCHANGED removal
       ELSE /\ removal' = [removal EXCEPT ![t] = [key |-> k, item |-> index[k], b |-> 0]]
            /\ stack' = [stack EXCEPT ![t] = <<"set.item", "mem.alloc", "remove.index">>]
    /\ UNCHANGED <<store, memEv, diskEv, flush, diskCall>>

SetItem(t) ==
    LET o == op[t] IN
    /\ At(t, "set.item")
    /\ memCall[t].ok
    /\ item' = [item EXCEPT ![o.item] = [key |-> o.key, count |-> o.count,
                                         pinned |-> o.pinned, released |-> FALSE]]
    /\ EnterMemAlloc(t)
    /\ Goto(t, "set.block")
    /\ UNCHANGED <<index, mem, disk, content, memEv, diskEv, op, flush, diskCall, removal>>

\* check_write chooses where the next block goes, or rejects it.  A write
\* through goes to disk even when there is none.
SetBlock(t) ==
    /\ At(t, "set.block")
    /\ op[t].b < op[t].count
    /\ \/ /\ Call(t, "set.mem", "mem.alloc")
          /\ EnterMemAlloc(t)
          /\ UNCHANGED <<diskCall, op>>
       \/ /\ Call(t, "set.disk", "disk.alloc")
          /\ diskCall' = [diskCall EXCEPT ![t] = NoDiskCall]
          /\ UNCHANGED <<memCall, op>>
       \/ /\ has_disk_layer
          /\ Finish(t)
          /\ UNCHANGED <<memCall, diskCall>>
    /\ UNCHANGED <<store, memEv, diskEv, flush, removal>>

SetMem(t) ==
    LET o == op[t] IN
    /\ At(t, "set.mem")
    /\ EnterMemAlloc(t)
    /\ IF memCall[t].ok
       THEN /\ ~ReadLocked(o.key, o.b)
            /\ mem' = [mem EXCEPT ![o.item][o.b] = [slices |-> Slice, dirty |-> TRUE]]
            /\ memEv' = IF ~o.pinned \/ has_disk_layer THEN Track(memEv, <<o.key, o.b>>) ELSE memEv
            /\ op' = [op EXCEPT ![t].b = @ + 1]
            /\ Goto(t, "set.block")
       ELSE /\ Finish(t)
            /\ UNCHANGED <<mem, memEv>>
    /\ UNCHANGED <<index, item, disk, content, diskEv, flush, diskCall, removal>>

\* No disk block, or a failing write of the block file, fails the set.
SetDisk(t) ==
    LET o == op[t]
        d == diskCall[t].slot
    IN
    /\ At(t, "set.disk")
    /\ diskCall' = [diskCall EXCEPT ![t] = NoDiskCall]
    /\ \/ /\ d # NoSlot
          /\ ~ReadLocked(o.key, o.b)
          /\ content' = [content EXCEPT ![d] = Written(d, o.item, o.b, Slice)]
          /\ disk' = [disk EXCEPT ![o.item][o.b] = d]
          /\ diskEv' = IF o.pinned THEN diskEv ELSE Track(diskEv, o.key)
          /\ op' = [op EXCEPT ![t].b = @ + 1]
          /\ Goto(t, "set.block")
       \/ /\ d = NoSlot \/ DiskFails
          /\ Finish(t)
          /\ UNCHANGED <<content, disk, diskEv>>
    /\ UNCHANGED <<index, item, mem, memEv, memCall, flush, removal>>

BadAllWritten(o) == o.b + 1 >= o.count
AllWritten(o) == o.b = o.count

\* The index takes the item once all of its blocks are written.
SetInsert(t) ==
    /\ At(t, "set.block")
    /\ AllWritten(op[t])
    /\ index' = [index EXCEPT ![op[t].key] = op[t].item]
    /\ Finish(t)
    /\ UNCHANGED <<item, mem, disk, content, memEv, diskEv, memCall, flush, diskCall, removal>>

(***************************************************************************)
(* get and read                                                            *)
(***************************************************************************)
Found(k) == index[k] # NoItem /\ ~item[index[k]].released

\* want: the slices of the requested range, as <<block, slice>>.
ReadRange(n, first, last) ==
    {p \in (0..(n - 1)) \X Slice : p[1] * SliceCount + p[2] \in first..last}

ReadStart(t, k) ==
    /\ stack[t] = <<>>
    /\ Found(k)
    /\ LET n == item[index[k]].count IN
       \E first \in 0..(n * SliceCount - 1) : \E last \in first..(n * SliceCount - 1) :
         op' = [op EXCEPT ![t] = [NoOp EXCEPT !.key = k, !.item = index[k], !.count = n,
                                             !.b = first \div SliceCount,
                                             !.want = ReadRange(n, first, last)]]
    /\ stack' = [stack EXCEPT ![t] = <<"read.block">>]
    /\ UNCHANGED <<store, memEv, diskEv, memCall, flush, diskCall, removal>>

Wanted(o) == {s \in Slice : <<o.b, s>> \in o.want}

\* Go on with the next block of the range, or return.
NextBlock(t) ==
    LET o == op[t] IN
    IF \E p \in o.want : p[1] > o.b
    THEN /\ op' = [op EXCEPT ![t].b = @ + 1, ![t].slot = NoSlot, ![t].held = FALSE]
         /\ Goto(t, "read.block")
    ELSE Finish(t)

\* Under the shared lock: copy the pointers and the memory segments.  A
\* slice that memory lacks comes from the disk block; with none, ENOENT.
ReadBlock(t) ==
    LET o == op[t]
        d == disk[o.item][o.b]
    IN
    /\ At(t, "read.block")
    /\ IF Wanted(o) \subseteq mem[o.item][o.b].slices THEN NextBlock(t)
       ELSE IF d = NoSlot THEN Finish(t)
       ELSE /\ op' = [op EXCEPT ![t].slot = d,
                        ![t].want = @ \ ({o.b} \X mem[o.item][o.b].slices)]
            /\ Goto(t, "read.disk")
    /\ UNCHANGED <<store, memEv, diskEv, memCall, flush, diskCall, removal>>

\* The disk reads, still under the lock; a failing one returns its error.
ReadDisk(t) ==
    LET o == op[t] IN
    /\ At(t, "read.disk")
    /\ \/ NextBlock(t) /\ UNCHANGED <<memEv, memCall>>
       \/ Finish(t) /\ UNCHANGED <<memEv, memCall>>
       \/ /\ op' = [op EXCEPT ![t].slot = NoSlot, ![t].held = <<o.key, o.b>> \in memEv.tracked]
          /\ memEv' = Touch(memEv, t, <<o.key, o.b>>)
          /\ EnterMemAlloc(t)
          /\ Call(t, "promote.check", "mem.alloc")
    /\ UNCHANGED <<store, diskEv, flush, diskCall, removal>>

\* The segments that were allocated: runs of adjacent slices of the holes.
SegmentsOf(holes) ==
    {S \in (SUBSET holes) \ {{}} : \A s \in holes : s + 1 \in holes => (s \in S <=> s + 1 \in S)}

\* _promote_block_segments up to the unlock: a memory block that exists is
\* extended under the lock, a new one is made after giving the lock up.
PromoteCheck(t) ==
    LET o == op[t]
        m == mem[o.item][o.b]
    IN
    /\ At(t, "promote.check")
    /\ EnterMemAlloc(t)
    /\ IF ~memCall[t].ok
       THEN /\ NextBlock(t)
            /\ memEv' = Drop(memEv, t)
            /\ UNCHANGED mem
       ELSE /\ ~ReadLocked(o.key, o.b)
            /\ \E S \in SegmentsOf(Wanted(o)) :
                 IF m.slices # {}
                 THEN /\ mem' = [mem EXCEPT ![o.item][o.b].slices = @ \cup S]
                      /\ memEv' = IF o.held THEN Drop(memEv, t) ELSE Track(memEv, <<o.key, o.b>>)
                      /\ NextBlock(t)
                 ELSE /\ op' = [op EXCEPT ![t].want = (@ \ ({o.b} \X Slice)) \cup ({o.b} \X S)]
                      /\ Goto(t, "promote.set")
                      /\ UNCHANGED <<mem, memEv>>
    /\ UNCHANGED <<index, item, disk, content, diskEv, flush, diskCall, removal>>

PromoteSet(t) ==
    LET o == op[t] IN
    /\ At(t, "promote.set")
    /\ ~ReadLocked(o.key, o.b)
    /\ mem' = [mem EXCEPT ![o.item][o.b] = [slices |-> Wanted(o), dirty |-> FALSE]]
    /\ memEv' = IF o.held THEN Drop(memEv, t) ELSE Track(memEv, <<o.key, o.b>>)
    /\ NextBlock(t)
    /\ UNCHANGED <<index, item, disk, content, diskEv, memCall, flush, diskCall, removal>>

(***************************************************************************)
(* remove, pin and unpin                                                   *)
(***************************************************************************)
\* An item that is already released makes remove return OK at once.
RemoveStart(t, k) ==
    /\ stack[t] = <<>>
    /\ Found(k)
    /\ item' = [item EXCEPT ![index[k]].released = TRUE]
    /\ removal' = [removal EXCEPT ![t] = [key |-> k, item |-> index[k], b |-> 0]]
    /\ stack' = [stack EXCEPT ![t] = <<"remove.index">>]
    /\ UNCHANGED <<index, mem, disk, content, memEv, diskEv, op, memCall, flush, diskCall>>

\* Go on with the next block of the item, or return.
NextOf(t) ==
    IF op[t].b + 1 \in Blocks(op[t].item)
    THEN op' = [op EXCEPT ![t].b = @ + 1] /\ UNCHANGED stack
    ELSE Finish(t)

\* It has an effect only when the state changes.
SetPinned(i, pinned) ==
    /\ item[i].pinned # pinned
    /\ item' = [item EXCEPT ![i].pinned = pinned]

PinStart(t, k) ==
    /\ stack[t] = <<>>
    /\ Found(k)
    /\ SetPinned(index[k], TRUE)
    /\ op' = [op EXCEPT ![t] = [NoOp EXCEPT !.key = k, !.item = index[k]]]
    /\ stack' = [stack EXCEPT ![t] = <<"pin.untrack">>]
    /\ UNCHANGED <<index, mem, disk, content, memEv, diskEv, memCall, flush, diskCall, removal>>

\* The disk entry of the item, or with no disk its memory entries in turn.
PinUntrack(t) ==
    LET o == op[t] IN
    /\ At(t, "pin.untrack")
    /\ IF has_disk_layer
       THEN /\ diskEv' = Untrack(diskEv, o.key)
            /\ Finish(t)
            /\ UNCHANGED memEv
       ELSE /\ memEv' = Untrack(memEv, <<o.key, o.b>>)
            /\ NextOf(t)
            /\ UNCHANGED diskEv
    /\ UNCHANGED <<store, memCall, flush, diskCall, removal>>

UnpinStart(t, k) ==
    /\ stack[t] = <<>>
    /\ Found(k)
    /\ SetPinned(index[k], FALSE)
    /\ op' = [op EXCEPT ![t] = [NoOp EXCEPT !.key = k, !.item = index[k]]]
    /\ stack' = [stack EXCEPT ![t] = <<"unpin.track">>]
    /\ UNCHANGED <<index, mem, disk, content, memEv, diskEv, memCall, flush, diskCall, removal>>

UnpinTrack(t) ==
    LET o == op[t]
        onDisk == disk[o.item][o.b] # NoSlot
        inMem == mem[o.item][o.b].slices # {}
    IN
    /\ At(t, "unpin.track")
    /\ diskEv' = IF has_disk_layer /\ onDisk THEN Track(diskEv, o.key) ELSE diskEv
    /\ memEv' = IF ~has_disk_layer /\ inMem THEN Track(memEv, <<o.key, o.b>>) ELSE memEv
    /\ IF has_disk_layer /\ onDisk THEN Finish(t) ELSE NextOf(t)
    /\ UNCHANGED <<store, memCall, flush, diskCall, removal>>

(***************************************************************************)
(* The process dies on a failed DCHECK, or on the null CacheItem that      *)
(* _write_cache_item does not check for.  Nothing survives it.             *)
(***************************************************************************)
Dies(t) ==
    \/ At(t, "set.item") /\ ~memCall[t].ok
    \/ /\ At(t, "flush.target")
       /\ DcheckOn
       /\ disk[flush[t].item][flush[t].b] = NoSlot
       /\ flush[t].segs # Slice

Crash ==
    /\ \E t \in Thread : Dies(t)
    /\ Fresh(index', item', mem', disk', content', memEv', diskEv', stack',
             op', memCall', flush', diskCall', removal')

Start(t) ==
    \E k \in Key :
      \/ \E n \in 1..MaxBlocks : "set" \in Calls /\ SetStart(t, k, n, FALSE)
      \/ \E n \in 1..MaxBlocks : "set pinned" \in Calls /\ SetStart(t, k, n, TRUE)
      \/ "read" \in Calls /\ ReadStart(t, k)
      \/ "remove" \in Calls /\ RemoveStart(t, k)
      \/ "pin" \in Calls /\ PinStart(t, k)
      \/ "unpin" \in Calls /\ UnpinStart(t, k)

Step(t) ==
    \/ MemAllocOk(t) \/ MemAllocEvicts(t) \/ MemAllocFails(t)
    \/ ProcessEvictedMem(t) \/ ProcessedMem(t)
    \/ FlushBegin(t) \/ FlushDecide(t) \/ FlushDelete(t) \/ FlushEmpty(t) \/ FlushReturn(t)
    \/ FlushTarget(t) \/ FlushAlloc(t) \/ FlushWrite(t) \/ FlushWriteFails(t) \/ FlushDrop(t)
    \/ DiskAllocOk(t) \/ DiskAllocEvicts(t) \/ DiskAllocFails(t)
    \/ ProcessEvictedDisk(t) \/ DiskEmpty(t) \/ ProcessedDisk(t)
    \/ RemoveIndex(t) \/ RemoveBlock(t) \/ RemoveDone(t)
    \/ SetItem(t) \/ SetBlock(t) \/ SetMem(t) \/ SetDisk(t) \/ SetInsert(t)
    \/ ReadBlock(t) \/ ReadDisk(t) \/ PromoteCheck(t) \/ PromoteSet(t)
    \/ PinUntrack(t) \/ UnpinTrack(t)

Next ==
    \/ \E t \in Thread : Start(t) \/ Step(t)
    \/ \E i \in Item : Destroy(i)
    \/ Crash

Spec == Init /\ [][Next]_vars

(***************************************************************************)
(* Properties                                                              *)
(***************************************************************************)
\* "As a disk block always holds the whold block data"
\* (star_cache_impl.cpp:665): every slice of a disk block a CacheItem
\* points to was written for that block of that item.
DiskBlockWhole ==
    \A i \in Item, b \in Block : disk[i][b] # NoSlot =>
        \A s \in Slice : content[disk[i][b]][s] = <<i, b>>

\* While _read_block reads a disk block, every slice it asks for holds the
\* bytes of the item the read found, whatever is evicted, overwritten or
\* reallocated meanwhile.
ReadIntegrity ==
    \A t \in Thread : At(t, "read.disk") =>
        \A s \in Wanted(op[t]) : content[op[t].slot][s] = <<op[t].item, op[t].b>>

\* An item in the index that is released, so that no get can use it, is about
\* to be taken out of the index by the thread that released it, or by another.
ReleasedIsLeaving ==
    \A k \in Key : index[k] # NoItem /\ item[index[k]].released =>
        \E t \in Thread : At(t, "remove.index") /\ removal[t].key = k

Complete(i, b) ==
    mem[i][b].slices \cup {s \in Slice : disk[i][b] # NoSlot /\ content[disk[i][b]][s] = <<i, b>>} = Slice

Whole(i) == \A b \in Blocks(i) : Complete(i, b)

\* An item that becomes visible in the index has all of its data: evictions
\* that run while it is being written cannot take a block from it.
InsertedIsWhole ==
    [][\A k \in Key : index'[k] \notin {NoItem, index[k]} => Whole(index'[k])]_vars

\* The removal thread t runs, if any, is part of a client's remove or set, and
\* not of an eviction.
ByClient(t) == \A n \in 1..Len(stack[t]) : stack[t][n] \notin {"flush.return", "disk.evicted"}

\* "Pin the cache object in cache. The cache object will not be evicted by
\* eviction policy" (star_cache.h:58): a pinned object that is whole stays
\* whole and in the index, unless a client is removing or replacing it.
PinnedNotEvicted ==
    [][\A k \in Key :
         LET i == index[k] IN
         (/\ i # NoItem
          /\ item[i].pinned
          /\ Whole(i)
          /\ \A t \in Thread : ~Dies(t) /\ (removal[t].key = k => ~ByClient(t)))
         => \/ index'[k] = i /\ Whole(i)'
            \/ index'[k] \notin {i, NoItem}]_vars

\* "All blocks are empty, release the cache item" (cache_item.h:104): between
\* calls the index holds no item that has lost all of its blocks.
EmptyIsReleased ==
    (\A t \in Thread : stack[t] = <<>>) =>
        \A k \in Key : index[k] # NoItem => ~Empty(index[k])

(***************************************************************************)
(* Fairness: the scheduler runs every thread that can take a step of its   *)
(* call; nobody has to make another call.                                  *)
(***************************************************************************)
FairSpec == Spec /\ WF_vars(Crash) /\ \A t \in Thread : WF_vars(Step(t))

\* Every call returns: the allocation, eviction and removal loops it runs end.
CallsReturn == \A t \in Thread : stack[t] # <<>> ~> stack[t] = <<>>
=============================================================================
