---------------------------- MODULE BlockLayout ----------------------------
(***************************************************************************)
(* How a range of an object becomes blocks, slices and segments, and how   *)
(* a read puts the range together again from memory segments and a disk    *)
(* block: the arithmetic of src/src/aux_funcs.h, _read_cache_item and      *)
(* _read_block of src/src/star_cache_impl.cpp, MemCache and DiskCache.     *)
(* StarCache treats a block as a set of slices; here a byte is a position  *)
(* in the object and a buffer a sequence of them, one thread runs, and the *)
(* object is written, promoted, flushed and evicted block by block.  A     *)
(* definition whose name starts with Bad is not part of the model: it is   *)
(* the definition after it with a plausible bug.                           *)
(***************************************************************************)
EXTENDS Integers, FiniteSets, Sequences, SequencesExt

CONSTANTS
    BlockSize,   \* FLAGS_block_size
    SliceSize,   \* FLAGS_slice_size
    AlignUnit,   \* FLAGS_io_align_unit_size; 1 with the page cache
    U32,         \* the number of values of a uint32_t
    MaxSize,     \* the largest object
    None

ASSUME LayoutAssumption ==
    /\ AlignUnit \in Nat \ {0} /\ SliceSize \in Nat \ {0} /\ BlockSize \in Nat \ {0}
    /\ SliceSize % AlignUnit = 0 /\ BlockSize % SliceSize = 0
    /\ U32 \in Nat \ {0} /\ U32 % BlockSize = 0 /\ MaxSize \in Nat

VARIABLES
    size,     \* CacheItem::size, 0 when there is no object
    slices,   \* per block: MemBlockItem::slices, a segment or None
    dirty,    \* per block: MemBlockItem::state is DIRTY
    disk      \* per block: its DiskBlockItem and what the file holds, or None

vars == <<size, slices, dirty, disk>>

Junk == -1
Block == 0..((MaxSize - 1) \div BlockSize)
block_slice_count == BlockSize \div SliceSize
Slice == 0..(block_slice_count - 1)

off2block(o) == o \div BlockSize
block_lower(i) == (i * BlockSize) % U32
off2slice(o) == o \div SliceSize
slice_lower(i) == (i * SliceSize) % U32
slice_upper(i) == ((i + 1) * SliceSize - 1) % U32
round_up(v, f) == ((v + (f - 1)) \div f) * f

Lesser(a, b) == IF a <= b THEN a ELSE b
block_count(n) == (n - 1) \div BlockSize + 1
block_size(n, b) == Lesser(n - b * BlockSize, BlockSize)

\* a, a + 1, ..., b
Counting(a, b) == [j \in 1..(b - a + 1) |-> a + j - 1]
\* The n bytes of the object from position o on.
Bytes(o, n) == [j \in 1..n |-> o + j - 1]
\* IOBuf::append_to(_, n, pos): at most n bytes from position pos.
Cut(buf, n, pos) == [j \in 1..Lesser(n, Len(buf) - pos) |-> buf[pos + j]]
\* align_iobuf: padded to the alignment unit with whatever the heap holds.
Aligned(buf) == buf \o [j \in 1..(round_up(Len(buf), AlignUnit) - Len(buf)) |-> Junk]

Segment(o, n, buf) == [offset |-> o, size |-> n, buf |-> buf]

NoSlices == [s \in Slice |-> None]
NewDiskBlock == [data |-> [p \in 0..(BlockSize - 1) |-> Junk],
                 sums |-> [s \in Slice |-> << >>]]

(***************************************************************************)
(* MemCache                                                                *)
(***************************************************************************)
\* write_block of one segment: every slice it touches points to it.
MemWrite(m, g) ==
    [s \in Slice |-> IF s \in off2slice(g.offset)..off2slice(g.offset + g.size - 1)
                     THEN g ELSE m[s]]

\* list_segments: neighbouring slices of one segment give it once.
Listed(m, list, s) ==
    IF m[s] = None \/ (list # << >> /\ Last(list) = m[s]) THEN list ELSE Append(list, m[s])
ListSegments(m) ==
    FoldLeft(LAMBDA list, s : Listed(m, list, s), << >>, Counting(0, block_slice_count - 1))

\* read_block: the runs of slices of one segment, cut to the range.
TakeRun(c, length) ==
    LET buf == Cut(c.seg.buf, length, c.off - c.seg.offset)
    IN  IF c.seg = None THEN c.got ELSE Append(c.got, Segment(c.off, Len(buf), buf))
NextSlice(m, c, s) ==
    IF m[s] = c.seg THEN c
    ELSE [seg |-> m[s], off |-> slice_lower(s), size |-> c.size - (slice_lower(s) - c.off),
          got |-> TakeRun(c, slice_lower(s) - c.off)]
Runs(m, o, n) ==
    FoldLeft(LAMBDA c, s : NextSlice(m, c, s),
             [seg |-> m[off2slice(o)], off |-> o, size |-> n, got |-> << >>],
             Counting(off2slice(o) + 1, off2slice(o + n - 1)))
MemRead(m, o, n) == IF n = 0 THEN << >> ELSE TakeRun(Runs(m, o, n), Runs(m, o, n).size)

(***************************************************************************)
(* DiskCache over one block of a block file; a checksum is the bytes it    *)
(* was computed from                                                       *)
(***************************************************************************)
\* The slices of a segment and the bytes each contributes.
SliceBytes(g, s) ==
    LET o == s * SliceSize - g.offset IN Cut(g.buf, Lesser(SliceSize, g.size - o), o)
SlicesOf(g) == {s \in Slice : s * SliceSize \in g.offset..(g.offset + g.size - 1)}

SumsAfterWrite(d, g) ==
    [s \in Slice |-> IF s \in SlicesOf(g) THEN SliceBytes(g, s) ELSE d.sums[s]]

Overwrite(data, o, buf) ==
    [p \in 0..(BlockSize - 1) |->
       IF p \in o..(o + Len(buf) - 1) THEN buf[p - o + 1] ELSE data[p]]
DiskWrite(d, g) ==
    [data |-> Overwrite(d.data, g.offset, Aligned(g.buf)), sums |-> SumsAfterWrite(d, g)]
DiskWriteAll(d, segs) == FoldLeft(DiskWrite, d, segs)

\* read_block, with its status.
Checked(d, g) ==
    [seg |-> g,
     st |-> IF g.offset % SliceSize # 0 THEN "EINVAL"
            ELSE IF \E s \in SlicesOf(g) : SliceBytes(g, s) # d.sums[s] THEN "checksum"
            ELSE "OK"]
DiskRead(d, o, n) ==
    Checked(d, Segment(o, n, [j \in 1..round_up(n, AlignUnit) |-> d.data[o + j - 1]]))

(***************************************************************************)
(* set: _write_cache_item and _write_block, each block where check_write   *)
(* puts it                                                                 *)
(***************************************************************************)
Init ==
    /\ size = 0
    /\ slices = [b \in Block |-> NoSlices]
    /\ dirty = [b \in Block |-> FALSE]
    /\ disk = [b \in Block |-> None]

BadBlockBytes(n, b) == Bytes(b * BlockSize, BlockSize)
BlockBytes(n, b) == Bytes(b * BlockSize, block_size(n, b))

Set(n, onDisk) ==
    LET seg(b) == Segment(0, Len(BlockBytes(n, b)), Aligned(BlockBytes(n, b)))
        written == 0..(block_count(n) - 1)
    IN
    /\ size' = n
    /\ slices' = [b \in Block |-> IF b \in written \ onDisk THEN MemWrite(NoSlices, seg(b))
                                  ELSE NoSlices]
    /\ dirty' = [b \in Block |-> b \in written \ onDisk]
    /\ disk' = [b \in Block |-> IF b \in written \cap onDisk THEN DiskWrite(NewDiskBlock, seg(b))
                                ELSE None]

(***************************************************************************)
(* read: _read_cache_item and _read_block                                  *)
(***************************************************************************)
\* A hole is read from the disk block, and with none ends the loop.
ReadHole(d, c, length) ==
    LET r == DiskRead(d, c.cursor, length)
    IN  IF length <= 0 THEN c
        ELSE IF d = None THEN [c EXCEPT !.st = "ENOENT"]
        ELSE IF r.st # "OK" THEN [c EXCEPT !.st = r.st]
        ELSE [c EXCEPT !.buf = @ \o Cut(r.seg.buf, length, 0), !.disk = Append(@, r.seg)]
\* One turn of the loop of _read_block over the memory segments.
AddPiece(d, c, g) ==
    LET h == ReadHole(d, c, g.offset - c.cursor)
    IN  IF c.st # "OK" THEN c
        ELSE IF h.st # "OK" THEN h
        ELSE [h EXCEPT !.buf = @ \o g.buf, !.cursor = g.offset + Len(g.buf)]
Pieces(m, d, o, n) ==
    FoldLeft(LAMBDA c, g : AddPiece(d, c, g),
             [st |-> "OK", cursor |-> o, buf |-> << >>, disk |-> << >>], MemRead(m, o, n))
Assemble(m, d, o, n) ==
    LET end == Pieces(m, d, o, n)
    IN  IF end.st # "OK" THEN end ELSE ReadHole(d, end, n - Len(end.buf))

\* The range is cut to the object and widened to slices.
BadUpper(n) == n
Upper(n) == Lesser(n, size - 1)

ReadSize(o, n) == IF o + n > size THEN (IF o >= size THEN 0 ELSE size - o) ELSE n

\* _promote_block_segments: the segments at the offsets in granted get memory.
Granted(m, g, granted) == IF g.offset \in granted THEN MemWrite(m, g) ELSE m
Promote(m, segs, granted) == FoldLeft(LAMBDA acc, g : Granted(acc, g, granted), m, segs)

\* One turn of the loop over the blocks lower..upper, and what it promotes.
OffInBlock(b, lower) == IF b = off2block(lower) THEN lower - block_lower(b) ELSE 0
ToRead(b, o, upper) ==
    IF b = off2block(upper) THEN upper - (block_lower(b) + o) + 1 ELSE BlockSize - o
ReadBlock(c, b, lower, upper, granted) ==
    LET o == OffInBlock(b, lower)
        r == Assemble(slices[b], disk[b], o, ToRead(b, o, upper))
    IN  IF c.st # "OK" THEN c
        ELSE IF r.st # "OK" THEN [c EXCEPT !.st = r.st]
        ELSE [c EXCEPT !.buf = @ \o r.buf,
                       !.slices = [c.slices EXCEPT ![b] = Promote(@, r.disk, granted)]]

BadTrim(buf, o, lower, n) == Cut(buf, n, 0)
Trim(buf, o, lower, n) == Cut(buf, n, o - lower)

\* The status, the data and the slices a read of n bytes at o leaves.
NothingRead == [st |-> "OK", buf |-> << >>, slices |-> slices]
ReadBlocks(lower, upper, granted) ==
    FoldLeft(LAMBDA c, b : ReadBlock(c, b, lower, upper, granted), NothingRead,
             Counting(off2block(lower), off2block(upper)))
ReadResult(o, n, granted) ==
    LET m == ReadSize(o, n)
        lower == slice_lower(off2slice(o))
        r == ReadBlocks(lower, Upper(slice_upper(off2slice(o + m - 1))), granted)
    IN  IF m = 0 THEN NothingRead
        ELSE [r EXCEPT !.buf = IF r.st # "OK" THEN << >> ELSE Trim(@, o, lower, m)]

\* What a read changes: it promotes.
Read(o, n, granted) ==
    /\ size > 0
    /\ slices' = ReadResult(o, n, granted).slices
    /\ UNCHANGED <<size, dirty, disk>>

(***************************************************************************)
(* Eviction: _process_evicted_mem_blocks with the flush it runs, and       *)
(* clear_disk_blocks                                                       *)
(***************************************************************************)
Continued(c, g) ==
    IF c.open /\ g.offset = c.size THEN [c EXCEPT !.size = @ + g.size] ELSE [c EXCEPT !.open = FALSE]
Continuous(segs) == FoldLeft(Continued, [size |-> 0, open |-> TRUE], segs)
ContinuousSize(segs) == Continuous(segs).size

BadMayFlush(b) == ListSegments(slices[b]) # << >>
MayFlush(b) ==
    disk[b] # None \/ ContinuousSize(ListSegments(slices[b])) = block_size(size, b)

InMemory(b) == slices[b] # NoSlices

\* A clean block that is also on disk is only dropped from memory.
Forget(b) ==
    /\ InMemory(b) /\ ~dirty[b] /\ disk[b] # None
    /\ slices' = [slices EXCEPT ![b] = NoSlices]
    /\ UNCHANGED <<size, dirty, disk>>

Flush(b) ==
    /\ InMemory(b) /\ (dirty[b] \/ disk[b] = None)
    /\ MayFlush(b)
    /\ disk' = [disk EXCEPT ![b] =
                  DiskWriteAll(IF @ = None THEN NewDiskBlock ELSE @, ListSegments(slices[b]))]
    /\ slices' = [slices EXCEPT ![b] = NoSlices]
    /\ dirty' = [dirty EXCEPT ![b] = FALSE]
    /\ UNCHANGED <<size>>

\* The admission policy deletes the block, it may not be flushed, or there is
\* no disk block for it.
Delete(b) ==
    /\ InMemory(b) /\ (dirty[b] \/ disk[b] = None)
    /\ slices' = [slices EXCEPT ![b] = NoSlices]
    /\ dirty' = [dirty EXCEPT ![b] = FALSE]
    /\ disk' = [disk EXCEPT ![b] = None]
    /\ UNCHANGED <<size>>

ClearDisk ==
    /\ \E b \in Block : disk[b] # None
    /\ disk' = [b \in Block |-> None]
    /\ UNCHANGED <<size, slices, dirty>>

Next ==
    \/ \E n \in 1..MaxSize, onDisk \in SUBSET Block : Set(n, onDisk)
    \/ \E o \in 0..MaxSize, n \in 0..MaxSize, granted \in SUBSET {s * SliceSize : s \in Slice} :
         Read(o, n, granted)
    \/ \E b \in Block : Forget(b) \/ Flush(b) \/ Delete(b)
    \/ ClearDisk

Spec == Init /\ [][Next]_vars

(***************************************************************************)
(* Properties                                                              *)
(***************************************************************************)
Offsets == 0..MaxSize
\* The part of a range that is within the object.
Valid(o, n) == {p \in o..(o + n - 1) : p < size}

\* A memory segment lies within its block and holds the slices it is in.
TypeOK ==
    /\ size \in 0..MaxSize
    /\ dirty \in [Block -> BOOLEAN]
    /\ \A b \in Block, s \in Slice : slices[b][s] # None =>
         LET g == slices[b][s] IN
         /\ g.offset >= 0 /\ g.offset + g.size <= block_size(size, b)
         /\ s \in off2slice(g.offset)..off2slice(g.offset + g.size - 1)
    /\ \A b \in Block : disk[b] # None =>
         disk[b].data \in [0..(BlockSize - 1) -> (0..(MaxSize - 1)) \cup {Junk}]

\* "If the range exceeds the object size, only read the range within the
\* object size" (star_cache.h:46): a read that returns OK returns exactly
\* those bytes, whatever was promoted, flushed and evicted before it.
ReadExact ==
    \A o \in Offsets, n \in Offsets :
        LET r == ReadResult(o, n, {}) IN
        size > 0 /\ r.st = "OK" => r.buf = Bytes(o, Cardinality(Valid(o, n)))

\* "Only if all the data in the valid range exists in the cache will it return
\* success, otherwise will return ENOENT" (star_cache.h:47): no other status,
\* such as a failed checksum, when the disk works.
ReadComplete ==
    \A o \in Offsets, n \in Offsets :
        size > 0 =>
          ReadResult(o, n, {}).st =
            IF \A p \in Valid(o, n) :
                 LET b == off2block(p) IN
                 disk[b] # None \/ slices[b][off2slice(p - b * BlockSize)] # None
            THEN "OK" ELSE "ENOENT"

\* "As a disk block always holds the whold block data" (star_cache_impl.cpp:665):
\* a flush of promoted segments never leaves a disk block with a gap.
DiskBlockWhole ==
    \A b \in Block : disk[b] # None =>
        \A p \in 0..(block_size(size, b) - 1) : disk[b].data[p] = b * BlockSize + p
=============================================================================
