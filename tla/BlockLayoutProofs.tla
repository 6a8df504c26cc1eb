-------------------------- MODULE BlockLayoutProofs --------------------------
(***************************************************************************)
(* Proofs about BlockLayout for every size of blocks, slices, alignment    *)
(* units and objects whose offsets fit in 32 bits.  The invariant says     *)
(* that a segment in memory holds whole slices of the object and that a    *)
(* disk block holds all of its part of it with the checksums that belong   *)
(* to it; the loops of a read and of a flush are taken turn by turn from   *)
(* there.                                                                  *)
(***************************************************************************)
EXTENDS BlockLayout, ArithmeticTheorems, SequenceTheorems

-----------------------------------------------------------------------------
(***************************************************************************)
(* Blocks, slices and the alignment unit.                                  *)
(***************************************************************************)
\* Quotient and rest make the number.
LEMMA QuotientAndRest ==
  ASSUME NEW n \in Nat \ {0}, NEW a \in Nat
  PROVE  a = n * (a \div n) + (a % n)
OBVIOUS

\* A multiple is a multiple.
LEMMA Multiple ==
  ASSUME NEW n \in Nat \ {0}, NEW a \in Nat, a % n = 0
  PROVE  a \div n \in Nat /\ a = n * (a \div n)
<1>1. a \div n \in Nat
  BY DivBounds
<1>2. a = n * (a \div n) + (a % n)
  OBVIOUS
<1> QED BY <1>1, <1>2

\* A multiple leaves no rest.
LEMMA NoRest ==
  ASSUME NEW n \in Nat \ {0}, NEW q \in Nat
  PROVE  (n * q) % n = 0 /\ (n * q) \div n = q /\ n * q \in Nat
<1> DEFINE a == n * q
           d == a \div n
<1>1. a \in Nat
  OBVIOUS
<1>2. d \in Nat /\ n * d <= a /\ a < n * d + n
  BY <1>1, DivBounds
<1>3. a = n * d + (a % n)
  <2> HIDE DEF a
  <2> QED BY <1>1
<1> HIDE DEF d
<1>4. d = q
  <2>1. CASE d < q
    <3>1. n * (d + 1) <= n * q
      BY <1>2, <2>1, TimesMonotone
    <3>2. n * (d + 1) = n * d + n
      BY <1>2
    <3> QED BY <1>1, <1>2, <3>1, <3>2
  <2>2. CASE q < d
    <3>1. n * (q + 1) <= n * d
      BY <1>2, <2>2, TimesMonotone
    <3>2. n * (q + 1) = n * q + n
      OBVIOUS
    <3> QED BY <1>1, <1>2, <3>1, <3>2
  <2> QED BY <1>2, <2>1, <2>2
<1> QED BY <1>1, <1>3, <1>4 DEF d

\* The quotient of what lies between two multiples.
LEMMA QuotientIs ==
  ASSUME NEW n \in Nat \ {0}, NEW q \in Nat, NEW a \in Nat, n * q <= a, a < n * q + n
  PROVE  a \div n = q
<1> DEFINE d == a \div n
<1>1. d \in Nat /\ n * d <= a /\ a < n * d + n
  BY DivBounds
<1> HIDE DEF d
<1>2. d = q
  <2>1. CASE d < q
    <3>1. n * (d + 1) <= n * q
      BY <1>1, <2>1, TimesMonotone
    <3>2. n * (d + 1) = n * d + n
      BY <1>1
    <3> QED BY <1>1, <3>1, <3>2
  <2>2. CASE q < d
    <3>1. n * (q + 1) <= n * d
      BY <1>1, <2>2, TimesMonotone
    <3>2. n * (q + 1) = n * q + n
      OBVIOUS
    <3> QED BY <1>1, <3>1, <3>2
  <2> QED BY <1>1, <2>1, <2>2
<1> QED BY <1>2 DEF d

\* Where a slice and a block start.
Start(s) == s * SliceSize
Base(b) == b * BlockSize
USE DEF Start, Base

\* Where a read or a segment may start and end.
Edges == {Start(s) : s \in Nat}

\* The units divide each other.
LEMMA Units ==
  /\ AlignUnit \in Nat \ {0} /\ SliceSize \in Nat \ {0} /\ BlockSize \in Nat \ {0} /\ U32 \in Nat \ {0}
  /\ MaxSize \in Nat
  /\ \E k \in Nat : SliceSize = AlignUnit * k
  /\ \E k \in Nat : BlockSize = SliceSize * k
  /\ \E k \in Nat : U32 = BlockSize * k
  /\ BlockSize <= U32
<1>1. /\ AlignUnit \in Nat \ {0} /\ SliceSize \in Nat \ {0} /\ BlockSize \in Nat \ {0} /\ U32 \in Nat \ {0}
      /\ MaxSize \in Nat
  BY LayoutAssumption
<1>2. PICK k \in Nat : U32 = BlockSize * k
  BY <1>1, LayoutAssumption, Multiple
<1>3. BlockSize <= U32
  <2>1. k >= 1
    BY <1>1, <1>2
  <2> DEFINE one == BlockSize * 1
             all == BlockSize * k
  <2>2. one <= all
    BY <1>1, <2>1, TimesMonotone
  <2>3. one = BlockSize
    BY <1>1
  <2>4. all = U32
    BY <1>2
  <2> HIDE DEF one, all
  <2> QED BY <2>2, <2>3, <2>4
<1>4. /\ \E j \in Nat : SliceSize = AlignUnit * j
      /\ \E j \in Nat : BlockSize = SliceSize * j
  BY <1>1, LayoutAssumption, Multiple
<1> QED BY <1>1, <1>2, <1>3, <1>4

\* The slice a byte is in.
LEMMA SliceOf ==
  ASSUME NEW o \in Nat
  PROVE  /\ off2slice(o) \in Nat /\ Start(off2slice(o)) \in Nat
         /\ Start(off2slice(o)) <= o /\ o < Start(off2slice(o)) + SliceSize
<1> DEFINE q == o \div SliceSize
           x == SliceSize * q
<1>1. SliceSize \in Nat \ {0} /\ SliceSize \in Nat
  BY Units
<1>2. q \in Nat /\ x <= o /\ o < x + SliceSize
  BY <1>1, DivBounds
<1> HIDE DEF q
<1>3. x \in Nat /\ Start(q) = x
  BY <1>1, <1>2, TimesSuccessor
<1> HIDE DEF x
<1>4. off2slice(o) = q
  BY DEF off2slice, q
<1> QED BY <1>2, <1>3, <1>4

\* No other slice is.
LEMMA SliceIs ==
  ASSUME NEW o \in Nat, NEW s \in Nat, Start(s) <= o, o < Start(s) + SliceSize
  PROVE  off2slice(o) = s
<1>1. SliceSize * s = Start(s)
  BY Units
<1> QED BY <1>1, Units, QuotientIs DEF off2slice

\* One slice after another.
LEMMA NextStart ==
  ASSUME NEW s \in Nat, NEW t \in Nat
  PROVE  /\ Start(s) \in Nat /\ Start(s + 1) = Start(s) + SliceSize
         /\ s < t => Start(s) + SliceSize <= Start(t)
         /\ s <= t => Start(s) <= Start(t)
<1>1. Start(s) \in Nat /\ Start(s + 1) = Start(s) + SliceSize
  BY Units, TimesSuccessor
<1>2. ASSUME NEW x \in Nat, x <= t PROVE Start(x) <= Start(t)
  <2>1. SliceSize * x <= SliceSize * t
    BY <1>2, Units, TimesMonotone
  <2> QED BY <2>1, Units, TimesSuccessor
<1>3. s < t => Start(s + 1) <= Start(t)
  BY <1>2
<1> QED BY <1>1, <1>2, <1>3

\* What starts before an edge ends before it.
LEMMA EdgeAfter ==
  ASSUME NEW e \in Edges, NEW s \in Nat
  PROVE  e \in Nat /\ (Start(s) < e => Start(s) + SliceSize <= e)
<1>1. PICK t \in Nat : e = Start(t)
  BY DEF Edges
<1>2. s < t \/ t <= s
  OBVIOUS
<1> QED BY <1>1, <1>2, NextStart

\* Every edge is the start of a slice.
LEMMA EdgeStart ==
  ASSUME NEW e \in Edges
  PROVE  e \in Nat /\ off2slice(e) \in Nat /\ e = Start(off2slice(e))
<1>1. PICK t \in Nat : e = Start(t)
  BY DEF Edges
<1>2. e \in Nat /\ e < Start(t) + SliceSize
  BY <1>1, Units, NextStart
<1>3. off2slice(e) = t
  BY <1>1, <1>2, SliceIs
<1> QED BY <1>1, <1>2, <1>3

\* Between two edges lie whole slices.
LEMMA EdgeArithmetic ==
  ASSUME NEW e \in Edges, NEW f \in Edges
  PROVE  e + f \in Edges /\ (e <= f => f - e \in Edges)
<1>1. PICK s \in Nat, t \in Nat : e = Start(s) /\ f = Start(t)
  BY DEF Edges
<1>2. e + f = Start(s + t)
  BY <1>1, Units
<1>3. ASSUME e <= f PROVE f - e \in Edges
  <2>1. s <= t
    <3>1. t < s => Start(t) + SliceSize <= Start(s)
      BY NextStart
    <3> QED BY <1>1, <1>3, <3>1, Units, NextStart
  <2>2. f - e = Start(t - s)
    BY <1>1, Units
  <2> QED BY <2>1, <2>2 DEF Edges
<1> QED BY <1>2, <1>3 DEF Edges

\* Blocks start and end at edges.
LEMMA BlockEdges ==
  /\ 0 \in Edges /\ SliceSize \in Edges /\ BlockSize \in Edges /\ U32 \in Edges
  /\ \A b \in Nat : Base(b) \in Edges
<1>1. PICK k \in Nat : BlockSize = SliceSize * k
  BY Units
<1>2. ASSUME NEW b \in Nat PROVE Base(b) \in Edges
  <2>1. Base(b) = Start(b * k)
    BY <1>1, Units
  <2>2. b * k \in Nat
    OBVIOUS
  <2> QED BY <2>1, <2>2 DEF Edges
<1>3. 0 = Start(0) /\ SliceSize = Start(1) /\ BlockSize = Base(1)
  BY Units
<1>4. PICK j \in Nat : U32 = BlockSize * j
  BY Units
<1>5. U32 = Base(j)
  BY <1>4, Units
<1> QED BY <1>2, <1>3, <1>5 DEF Edges

\* The slices of a block.
LEMMA SliceOfBlock ==
  /\ block_slice_count \in Nat \ {0} /\ BlockSize = Start(block_slice_count)
  /\ \A s \in Nat : s \in Slice <=> Start(s) < BlockSize
  /\ Slice \subseteq Nat
<1>1. block_slice_count \in Nat /\ BlockSize = SliceSize * block_slice_count
  BY Units, LayoutAssumption, Multiple DEF block_slice_count
<1>2. BlockSize = Start(block_slice_count)
  BY <1>1, Units
<1>3. block_slice_count # 0
  BY <1>1, Units
<1>4. ASSUME NEW s \in Nat PROVE s \in Slice <=> Start(s) < BlockSize
  <2>1. s < block_slice_count => Start(s) + SliceSize <= BlockSize
    BY <1>1, <1>2, NextStart
  <2>2. block_slice_count <= s => BlockSize <= Start(s)
    BY <1>1, <1>2, NextStart
  <2> QED BY <1>1, <2>1, <2>2, Units, NextStart DEF Slice
<1> QED BY <1>1, <1>2, <1>3, <1>4 DEF Slice

\* Below 2^32 the starts and ends of slices are what they should be.
LEMMA SliceBounds ==
  ASSUME NEW s \in Nat, Start(s) < U32
  PROVE  slice_lower(s) = Start(s) /\ slice_upper(s) = Start(s) + SliceSize - 1
<1>1. Start(s) + SliceSize <= U32
  BY BlockEdges, EdgeAfter
<1>2. ASSUME NEW x \in Nat, x < U32 PROVE x % U32 = x
  <2>1. U32 * 0 <= x /\ x < U32 * 0 + U32
    BY <1>2, Units
  <2>2. x \div U32 = 0
    BY <2>1, Units, QuotientIs
  <2>3. x = U32 * (x \div U32) + (x % U32)
    BY Units, QuotientAndRest
  <2> QED BY <2>2, <2>3, Units
<1> DEFINE x == Start(s)
<1>3. x \in Nat /\ x + SliceSize - 1 \in Nat /\ x < U32 /\ x + SliceSize - 1 < U32 /\ Start(s + 1) = x + SliceSize
  BY <1>1, Units, NextStart
<1> HIDE DEF x
<1>4. x % U32 = x /\ (x + SliceSize - 1) % U32 = x + SliceSize - 1
  BY <1>2, <1>3
<1>5. Start(s + 1) - 1 = x + SliceSize - 1
  BY <1>3, Units
<1>6. x = Start(s)
  BY DEF x
<1> QED BY <1>4, <1>5, <1>6 DEF slice_lower, slice_upper

\* Rounded up to the alignment unit.
LEMMA RoundUp ==
  ASSUME NEW n \in Nat
  PROVE  /\ round_up(n, AlignUnit) \in Nat /\ n <= round_up(n, AlignUnit)
         /\ n \in Edges => round_up(n, AlignUnit) = n
         /\ \A e \in Edges : n <= e => round_up(n, AlignUnit) <= e
<1> DEFINE v == n + (AlignUnit - 1)
           q == v \div AlignUnit
<1>1. v \in Nat
  BY Units
<1>2. q \in Nat /\ AlignUnit * q <= v /\ v < AlignUnit * q + AlignUnit
  BY <1>1, Units, DivBounds
<1>3. round_up(n, AlignUnit) = AlignUnit * q
  BY <1>2, Units DEF round_up
<1> HIDE DEF q
<1>4. ASSUME NEW e \in Edges, n <= e PROVE AlignUnit * q <= e
  <2>1. PICK s \in Nat : e = Start(s)
    BY DEF Edges
  <2>2. PICK k \in Nat : SliceSize = AlignUnit * k
    BY Units
  <2>3. e = AlignUnit * (s * k) /\ s * k \in Nat
    BY <2>1, <2>2, Units
  <2> DEFINE r == s * k
  <2>4. r \in Nat /\ e = AlignUnit * r
    BY <2>3
  <2> HIDE DEF r
  <2>5. CASE r < q
    <3>1. AlignUnit * (r + 1) <= AlignUnit * q
      BY <1>2, <2>4, <2>5, Units, TimesMonotone
    <3>2. AlignUnit * (r + 1) = AlignUnit * r + AlignUnit
      BY <2>4, Units
    <3> QED BY <1>2, <1>4, <2>4, <3>1, <3>2, Units
  <2>6. CASE q <= r
    BY <1>2, <2>4, <2>6, Units, TimesMonotone
  <2> QED BY <1>2, <2>4, <2>5, <2>6
<1>5. AlignUnit * q \in Nat /\ n <= AlignUnit * q
  <2>1. AlignUnit * q \in Nat
    BY <1>2, Units
  <2> QED BY <1>2, <2>1, Units
<1>6. n \in Edges => AlignUnit * q <= n
  BY <1>4
<1> QED BY <1>3, <1>4, <1>5, <1>6

HIDE DEF Start, Base

-----------------------------------------------------------------------------
(***************************************************************************)
(* Bytes, segments and disk blocks as they should be.                      *)
(***************************************************************************)
ByteVal == (0 .. MaxSize - 1) \cup {Junk}

\* The segments of block b of an object of n bytes: whole slices, or up to the
\* end of the block, with the bytes of the object.
Right(n, b) ==
  {g \in [offset : Nat, size : Nat \ {0}, buf : Seq(ByteVal)] :
     /\ g.offset \in Edges /\ g.offset + g.size <= block_size(n, b)
     /\ g.offset + g.size \in Edges \/ g.offset + g.size = block_size(n, b)
     /\ Len(g.buf) = round_up(g.size, AlignUnit)
     /\ \A j \in 1 .. g.size : g.buf[j] = Base(b) + g.offset + j - 1}

Covered(g) == off2slice(g.offset) .. off2slice(g.offset + g.size - 1)

\* What a memory block may hold.
Kept(n, b) ==
  {m \in [Slice -> Right(n, b) \cup {None}] : \A s \in Slice : m[s] # None => s \in Covered(m[s])}

Files == [data : [0 .. BlockSize - 1 -> ByteVal], sums : [Slice -> Seq(ByteVal)]]

\* The bytes below e and their checksums are those of the object.
RightBelow(d, n, b, e) ==
  /\ \A p \in 0 .. BlockSize - 1 : p < e => d.data[p] = Base(b) + p
  /\ \A s \in Slice : Start(s) < e =>
       d.sums[s] = Bytes(Base(b) + Start(s), Lesser(SliceSize, block_size(n, b) - Start(s)))

\* What a disk block may hold.
Filed(n, b) == {d \in Files : RightBelow(d, n, b, block_size(n, b))}

\* What the memory blocks and the disk blocks of an object of n bytes may hold.
AllKept(n) == {f \in [Block -> UNION {Kept(n, b) : b \in Block}] : \A b \in Block : f[b] \in Kept(n, b)}
AllFiled(n) == {f \in [Block -> Files \cup {None}] : \A b \in Block : f[b] # None => f[b] \in Filed(n, b)}

\* The inductive invariant: nothing that is kept anywhere is wrong.
LayoutInv ==
  /\ size \in 0 .. MaxSize /\ dirty \in [Block -> BOOLEAN]
  /\ slices \in AllKept(size) /\ disk \in AllFiled(size)

-----------------------------------------------------------------------------
(***************************************************************************)
(* Bytes.                                                                  *)
(***************************************************************************)
\* The blocks of the largest object.
LEMMA BlocksAre == Block \subseteq Nat /\ \A b \in Nat : Base(b) < MaxSize => b \in Block
<1>1. (MaxSize - 1) \div BlockSize \in Int
  BY Units
<1>2. Block \subseteq Nat
  BY <1>1 DEF Block
<1>3. ASSUME NEW b \in Nat, Base(b) < MaxSize PROVE b \in Block
  <2> DEFINE q == (MaxSize - 1) \div BlockSize
             x == Base(b)
  <2>1. x \in Nat /\ x = BlockSize * b /\ x < MaxSize
    BY <1>3, Units DEF Base
  <2> HIDE DEF x
  <2>2. MaxSize - 1 \in Nat
    BY <2>1, Units
  <2>3. q \in Nat /\ MaxSize - 1 < BlockSize * q + BlockSize
    BY <2>2, Units, DivBounds
  <2> HIDE DEF q
  <2>4. b <= q
    <3>1. CASE q < b
      <4>1. BlockSize * (q + 1) <= BlockSize * b
        BY <2>3, <3>1, Units, TimesMonotone
      <4>2. BlockSize * (q + 1) = BlockSize * q + BlockSize /\ BlockSize * q \in Nat
        BY <2>3, Units
      <4> QED BY <2>1, <2>3, <4>1, <4>2, Units
    <3> QED BY <2>3, <3>1
  <2> QED BY <2>3, <2>4 DEF Block, q
<1> QED BY <1>2, <1>3

\* The size of a block of an object.
LEMMA BlockSizeIs ==
  ASSUME NEW n \in Nat, NEW b \in Nat
  PROVE  /\ Base(b) \in Nat /\ block_size(n, b) \in Int
         /\ block_size(n, b) <= BlockSize /\ Base(b) + block_size(n, b) <= n
         /\ block_size(n, b) = BlockSize \/ Base(b) + block_size(n, b) = n
<1> DEFINE x == Base(b)
<1>1. x \in Nat
  BY Units DEF Base
<1> HIDE DEF x
<1>2. LET k == Lesser(n - x, BlockSize) IN (k = n - x /\ k <= BlockSize) \/ (k = BlockSize /\ k <= n - x)
  BY <1>1, Units DEF Lesser
<1>3. block_size(n, b) = Lesser(n - x, BlockSize)
  BY DEF block_size, x, Base
<1>4. /\ block_size(n, b) \in Int /\ block_size(n, b) <= BlockSize /\ x + block_size(n, b) <= n
      /\ block_size(n, b) = BlockSize \/ x + block_size(n, b) = n
  BY <1>1, <1>2, <1>3, Units
<1> QED BY <1>1, <1>4 DEF x

\* A sequence of the bytes from o on.
LEMMA BytesAre ==
  ASSUME NEW X, NEW s \in Seq(X), NEW o \in Nat, \A j \in 1 .. Len(s) : s[j] = o + j - 1
  PROVE  s = Bytes(o, Len(s))
BY DEF Bytes

\* The bytes of a range, and that they are bytes of the object.
LEMMA BytesType ==
  ASSUME NEW o \in Nat, NEW n \in Nat
  PROVE  /\ Bytes(o, n) \in Seq(Nat) /\ Len(Bytes(o, n)) = n
         /\ \A j \in 1 .. n : Bytes(o, n)[j] = o + j - 1
         /\ o + n <= MaxSize => Bytes(o, n) \in Seq(ByteVal)
<1>1. \A j \in 1 .. n : o + j - 1 \in Nat /\ (o + n <= MaxSize => o + j - 1 \in ByteVal)
  BY Units DEF ByteVal
<1> QED BY <1>1 DEF Bytes

\* One buffer after another.
Joined(x, y) == x \o y
\* k bytes from o on reach to u.
Reach(o, k, u) == u = o + k

\* Two pieces that meet.
LEMMA BytesMeet ==
  ASSUME NEW o \in Nat, NEW n \in Nat, NEW k \in Nat, NEW p \in Nat, Reach(o, n, p), NEW l \in Nat, Reach(n, k, l)
  PROVE  Joined(Bytes(o, n), Bytes(p, k)) = Bytes(o, l)
<1> DEFINE x == Bytes(o, n)
           y == Bytes(p, k)
<1>1. x \in Seq(Nat) /\ Len(x) = n /\ \A j \in 1 .. n : x[j] = o + j - 1
  BY BytesType
<1>2. p = o + n /\ l = n + k
  BY DEF Reach
<1>3. y \in Seq(Nat) /\ Len(y) = k /\ \A j \in 1 .. k : y[j] = p + j - 1
  BY <1>2, BytesType
<1> HIDE DEF x, y
<1>4. /\ x \o y \in Seq(Nat) /\ Len(x \o y) = n + k
      /\ \A j \in 1 .. n + k : (x \o y)[j] = IF j <= n THEN x[j] ELSE y[j - n]
  BY <1>1, <1>3, ConcatProperties
<1>5. ASSUME NEW j \in 1 .. n + k PROVE (x \o y)[j] = o + j - 1
  <2>1. CASE j <= n
    BY <1>1, <1>4, <2>1
  <2>2. CASE ~(j <= n)
    <3>1. j - n \in 1 .. k /\ (x \o y)[j] = y[j - n]
      BY <1>4, <2>2
    <3>2. y[j - n] = p + (j - n) - 1
      BY <1>3, <3>1
    <3> QED BY <1>2, <3>1, <3>2
  <2> QED BY <2>1, <2>2
<1> DEFINE z == x \o y
<1>6. z \in Seq(Nat) /\ Len(z) = l /\ \A j \in 1 .. l : z[j] = o + j - 1
  BY <1>2, <1>4, <1>5
<1> HIDE DEF z
<1>7. z = Bytes(o, l)
  <2>1. z = Bytes(o, Len(z))
    BY <1>6, BytesAre
  <2> QED BY <1>6, <2>1
<1> QED BY <1>7, Zenon DEF Joined, x, y, z

\* A part of a buffer.
LEMMA CutIs ==
  ASSUME NEW X, NEW buf \in Seq(X), NEW n \in Int, NEW pos \in Nat
  PROVE  /\ Cut(buf, n, pos) \in Seq(X)
         /\ n \in Nat /\ pos + n <= Len(buf) => /\ Len(Cut(buf, n, pos)) = n
                                               /\ \A j \in 1 .. n : Cut(buf, n, pos)[j] = buf[pos + j]
<1> DEFINE k == Lesser(n, Len(buf) - pos)
<1>1. k \in Int /\ k <= Len(buf) - pos /\ (pos + n <= Len(buf) => k = n)
  BY DEF Lesser
<1>2. Cut(buf, n, pos) = [j \in 1 .. k |-> buf[pos + j]]
  BY DEF Cut
<1> HIDE DEF k
<1>3. \A j \in 1 .. k : buf[pos + j] \in X
  BY <1>1
<1>4. CASE k \in Nat
  BY <1>1, <1>2, <1>3, <1>4
<1>5. CASE k \notin Nat
  <2>1. 1 .. k = {}
    BY <1>1, <1>5
  <2>2. Cut(buf, n, pos) = <<>>
    BY <1>2, <2>1
  <2> QED BY <1>1, <1>5, <2>2
<1> QED BY <1>1, <1>4, <1>5

\* A part of a buffer with the bytes from o on.
LEMMA CutBytes ==
  ASSUME NEW X, NEW buf \in Seq(X), NEW n \in Nat, NEW pos \in Nat, NEW o \in Nat, pos + n <= Len(buf),
         \A j \in 1 .. n : buf[pos + j] = o + j - 1
  PROVE  Cut(buf, n, pos) = Bytes(o, n)
<1> DEFINE c == Cut(buf, n, pos)
<1>1. c \in Seq(X) /\ Len(c) = n /\ \A j \in 1 .. n : c[j] = buf[pos + j]
  BY CutIs
<1> HIDE DEF c
<1>2. \A j \in 1 .. n : c[j] = o + j - 1
  BY <1>1
<1>3. c = Bytes(o, n)
  BY <1>1, <1>2, BytesAre
<1> QED BY <1>3 DEF c

-----------------------------------------------------------------------------
(***************************************************************************)
(* Segments and the memory blocks they are in.                             *)
(***************************************************************************)
LEMMA RightIs ==
  ASSUME NEW n \in Nat, NEW b \in Nat, NEW g \in Right(n, b)
  PROVE  /\ g.offset \in Nat /\ g.offset \in Edges /\ g.size \in Nat \ {0}
         /\ g.offset + g.size <= block_size(n, b) /\ g.offset + g.size <= BlockSize
         /\ g.offset + g.size \in Edges \/ g.offset + g.size = block_size(n, b)
         /\ g.buf \in Seq(ByteVal) /\ Len(g.buf) = round_up(g.size, AlignUnit)
         /\ Len(g.buf) \in Nat /\ g.size <= Len(g.buf)
         /\ \A j \in 1 .. g.size : g.buf[j] = Base(b) + g.offset + j - 1
         /\ g = Segment(g.offset, g.size, g.buf)
<1>1. /\ g.offset \in Nat /\ g.offset \in Edges /\ g.size \in Nat \ {0}
      /\ g.offset + g.size <= block_size(n, b)
      /\ g.offset + g.size \in Edges \/ g.offset + g.size = block_size(n, b)
      /\ g.buf \in Seq(ByteVal) /\ Len(g.buf) = round_up(g.size, AlignUnit)
      /\ \A j \in 1 .. g.size : g.buf[j] = Base(b) + g.offset + j - 1
      /\ g = Segment(g.offset, g.size, g.buf)
  BY DEF Right, Segment
<1>2. g.size <= round_up(g.size, AlignUnit) /\ round_up(g.size, AlignUnit) \in Nat
  BY <1>1, RoundUp
<1>3. block_size(n, b) <= BlockSize /\ block_size(n, b) \in Int /\ BlockSize \in Nat
  BY BlockSizeIs, Units
<1>4. g.offset + g.size <= BlockSize
  <2> DEFINE w == block_size(n, b)
  <2>1. g.offset \in Nat /\ g.size \in Nat /\ g.offset + g.size <= w /\ w <= BlockSize /\ w \in Int /\ BlockSize \in Nat
    BY <1>1, <1>3
  <2> HIDE DEF w
  <2> QED BY <2>1
<1>5. Len(g.buf) \in Nat /\ g.size <= Len(g.buf)
  BY <1>1, <1>2
<1> QED BY <1>1, <1>4, <1>5, Zenon

\* A segment covers the slices that start in it, each to its end or to the end
\* of the block.
LEMMA CoveredIs ==
  ASSUME NEW n \in Nat, NEW b \in Nat, NEW g \in Right(n, b), NEW s \in Nat
  PROVE  /\ s \in Covered(g) <=> g.offset <= Start(s) /\ Start(s) < g.offset + g.size
         /\ s \in Covered(g) => /\ s \in Slice
                                /\ \/ Start(s) + SliceSize <= g.offset + g.size
                                   \/ g.offset + g.size = block_size(n, b)
<1> DEFINE lo == off2slice(g.offset)
           end == g.offset + g.size
           hi == off2slice(end - 1)
<1>1. /\ g.offset \in Nat /\ g.offset \in Edges /\ end \in Nat /\ end - 1 \in Nat /\ end <= BlockSize
      /\ end \in Edges \/ end = block_size(n, b)
  BY RightIs
<1>2. Covered(g) = lo .. hi
  <2>1. end - 1 = g.offset + g.size - 1
    <3>1. g.offset \in Int /\ g.size \in Int
      BY DEF Right
    <3> QED BY <3>1
  <2> HIDE DEF end
  <2> QED BY <2>1 DEF Covered
<1> HIDE DEF end
<1>3. lo \in Nat /\ g.offset = Start(lo)
  BY <1>1, EdgeStart
<1>4. hi \in Nat /\ Start(hi) \in Nat /\ Start(hi) <= end - 1 /\ end - 1 < Start(hi) + SliceSize
  BY <1>1, SliceOf
<1> HIDE DEF lo, hi
<1>5. Start(s) \in Nat
  BY NextStart
<1>6. s \in lo .. hi <=> g.offset <= Start(s) /\ Start(s) < end
  <2>1. lo <= s => Start(lo) <= Start(s)
    BY <1>3, NextStart
  <2>2. s < lo => Start(s) + SliceSize <= Start(lo)
    BY <1>3, NextStart
  <2>3. s <= hi => Start(s) <= Start(hi)
    BY <1>4, NextStart
  <2>4. hi < s => Start(hi) + SliceSize <= Start(s)
    BY <1>4, NextStart
  <2> QED BY <1>1, <1>3, <1>4, <1>5, <2>1, <2>2, <2>3, <2>4, Units
<1>7. end \in Edges /\ Start(s) < end => Start(s) + SliceSize <= end
  BY EdgeAfter
<1>8. Start(s) < BlockSize => s \in Slice
  BY SliceOfBlock
<1>9. /\ s \in lo .. hi <=> g.offset <= Start(s) /\ Start(s) < end
      /\ s \in lo .. hi => s \in Slice /\ (Start(s) + SliceSize <= end \/ end = block_size(n, b))
  BY <1>1, <1>5, <1>6, <1>7, <1>8, Units
<1> QED BY <1>2, <1>9 DEF end

\* A slice of a memory block that has a segment.
LEMMA KeptIs ==
  ASSUME NEW n \in Nat, NEW b \in Nat, NEW m \in Kept(n, b), NEW s \in Slice, m[s] # None
  PROVE  m[s] \in Right(n, b) /\ s \in Covered(m[s])
BY DEF Kept

\* An empty memory block holds nothing wrong.
LEMMA NoneKept ==
  ASSUME NEW n \in Nat, NEW b \in Nat
  PROVE  NoSlices \in Kept(n, b)
BY DEF NoSlices, Kept

\* write_block keeps what is right.
LEMMA MemWriteKeeps ==
  ASSUME NEW n \in Nat, NEW b \in Nat, NEW m \in Kept(n, b), NEW g \in Right(n, b)
  PROVE  MemWrite(m, g) \in Kept(n, b)
<1>1. MemWrite(m, g) = [s \in Slice |-> IF s \in Covered(g) THEN g ELSE m[s]]
  BY DEF MemWrite, Covered
<1>2. m \in [Slice -> Right(n, b) \cup {None}] /\ \A s \in Slice : m[s] # None => s \in Covered(m[s])
  BY DEF Kept
<1> HIDE DEF MemWrite
<1> QED BY <1>1, <1>2 DEF Kept

\* Promotion keeps what is right, whichever segments get memory.
LEMMA PromoteKeeps ==
  ASSUME NEW n \in Nat, NEW b \in Nat, NEW m \in Kept(n, b), NEW segs \in Seq(Right(n, b)), NEW granted
  PROVE  Promote(m, segs, granted) \in Kept(n, b)
<1> DEFINE L == Len(segs)
           W == Kept(n, b)
           step == [i \in 1 .. L |-> [w \in W |-> Granted(w, segs[i], granted)]]
           Is(g) == g = [t \in SUBSET (DOMAIN segs) |->
                           IF t = {} THEN m
                           ELSE Granted(g[t \ {Max(t)}], segs[Max(t)], granted)]
           g == CHOOSE x : Is(x)
<1>1. L \in Nat /\ DOMAIN segs = 1 .. L /\ m \in W
  OBVIOUS
<1>2. step \in [1 .. L -> [W -> W]]
  <2>1. ASSUME NEW i \in 1 .. L, NEW w \in W PROVE Granted(w, segs[i], granted) \in W
    <3>1. segs[i] \in Right(n, b)
      BY <1>1
    <3>2. MemWrite(w, segs[i]) \in W
      BY <3>1, MemWriteKeeps
    <3> QED BY <3>2 DEF Granted
  <2> HIDE DEF W, L
  <2> QED BY <2>1
<1>3. Promote(m, segs, granted) = g[DOMAIN segs]
  BY DEF Promote, FoldLeft, MapThenFoldSet
<1>4. \A t \in SUBSET (1 .. L) : t # {} => Max(t) \in 1 .. L
  BY <1>1, MaxIs
<1>5. Is(g)
  <2>1. PICK f \in [SUBSET (1 .. L) -> W] : Folds(f, 1 .. L, m, step)
    <3> HIDE DEF W, step
    <3> QED BY <1>1, <1>2, FoldExists
  <2>2. ASSUME NEW t \in SUBSET (1 .. L), t # {}
        PROVE  step[Max(t)][f[t \ {Max(t)}]] = Granted(f[t \ {Max(t)}], segs[Max(t)], granted)
    BY <1>4, <2>1, <2>2
  <2>3. Is(f)
    <3> HIDE DEF step
    <3> QED BY <1>1, <2>1, <2>2 DEF Folds
  <2> HIDE DEF Is
  <2> QED BY <2>3
<1>6. Follows(g, L, W, m, step)
  <2>1. g[{}] = m
    <3> HIDE DEF g
    <3> QED BY <1>5
  <2>2. ASSUME NEW t \in SUBSET (1 .. L), t # {}, g[t \ {Max(t)}] \in W PROVE g[t] = step[Max(t)][g[t \ {Max(t)}]]
    <3>1. step[Max(t)][g[t \ {Max(t)}]] = Granted(g[t \ {Max(t)}], segs[Max(t)], granted)
      <4> HIDE DEF g
      <4> QED BY <1>4, <2>2
    <3> HIDE DEF g, step
    <3> QED BY <1>1, <1>5, <2>2, <3>1
  <2> HIDE DEF g, step, W
  <2> QED BY <2>1, <2>2 DEF Follows
<1>7. g[1 .. L] \in W
  <2> HIDE DEF g, step, W
  <2>1. FoldSteps(g, L, W, m, step)
    BY <1>1, <1>2, <1>6, FoldFollows
  <2> QED BY <1>1, <2>1 DEF FoldSteps
<1> QED BY <1>1, <1>3, <1>7

-----------------------------------------------------------------------------
(***************************************************************************)
(* Disk blocks.                                                            *)
(***************************************************************************)
\* What a segment has of a slice is that slice of the object.
LEMMA SliceBytesIs ==
  ASSUME NEW n \in Nat, NEW b \in Nat, NEW g \in Right(n, b), NEW s \in SlicesOf(g)
  PROVE  /\ s \in Slice /\ s \in Covered(g)
         /\ SliceBytes(g, s) = Bytes(Base(b) + Start(s), Lesser(SliceSize, block_size(n, b) - Start(s)))
<1> DEFINE x == Start(s)
           w == block_size(n, b)
           o == x - g.offset
           k == Lesser(SliceSize, g.size - o)
           B == Base(b)
<1>1. /\ g.offset \in Nat /\ g.size \in Nat \ {0} /\ g.offset + g.size <= w
      /\ g.buf \in Seq(ByteVal) /\ Len(g.buf) \in Nat /\ g.size <= Len(g.buf)
      /\ \A j \in 1 .. g.size : g.buf[j] = B + g.offset + j - 1
  BY RightIs
<1>2. s \in Slice /\ s \in Nat /\ x \in Nat /\ g.offset <= x /\ x < g.offset + g.size
  <2>1. s \in Slice /\ x \in g.offset .. g.offset + g.size - 1
    BY DEF SlicesOf, Start
  <2>2. s \in Nat
    BY <2>1, SliceOfBlock
  <2>3. x \in Nat
    BY <2>2, NextStart
  <2> HIDE DEF x
  <2> QED BY <1>1, <2>1, <2>2, <2>3
<1>3. s \in Covered(g)
  BY <1>2, CoveredIs
<1>4. x + SliceSize <= g.offset + g.size \/ g.offset + g.size = w
  BY <1>2, <1>3, CoveredIs
<1>5. w \in Int /\ B \in Nat
  BY BlockSizeIs
<1>6. SliceBytes(g, s) = Cut(g.buf, k, o)
  BY DEF SliceBytes, Start
<1> HIDE DEF x, w, B
<1>7. /\ o \in Nat /\ k \in Nat /\ o + k <= g.size /\ k = Lesser(SliceSize, w - x)
      /\ g.offset + o = x
  <2> DEFINE u == g.offset
             v == g.size
  <2>1. u \in Nat /\ v \in Nat /\ u + v <= w /\ x \in Nat /\ u <= x /\ x < u + v /\ w \in Int
    BY <1>1, <1>2, <1>5
  <2>2. x + SliceSize <= u + v \/ u + v = w
    BY <1>4
  <2> HIDE DEF u, v
  <2>3. x - u \in Nat /\ u + (x - u) = x /\ v - (x - u) \in Nat
    BY <2>1
  <2> DEFINE y == x - u
  <2>4. y \in Nat /\ u + y = x /\ v - y \in Nat
    BY <2>3
  <2> HIDE DEF y
  <2>5. CASE x + SliceSize <= u + v
    <3>1. SliceSize <= v - y /\ SliceSize <= w - x
      BY <2>1, <2>4, <2>5, Units
    <3>2. Lesser(SliceSize, v - y) = SliceSize /\ Lesser(SliceSize, w - x) = SliceSize
      BY <3>1 DEF Lesser
    <3> QED BY <2>1, <2>4, <3>1, <3>2, Units DEF u, v, y
  <2>6. CASE u + v = w
    <3>1. v - y = w - x
      BY <2>1, <2>4, <2>6
    <3>2. Lesser(SliceSize, v - y) \in Nat /\ Lesser(SliceSize, v - y) <= v - y
      BY <2>1, <2>4, Units DEF Lesser
    <3>3. y + Lesser(SliceSize, v - y) <= v
      BY <2>1, <2>4, <3>2
    <3> QED BY <2>4, <3>1, <3>2, <3>3 DEF u, v, y
  <2> QED BY <2>2, <2>5, <2>6
<1> HIDE DEF o, k
<1> DEFINE q == B + x
           v == g.buf
<1>8. q \in Nat /\ q = B + x
  BY <1>1, <1>2, <1>5
<1>9. \A j \in 1 .. k : v[o + j] = q + j - 1
  <2> SUFFICES ASSUME NEW j \in 1 .. k PROVE v[o + j] = q + j - 1
    OBVIOUS
  <2>1. o + j \in 1 .. g.size
    BY <1>1, <1>7
  <2>2. v[o + j] = B + g.offset + (o + j) - 1
    BY <1>1, <2>1
  <2>3. g.offset \in Nat /\ o \in Nat /\ g.offset + o = x /\ j \in Nat
    BY <1>1, <1>7
  <2> HIDE DEF q, v
  <2>4. q = B + (g.offset + o) /\ B \in Nat
    BY <1>5, <1>8, <2>3
  <2> QED BY <2>2, <2>3, <2>4
<1>10. v \in Seq(ByteVal) /\ o + k <= Len(v)
  BY <1>1, <1>7
<1> HIDE DEF q, v
<1>11. Cut(v, k, o) = Bytes(q, k)
  <2>1. k \in Nat /\ o \in Nat
    BY <1>7
  <2>2. q \in Nat
    BY <1>8
  <2> QED BY <1>9, <1>10, <2>1, <2>2, CutBytes
<1> QED BY <1>2, <1>3, <1>6, <1>7, <1>11 DEF q, v, x, w, B

\* A buffer that is padded to the alignment unit.
LEMMA AlignedIs ==
  ASSUME NEW buf \in Seq(ByteVal)
  PROVE  /\ Aligned(buf) \in Seq(ByteVal) /\ Len(Aligned(buf)) = round_up(Len(buf), AlignUnit)
         /\ \A j \in 1 .. Len(buf) : Aligned(buf)[j] = buf[j]
<1> DEFINE k == round_up(Len(buf), AlignUnit) - Len(buf)
           pad == [j \in 1 .. k |-> Junk]
<1>1. Len(buf) \in Nat /\ round_up(Len(buf), AlignUnit) \in Nat /\ k \in Nat
  <2> DEFINE l == Len(buf)
  <2>1. l \in Nat
    OBVIOUS
  <2> HIDE DEF l
  <2>2. round_up(l, AlignUnit) \in Nat /\ l <= round_up(l, AlignUnit)
    BY <2>1, RoundUp
  <2> QED BY <2>1, <2>2 DEF l
<1>2. Aligned(buf) = buf \o pad
  BY DEF Aligned
<1> HIDE DEF k
<1>3. pad \in Seq(ByteVal) /\ Len(pad) = k
  BY <1>1 DEF ByteVal
<1> HIDE DEF pad
<1>4. /\ buf \o pad \in Seq(ByteVal) /\ Len(buf \o pad) = Len(buf) + k
      /\ \A j \in 1 .. Len(buf) + k : (buf \o pad)[j] = IF j <= Len(buf) THEN buf[j] ELSE pad[j - Len(buf)]
  BY <1>3, ConcatProperties
<1> QED BY <1>1, <1>2, <1>4 DEF k

\* A write of a right segment makes what it covers right, and spoils nothing.
LEMMA DiskWriteRight ==
  ASSUME NEW n \in Nat, NEW b \in Nat, NEW g \in Right(n, b), NEW d \in Files
  PROVE  /\ DiskWrite(d, g) \in Files
         /\ \A e \in Nat : e <= block_size(n, b) /\ RightBelow(d, n, b, e) => RightBelow(DiskWrite(d, g), n, b, e)
         /\ RightBelow(d, n, b, g.offset) => RightBelow(DiskWrite(d, g), n, b, g.offset + g.size)
<1> DEFINE w == block_size(n, b)
           end == g.offset + g.size
           a == Aligned(g.buf)
           L == Len(a)
           r == DiskWrite(d, g)
           B == Base(b)
<1>1. /\ g.offset \in Nat /\ g.offset \in Edges /\ g.size \in Nat \ {0} /\ end <= w /\ (end \in Edges \/ end = w)
      /\ g.buf \in Seq(ByteVal) /\ Len(g.buf) = round_up(g.size, AlignUnit) /\ Len(g.buf) \in Nat /\ g.size <= Len(g.buf)
      /\ \A j \in 1 .. g.size : g.buf[j] = B + g.offset + j - 1
  BY RightIs
<1>2. w \in Int /\ B \in Nat /\ end \in Nat
  <2>1. w \in Int /\ B \in Nat
    BY BlockSizeIs
  <2> HIDE DEF w, B
  <2> QED BY <1>1, <2>1
<1>3. /\ a \in Seq(ByteVal) /\ L \in Nat /\ g.size <= L
      /\ \A j \in 1 .. g.size : a[j] = B + g.offset + j - 1
      /\ end < w => L = g.size
  <2>1. a \in Seq(ByteVal) /\ L = round_up(Len(g.buf), AlignUnit) /\ \A j \in 1 .. Len(g.buf) : a[j] = g.buf[j]
    BY <1>1, AlignedIs
  <2>2. L \in Nat /\ Len(g.buf) <= L
    BY <1>1, <2>1, RoundUp
  <2>3. ASSUME end < w PROVE L = g.size
    <3>1. end \in Edges /\ g.offset <= end
      BY <1>1, <1>2, <2>3
    <3>2. end - g.offset \in Edges /\ end - g.offset = g.size
      BY <1>1, <3>1, EdgeArithmetic
    <3>3. Len(g.buf) = g.size
      BY <1>1, <3>2, RoundUp
    <3> QED BY <1>1, <2>1, <3>2, <3>3, RoundUp
  <2>4. g.size <= L
    <3> HIDE DEF L
    <3> QED BY <1>1, <2>2
  <2>5. ASSUME NEW j \in 1 .. g.size PROVE a[j] = B + g.offset + j - 1
    <3>1. j \in 1 .. Len(g.buf) /\ g.buf[j] = B + g.offset + j - 1
      BY <1>1
    <3> QED BY <2>1, <3>1
  <2> QED BY <2>1, <2>2, <2>3, <2>4, <2>5
<1>4. /\ d.data \in [0 .. BlockSize - 1 -> ByteVal] /\ d.sums \in [Slice -> Seq(ByteVal)]
  BY DEF Files
<1>5. /\ r.data = [p \in 0 .. BlockSize - 1 |-> IF p \in g.offset .. g.offset + L - 1 THEN a[p - g.offset + 1] ELSE d.data[p]]
      /\ r.sums = [s \in Slice |-> IF s \in SlicesOf(g) THEN SliceBytes(g, s) ELSE d.sums[s]]
      /\ r = [data |-> r.data, sums |-> r.sums]
  BY DEF DiskWrite, Overwrite, SumsAfterWrite
<1> HIDE DEF r
<1>6. r \in Files
  <2>1. ASSUME NEW p \in 0 .. BlockSize - 1, p \in g.offset .. g.offset + L - 1 PROVE a[p - g.offset + 1] \in ByteVal
    <3>1. p - g.offset + 1 \in 1 .. L
      <4> DEFINE u == g.offset
      <4>1. u \in Nat /\ L \in Nat /\ p \in Int /\ u <= p /\ p <= u + (L - 1)
        <5> HIDE DEF L, B
        <5> QED BY <1>1, <1>3, <2>1
      <4> HIDE DEF L, u
      <4>2. p - u + 1 \in 1 .. L
        BY <4>1
      <4> QED BY <4>2 DEF u
    <3> HIDE DEF a
    <3> QED BY <1>3, <3>1, ElementOfSeq
  <2>2. r.data \in [0 .. BlockSize - 1 -> ByteVal]
    <3> HIDE DEF L, a
    <3> QED BY <1>4, <1>5, <2>1
  <2>3. ASSUME NEW s \in SlicesOf(g) PROVE SliceBytes(g, s) \in Seq(ByteVal)
    <3>1. s \in Slice /\ s \in Nat
      BY SliceOfBlock DEF SlicesOf, Start
    <3> DEFINE o == Start(s) - g.offset
               k == Lesser(SliceSize, g.size - o)
    <3>2. Start(s) \in Nat /\ g.offset <= Start(s)
      <4>1. s \in Covered(g)
        BY SliceBytesIs
      <4> QED BY <3>1, <4>1, CoveredIs, NextStart
    <3>3. o \in Nat /\ k \in Int
      <4>1. o \in Nat /\ g.size \in Int
        BY <1>1, <3>2
      <4> HIDE DEF o
      <4> QED BY <4>1, Units DEF Lesser
    <3>4. SliceBytes(g, s) = Cut(g.buf, k, o)
      BY DEF SliceBytes, Start
    <3>5. g.buf \in Seq(ByteVal)
      BY <1>1
    <3> HIDE DEF o, k
    <3> QED BY <3>3, <3>4, <3>5, CutIs
  <2>4. r.sums \in [Slice -> Seq(ByteVal)]
    BY <1>4, <1>5, <2>3
  <2> QED BY <1>5, <2>2, <2>4 DEF Files
<1>7. ASSUME NEW e \in Nat, e <= w, RightBelow(d, n, b, e), NEW h \in Nat, h <= w, h <= e \/ (g.offset <= e /\ h = end)
      PROVE  RightBelow(r, n, b, h)
  <2>1. ASSUME NEW p \in 0 .. BlockSize - 1, p < h PROVE r.data[p] = B + p
    <3>1. CASE p \in g.offset .. g.offset + L - 1
      <4>1. r.data[p] = a[p - g.offset + 1] /\ p \in Nat /\ g.offset <= p /\ p < g.offset + L
        <5>1. p \in Nat /\ g.offset <= p /\ p < g.offset + L
          <6> HIDE DEF L
          <6> QED BY <1>1, <1>3, <3>1
        <5> QED BY <1>5, <3>1, <5>1
      <4>2. p < end
        <5>1. p < w
          BY <1>2, <1>7, <2>1, <4>1
        <5> HIDE DEF L, w
        <5> QED BY <1>1, <1>2, <1>3, <4>1, <5>1
      <4>3. p - g.offset + 1 \in 1 .. g.size
        <5> DEFINE u == g.offset
                   l == g.size
        <5>1. u \in Nat /\ l \in Nat /\ p \in Nat /\ u <= p /\ p < u + l
          BY <1>1, <4>1, <4>2
        <5> HIDE DEF u, l
        <5>2. p - u + 1 \in 1 .. l
          BY <5>1
        <5> QED BY <5>2 DEF u, l
      <4>4. a[p - g.offset + 1] = B + g.offset + (p - g.offset + 1) - 1
        <5> HIDE DEF a, B
        <5> QED BY <1>3, <4>3
      <4> HIDE DEF a, B, L
      <4> QED BY <1>1, <1>2, <4>1, <4>4
    <3>2. CASE p \notin g.offset .. g.offset + L - 1
      <4>1. r.data[p] = d.data[p]
        BY <1>5, <3>2
      <4>2. p < e
        <5> DEFINE u == g.offset
                   l == g.size
        <5>1. u \in Nat /\ l \in Nat /\ L \in Nat /\ l <= L /\ p \in Nat /\ end = u + l
          BY <1>1, <1>3
        <5>2. p < u \/ u + L <= p
          <6> HIDE DEF L, end
          <6>1. ~(u <= p /\ p <= u + L - 1)
            BY <3>2, <5>1
          <6> HIDE DEF u
          <6> QED BY <5>1, <6>1
        <5>3. h <= e \/ (u <= e /\ h = end)
          BY <1>7
        <5> HIDE DEF L, u, l, end
        <5> QED BY <2>1, <5>1, <5>2, <5>3
      <4> QED BY <1>7, <4>1, <4>2 DEF RightBelow
    <3> QED BY <3>1, <3>2
  <2>2. ASSUME NEW s \in Slice, Start(s) < h
        PROVE  r.sums[s] = Bytes(B + Start(s), Lesser(SliceSize, w - Start(s)))
    <3>1. CASE s \in SlicesOf(g)
      BY <1>5, <3>1, SliceBytesIs
    <3>2. CASE s \notin SlicesOf(g)
      <4>1. r.sums[s] = d.sums[s]
        BY <1>5, <3>2
      <4> DEFINE x == Start(s)
      <4>2. x \in Nat
        BY SliceOfBlock, NextStart
      <4>3. ~(x \in g.offset .. g.offset + g.size - 1)
        BY <3>2 DEF SlicesOf, Start
      <4>4. x < h
        BY <2>2
      <4> HIDE DEF x
      <4>5. x < e
        BY <1>1, <1>2, <1>7, <4>2, <4>3, <4>4
      <4> QED BY <1>7, <4>1, <4>5 DEF RightBelow, x
    <3> QED BY <3>1, <3>2
  <2> QED BY <2>1, <2>2 DEF RightBelow
<1>8. ASSUME NEW e \in Nat, e <= w, RightBelow(d, n, b, e) PROVE RightBelow(r, n, b, e)
  BY <1>7, <1>8
<1>9. ASSUME RightBelow(d, n, b, g.offset) PROVE RightBelow(r, n, b, end)
  <2>1. g.offset <= w
    BY <1>1, <1>2
  <2> HIDE DEF end, w
  <2> QED BY <1>1, <1>2, <1>7, <1>9, <2>1
<1> QED BY <1>6, <1>8, <1>9 DEF r

-----------------------------------------------------------------------------
(***************************************************************************)
(* A flush of the segments of a memory block.                              *)
(***************************************************************************)
\* The writes of a flush, one after the other.
LEMMA DiskWritesUnfold ==
  ASSUME NEW n \in Nat, NEW b \in Nat, NEW d \in Files, NEW segs \in Seq(Right(n, b))
  PROVE  \E f \in [0 .. Len(segs) -> Files] :
           /\ f[0] = d /\ f[Len(segs)] = DiskWriteAll(d, segs)
           /\ \A i \in 0 .. Len(segs) - 1 : f[i + 1] = DiskWrite(f[i], segs[i + 1])
<1> DEFINE L == Len(segs)
           W == Files
           base == d
           step == [i \in 1 .. L |-> [w \in W |-> DiskWrite(w, segs[i])]]
           Is(g) == g = [t \in SUBSET (DOMAIN segs) |->
                           IF t = {} THEN d
                           ELSE DiskWrite(g[t \ {Max(t)}], segs[Max(t)])]
           g == CHOOSE x : Is(x)
<1>1. L \in Nat /\ DOMAIN segs = 1 .. L
  OBVIOUS
<1>2. base \in W
  OBVIOUS
<1>3. ASSUME NEW i \in 1 .. L, NEW w \in W PROVE DiskWrite(w, segs[i]) \in W
  <2>1. segs[i] \in Right(n, b)
    BY <1>1
  <2> QED BY <2>1, DiskWriteRight
<1>4. DiskWriteAll(d, segs) = g[DOMAIN segs]
  BY DEF DiskWriteAll, FoldLeft, MapThenFoldSet
<1>5. step \in [1 .. L -> [W -> W]]
  <2> HIDE DEF W, L
  <2> QED BY <1>3
<1>6. \A t \in SUBSET (1 .. L) : t # {} => Max(t) \in 1 .. L
  BY <1>1, MaxIs
<1>7. Is(g)
  <2>1. PICK f \in [SUBSET (1 .. L) -> W] : Folds(f, 1 .. L, base, step)
    <3> HIDE DEF W, L, base, step
    <3> QED BY <1>1, <1>2, <1>5, FoldExists
  <2>2. ASSUME NEW t \in SUBSET (1 .. L), t # {}
        PROVE  step[Max(t)][f[t \ {Max(t)}]] = DiskWrite(f[t \ {Max(t)}], segs[Max(t)])
    <3> DEFINE r == f[t \ {Max(t)}]
               j == Max(t)
    <3>1. r \in W /\ j \in 1 .. L
      BY <1>6, <2>1, <2>2
    <3> HIDE DEF r, j, W, L
    <3>2. step[j][r] = DiskWrite(r, segs[j])
      BY <3>1
    <3> QED BY <3>2 DEF r, j
  <2>3. Is(f)
    <3> HIDE DEF step
    <3> QED BY <1>1, <2>1, <2>2 DEF Folds
  <2> HIDE DEF Is
  <2> QED BY <2>3
<1>8. Follows(g, L, W, base, step)
  <2>1. g[{}] = base
    <3> HIDE DEF g
    <3> QED BY <1>7
  <2>2. ASSUME NEW t \in SUBSET (1 .. L), t # {}, g[t \ {Max(t)}] \in W PROVE g[t] = step[Max(t)][g[t \ {Max(t)}]]
    <3> DEFINE r == g[t \ {Max(t)}]
               j == Max(t)
    <3>1. r \in W /\ j \in 1 .. L
      <4> HIDE DEF g
      <4> QED BY <1>6, <2>2
    <3>2. g[t] = DiskWrite(r, segs[j])
      <4> HIDE DEF g
      <4> QED BY <1>1, <1>7, <2>2
    <3> HIDE DEF r, j, W, L, g
    <3>3. step[j][r] = DiskWrite(r, segs[j])
      BY <3>1
    <3> QED BY <3>2, <3>3 DEF r, j
  <2> HIDE DEF g, step, W, base
  <2> QED BY <2>1, <2>2 DEF Follows
<1>9. FoldSteps(g, L, W, base, step)
  <2> HIDE DEF g, step, W, L, base
  <2> QED BY <1>1, <1>2, <1>5, <1>8, FoldFollows
<1> DEFINE h == [i \in 0 .. L |-> g[1 .. i]]
<1>10. h \in [0 .. L -> W] /\ h[0] = base /\ h[L] = g[1 .. L]
  <2> HIDE DEF g, step, W, L, base
  <2> QED BY <1>1, <1>9 DEF FoldSteps
<1>11. ASSUME NEW i \in 0 .. L - 1 PROVE h[i + 1] = DiskWrite(h[i], segs[i + 1])
  <2> DEFINE r == g[1 .. i]
             j == i + 1
  <2>1. j \in 1 .. L /\ i \in 0 .. L /\ j \in 0 .. L /\ j = i + 1
    <3> HIDE DEF L
    <3> QED BY <1>1
  <2>2. r \in W /\ g[1 .. j] = step[j][r]
    <3> HIDE DEF g, step, W, L, base
    <3> QED BY <1>9, <2>1 DEF FoldSteps
  <2>3. h[i] = r /\ h[j] = g[1 .. j]
    <3> HIDE DEF g, L, j
    <3> QED BY <2>1
  <2> HIDE DEF g, L, W, r, h, j
  <2>4. step[j][r] = DiskWrite(r, segs[j])
    BY <2>1, <2>2
  <2> QED BY <2>2, <2>3, <2>4 DEF j
<1> HIDE DEF h
<1> QED BY <1>1, <1>4, <1>10, <1>11

\* The sum of the sizes of the segments that follow each other.
LEMMA ContinuedUnfolds ==
  ASSUME NEW n \in Nat, NEW b \in Nat, NEW segs \in Seq(Right(n, b))
  PROVE  \E f \in [0 .. Len(segs) -> [size : Nat, open : BOOLEAN]] :
           /\ f[0] = [size |-> 0, open |-> TRUE] /\ f[Len(segs)] = Continuous(segs)
           /\ \A i \in 0 .. Len(segs) - 1 : f[i + 1] = Continued(f[i], segs[i + 1])
<1> DEFINE L == Len(segs)
           W == [size : Nat, open : BOOLEAN]
           base == [size |-> 0, open |-> TRUE]
           step == [i \in 1 .. L |-> [w \in W |-> Continued(w, segs[i])]]
           Is(g) == g = [t \in SUBSET (DOMAIN segs) |->
                           IF t = {} THEN [size |-> 0, open |-> TRUE]
                           ELSE Continued(g[t \ {Max(t)}], segs[Max(t)])]
           g == CHOOSE x : Is(x)
<1>1. L \in Nat /\ DOMAIN segs = 1 .. L
  OBVIOUS
<1>2. base \in W
  OBVIOUS
<1>3. ASSUME NEW i \in 1 .. L, NEW w \in W PROVE Continued(w, segs[i]) \in W
  <2>1. segs[i] \in Right(n, b)
    BY <1>1
  <2> DEFINE y == w.size + segs[i].size
  <2>2. segs[i].size \in Nat
    BY <2>1 DEF Right
  <2>3. y \in Nat
    BY <2>2
  <2>4. Continued(w, segs[i]) \in {[w EXCEPT !.size = y], [w EXCEPT !.open = FALSE]}
    BY Zenon DEF Continued
  <2> HIDE DEF y
  <2> QED BY <2>3, <2>4
<1>4. Continuous(segs) = g[DOMAIN segs]
  BY DEF Continuous, FoldLeft, MapThenFoldSet
<1>5. step \in [1 .. L -> [W -> W]]
  <2> HIDE DEF W, L
  <2> QED BY <1>3
<1>6. \A t \in SUBSET (1 .. L) : t # {} => Max(t) \in 1 .. L
  BY <1>1, MaxIs
<1>7. Is(g)
  <2>1. PICK f \in [SUBSET (1 .. L) -> W] : Folds(f, 1 .. L, base, step)
    <3> HIDE DEF W, L, base, step
    <3> QED BY <1>1, <1>2, <1>5, FoldExists
  <2>2. ASSUME NEW t \in SUBSET (1 .. L), t # {}
        PROVE  step[Max(t)][f[t \ {Max(t)}]] = Continued(f[t \ {Max(t)}], segs[Max(t)])
    <3> DEFINE r == f[t \ {Max(t)}]
               j == Max(t)
    <3>1. r \in W /\ j \in 1 .. L
      BY <1>6, <2>1, <2>2
    <3> HIDE DEF r, j, W, L
    <3>2. step[j][r] = Continued(r, segs[j])
      BY <3>1
    <3> QED BY <3>2 DEF r, j
  <2>3. Is(f)
    <3> HIDE DEF step
    <3> QED BY <1>1, <2>1, <2>2 DEF Folds
  <2> HIDE DEF Is
  <2> QED BY <2>3
<1>8. Follows(g, L, W, base, step)
  <2>1. g[{}] = base
    <3> HIDE DEF g
    <3> QED BY <1>7
  <2>2. ASSUME NEW t \in SUBSET (1 .. L), t # {}, g[t \ {Max(t)}] \in W PROVE g[t] = step[Max(t)][g[t \ {Max(t)}]]
    <3> DEFINE r == g[t \ {Max(t)}]
               j == Max(t)
    <3>1. r \in W /\ j \in 1 .. L
      <4> HIDE DEF g
      <4> QED BY <1>6, <2>2
    <3>2. g[t] = Continued(r, segs[j])
      <4> HIDE DEF g
      <4> QED BY <1>1, <1>7, <2>2
    <3> HIDE DEF r, j, W, L, g
    <3>3. step[j][r] = Continued(r, segs[j])
      BY <3>1
    <3> QED BY <3>2, <3>3 DEF r, j
  <2> HIDE DEF g, step, W, base
  <2> QED BY <2>1, <2>2 DEF Follows
<1>9. FoldSteps(g, L, W, base, step)
  <2> HIDE DEF g, step, W, L, base
  <2> QED BY <1>1, <1>2, <1>5, <1>8, FoldFollows
<1> DEFINE h == [i \in 0 .. L |-> g[1 .. i]]
<1>10. h \in [0 .. L -> W] /\ h[0] = base /\ h[L] = g[1 .. L]
  <2> HIDE DEF g, step, W, L, base
  <2> QED BY <1>1, <1>9 DEF FoldSteps
<1>11. ASSUME NEW i \in 0 .. L - 1 PROVE h[i + 1] = Continued(h[i], segs[i + 1])
  <2> DEFINE r == g[1 .. i]
             j == i + 1
  <2>1. j \in 1 .. L /\ i \in 0 .. L /\ j \in 0 .. L /\ j = i + 1
    <3> HIDE DEF L
    <3> QED BY <1>1
  <2>2. r \in W /\ g[1 .. j] = step[j][r]
    <3> HIDE DEF g, step, W, L, base
    <3> QED BY <1>9, <2>1 DEF FoldSteps
  <2>3. h[i] = r /\ h[j] = g[1 .. j]
    <3> HIDE DEF g, L, j
    <3> QED BY <2>1
  <2> HIDE DEF g, L, W, r, h, j
  <2>4. step[j][r] = Continued(r, segs[j])
    BY <2>1, <2>2
  <2> QED BY <2>2, <2>3, <2>4 DEF j
<1> HIDE DEF h
<1> QED BY <1>1, <1>4, <1>10, <1>11

\* A segment that follows the others counts.
LEMMA ContinuedIs ==
  ASSUME NEW c \in [size : Nat, open : BOOLEAN], NEW g
  PROVE  (g.offset = c.size /\ Continued(c, g).size = c.size + g.size) \/ Continued(c, g).size = c.size
<1> DEFINE y == c.size + g.size
<1>1. (g.offset = c.size /\ Continued(c, g) = [c EXCEPT !.size = y]) \/ Continued(c, g) = [c EXCEPT !.open = FALSE]
  BY Zenon DEF Continued
<1> HIDE DEF y
<1>2. [c EXCEPT !.size = y].size = y /\ [c EXCEPT !.open = FALSE].size = c.size
  OBVIOUS
<1> QED BY <1>1, <1>2 DEF y

\* A new disk block is one.
LEMMA NewIsFile == NewDiskBlock \in Files
BY DEF NewDiskBlock, Files, ByteVal

\* Nothing is below the start of a block.
LEMMA NothingBelow ==
  ASSUME NEW n \in Nat, NEW b \in Nat, NEW d, NEW e \in Int, e <= 0
  PROVE  RightBelow(d, n, b, e)
<1>1. \A s \in Slice : Start(s) \in Nat
  BY SliceOfBlock, NextStart
<1> QED BY <1>1, Units DEF RightBelow

\* A flush to a disk block that is right keeps it right; into a new one it
\* makes it right when the segments follow each other to the end of the block.
LEMMA FlushIsRight ==
  ASSUME NEW n \in Nat, NEW b \in Nat, NEW d \in Files, NEW segs \in Seq(Right(n, b)),
         d \in Filed(n, b) \/ (d = NewDiskBlock /\ ContinuousSize(segs) = block_size(n, b))
  PROVE  DiskWriteAll(d, segs) \in Filed(n, b)
<1> DEFINE L == Len(segs)
           w == block_size(n, b)
<1>1. L \in Nat /\ \A i \in 0 .. L - 1 : segs[i + 1] \in Right(n, b)
  OBVIOUS
<1>2. w \in Int
  BY BlockSizeIs
<1>3. PICK f \in [0 .. L -> Files] :
        /\ f[0] = d /\ f[L] = DiskWriteAll(d, segs)
        /\ \A i \in 0 .. L - 1 : f[i + 1] = DiskWrite(f[i], segs[i + 1])
  BY DiskWritesUnfold
<1>4. f[L] \in Files
  BY <1>1, <1>3
<1> HIDE DEF w
<1>5. CASE d \in Filed(n, b) /\ 0 <= w
  <2> DEFINE Good == {i \in 0 .. L : RightBelow(f[i], n, b, w)}
  <2>1. 0 \in Good
    BY <1>1, <1>3, <1>5 DEF Filed, w
  <2>2. ASSUME NEW i \in 0 .. L - 1, i \in Good PROVE i + 1 \in Good
    <3>1. i \in 0 .. L /\ i + 1 \in 0 .. L
      BY <1>1
    <3>2. f[i] \in Files /\ f[i + 1] = DiskWrite(f[i], segs[i + 1]) /\ segs[i + 1] \in Right(n, b) /\ RightBelow(f[i], n, b, w)
      BY <1>1, <1>3, <2>2, <3>1
    <3>3. w \in Nat /\ w <= block_size(n, b)
      BY <1>2, <1>5 DEF w
    <3>4. RightBelow(DiskWrite(f[i], segs[i + 1]), n, b, w)
      BY <3>2, <3>3, DiskWriteRight
    <3> QED BY <3>1, <3>2, <3>4
  <2>3. L \in Good
    <3> HIDE DEF Good, L
    <3>1. \A i \in 0 .. L : i \in Good
      BY <1>1, <2>1, <2>2, UpTo
    <3> QED BY <1>1, <3>1
  <2> QED BY <1>3, <1>4, <2>3 DEF Filed, w
<1>6. CASE d = NewDiskBlock /\ ContinuousSize(segs) = w /\ 0 <= w
  <2>1. PICK c \in [0 .. L -> [size : Nat, open : BOOLEAN]] :
          /\ c[0] = [size |-> 0, open |-> TRUE] /\ c[L] = Continuous(segs)
          /\ \A i \in 0 .. L - 1 : c[i + 1] = Continued(c[i], segs[i + 1])
    BY ContinuedUnfolds
  <2> DEFINE Good == {i \in 0 .. L : c[i].size <= w /\ RightBelow(f[i], n, b, c[i].size)}
  <2>2. 0 \in Good
    <3>1. c[0].size = 0
      BY <2>1
    <3>2. RightBelow(f[0], n, b, 0)
      BY NothingBelow
    <3> QED BY <1>1, <1>6, <3>1, <3>2
  <2>3. ASSUME NEW i \in 0 .. L - 1, i \in Good PROVE i + 1 \in Good
    <3> DEFINE g == segs[i + 1]
               e == c[i].size
    <3>1. i \in 0 .. L /\ i + 1 \in 0 .. L
      BY <1>1
    <3>2. f[i] \in Files /\ f[i + 1] = DiskWrite(f[i], g) /\ g \in Right(n, b) /\ RightBelow(f[i], n, b, e)
      BY <1>1, <1>3, <2>3, <3>1
    <3>3. e \in Nat /\ e <= w /\ c[i + 1] = Continued(c[i], g) /\ c[i] \in [size : Nat, open : BOOLEAN]
      BY <2>1, <2>3, <3>1
    <3> HIDE DEF g, e
    <3>4. CASE c[i + 1].size = e
      <4>1. RightBelow(DiskWrite(f[i], g), n, b, e)
        BY <3>2, <3>3, DiskWriteRight DEF w
      <4> QED BY <3>1, <3>2, <3>3, <3>4, <4>1
    <3>5. CASE g.offset = e /\ c[i + 1].size = e + g.size
      <4>1. RightBelow(DiskWrite(f[i], g), n, b, g.offset + g.size)
        BY <3>2, <3>5, DiskWriteRight
      <4>2. g.offset + g.size <= w
        BY <3>2, RightIs DEF w
      <4> QED BY <3>1, <3>2, <3>5, <4>1, <4>2
    <3>6. c[i + 1].size = e \/ (g.offset = e /\ c[i + 1].size = e + g.size)
      BY <3>3, ContinuedIs DEF e
    <3> QED BY <3>4, <3>5, <3>6
  <2>4. L \in Good
    <3> HIDE DEF Good, L
    <3>1. \A i \in 0 .. L : i \in Good
      BY <1>1, <2>2, <2>3, UpTo
    <3> QED BY <1>1, <3>1
  <2>5. c[L].size = w
    BY <1>6, <2>1 DEF ContinuousSize
  <2> QED BY <1>3, <1>4, <2>4, <2>5 DEF Filed, w
<1>7. CASE ~(0 <= w)
  <2>1. RightBelow(f[L], n, b, w)
    BY <1>2, <1>7, NothingBelow
  <2> QED BY <1>3, <1>4, <2>1 DEF Filed, w
<1> QED BY <1>5, <1>6, <1>7 DEF w

-----------------------------------------------------------------------------
(***************************************************************************)
(* What list_segments gives.                                               *)
(***************************************************************************)
LEMMA CountingIs ==
  ASSUME NEW a \in Nat, NEW k \in Nat, NEW c \in Int, c = a + k - 1
  PROVE  /\ DOMAIN Counting(a, c) = 1 .. k
         /\ \A j \in 1 .. k : Counting(a, c)[j] = a + j - 1
<1>1. c - a + 1 = k
  OBVIOUS
<1> QED BY <1>1 DEF Counting

\* One slice after the other.
LEMMA ListUnfolds ==
  ASSUME NEW n \in Nat, NEW b \in Nat, NEW m \in Kept(n, b)
  PROVE  \E f \in [0 .. block_slice_count -> Seq(Right(n, b))] :
           /\ f[0] = << >> /\ f[block_slice_count] = ListSegments(m)
           /\ \A i \in 0 .. block_slice_count - 1 :
                f[i + 1] = Listed(m, f[i], Counting(0, block_slice_count - 1)[i + 1])
<1> DEFINE L == block_slice_count
           W == Seq(Right(n, b))
           base == << >>
           step == [i \in 1 .. L |-> [w \in W |-> Listed(m, w, Counting(0, block_slice_count - 1)[i])]]
           Is(g) == g = [t \in SUBSET (DOMAIN Counting(0, block_slice_count - 1)) |->
                           IF t = {} THEN << >>
                           ELSE Listed(m, g[t \ {Max(t)}], Counting(0, block_slice_count - 1)[Max(t)])]
           g == CHOOSE x : Is(x)
<1>1. L \in Nat /\ DOMAIN Counting(0, block_slice_count - 1) = 1 .. L
  <2>1. block_slice_count \in Nat /\ block_slice_count - 1 \in Int /\ block_slice_count - 1 = 0 + block_slice_count - 1
    BY SliceOfBlock
  <2> QED BY <2>1, CountingIs
<1>2. base \in W
  OBVIOUS
<1>3. ASSUME NEW i \in 1 .. L, NEW w \in W PROVE Listed(m, w, Counting(0, block_slice_count - 1)[i]) \in W
  <2> DEFINE s == Counting(0, block_slice_count - 1)[i]
  <2>1. s \in Slice
    <3> DEFINE k == block_slice_count
    <3>1. k \in Nat /\ k - 1 \in Int /\ k - 1 = 0 + k - 1 /\ i \in 1 .. k
      BY SliceOfBlock
    <3>2. Slice = 0 .. k - 1
      BY DEF Slice
    <3> HIDE DEF k
    <3>3. Counting(0, k - 1)[i] = 0 + i - 1
      BY <3>1, CountingIs
    <3> QED BY <3>1, <3>2, <3>3 DEF k
  <2>2. m[s] = None \/ m[s] \in Right(n, b)
    BY <2>1, KeptIs
  <2> HIDE DEF s
  <2>3. m[s] \in Right(n, b) => Append(w, m[s]) \in W
    OBVIOUS
  <2>4. Listed(m, w, s) = w \/ (m[s] # None /\ Listed(m, w, s) = Append(w, m[s]))
    BY DEF Listed
  <2>5. Listed(m, w, s) \in W
    BY <2>2, <2>3, <2>4
  <2> QED BY <2>5 DEF s
<1>4. ListSegments(m) = g[DOMAIN Counting(0, block_slice_count - 1)]
  BY DEF ListSegments, FoldLeft, MapThenFoldSet
<1>5. step \in [1 .. L -> [W -> W]]
  <2> HIDE DEF W, L
  <2> QED BY <1>3
<1>6. \A t \in SUBSET (1 .. L) : t # {} => Max(t) \in 1 .. L
  BY <1>1, MaxIs
<1>7. Is(g)
  <2>1. PICK f \in [SUBSET (1 .. L) -> W] : Folds(f, 1 .. L, base, step)
    <3> HIDE DEF W, L, base, step
    <3> QED BY <1>1, <1>2, <1>5, FoldExists
  <2>2. ASSUME NEW t \in SUBSET (1 .. L), t # {}
        PROVE  step[Max(t)][f[t \ {Max(t)}]]
                 = Listed(m, f[t \ {Max(t)}], Counting(0, block_slice_count - 1)[Max(t)])
    <3> DEFINE r == f[t \ {Max(t)}]
               j == Max(t)
    <3>1. r \in W /\ j \in 1 .. L
      BY <1>6, <2>1, <2>2
    <3> HIDE DEF r, j, W, L
    <3>2. step[j][r] = Listed(m, r, Counting(0, block_slice_count - 1)[j])
      BY <3>1
    <3> QED BY <3>2 DEF r, j
  <2>3. Is(f)
    <3> HIDE DEF step
    <3> QED BY <1>1, <2>1, <2>2 DEF Folds
  <2> HIDE DEF Is
  <2> QED BY <2>3
<1>8. Follows(g, L, W, base, step)
  <2>1. g[{}] = base
    <3> HIDE DEF g
    <3> QED BY <1>7
  <2>2. ASSUME NEW t \in SUBSET (1 .. L), t # {}, g[t \ {Max(t)}] \in W PROVE g[t] = step[Max(t)][g[t \ {Max(t)}]]
    <3> DEFINE r == g[t \ {Max(t)}]
               j == Max(t)
    <3>1. r \in W /\ j \in 1 .. L
      <4> HIDE DEF g
      <4> QED BY <1>6, <2>2
    <3>2. g[t] = Listed(m, r, Counting(0, block_slice_count - 1)[j])
      <4> HIDE DEF g
      <4> QED BY <1>1, <1>7, <2>2
    <3> HIDE DEF r, j, W, L, g
    <3>3. step[j][r] = Listed(m, r, Counting(0, block_slice_count - 1)[j])
      BY <3>1
    <3> QED BY <3>2, <3>3 DEF r, j
  <2> HIDE DEF g, step, W, base
  <2> QED BY <2>1, <2>2 DEF Follows
<1>9. FoldSteps(g, L, W, base, step)
  <2> HIDE DEF g, step, W, L, base
  <2> QED BY <1>1, <1>2, <1>5, <1>8, FoldFollows
<1> DEFINE h == [i \in 0 .. L |-> g[1 .. i]]
<1>10. h \in [0 .. L -> W] /\ h[0] = base /\ h[L] = g[1 .. L]
  <2> HIDE DEF g, step, W, L, base
  <2> QED BY <1>1, <1>9 DEF FoldSteps
<1>11. ASSUME NEW i \in 0 .. L - 1 PROVE h[i + 1] = Listed(m, h[i], Counting(0, block_slice_count - 1)[i + 1])
  <2> DEFINE r == g[1 .. i]
             j == i + 1
  <2>1. j \in 1 .. L /\ i \in 0 .. L /\ j \in 0 .. L /\ j = i + 1
    <3> HIDE DEF L
    <3> QED BY <1>1
  <2>2. r \in W /\ g[1 .. j] = step[j][r]
    <3> HIDE DEF g, step, W, L, base
    <3> QED BY <1>9, <2>1 DEF FoldSteps
  <2>3. h[i] = r /\ h[j] = g[1 .. j]
    <3> HIDE DEF g, L, j
    <3> QED BY <2>1
  <2> HIDE DEF g, L, W, r, h, j
  <2>4. step[j][r] = Listed(m, r, Counting(0, block_slice_count - 1)[j])
    BY <2>1, <2>2
  <2> QED BY <2>2, <2>3, <2>4 DEF j
<1> HIDE DEF h
<1> QED BY <1>1, <1>4, <1>10, <1>11

\* What list_segments gives are segments of the block.
LEMMA ListedAreRight ==
  ASSUME NEW n \in Nat, NEW b \in Nat, NEW m \in Kept(n, b)
  PROVE  ListSegments(m) \in Seq(Right(n, b))
<1>1. block_slice_count \in Nat
  BY SliceOfBlock
<1>2. PICK f \in [0 .. block_slice_count -> Seq(Right(n, b))] : f[block_slice_count] = ListSegments(m)
  BY ListUnfolds
<1> QED BY <1>1, <1>2

-----------------------------------------------------------------------------
(***************************************************************************)
(* Reading a disk block.                                                   *)
(***************************************************************************)
\* A range of a block of w bytes that starts and ends where slices do.
WholeRange(o, k, w) == o \in Edges /\ k \in Nat \ {0} /\ o + k <= w /\ (o + k \in Edges \/ o + k = w)

\* The position in the object of byte o of block b.
At(b, o) == Base(b) + o

\* A read of a range of a disk block that is right finds its checksums right,
\* and what it read is a right segment.
LEMMA DiskReadIsRight ==
  ASSUME NEW n \in Nat, NEW b \in Nat, NEW d \in Filed(n, b), NEW o, NEW k, WholeRange(o, k, block_size(n, b))
  PROVE  /\ DiskRead(d, o, k).st = "OK" /\ DiskRead(d, o, k).seg \in Right(n, b)
         /\ DiskRead(d, o, k).seg.offset = o
         /\ Cut(DiskRead(d, o, k).seg.buf, k, 0) = Bytes(At(b, o), k)
<1> DEFINE w == block_size(n, b)
           K == round_up(k, AlignUnit)
           buf == [j \in 1 .. K |-> d.data[o + j - 1]]
           g == Segment(o, k, buf)
           r == DiskRead(d, o, k)
<1>1. /\ o \in Edges /\ o \in Nat /\ k \in Nat \ {0} /\ o + k <= w /\ (o + k \in Edges \/ o + k = w)
      /\ w \in Int /\ w <= BlockSize /\ Base(b) \in Nat
  BY EdgeStart, BlockSizeIs DEF WholeRange
<1>2. d \in Files /\ RightBelow(d, n, b, w)
  BY DEF Filed
<1> HIDE DEF w
<1>3. K \in Nat /\ k <= K /\ o + K <= BlockSize
  <2>1. o <= BlockSize /\ BlockSize - o \in Edges /\ k <= BlockSize - o
    <3>1. o <= BlockSize
      BY <1>1, Units
    <3>2. BlockSize - o \in Edges
      BY <1>1, <3>1, BlockEdges, EdgeArithmetic
    <3> QED BY <1>1, <3>1, <3>2, Units
  <2>2. K \in Nat /\ k <= K /\ K <= BlockSize - o
    BY <1>1, <2>1, RoundUp
  <2> HIDE DEF K
  <2> QED BY <1>1, <2>2, Units
<1> HIDE DEF K
<1>4. ASSUME NEW j \in 1 .. K PROVE o + j - 1 \in 0 .. BlockSize - 1 /\ d.data[o + j - 1] \in ByteVal
  <2>1. o + j - 1 \in 0 .. BlockSize - 1
    BY <1>1, <1>3, Units
  <2> DEFINE x == o + j - 1
  <2> HIDE DEF x
  <2>2. x \in 0 .. BlockSize - 1 => d.data[x] \in ByteVal
    BY <1>2 DEF Files
  <2> QED BY <2>1, <2>2 DEF x
<1>5. buf \in Seq(ByteVal) /\ Len(buf) = K
  BY <1>3, <1>4
<1>6. ASSUME NEW j \in 1 .. k PROVE buf[j] = Base(b) + o + j - 1
  <2> DEFINE x == o + j - 1
  <2>1. j \in 1 .. K /\ x < w /\ x = o + j - 1
    BY <1>1, <1>3
  <2>2. buf[j] = d.data[x] /\ x \in 0 .. BlockSize - 1
    BY <1>4, <2>1
  <2> HIDE DEF x, buf
  <2>3. d.data[x] = Base(b) + x
    BY <1>2, <2>1, <2>2 DEF RightBelow
  <2> QED BY <1>1, <2>1, <2>2, <2>3
<1> HIDE DEF buf
<1>7. g \in Right(n, b) /\ g.offset = o /\ g.size = k /\ g.buf = buf
  BY <1>1, <1>5, <1>6 DEF Right, Segment, w, K
<1>8. r = Checked(d, g)
  BY DEF DiskRead, buf, K
<1> HIDE DEF r, g
<1>9. g.offset % SliceSize = 0
  <2>1. PICK s \in Nat : o = Start(s)
    BY <1>1 DEF Edges
  <2>2. o = SliceSize * s
    BY <2>1, Units DEF Start
  <2>3. (SliceSize * s) % SliceSize = 0
    BY Units, NoRest
  <2>4. o % SliceSize = 0
    BY <2>2, <2>3
  <2> QED BY <1>7, <2>4
<1>10. ASSUME NEW s \in SlicesOf(g) PROVE SliceBytes(g, s) = d.sums[s]
  <2>1. s \in Slice /\ s \in Covered(g) /\ s \in Nat
    BY <1>7, SliceBytesIs, SliceOfBlock
  <2>2. SliceBytes(g, s) = Bytes(Base(b) + Start(s), Lesser(SliceSize, w - Start(s)))
    BY <1>7, SliceBytesIs DEF w
  <2>3. Start(s) < o + k /\ Start(s) \in Nat
    BY <1>7, <2>1, CoveredIs, NextStart
  <2>4. Start(s) < w
    BY <1>1, <2>3
  <2>5. d.sums[s] = Bytes(Base(b) + Start(s), Lesser(SliceSize, w - Start(s)))
    BY <1>2, <2>1, <2>4 DEF RightBelow, w
  <2> QED BY <2>2, <2>5
<1>11. r.st = "OK" /\ r.seg = g
  BY <1>8, <1>9, <1>10 DEF Checked
<1>12. Cut(buf, k, 0) = Bytes(Base(b) + o, k)
  <2> DEFINE q == Base(b) + o
  <2>1. q \in Nat /\ \A j \in 1 .. k : buf[0 + j] = q + j - 1
    <3>1. q \in Nat
      BY <1>1
    <3>2. ASSUME NEW j \in 1 .. k PROVE buf[0 + j] = q + j - 1
      <4>1. buf[j] = Base(b) + o + j - 1 /\ 0 + j = j
        BY <1>1, <1>6
      <4> QED BY <4>1
    <3> QED BY <3>1, <3>2
  <2> HIDE DEF q
  <2>2. 0 + k <= Len(buf) /\ k \in Nat
    BY <1>1, <1>3, <1>5
  <2>3. Cut(buf, k, 0) = Bytes(q, k)
    BY <1>5, <2>1, <2>2, CutBytes
  <2> QED BY <2>3 DEF q
<1> QED BY <1>7, <1>11, <1>12 DEF r, At

-----------------------------------------------------------------------------
(***************************************************************************)
(* Reading a memory block.                                                 *)
(***************************************************************************)
Parts == [offset : Nat, size : Nat, buf : Seq(ByteVal)]

\* The part of block b from u on, of k bytes.
Part(b, u, k) == Segment(u, k, Bytes(Base(b) + u, k))

\* Where the i-th part ends, and the range before the first.
From(ps, o, i) == IF i = 0 THEN o ELSE ps[i].offset + ps[i].size

\* ps are the parts that the memory block has of the range from o to e, in
\* their order.
Got(ps, n, b, m, o, e) ==
  /\ ps \in Seq(Parts)
  /\ \A i \in 1 .. Len(ps) :
       /\ ps[i].offset \in Edges /\ ps[i].size \in Nat \ {0}
       /\ From(ps, o, i) \in Edges \/ From(ps, o, i) = block_size(n, b)
       /\ From(ps, o, i) <= block_size(n, b)
       /\ ps[i] = Part(b, ps[i].offset, ps[i].size)
       /\ From(ps, o, i - 1) <= ps[i].offset
       /\ \A s \in Slice : From(ps, o, i - 1) <= Start(s) /\ Start(s) < ps[i].offset => m[s] = None
       /\ \A s \in Slice : ps[i].offset <= Start(s) /\ Start(s) < From(ps, o, i) => m[s] # None
  /\ From(ps, o, Len(ps)) \in Nat /\ From(ps, o, Len(ps)) <= e
  /\ \A s \in Slice : From(ps, o, Len(ps)) <= Start(s) /\ Start(s) < e => m[s] = None

\* A run that its segment covers gives a part.
LEMMA TakeRunIs ==
  ASSUME NEW n \in Nat, NEW b \in Nat, NEW c, c.seg \in Right(n, b), c.seg # None, NEW k \in Nat,
         c.off \in Nat, c.seg.offset <= c.off, c.off + k <= c.seg.offset + c.seg.size
  PROVE  TakeRun(c, k) = Append(c.got, Part(b, c.off, k))
<1> DEFINE g == c.seg
           u == c.off
           buf == g.buf
           pos == u - g.offset
           q == Base(b) + u
           a == Cut(buf, k, pos)
<1>1. g \in Right(n, b) /\ u \in Nat /\ g.offset <= u /\ u + k <= g.offset + g.size
  OBVIOUS
<1>2. TakeRun(c, k) = Append(c.got, Segment(u, Len(a), a))
  BY DEF TakeRun
<1> DEFINE f == g.offset
           l == g.size
           B == Base(b)
<1> HIDE DEF g, u
<1>3. /\ f \in Nat /\ l \in Nat /\ buf \in Seq(ByteVal) /\ Len(buf) \in Nat /\ l <= Len(buf)
      /\ \A j \in 1 .. l : buf[j] = B + f + j - 1
  <2>1. /\ g.offset \in Nat /\ g.size \in Nat \ {0} /\ g.buf \in Seq(ByteVal) /\ Len(g.buf) \in Nat /\ g.size <= Len(g.buf)
        /\ \A j \in 1 .. g.size : g.buf[j] = Base(b) + g.offset + j - 1
    BY <1>1, RightIs
  <2> QED BY <2>1
<1>4. B \in Nat
  BY BlockSizeIs
<1> HIDE DEF buf, f, l, B
<1>5. pos \in Nat /\ pos + k <= l /\ f + pos = u
  <2>1. f <= u /\ u + k <= f + l
    BY <1>1 DEF f, l
  <2>2. pos = u - f
    BY DEF f
  <2> HIDE DEF pos
  <2> QED BY <1>1, <1>3, <2>1, <2>2
<1>6. q \in Nat /\ q = B + u
  BY <1>1, <1>4 DEF B
<1> HIDE DEF pos, q
<1>7. a = Bytes(q, k)
  <2>1. ASSUME NEW j \in 1 .. k PROVE buf[pos + j] = q + j - 1
    <3>1. pos + j \in 1 .. l
      BY <1>3, <1>5
    <3>2. buf[pos + j] = B + f + (pos + j) - 1
      BY <1>3, <3>1
    <3>3. B + f + (pos + j) - 1 = q + j - 1
      BY <1>1, <1>3, <1>4, <1>5, <1>6
    <3> QED BY <3>2, <3>3
  <2>2. pos + k <= Len(buf)
    BY <1>3, <1>5
  <2>3. \A j \in 1 .. k : buf[pos + j] = q + j - 1
    BY <2>1
  <2>4. buf \in Seq(ByteVal) /\ k \in Nat /\ pos \in Nat /\ q \in Nat
    BY <1>3, <1>5, <1>6
  <2>5. Cut(buf, k, pos) = Bytes(q, k)
    BY <2>2, <2>3, <2>4, CutBytes
  <2> QED BY <2>5
<1> HIDE DEF a
<1>8. Len(a) = k
  BY <1>6, <1>7, BytesType
<1>9. TakeRun(c, k) = Append(c.got, Segment(u, k, Bytes(q, k)))
  BY <1>2, <1>7, <1>8
<1> QED BY <1>9, Zenon DEF Part, q, u

\* A part is one of the parts.
LEMMA PartIs ==
  ASSUME NEW n \in Nat, NEW b \in Nat, NEW u \in Nat, NEW k \in Nat, n <= MaxSize, u + k <= block_size(n, b)
  PROVE  /\ Part(b, u, k) \in Parts /\ Part(b, u, k).offset = u /\ Part(b, u, k).size = k
         /\ Part(b, u, k).buf = Bytes(Base(b) + u, k) /\ Len(Part(b, u, k).buf) = k
<1>1. Base(b) + u \in Nat /\ Base(b) + u + k <= MaxSize
  <2> DEFINE B == Base(b)
             w == block_size(n, b)
  <2>1. B \in Nat /\ w \in Int /\ B + w <= n /\ u + k <= w /\ MaxSize \in Nat
    BY BlockSizeIs, Units
  <2> HIDE DEF B, w
  <2>2. B + u \in Nat /\ B + u + k <= MaxSize
    BY <2>1
  <2> QED BY <2>2 DEF B
<1> DEFINE q == Base(b) + u
<1>2. q \in Nat /\ q + k <= MaxSize
  BY <1>1
<1> HIDE DEF q
<1>3. Bytes(q, k) \in Seq(ByteVal) /\ Len(Bytes(q, k)) = k
  BY <1>2, BytesType
<1>4. Part(b, u, k) = Segment(u, k, Bytes(q, k))
  BY DEF Part, q
<1> QED BY <1>3, <1>4 DEF Parts, Segment, q

\* One more part.
LEMMA GotMore ==
  ASSUME NEW n \in Nat, NEW b \in Nat, n <= MaxSize, NEW m \in Kept(n, b), NEW o \in Edges, NEW ps, NEW u \in Edges,
         Got(ps, n, b, m, o, u), NEW k \in Nat \ {0}, u + k <= block_size(n, b),
         u + k \in Edges \/ u + k = block_size(n, b),
         \A s \in Slice : u <= Start(s) /\ Start(s) < u + k => m[s] # None
  PROVE  Got(Append(ps, Part(b, u, k)), n, b, m, o, u + k)
<1> DEFINE L == Len(ps)
           x == Part(b, u, k)
           qs == Append(ps, x)
           e == u + k
           w == block_size(n, b)
<1>1. u \in Nat /\ o \in Nat /\ w \in Int /\ e \in Nat
  <2>1. u \in Nat /\ o \in Nat
    BY EdgeStart
  <2>2. w \in Int
    BY BlockSizeIs
  <2> QED BY <2>1, <2>2
<1>2. x \in Parts /\ x.offset = u /\ x.size = k
  BY <1>1, PartIs
<1>3. x = Part(b, x.offset, x.size)
  BY <1>2
<1> HIDE DEF x, e, w
<1>4. /\ ps \in Seq(Parts) /\ L \in Nat
      /\ From(ps, o, L) \in Nat /\ From(ps, o, L) <= u
      /\ \A s \in Slice : From(ps, o, L) <= Start(s) /\ Start(s) < u => m[s] = None
  BY DEF Got
<1>5. /\ qs \in Seq(Parts) /\ Len(qs) = L + 1 /\ qs[L + 1] = x
      /\ \A i \in 1 .. L : qs[i] = ps[i]
  BY <1>2, <1>4
<1> HIDE DEF qs, L
<1>6. From(qs, o, L + 1) = e
  BY <1>2, <1>4, <1>5 DEF From, e
<1>7. \A i \in 0 .. L : From(qs, o, i) = From(ps, o, i)
  BY <1>4, <1>5 DEF From
<1>8. ASSUME NEW i \in 1 .. L + 1
      PROVE  /\ qs[i].offset \in Edges /\ qs[i].size \in Nat \ {0}
             /\ From(qs, o, i) \in Edges \/ From(qs, o, i) = w
             /\ From(qs, o, i) <= w
             /\ qs[i] = Part(b, qs[i].offset, qs[i].size)
             /\ From(qs, o, i - 1) <= qs[i].offset
             /\ \A s \in Slice : From(qs, o, i - 1) <= Start(s) /\ Start(s) < qs[i].offset => m[s] = None
             /\ \A s \in Slice : qs[i].offset <= Start(s) /\ Start(s) < From(qs, o, i) => m[s] # None
  <2>1. CASE i = L + 1
    <3>1. qs[i] = x /\ From(qs, o, i) = e /\ From(qs, o, i - 1) = From(ps, o, L)
      BY <1>4, <1>5, <1>6, <1>7, <2>1
    <3> QED BY <1>2, <1>3, <1>4, <3>1 DEF e, w
  <2>2. CASE i # L + 1
    <3>1. i \in 1 .. L /\ i \in 0 .. L /\ i - 1 \in 0 .. L
      BY <1>4, <2>2
    <3>2. qs[i] = ps[i] /\ From(qs, o, i) = From(ps, o, i) /\ From(qs, o, i - 1) = From(ps, o, i - 1)
      BY <1>5, <1>7, <3>1
    <3>3. /\ ps[i].offset \in Edges /\ ps[i].size \in Nat \ {0}
          /\ From(ps, o, i) \in Edges \/ From(ps, o, i) = w
          /\ From(ps, o, i) <= w
          /\ ps[i] = Part(b, ps[i].offset, ps[i].size)
          /\ From(ps, o, i - 1) <= ps[i].offset
          /\ \A s \in Slice : From(ps, o, i - 1) <= Start(s) /\ Start(s) < ps[i].offset => m[s] = None
          /\ \A s \in Slice : ps[i].offset <= Start(s) /\ Start(s) < From(ps, o, i) => m[s] # None
      BY <3>1 DEF Got, w, L
    <3> QED BY <3>2, <3>3
  <2> QED BY <2>1, <2>2
<1>9. /\ From(qs, o, Len(qs)) \in Nat /\ From(qs, o, Len(qs)) <= e
      /\ \A s \in Slice : From(qs, o, Len(qs)) <= Start(s) /\ Start(s) < e => m[s] = None
  <2>1. \A s \in Slice : Start(s) \in Nat
    BY SliceOfBlock, NextStart
  <2> QED BY <1>1, <1>5, <1>6, <2>1
<1>10. Got(qs, n, b, m, o, e)
  BY <1>5, <1>8, <1>9 DEF Got, w
<1> QED BY <1>10 DEF qs, e, x

\* Nothing more.
LEMMA GotNone ==
  ASSUME NEW n \in Nat, NEW b \in Nat, NEW m, NEW o \in Edges, NEW ps, NEW u \in Nat, NEW e \in Nat,
         Got(ps, n, b, m, o, u), u <= e, \A s \in Slice : u <= Start(s) /\ Start(s) < e => m[s] = None
  PROVE  Got(ps, n, b, m, o, e)
<1>1. /\ From(ps, o, Len(ps)) \in Nat /\ From(ps, o, Len(ps)) <= u
      /\ \A s \in Slice : From(ps, o, Len(ps)) <= Start(s) /\ Start(s) < u => m[s] = None
  BY DEF Got
<1>2. \A s \in Slice : Start(s) \in Nat
  BY SliceOfBlock, NextStart
<1>3. /\ From(ps, o, Len(ps)) <= e
      /\ \A s \in Slice : From(ps, o, Len(ps)) <= Start(s) /\ Start(s) < e => m[s] = None
  BY <1>1, <1>2
<1> QED BY <1>1, <1>3 DEF Got

\* The slices of a range.
LEMMA RangeIs ==
  ASSUME NEW n \in Nat, NEW b \in Nat, NEW o, NEW k, WholeRange(o, k, block_size(n, b))
  PROVE  LET lo == off2slice(o)
             hi == off2slice(o + k - 1)
         IN  /\ o \in Edges /\ o \in Nat /\ k \in Nat \ {0} /\ o + k \in Nat /\ o + k <= block_size(n, b)
             /\ o + k \in Edges \/ o + k = block_size(n, b)
             /\ lo \in Nat /\ hi \in Nat /\ lo <= hi /\ \A s \in lo .. hi : s \in Slice
             /\ Start(lo) = o /\ Start(hi) < o + k /\ o + k <= Start(hi) + SliceSize
<1> DEFINE lo == off2slice(o)
           e == o + k
           hi == off2slice(e - 1)
           w == block_size(n, b)
<1>1. /\ o \in Edges /\ o \in Nat /\ k \in Nat \ {0} /\ e <= w /\ (e \in Edges \/ e = w)
      /\ w \in Int /\ w <= BlockSize
  BY EdgeStart, BlockSizeIs DEF WholeRange
<1>2. e \in Nat /\ e - 1 \in Nat /\ o < e
  BY <1>1
<1>3. lo \in Nat /\ o = Start(lo)
  BY <1>1, EdgeStart
<1>4. hi \in Nat /\ Start(hi) <= e - 1 /\ e - 1 < Start(hi) + SliceSize /\ Start(hi) \in Nat
  BY <1>2, SliceOf
<1>5. off2slice(o + k - 1) = hi
  <2>1. o + k - 1 = e - 1
    BY <1>1
  <2> HIDE DEF e
  <2> QED BY <2>1
<1> HIDE DEF lo, hi, w, e
<1>6. lo <= hi
  <2>1. hi < lo => Start(hi) + SliceSize <= Start(lo)
    BY <1>3, <1>4, NextStart
  <2> QED BY <1>1, <1>2, <1>3, <1>4, <2>1, Units
<1>7. Start(hi) < e /\ e <= Start(hi) + SliceSize
  BY <1>2, <1>4, Units
<1>8. ASSUME NEW s \in lo .. hi PROVE s \in Slice
  <2>1. s \in Nat /\ s <= hi
    BY <1>3, <1>4
  <2>2. Start(s) <= Start(hi) /\ Start(s) \in Nat
    BY <1>4, <2>1, NextStart
  <2>3. Start(s) < BlockSize
    BY <1>1, <1>2, <1>4, <1>7, <2>2, Units
  <2> QED BY <2>1, <2>3, SliceOfBlock
<1> QED BY <1>1, <1>2, <1>3, <1>4, <1>5, <1>6, <1>7, <1>8 DEF lo, e, w

\* Where a slice of a block starts.
LEMMA LowerIs ==
  ASSUME NEW s \in Slice
  PROVE  s \in Nat /\ Start(s) \in Nat /\ Start(s) \in Edges /\ slice_lower(s) = Start(s)
<1>1. s \in Nat /\ Start(s) < BlockSize
  BY SliceOfBlock
<1>2. Start(s) \in Nat /\ Start(s) < U32
  BY <1>1, Units, NextStart
<1> QED BY <1>1, <1>2, SliceBounds DEF Edges

\* The state of the loop of read_block.
RunState(n, b) ==
  {c \in [seg : Right(n, b) \cup {None}, off : Nat, size : Int, got : Seq(Parts)] :
     c.seg # None => c.seg.offset <= c.off}

\* A run is added to what was read.
LEMMA TakeRunType ==
  ASSUME NEW n \in Nat, NEW b \in Nat, NEW c \in RunState(n, b), NEW k \in Int
  PROVE  TakeRun(c, k) \in Seq(Parts)
<1>1. CASE c.seg = None
  BY <1>1 DEF TakeRun, RunState
<1>2. CASE c.seg # None
  <2> DEFINE g == c.seg
             buf == g.buf
             pos == c.off - g.offset
             a == Cut(buf, k, pos)
  <2>1. g \in Right(n, b) /\ c.off \in Nat /\ g.offset <= c.off /\ c.got \in Seq(Parts)
    BY <1>2 DEF RunState
  <2>2. TakeRun(c, k) = Append(c.got, Segment(c.off, Len(a), a))
    BY <1>2 DEF TakeRun
  <2> HIDE DEF g
  <2>3. buf \in Seq(ByteVal) /\ pos \in Nat
    BY <2>1, RightIs
  <2> HIDE DEF buf, pos
  <2>4. a \in Seq(ByteVal)
    BY <2>3, CutIs
  <2> HIDE DEF a
  <2>5. Segment(c.off, Len(a), a) \in Parts
    BY <2>1, <2>4 DEF Segment, Parts
  <2> QED BY <2>1, <2>2, <2>5
<1> QED BY <1>1, <1>2

\* A turn of the loop over the slices keeps its state in shape.
LEMMA NextSliceType ==
  ASSUME NEW n \in Nat, NEW b \in Nat, NEW m \in Kept(n, b), NEW c \in RunState(n, b), NEW s \in Slice
  PROVE  NextSlice(m, c, s) \in RunState(n, b)
<1> DEFINE x == slice_lower(s)
           y == c.size - (x - c.off)
           z == x - c.off
           t == TakeRun(c, z)
<1>1. x \in Nat /\ x = Start(s)
  BY LowerIs
<1> HIDE DEF x
<1>2. c.off \in Nat /\ c.size \in Int
  BY DEF RunState
<1>3. y \in Int /\ z \in Int
  BY <1>1, <1>2
<1> HIDE DEF z
<1>4. t \in Seq(Parts)
  BY <1>3, TakeRunType
<1>5. m[s] \in Right(n, b) \cup {None} /\ (m[s] # None => m[s].offset <= x)
  <2>1. CASE m[s] # None
    <3>1. m[s] \in Right(n, b) /\ s \in Covered(m[s])
      BY <2>1, KeptIs
    <3> QED BY <1>1, <3>1, LowerIs, CoveredIs
  <2> QED BY <2>1
<1>6. NextSlice(m, c, s) = c \/ NextSlice(m, c, s) = [seg |-> m[s], off |-> x, size |-> y, got |-> t]
  BY DEF NextSlice, x, z
<1> HIDE DEF y, t
<1> QED BY <1>1, <1>3, <1>4, <1>5, <1>6 DEF RunState

\* The slices after the first.
LEMMA RestIs ==
  ASSUME NEW n \in Nat, NEW b \in Nat, NEW o, NEW k, WholeRange(o, k, block_size(n, b))
  PROVE  /\ off2slice(o + k - 1) - off2slice(o) \in Nat
         /\ DOMAIN Counting(off2slice(o) + 1, off2slice(o + k - 1)) = 1 .. (off2slice(o + k - 1) - off2slice(o))
         /\ \A i \in 1 .. (off2slice(o + k - 1) - off2slice(o)) :
              /\ Counting(off2slice(o) + 1, off2slice(o + k - 1))[i] = off2slice(o) + i
              /\ Counting(off2slice(o) + 1, off2slice(o + k - 1))[i] \in Slice
<1> DEFINE lo == off2slice(o)
           hi == off2slice(o + k - 1)
           a == lo + 1
           L == hi - lo
<1>1. lo \in Nat /\ hi \in Nat /\ lo <= hi /\ \A s \in lo .. hi : s \in Slice
  BY RangeIs
<1> HIDE DEF lo, hi
<1>2. a \in Nat /\ L \in Nat /\ hi \in Int /\ hi = a + L - 1
  BY <1>1
<1> HIDE DEF a, L
<1>3. DOMAIN Counting(a, hi) = 1 .. L /\ \A j \in 1 .. L : Counting(a, hi)[j] = a + j - 1
  BY <1>2, CountingIs
<1>4. ASSUME NEW i \in 1 .. L PROVE Counting(a, hi)[i] = lo + i /\ Counting(a, hi)[i] \in Slice
  <2>1. a + i - 1 = lo + i /\ lo + i \in lo .. hi
    BY <1>1, <1>2 DEF a, L
  <2> QED BY <1>1, <1>3, <2>1
<1> QED BY <1>2, <1>3, <1>4 DEF a, L, lo, hi

\* One slice after the other.
LEMMA RunsUnfold ==
  ASSUME NEW n \in Nat, NEW b \in Nat, NEW m \in Kept(n, b), NEW o, NEW k, WholeRange(o, k, block_size(n, b))
  PROVE  \E f \in [0 .. (off2slice(o + k - 1) - off2slice(o)) -> RunState(n, b)] :
           /\ f[0] = [seg |-> m[off2slice(o)], off |-> o, size |-> k, got |-> << >>]
           /\ f[(off2slice(o + k - 1) - off2slice(o))] = Runs(m, o, k)
           /\ \A i \in 0 .. (off2slice(o + k - 1) - off2slice(o)) - 1 :
                f[i + 1] = NextSlice(m, f[i], Counting(off2slice(o) + 1, off2slice(o + k - 1))[i + 1])
<1> DEFINE L == (off2slice(o + k - 1) - off2slice(o))
           W == RunState(n, b)
           base == [seg |-> m[off2slice(o)], off |-> o, size |-> k, got |-> << >>]
           step == [i \in 1 .. L |-> [w \in W |-> NextSlice(m, w, Counting(off2slice(o) + 1, off2slice(o + k - 1))[i])]]
           Is(g) == g = [t \in SUBSET (DOMAIN Counting(off2slice(o) + 1, off2slice(o + k - 1))) |->
                           IF t = {} THEN [seg |-> m[off2slice(o)], off |-> o, size |-> k, got |-> << >>]
                           ELSE NextSlice(m, g[t \ {Max(t)}], Counting(off2slice(o) + 1, off2slice(o + k - 1))[Max(t)])]
           g == CHOOSE x : Is(x)
<1>1. L \in Nat /\ DOMAIN Counting(off2slice(o) + 1, off2slice(o + k - 1)) = 1 .. L
  BY RestIs
<1>2. base \in W
  <2> DEFINE lo == off2slice(o)
  <2>1. lo \in Slice /\ lo \in Nat /\ Start(lo) = o /\ o \in Nat /\ k \in Nat
    <3>1. lo \in lo .. off2slice(o + k - 1)
      BY RangeIs
    <3> QED BY <3>1, RangeIs
  <2> HIDE DEF lo
  <2>2. m[lo] \in Right(n, b) \cup {None} /\ (m[lo] # None => m[lo].offset <= o)
    <3>1. CASE m[lo] # None
      <4>1. m[lo] \in Right(n, b) /\ lo \in Covered(m[lo])
        BY <2>1, <3>1, KeptIs
      <4> QED BY <2>1, <4>1, CoveredIs
    <3> QED BY <3>1
  <2> QED BY <2>1, <2>2 DEF RunState, lo
<1>3. ASSUME NEW i \in 1 .. L, NEW w \in W
      PROVE  NextSlice(m, w, Counting(off2slice(o) + 1, off2slice(o + k - 1))[i]) \in W
  <2> DEFINE s == Counting(off2slice(o) + 1, off2slice(o + k - 1))[i]
  <2>1. s \in Slice
    BY RestIs
  <2> HIDE DEF s
  <2>2. NextSlice(m, w, s) \in W
    BY <2>1, NextSliceType
  <2> QED BY <2>2 DEF s
<1>4. Runs(m, o, k) = g[DOMAIN Counting(off2slice(o) + 1, off2slice(o + k - 1))]
  BY DEF Runs, FoldLeft, MapThenFoldSet
<1>5. step \in [1 .. L -> [W -> W]]
  <2> HIDE DEF W, L
  <2> QED BY <1>3
<1>6. \A t \in SUBSET (1 .. L) : t # {} => Max(t) \in 1 .. L
  BY <1>1, MaxIs
<1>7. Is(g)
  <2>1. PICK f \in [SUBSET (1 .. L) -> W] : Folds(f, 1 .. L, base, step)
    <3> HIDE DEF W, L, base, step
    <3> QED BY <1>1, <1>2, <1>5, FoldExists
  <2>2. ASSUME NEW t \in SUBSET (1 .. L), t # {}
        PROVE  step[Max(t)][f[t \ {Max(t)}]]
                 = NextSlice(m, f[t \ {Max(t)}], Counting(off2slice(o) + 1, off2slice(o + k - 1))[Max(t)])
    <3> DEFINE r == f[t \ {Max(t)}]
               j == Max(t)
    <3>1. r \in W /\ j \in 1 .. L
      BY <1>6, <2>1, <2>2
    <3> HIDE DEF r, j, W, L
    <3>2. step[j][r] = NextSlice(m, r, Counting(off2slice(o) + 1, off2slice(o + k - 1))[j])
      BY <3>1
    <3> QED BY <3>2 DEF r, j
  <2>3. Is(f)
    <3> HIDE DEF step
    <3> QED BY <1>1, <2>1, <2>2 DEF Folds
  <2> HIDE DEF Is
  <2> QED BY <2>3
<1>8. Follows(g, L, W, base, step)
  <2>1. g[{}] = base
    <3> HIDE DEF g
    <3> QED BY <1>7
  <2>2. ASSUME NEW t \in SUBSET (1 .. L), t # {}, g[t \ {Max(t)}] \in W PROVE g[t] = step[Max(t)][g[t \ {Max(t)}]]
    <3> DEFINE r == g[t \ {Max(t)}]
               j == Max(t)
    <3>1. r \in W /\ j \in 1 .. L
      <4> HIDE DEF g
      <4> QED BY <1>6, <2>2
    <3>2. g[t] = NextSlice(m, r, Counting(off2slice(o) + 1, off2slice(o + k - 1))[j])
      <4> HIDE DEF g
      <4> QED BY <1>1, <1>7, <2>2
    <3> HIDE DEF r, j, W, L, g
    <3>3. step[j][r] = NextSlice(m, r, Counting(off2slice(o) + 1, off2slice(o + k - 1))[j])
      BY <3>1
    <3> QED BY <3>2, <3>3 DEF r, j
  <2> HIDE DEF g, step, W, base
  <2> QED BY <2>1, <2>2 DEF Follows
<1>9. FoldSteps(g, L, W, base, step)
  <2> HIDE DEF g, step, W, L, base
  <2> QED BY <1>1, <1>2, <1>5, <1>8, FoldFollows
<1> DEFINE h == [i \in 0 .. L |-> g[1 .. i]]
<1>10. h \in [0 .. L -> W] /\ h[0] = base /\ h[L] = g[1 .. L]
  <2> HIDE DEF g, step, W, L, base
  <2> QED BY <1>1, <1>9 DEF FoldSteps
<1>11. ASSUME NEW i \in 0 .. L - 1 PROVE h[i + 1] = NextSlice(m, h[i], Counting(off2slice(o) + 1, off2slice(o + k - 1))[i + 1])
  <2> DEFINE r == g[1 .. i]
             j == i + 1
  <2>1. j \in 1 .. L /\ i \in 0 .. L /\ j \in 0 .. L /\ j = i + 1
    <3> HIDE DEF L
    <3> QED BY <1>1
  <2>2. r \in W /\ g[1 .. j] = step[j][r]
    <3> HIDE DEF g, step, W, L, base
    <3> QED BY <1>9, <2>1 DEF FoldSteps
  <2>3. h[i] = r /\ h[j] = g[1 .. j]
    <3> HIDE DEF g, L, j
    <3> QED BY <2>1
  <2> HIDE DEF g, L, W, r, h, j
  <2>4. step[j][r] = NextSlice(m, r, Counting(off2slice(o) + 1, off2slice(o + k - 1))[j])
    BY <2>1, <2>2
  <2> QED BY <2>2, <2>3, <2>4 DEF j
<1> HIDE DEF h
<1> QED BY <1>1, <1>4, <1>10, <1>11

\* What is known of the loop of read_block after slice s.
RunSoFar(n, b, m, o, k, c, s) ==
  /\ c \in RunState(n, b) /\ c.seg = m[s]
  /\ c.off \in Edges /\ c.off <= Start(s) /\ c.size = o + k - c.off
  /\ \A t \in Slice : c.off <= Start(t) /\ t <= s => m[t] = c.seg
  /\ Got(c.got, n, b, m, o, c.off)

\* The run up to the end of slice s, or to the end of the range in it.
LEMMA GotRun ==
  ASSUME NEW n \in Nat, NEW b \in Nat, n <= MaxSize, NEW m \in Kept(n, b), NEW o \in Edges, NEW k \in Nat,
         NEW s \in Slice, NEW c, RunSoFar(n, b, m, o, k, c, s), NEW e \in Nat,
         Start(s) < e, e <= Start(s) + SliceSize, e <= block_size(n, b), e \in Edges \/ e = block_size(n, b)
  PROVE  Got(TakeRun(c, e - c.off), n, b, m, o, e)
<1> DEFINE u == c.off
           j == e - u
           w == block_size(n, b)
<1>1. /\ c.seg = m[s] /\ c.seg \in Right(n, b) \cup {None} /\ (c.seg # None => c.seg.offset <= u)
      /\ u \in Edges /\ u \in Nat /\ u <= Start(s)
      /\ \A t \in Slice : u <= Start(t) /\ t <= s => m[t] = c.seg
      /\ Got(c.got, n, b, m, o, u)
  BY DEF RunSoFar, RunState
<1>2. s \in Nat /\ Start(s) \in Nat /\ w \in Int
  BY LowerIs, BlockSizeIs
<1> HIDE DEF u, w
<1>3. j \in Nat \ {0} /\ u + j = e
  BY <1>1, <1>2
<1> HIDE DEF j
<1>4. ASSUME NEW t \in Slice, u <= Start(t), Start(t) < e PROVE m[t] = c.seg
  <2>1. t \in Nat /\ Start(t) \in Nat /\ (s < t => Start(s) + SliceSize <= Start(t))
    BY <1>2, LowerIs, NextStart
  <2>2. t <= s
    BY <1>2, <1>4, <2>1, Units
  <2> QED BY <1>1, <1>4, <2>2
<1>5. CASE c.seg = None
  <2>1. TakeRun(c, j) = c.got
    BY <1>5 DEF TakeRun
  <2>2. u <= e
    BY <1>1, <1>3
  <2>3. Got(c.got, n, b, m, o, e)
    BY <1>1, <1>4, <1>5, <2>2, GotNone
  <2> QED BY <2>1, <2>3 DEF j, u
<1>6. CASE c.seg # None
  <2> DEFINE end == c.seg.offset + c.seg.size
  <2>1. c.seg \in Right(n, b) /\ s \in Covered(c.seg)
    BY <1>1, <1>6, KeptIs
  <2>2. Start(s) + SliceSize <= end \/ end = w
    BY <1>2, <2>1, CoveredIs DEF w
  <2>3. end \in Nat
    BY <2>1, RightIs
  <2> HIDE DEF end
  <2>4. u + j <= end
    BY <1>2, <1>3, <2>2, <2>3, Units DEF w
  <2>5. TakeRun(c, j) = Append(c.got, Part(b, u, j))
    BY <1>1, <1>3, <1>6, <2>1, <2>4, TakeRunIs DEF u, end
  <2>6. \A t \in Slice : u <= Start(t) /\ Start(t) < u + j => m[t] # None
    BY <1>3, <1>4, <1>6
  <2>7. u + j <= w /\ (u + j \in Edges \/ u + j = w)
    BY <1>3 DEF w
  <2>8. Got(Append(c.got, Part(b, u, j)), n, b, m, o, u + j)
    <3>1. u + j <= block_size(n, b) /\ (u + j \in Edges \/ u + j = block_size(n, b))
      BY <2>7 DEF w
    <3> QED BY <1>1, <1>3, <2>6, <3>1, GotMore
  <2> QED BY <1>3, <2>5, <2>8 DEF u, j
<1> QED BY <1>5, <1>6

\* Nothing was read at the start.
LEMMA GotNothing ==
  ASSUME NEW n \in Nat, NEW b \in Nat, NEW m, NEW o \in Edges
  PROVE  Got(<< >>, n, b, m, o, o)
<1>1. o \in Nat /\ \A s \in Slice : Start(s) \in Nat
  BY EdgeStart, LowerIs
<1>2. Len(<< >>) = 0 /\ << >> \in Seq(Parts)
  OBVIOUS
<1>3. From(<< >>, o, 0) = o
  BY DEF From
<1> QED BY <1>1, <1>2, <1>3 DEF Got

\* One slice more.
LEMMA RunStep ==
  ASSUME NEW n \in Nat, NEW b \in Nat, n <= MaxSize, NEW m \in Kept(n, b), NEW o \in Edges, NEW k \in Nat,
         NEW s \in Slice, s + 1 \in Slice, NEW c, RunSoFar(n, b, m, o, k, c, s), Start(s + 1) < block_size(n, b)
  PROVE  RunSoFar(n, b, m, o, k, NextSlice(m, c, s + 1), s + 1)
<1> DEFINE r == s + 1
           x == Start(r)
           z == x - c.off
           d == NextSlice(m, c, r)
<1>1. s \in Nat /\ r \in Nat /\ r = s + 1 /\ Start(s) \in Nat /\ x \in Nat /\ x = Start(s) + SliceSize
  BY LowerIs, NextStart
<1>2. r \in Slice /\ x \in Edges /\ slice_lower(r) = x
  BY LowerIs
<1>3. d \in RunState(n, b)
  <2>1. c \in RunState(n, b)
    BY DEF RunSoFar
  <2> QED BY <1>2, <2>1, NextSliceType
<1>4. /\ c.seg = m[s]
      /\ c.off \in Edges /\ c.off \in Nat /\ c.off <= Start(s) /\ c.size = o + k - c.off
      /\ \A t \in Slice : c.off <= Start(t) /\ t <= s => m[t] = c.seg
      /\ Got(c.got, n, b, m, o, c.off)
  BY DEF RunSoFar, RunState
<1>5. CASE m[r] = c.seg
  <2>1. d = c
    BY <1>5 DEF NextSlice
  <2>2. c.off <= x
    BY <1>1, <1>4, Units
  <2>3. ASSUME NEW t \in Slice, c.off <= Start(t), t <= r PROVE m[t] = c.seg
    <3>1. t = r \/ t <= s
      BY <1>1, <2>3, LowerIs
    <3> QED BY <1>4, <1>5, <2>3, <3>1
  <2> HIDE DEF d, x, r
  <2>4. RunSoFar(n, b, m, o, k, c, r)
    BY <1>3, <1>4, <1>5, <2>1, <2>2, <2>3 DEF RunSoFar, x
  <2> QED BY <2>1, <2>4 DEF d, r
<1>6. CASE m[r] # c.seg
  <2>1. d = [seg |-> m[r], off |-> x, size |-> c.size - z, got |-> TakeRun(c, z)]
    BY <1>2, <1>6 DEF NextSlice
  <2>2. Got(TakeRun(c, z), n, b, m, o, x)
    <3>1. Start(s) < x /\ x <= Start(s) + SliceSize /\ x <= block_size(n, b)
      <4>1. x < block_size(n, b)
        OBVIOUS
      <4>2. block_size(n, b) \in Int
        BY BlockSizeIs
      <4>3. Start(s) \in Nat /\ x \in Nat /\ x = Start(s) + SliceSize
        BY <1>1
      <4> HIDE DEF x
      <4> QED BY <4>1, <4>2, <4>3, Units
    <3> HIDE DEF x, r
    <3> QED BY <1>1, <1>2, <3>1, GotRun
  <2>3. c.size - z = o + k - x
    <3>1. o \in Nat /\ z = x - c.off
      BY EdgeStart
    <3> HIDE DEF z, x
    <3> QED BY <1>1, <1>4, <3>1
  <2>4. ASSUME NEW t \in Slice, x <= Start(t), t <= r PROVE m[t] = m[r]
    <3>1. t \in Nat /\ Start(t) \in Nat /\ (t < r => Start(t) + SliceSize <= x)
      BY <1>1, LowerIs, NextStart
    <3> HIDE DEF x, r
    <3>2. ~(t < r)
      BY <1>1, <2>4, <3>1, Units
    <3>3. t = r
      BY <1>1, <2>4, <3>1, <3>2
    <3> QED BY <3>3
  <2> HIDE DEF d, x, r, z
  <2>5. d.seg = m[r] /\ d.off = x /\ d.size = o + k - x /\ d.got = TakeRun(c, z)
    BY <2>1, <2>3
  <2>6. d.off <= Start(r)
    BY <1>1, <2>5 DEF x
  <2>7. RunSoFar(n, b, m, o, k, d, r)
    BY <1>2, <1>3, <2>2, <2>4, <2>5, <2>6 DEF RunSoFar
  <2> QED BY <2>7 DEF d, r
<1> QED BY <1>5, <1>6

\* read_block gives the parts of the range that the memory block has.
LEMMA MemReadIs ==
  ASSUME NEW n \in Nat, NEW b \in Nat, n <= MaxSize, NEW m \in Kept(n, b), NEW o, NEW k,
         WholeRange(o, k, block_size(n, b))
  PROVE  Got(MemRead(m, o, k), n, b, m, o, o + k)
<1> DEFINE lo == off2slice(o)
           hi == off2slice(o + k - 1)
           L == hi - lo
           a(i) == Counting(lo + 1, hi)[i]
           first == [seg |-> m[lo], off |-> o, size |-> k, got |-> << >>]
           e == o + k
<1>1. /\ o \in Edges /\ o \in Nat /\ k \in Nat \ {0} /\ e \in Nat /\ e <= block_size(n, b)
      /\ e \in Edges \/ e = block_size(n, b)
      /\ lo \in Nat /\ hi \in Nat /\ lo <= hi /\ \A s \in lo .. hi : s \in Slice
      /\ Start(lo) = o /\ Start(hi) < e /\ e <= Start(hi) + SliceSize
  BY RangeIs
<1>2. L \in Nat /\ \A i \in 1 .. L : a(i) = lo + i
  BY RestIs
<1>3. PICK f \in [0 .. L -> RunState(n, b)] :
        /\ f[0] = first /\ f[L] = Runs(m, o, k)
        /\ \A i \in 0 .. L - 1 : f[i + 1] = NextSlice(m, f[i], a(i + 1))
  BY RunsUnfold
<1> HIDE DEF a
<1>4. \A i \in 0 .. L - 1 : f[i + 1] = NextSlice(m, f[i], lo + i + 1)
  <2> TAKE i \in 0 .. L - 1
  <2> DEFINE j == i + 1
  <2>1. j \in 1 .. L /\ lo + j = lo + i + 1
    BY <1>1, <1>2
  <2>2. f[j] = NextSlice(m, f[i], a(j))
    BY <1>3
  <2> HIDE DEF j
  <2>3. f[j] = NextSlice(m, f[i], lo + j)
    BY <1>2, <2>1, <2>2
  <2>4. f[j] = NextSlice(m, f[i], lo + i + 1)
    BY <2>1, <2>3
  <2> QED BY <2>4 DEF j
<1> HIDE DEF lo, hi, L, e
<1> DEFINE Good == {i \in 0 .. L : RunSoFar(n, b, m, o, k, f[i], lo + i)}
<1>5. 0 \in Good
  <2> HIDE DEF first
  <2>1. f[0] \in RunState(n, b) /\ f[0] = first
    BY <1>2, <1>3
  <2>2. first.seg = m[lo] /\ first.off = o /\ first.size = k /\ first.got = << >>
    BY DEF first
  <2>3. Got(<< >>, n, b, m, o, o)
    BY <1>1, GotNothing
  <2>4. ASSUME NEW t \in Slice, o <= Start(t), t <= lo PROVE m[t] = m[lo]
    <3>1. t \in Nat /\ Start(t) \in Nat /\ (t < lo => Start(t) + SliceSize <= Start(lo))
      BY <1>1, LowerIs, NextStart
    <3>2. lo \in Nat /\ o \in Nat /\ Start(lo) = o
      BY <1>1
    <3>3. SliceSize \in Nat \ {0}
      BY Units
    <3>4. o <= Start(t) /\ t <= lo /\ Start(t) \in Nat
      BY <2>4, <3>1
    <3>5. ~(t < lo)
      <4>1. t < lo => Start(t) + SliceSize <= o
        BY <3>1, <3>2
      <4> QED BY <3>2, <3>3, <3>4, <4>1
    <3>6. t = lo
      BY <3>1, <3>2, <3>4, <3>5
    <3> QED BY <3>6
  <2>5. lo + 0 = lo /\ k = o + k - o /\ o <= Start(lo)
    BY <1>1
  <2>6. RunSoFar(n, b, m, o, k, first, lo)
    BY <1>1, <2>1, <2>2, <2>3, <2>4, <2>5 DEF RunSoFar
  <2> QED BY <1>2, <2>1, <2>5, <2>6
<1>6. ASSUME NEW i \in 0 .. L - 1, i \in Good PROVE i + 1 \in Good
  <2> DEFINE s == lo + i
             j == i + 1
  <2>1. s \in lo .. hi /\ s + 1 \in lo .. hi /\ s + 1 = lo + i + 1 /\ s + 1 = lo + j /\ j \in 0 .. L
    BY <1>1, <1>2 DEF L
  <2>2. RunSoFar(n, b, m, o, k, f[i], s)
    BY <1>6
  <2>3. f[j] = NextSlice(m, f[i], s + 1)
    BY <1>4, <2>1
  <2> HIDE DEF s, j
  <2>4. s \in Slice /\ s + 1 \in Slice
    BY <1>1, <2>1
  <2>5. Start(s + 1) < block_size(n, b)
    <3>1. s + 1 \in Nat /\ s + 1 <= hi
      BY <1>1, <2>1
    <3>2. Start(s + 1) <= Start(hi) /\ Start(s + 1) \in Nat /\ Start(hi) \in Nat
      BY <1>1, <3>1, NextStart
    <3>3. Start(hi) < e /\ e <= block_size(n, b) /\ e \in Nat
      BY <1>1
    <3>4. block_size(n, b) \in Int
      BY BlockSizeIs
    <3> QED BY <3>2, <3>3, <3>4
  <2>6. RunSoFar(n, b, m, o, k, NextSlice(m, f[i], s + 1), s + 1)
    BY <1>1, <2>2, <2>4, <2>5, RunStep
  <2> QED BY <2>1, <2>3, <2>6 DEF j
<1>7. L \in Good
  <2> HIDE DEF Good
  <2>1. \A i \in 0 .. L : i \in Good
    BY <1>2, <1>5, <1>6, UpTo
  <2> QED BY <1>2, <2>1
<1> DEFINE c == Runs(m, o, k)
<1>8. RunSoFar(n, b, m, o, k, c, hi)
  <2>1. lo + L = hi
    BY <1>1 DEF L
  <2> QED BY <1>3, <1>7, <2>1
<1> HIDE DEF c
<1>9. hi \in Slice
  BY <1>1
<1>10. c.size = e - c.off
  <2>1. c.size = o + k - c.off /\ c.off \in Nat
    BY <1>8, EdgeStart DEF RunSoFar
  <2> QED BY <1>1, <2>1 DEF e
<1>11. Got(TakeRun(c, e - c.off), n, b, m, o, e)
  BY <1>1, <1>8, <1>9, GotRun
<1>12. MemRead(m, o, k) = TakeRun(c, c.size)
  BY <1>1 DEF MemRead, c
<1> QED BY <1>10, <1>11, <1>12 DEF e

-----------------------------------------------------------------------------
(***************************************************************************)
(* Putting a range of a block together.                                    *)
(***************************************************************************)
\* The state of the loop of _read_block.
PieceState(n, b) ==
  [st : {"OK", "ENOENT"}, cursor : {e \in Nat : e \in Edges \/ e = block_size(n, b)},
   buf : Seq(ByteVal), disk : Seq(Right(n, b))]

\* The bytes of a block from o to before e.
Content(b, o, e) == Bytes(Base(b) + o, e - o)

\* The bytes of a part of a block.
LEMMA ContentIs ==
  ASSUME NEW n \in Nat, NEW b \in Nat, n <= MaxSize, NEW o \in Nat, NEW k \in Nat, NEW e \in Nat, e = o + k,
         e <= block_size(n, b)
  PROVE  /\ Content(b, o, e) = Bytes(Base(b) + o, k)
         /\ Content(b, o, e) \in Seq(ByteVal) /\ Len(Content(b, o, e)) = k
<1> DEFINE q == Base(b) + o
           w == block_size(n, b)
<1>1. Base(b) \in Nat /\ w \in Int /\ Base(b) + w <= n /\ MaxSize \in Nat /\ e <= w
  BY BlockSizeIs, Units
<1> HIDE DEF w
<1>2. q \in Nat /\ q + k <= MaxSize /\ e - o = k
  BY <1>1
<1>3. Content(b, o, e) = Bytes(q, e - o)
  BY DEF Content
<1> HIDE DEF q
<1>4. Content(b, o, e) = Bytes(q, k)
  BY <1>2, <1>3
<1>5. Bytes(q, k) \in Seq(ByteVal) /\ Len(Bytes(q, k)) = k
  BY <1>2, BytesType
<1> QED BY <1>4, <1>5 DEF q

\* What meets is one range.
LEMMA ContentMeets ==
  ASSUME NEW b \in Nat, NEW o \in Nat, NEW u \in Nat, NEW e \in Nat, o <= u, u <= e
  PROVE  Joined(Content(b, o, u), Content(b, u, e)) = Content(b, o, e)
<1> DEFINE q == Base(b) + o
           x == Base(b) + u
           j == u - o
           k == e - u
           y == e - o
<1>1. Base(b) \in Nat
  BY BlocksAre, BlockSizeIs
<1>2. /\ q \in Nat /\ x \in Nat /\ j \in Nat /\ k \in Nat /\ y \in Nat
      /\ Reach(q, j, x) /\ Reach(j, k, y)
  BY <1>1 DEF Reach
<1>3. Content(b, o, u) = Bytes(q, j) /\ Content(b, u, e) = Bytes(x, k) /\ Content(b, o, e) = Bytes(q, y)
  BY Zenon DEF Content
<1> HIDE DEF q, j, k, x, y
<1>4. Joined(Bytes(q, j), Bytes(x, k)) = Bytes(q, y)
  BY <1>2, BytesMeet
<1> QED BY <1>3, <1>4

\* There is no hole.
LEMMA NoHole ==
  ASSUME NEW d, NEW c, NEW k \in Int, k <= 0
  PROVE  ReadHole(d, c, k) = c
BY DEF ReadHole

\* A hole without a disk block.
LEMMA HoleMissed ==
  ASSUME NEW n \in Nat, NEW b \in Nat, NEW c \in PieceState(n, b), NEW k \in Int, k > 0
  PROVE  /\ ReadHole(None, c, k) \in PieceState(n, b) /\ ReadHole(None, c, k).cursor = c.cursor
         /\ ReadHole(None, c, k).st = "ENOENT"
<1> DEFINE h == ReadHole(None, c, k)
<1>1. ~(k <= 0)
  OBVIOUS
<1>2. h = [c EXCEPT !.st = "ENOENT"]
  BY <1>1, Zenon DEF ReadHole
<1> HIDE DEF h
<1>3. h \in PieceState(n, b) /\ h.cursor = c.cursor /\ h.st = "ENOENT"
  BY <1>2 DEF PieceState
<1> QED BY <1>3 DEF h

\* A hole that comes from the disk block.
LEMMA HoleRead ==
  ASSUME NEW n \in Nat, NEW b \in Nat, n <= MaxSize, NEW d \in Filed(n, b), d # None, NEW c \in PieceState(n, b),
         NEW k \in Int, WholeRange(c.cursor, k, block_size(n, b)), NEW u \in Int, Reach(c.cursor, k, u)
  PROVE  /\ ReadHole(d, c, k) \in PieceState(n, b) /\ ReadHole(d, c, k).cursor = c.cursor
         /\ ReadHole(d, c, k).st = c.st /\ ReadHole(d, c, k).buf = Joined(c.buf, Content(b, c.cursor, u))
<1> DEFINE h == ReadHole(d, c, k)
           r == DiskRead(d, c.cursor, k)
           x == Cut(r.seg.buf, k, 0)
           nb == c.buf \o x
           nd == Append(c.disk, r.seg)
<1>1. ~(k <= 0)
  BY DEF WholeRange
<1>2. r.st = "OK" /\ r.seg \in Right(n, b) /\ x = Bytes(At(b, c.cursor), k)
  BY DiskReadIsRight
<1> HIDE DEF r
<1>3. x = Content(b, c.cursor, u) /\ x \in Seq(ByteVal)
  <2> DEFINE v == c.cursor
  <2>1. v \in Nat /\ k \in Nat /\ u \in Nat /\ u = v + k
    BY <1>1 DEF PieceState, Reach
  <2>2. u <= block_size(n, b)
    BY <2>1 DEF WholeRange
  <2>3. x = Bytes(Base(b) + v, k)
    BY <1>2 DEF At
  <2> HIDE DEF v, x
  <2>4. Content(b, v, u) = Bytes(Base(b) + v, k) /\ Content(b, v, u) \in Seq(ByteVal)
    BY <2>1, <2>2, ContentIs
  <2>5. x = Content(b, v, u) /\ x \in Seq(ByteVal)
    BY <2>3, <2>4
  <2> QED BY <2>5 DEF v
<1>4. h = [c EXCEPT !.buf = nb, !.disk = nd]
  BY <1>1, <1>2, Zenon DEF ReadHole, r
<1> HIDE DEF h, x
<1>5. nb \in Seq(ByteVal) /\ nd \in Seq(Right(n, b))
  <2>1. c.buf \in Seq(ByteVal) /\ c.disk \in Seq(Right(n, b))
    BY DEF PieceState
  <2> QED BY <1>2, <1>3, <2>1
<1>6. nb = Joined(c.buf, Content(b, c.cursor, u))
  BY <1>3 DEF Joined
<1> HIDE DEF nb, nd
<1>7. h \in PieceState(n, b) /\ h.cursor = c.cursor /\ h.st = c.st /\ h.buf = nb
  BY <1>4, <1>5 DEF PieceState
<1> QED BY <1>6, <1>7 DEF h

\* A part of a block that read_block of the memory cache may give.
GoodPart(n, b, g) ==
  /\ g.offset \in Edges /\ g.size \in Nat \ {0}
  /\ g.offset + g.size \in Edges \/ g.offset + g.size = block_size(n, b)
  /\ g.offset + g.size <= block_size(n, b)
  /\ g = Part(b, g.offset, g.size)

\* What such a part is.
LEMMA GoodPartIs ==
  ASSUME NEW n \in Nat, NEW b \in Nat, n <= MaxSize, NEW g, GoodPart(n, b, g)
  PROVE  /\ g.offset \in Nat /\ g.size \in Nat \ {0} /\ g.buf = Bytes(Base(b) + g.offset, g.size)
         /\ g.buf \in Seq(ByteVal) /\ Len(g.buf) = g.size
<1> DEFINE u == g.offset
           l == g.size
<1>1. u \in Nat /\ l \in Nat \ {0} /\ u + l <= block_size(n, b) /\ g = Part(b, u, l)
  BY EdgeStart DEF GoodPart
<1> HIDE DEF u, l
<1>2. Part(b, u, l) \in Parts /\ Part(b, u, l).buf = Bytes(Base(b) + u, l) /\ Len(Part(b, u, l).buf) = l
  BY <1>1, PartIs
<1>3. g.buf = Bytes(Base(b) + u, l) /\ Len(g.buf) = l /\ g.buf \in Seq(ByteVal)
  BY <1>1, <1>2 DEF Parts
<1> QED BY <1>1, <1>3 DEF u, l

\* The hole before a part is a range of whole slices.
LEMMA HoleIsWhole ==
  ASSUME NEW n \in Nat, NEW b \in Nat, NEW e \in Nat, e \in Edges \/ e = block_size(n, b),
         NEW u \in Nat, u \in Edges \/ u = block_size(n, b), u <= block_size(n, b), e < u
  PROVE  /\ WholeRange(e, u - e, block_size(n, b))
         /\ \E s \in Slice : Start(s) = e
<1> DEFINE w == block_size(n, b)
           k == u - e
<1>1. w \in Int /\ w <= BlockSize
  BY BlockSizeIs
<1> HIDE DEF w
<1>2. e \in Edges
  BY <1>1 DEF w
<1>3. k \in Nat \ {0} /\ e + k = u
  OBVIOUS
<1> HIDE DEF k
<1>4. WholeRange(e, k, w)
  BY <1>2, <1>3 DEF WholeRange, w
<1>5. e < BlockSize
  BY <1>1, Units DEF w
<1>6. \E s \in Slice : Start(s) = e
  <2>1. PICK s \in Nat : e = Start(s)
    BY <1>2 DEF Edges
  <2> QED BY <1>5, <2>1, SliceOfBlock
<1> QED BY <1>4, <1>6 DEF w, k

\* A turn of the loop over the parts keeps its state in shape.
LEMMA AddPieceType ==
  ASSUME NEW n \in Nat, NEW b \in Nat, n <= MaxSize, NEW d \in Filed(n, b) \cup {None},
         NEW c \in PieceState(n, b), NEW g, GoodPart(n, b, g)
  PROVE  AddPiece(d, c, g) \in PieceState(n, b)
<1> DEFINE k == g.offset - c.cursor
           h == ReadHole(d, c, k)
           nb == h.buf \o g.buf
           nc == g.offset + Len(g.buf)
<1>1. /\ g.offset \in Nat /\ g.size \in Nat \ {0} /\ g.buf \in Seq(ByteVal) /\ Len(g.buf) = g.size
      /\ g.offset \in Edges /\ g.offset + g.size <= block_size(n, b)
      /\ g.offset + g.size \in Edges \/ g.offset + g.size = block_size(n, b)
  BY GoodPartIs DEF GoodPart
<1>2. c.cursor \in Nat /\ (c.cursor \in Edges \/ c.cursor = block_size(n, b))
  BY DEF PieceState
<1>3. g.offset <= block_size(n, b)
  <2>1. block_size(n, b) \in Int
    BY BlockSizeIs
  <2> QED BY <1>1, <2>1
<1>4. k \in Int /\ (k > 0 => WholeRange(c.cursor, k, block_size(n, b)))
  <2>1. k > 0 => c.cursor < g.offset
    BY <1>1, <1>2
  <2> QED BY <1>1, <1>2, <1>3, <2>1, HoleIsWhole
<1> HIDE DEF k
<1>5. h \in PieceState(n, b)
  <2>1. g.offset \in Int /\ Reach(c.cursor, k, g.offset)
    BY <1>1, <1>2 DEF k, Reach
  <2>2. CASE k <= 0
    BY <1>4, <2>2, NoHole
  <2>3. CASE k > 0 /\ d = None
    BY <1>4, <2>3, HoleMissed
  <2>4. CASE k > 0 /\ d # None
    <3>1. d \in Filed(n, b) /\ WholeRange(c.cursor, k, block_size(n, b))
      BY <1>4, <2>4
    <3> QED BY <1>4, <2>1, <2>4, <3>1, HoleRead
  <2> QED BY <1>4, <2>2, <2>3, <2>4
<1>6. AddPiece(d, c, g) \in {c, h, [h EXCEPT !.buf = nb, !.cursor = nc]}
  BY Zenon DEF AddPiece, k
<1> HIDE DEF h
<1>7. nb \in Seq(ByteVal) /\ nc \in Nat /\ (nc \in Edges \/ nc = block_size(n, b))
  <2>1. h.buf \in Seq(ByteVal)
    BY <1>5 DEF PieceState
  <2> QED BY <1>1, <2>1
<1> HIDE DEF nb, nc
<1>8. [h EXCEPT !.buf = nb, !.cursor = nc] \in PieceState(n, b)
  BY <1>5, <1>7 DEF PieceState
<1> QED BY <1>5, <1>6, <1>8

\* What is known of the loop of _read_block up to e: the bytes are there, or a
\* slice is neither in memory nor on disk.
Pieced(b, m, d, o, c, e) ==
  \/ /\ c.st = "OK" /\ c.buf = Content(b, o, e)
     /\ d # None \/ \A s \in Slice : o <= Start(s) /\ Start(s) < e => m[s] # None
  \/ /\ c.st = "ENOENT" /\ d = None
     /\ \E s \in Slice : o <= Start(s) /\ Start(s) < e /\ m[s] = None
PieceSoFar(b, m, d, o, c, e) == Pieced(b, m, d, o, c, e) /\ (c.st = "OK" => c.cursor = e)

\* The hole between two parts.
LEMMA HoleStep ==
  ASSUME NEW n \in Nat, NEW b \in Nat, n <= MaxSize, NEW d \in Filed(n, b) \cup {None}, NEW m,
         NEW c \in PieceState(n, b), NEW o \in Nat, NEW e \in Nat, o <= e, c.st = "OK", PieceSoFar(b, m, d, o, c, e),
         NEW u \in Nat, u \in Edges \/ u = block_size(n, b), u <= block_size(n, b), e <= u,
         \A s \in Slice : e <= Start(s) /\ Start(s) < u => m[s] = None,
         NEW k \in Int, Reach(e, k, u)
  PROVE  Pieced(b, m, d, o, ReadHole(d, c, k), u)
<1> DEFINE h == ReadHole(d, c, k)
<1>1. /\ c.cursor = e /\ c.buf = Content(b, o, e)
      /\ d # None \/ \A s \in Slice : o <= Start(s) /\ Start(s) < e => m[s] # None
  BY DEF PieceSoFar, Pieced
<1>2. e \in Edges \/ e = block_size(n, b)
  BY <1>1 DEF PieceState
<1>3. k > 0 => e < u
  BY DEF Reach
<1>4. k > 0 => WholeRange(c.cursor, k, block_size(n, b))
  <2>1. k > 0 => WholeRange(e, u - e, block_size(n, b)) /\ u - e = k
    BY <1>2, <1>3, HoleIsWhole DEF Reach
  <2> QED BY <1>1, <2>1
<1>5. k <= 0 => u = e
  BY DEF Reach
<1>6. u \in Int /\ Reach(c.cursor, k, u)
  BY <1>1
<1> HIDE DEF h
<1> DEFINE Goal == \/ /\ h.st = "OK" /\ h.buf = Content(b, o, u)
                      /\ d # None \/ \A s \in Slice : o <= Start(s) /\ Start(s) < u => m[s] # None
                   \/ /\ h.st = "ENOENT" /\ d = None
                      /\ \E s \in Slice : o <= Start(s) /\ Start(s) < u /\ m[s] = None
<1> SUFFICES Goal
  BY DEF Pieced, h
<1>8. CASE k <= 0
  <2>1. h = c
    BY <1>8, NoHole DEF h
  <2>2. h.st = "OK" /\ h.buf = Content(b, o, u)
    BY <1>1, <1>5, <1>8, <2>1
  <2> QED BY <1>1, <1>5, <1>8, <2>2
<1>9. CASE k > 0 /\ d = None
  <2>1. PICK s \in Slice : Start(s) = e
    <3>1. e < u
      BY <1>3, <1>9
    <3> QED BY <1>2, <3>1, HoleIsWhole
  <2>2. m[s] = None /\ o <= Start(s) /\ Start(s) < u
    BY <1>3, <1>9, <2>1
  <2>3. h.st = "ENOENT"
    BY <1>9, HoleMissed DEF h
  <2> QED BY <1>9, <2>2, <2>3
<1>10. CASE k > 0 /\ d # None
  <2>1. h.st = "OK" /\ h.buf = Joined(Content(b, o, e), Content(b, e, u))
    <3>1. d \in Filed(n, b) /\ WholeRange(c.cursor, k, block_size(n, b))
      BY <1>4, <1>10
    <3>2. h.st = c.st /\ h.buf = Joined(c.buf, Content(b, c.cursor, u))
      BY <1>6, <1>10, <3>1, HoleRead DEF h
    <3> QED BY <1>1, <3>2
  <2>2. h.buf = Content(b, o, u)
    BY <2>1, ContentMeets
  <2> QED BY <1>10, <2>1, <2>2
<1>11. k <= 0 \/ k > 0
  OBVIOUS
<1> QED BY <1>8, <1>9, <1>10, <1>11

\* Where the loop starts.
FirstPiece(o) == [st |-> "OK", cursor |-> o, buf |-> << >>, disk |-> << >>]

PiecesSteps(f, n, b, m, d, o, k) ==
  /\ f \in [0 .. Len(MemRead(m, o, k)) -> PieceState(n, b)]
  /\ f[0] = FirstPiece(o) /\ f[Len(MemRead(m, o, k))] = Pieces(m, d, o, k)
  /\ \A i \in 0 .. Len(MemRead(m, o, k)) - 1 : f[i + 1] = AddPiece(d, f[i], MemRead(m, o, k)[i + 1])

\* One part after the other.
LEMMA PiecesUnfold ==
  ASSUME NEW n \in Nat, NEW b \in Nat, n <= MaxSize, NEW d \in Filed(n, b) \cup {None}, NEW m, NEW o \in Edges, NEW k,
         NEW e, Got(MemRead(m, o, k), n, b, m, o, e)
  PROVE  \E f : PiecesSteps(f, n, b, m, d, o, k)
<1> DEFINE L == Len(MemRead(m, o, k))
           W == PieceState(n, b)
           base == FirstPiece(o)
           step == [i \in 1 .. L |-> [w \in W |-> AddPiece(d, w, MemRead(m, o, k)[i])]]
           Is(g) == g = [t \in SUBSET (DOMAIN MemRead(m, o, k)) |->
                           IF t = {} THEN FirstPiece(o)
                           ELSE AddPiece(d, g[t \ {Max(t)}], MemRead(m, o, k)[Max(t)])]
           g == CHOOSE x : Is(x)
<1>1. L \in Nat /\ DOMAIN MemRead(m, o, k) = 1 .. L
  <2> DEFINE ps == MemRead(m, o, k)
  <2>1. ps \in Seq(Parts)
    BY DEF Got
  <2> HIDE DEF ps
  <2>2. Len(ps) \in Nat /\ DOMAIN ps = 1 .. Len(ps)
    BY <2>1
  <2> QED BY <2>2 DEF ps
<1>2. base \in W
  BY EdgeStart DEF PieceState, FirstPiece
<1>3. ASSUME NEW i \in 1 .. L, NEW w \in W PROVE AddPiece(d, w, MemRead(m, o, k)[i]) \in W
  <2> DEFINE ps == MemRead(m, o, k)
             x == ps[i]
  <2>1. i \in 1 .. Len(ps) /\ Got(ps, n, b, m, o, e)
    OBVIOUS
  <2> HIDE DEF ps
  <2>2. i # 0
    <3>1. Len(ps) \in Nat
      BY <2>1 DEF Got
    <3> QED BY <2>1, <3>1
  <2>3. GoodPart(n, b, x)
    BY <2>1, <2>2 DEF Got, GoodPart, From
  <2> HIDE DEF x
  <2>4. AddPiece(d, w, x) \in W
    BY <2>3, AddPieceType
  <2> QED BY <2>4 DEF x, ps
<1>4. Pieces(m, d, o, k) = g[DOMAIN MemRead(m, o, k)]
  BY DEF Pieces, FirstPiece, FoldLeft, MapThenFoldSet
<1>5. step \in [1 .. L -> [W -> W]]
  <2> HIDE DEF W, L
  <2> QED BY <1>3
<1>6. \A t \in SUBSET (1 .. L) : t # {} => Max(t) \in 1 .. L
  BY <1>1, MaxIs
<1>7. Is(g)
  <2>1. PICK f \in [SUBSET (1 .. L) -> W] : Folds(f, 1 .. L, base, step)
    <3> HIDE DEF W, L, base, step
    <3> QED BY <1>1, <1>2, <1>5, FoldExists
  <2>2. ASSUME NEW t \in SUBSET (1 .. L), t # {}
        PROVE  step[Max(t)][f[t \ {Max(t)}]] = AddPiece(d, f[t \ {Max(t)}], MemRead(m, o, k)[Max(t)])
    <3> DEFINE r == f[t \ {Max(t)}]
               j == Max(t)
    <3>1. r \in W /\ j \in 1 .. L
      BY <1>6, <2>1, <2>2
    <3> HIDE DEF r, j, W, L
    <3>2. step[j][r] = AddPiece(d, r, MemRead(m, o, k)[j])
      BY <3>1
    <3> QED BY <3>2 DEF r, j
  <2>3. Is(f)
    <3> HIDE DEF step
    <3> QED BY <1>1, <2>1, <2>2 DEF Folds
  <2> HIDE DEF Is
  <2> QED BY <2>3
<1>8. Follows(g, L, W, base, step)
  <2>1. g[{}] = base
    <3> HIDE DEF g
    <3> QED BY <1>7
  <2>2. ASSUME NEW t \in SUBSET (1 .. L), t # {}, g[t \ {Max(t)}] \in W PROVE g[t] = step[Max(t)][g[t \ {Max(t)}]]
    <3> DEFINE r == g[t \ {Max(t)}]
               j == Max(t)
    <3>1. r \in W /\ j \in 1 .. L
      <4> HIDE DEF g
      <4> QED BY <1>6, <2>2
    <3>2. g[t] = AddPiece(d, r, MemRead(m, o, k)[j])
      <4> HIDE DEF g
      <4> QED BY <1>1, <1>7, <2>2
    <3> HIDE DEF r, j, W, L, g
    <3>3. step[j][r] = AddPiece(d, r, MemRead(m, o, k)[j])
      BY <3>1
    <3> QED BY <3>2, <3>3 DEF r, j
  <2> HIDE DEF g, step, W, base
  <2> QED BY <2>1, <2>2 DEF Follows
<1>9. FoldSteps(g, L, W, base, step)
  <2> HIDE DEF g, step, W, L, base
  <2> QED BY <1>1, <1>2, <1>5, <1>8, FoldFollows
<1> DEFINE h == [i \in 0 .. L |-> g[1 .. i]]
<1>10. h \in [0 .. L -> W] /\ h[0] = base /\ h[L] = g[1 .. L]
  <2> HIDE DEF g, step, W, L, base
  <2> QED BY <1>1, <1>9 DEF FoldSteps
<1>11. ASSUME NEW i \in 0 .. L - 1 PROVE h[i + 1] = AddPiece(d, h[i], MemRead(m, o, k)[i + 1])
  <2> DEFINE r == g[1 .. i]
             j == i + 1
  <2>1. j \in 1 .. L /\ i \in 0 .. L /\ j \in 0 .. L /\ j = i + 1
    <3> HIDE DEF L
    <3> QED BY <1>1
  <2>2. r \in W /\ g[1 .. j] = step[j][r]
    <3> HIDE DEF g, step, W, L, base
    <3> QED BY <1>9, <2>1 DEF FoldSteps
  <2>3. h[i] = r /\ h[j] = g[1 .. j]
    <3> HIDE DEF g, L, j
    <3> QED BY <2>1
  <2> HIDE DEF g, L, W, r, h, j
  <2>4. step[j][r] = AddPiece(d, r, MemRead(m, o, k)[j])
    BY <2>1, <2>2
  <2> QED BY <2>2, <2>3, <2>4 DEF j
<1> HIDE DEF h
<1>12. /\ h \in [0 .. Len(MemRead(m, o, k)) -> PieceState(n, b)]
       /\ h[0] = FirstPiece(o) /\ h[Len(MemRead(m, o, k))] = Pieces(m, d, o, k)
       /\ \A i \in 0 .. Len(MemRead(m, o, k)) - 1 : h[i + 1] = AddPiece(d, h[i], MemRead(m, o, k)[i + 1])
  BY <1>1, <1>4, <1>10, <1>11
<1> HIDE DEF g, step, W, L, base
<1>13. PiecesSteps(h, n, b, m, d, o, k)
  BY <1>12 DEF PiecesSteps
<1> QED BY <1>13

\* One part more.
LEMMA AddPieceStep ==
  ASSUME NEW n \in Nat, NEW b \in Nat, n <= MaxSize, NEW d \in Filed(n, b) \cup {None}, NEW m,
         NEW c \in PieceState(n, b), NEW o \in Nat, NEW e \in Nat, o <= e, PieceSoFar(b, m, d, o, c, e),
         NEW g, GoodPart(n, b, g), NEW f \in Nat, Reach(g.offset, g.size, f), e <= g.offset,
         \A s \in Slice : e <= Start(s) /\ Start(s) < g.offset => m[s] = None,
         \A s \in Slice : g.offset <= Start(s) /\ Start(s) < f => m[s] # None
  PROVE  PieceSoFar(b, m, d, o, AddPiece(d, c, g), f)
<1> DEFINE u == g.offset
           k == u - c.cursor
           h == ReadHole(d, c, k)
           nb == h.buf \o g.buf
           nc == u + Len(g.buf)
           a == AddPiece(d, c, g)
<1>1. /\ u \in Nat /\ g.size \in Nat /\ g.buf = Bytes(Base(b) + u, g.size) /\ Len(g.buf) = g.size
      /\ u \in Edges /\ f <= block_size(n, b) /\ f = u + g.size
  BY GoodPartIs DEF GoodPart, Reach
<1>2. \A s \in Slice : Start(s) \in Nat
  BY LowerIs
<1>3. block_size(n, b) \in Int
  BY BlockSizeIs
<1>4. u <= f /\ u <= block_size(n, b)
  BY <1>1, <1>3
<1>5. CASE c.st # "OK"
  <2>1. a = c
    BY <1>5 DEF AddPiece
  <2>2. PICK s \in Slice : o <= Start(s) /\ Start(s) < e /\ m[s] = None
    BY <1>5 DEF PieceSoFar, Pieced
  <2>3. Start(s) < f
    <3>1. e <= u
      OBVIOUS
    <3> HIDE DEF u
    <3> QED BY <1>1, <1>2, <1>4, <2>2, <3>1
  <2>4. c.st = "ENOENT" /\ d = None
    BY <1>5 DEF PieceSoFar, Pieced
  <2> HIDE DEF a
  <2> QED BY <2>1, <2>2, <2>3, <2>4 DEF PieceSoFar, Pieced, a
<1>6. CASE c.st = "OK"
  <2>1. c.cursor = e /\ k \in Int /\ Reach(e, k, u)
    <3>1. c.cursor = e
      BY <1>6 DEF PieceSoFar
    <3> QED BY <1>1, <3>1 DEF Reach
  <2>2. e <= u /\ \A s \in Slice : e <= Start(s) /\ Start(s) < u => m[s] = None
    OBVIOUS
  <2>3. a = IF h.st # "OK" THEN h ELSE [h EXCEPT !.buf = nb, !.cursor = nc]
    BY <1>6, Zenon DEF AddPiece
  <2> HIDE DEF a, k
  <2>4. \/ /\ h.st = "OK" /\ h.buf = Content(b, o, u)
           /\ d # None \/ \A s \in Slice : o <= Start(s) /\ Start(s) < u => m[s] # None
        \/ /\ h.st = "ENOENT" /\ d = None
           /\ \E s \in Slice : o <= Start(s) /\ Start(s) < u /\ m[s] = None
    <3> HIDE DEF u
    <3>1. u \in Nat /\ (u \in Edges \/ u = block_size(n, b)) /\ u <= block_size(n, b) /\ e <= u
      BY <1>1, <1>4, <2>2
    <3>2. k \in Int /\ Reach(e, k, u)
      BY <2>1
    <3>3. \A s \in Slice : e <= Start(s) /\ Start(s) < u => m[s] = None
      BY <2>2
    <3>4. Pieced(b, m, d, o, h, u)
      BY <1>6, <3>1, <3>2, <3>3, HoleStep
    <3> HIDE DEF h
    <3> QED BY <3>4 DEF Pieced
  <2>5. h \in PieceState(n, b)
    <3>1. CASE k <= 0
      BY <2>1, <3>1, NoHole
    <3>2. CASE k > 0 /\ d = None
      BY <2>1, <3>2, HoleMissed
    <3>3. CASE k > 0 /\ d # None
      <4> HIDE DEF u
      <4>1. e < u /\ (e \in Edges \/ e = block_size(n, b)) /\ u - e = k
        BY <1>1, <2>1, <3>3 DEF Reach, PieceState
      <4>2. WholeRange(e, u - e, block_size(n, b))
        BY <1>1, <1>4, <4>1, HoleIsWhole
      <4>3. WholeRange(c.cursor, k, block_size(n, b)) /\ u \in Int /\ Reach(c.cursor, k, u)
        BY <1>1, <2>1, <4>1, <4>2
      <4> QED BY <2>1, <3>3, <4>3, HoleRead
    <3> QED BY <2>1, <3>1, <3>2, <3>3
  <2> HIDE DEF h, u
  <2>6. CASE h.st = "ENOENT"
    <3>1. a = h
      BY <2>3, <2>6
    <3>2. PICK s \in Slice : o <= Start(s) /\ Start(s) < u /\ m[s] = None
      BY <2>4, <2>6
    <3>3. Start(s) < f
      BY <1>1, <1>2, <1>4, <3>2
    <3>4. h.st = "ENOENT" /\ d = None
      BY <2>4, <2>6
    <3> QED BY <3>1, <3>2, <3>3, <3>4 DEF PieceSoFar, Pieced, a
  <2>7. CASE h.st = "OK"
    <3>1. a = [h EXCEPT !.buf = nb, !.cursor = nc]
      BY <2>3, <2>7, Zenon
    <3>2. nc = f
      BY <1>1
    <3>3. nb = Content(b, o, f)
      <4>1. g.buf = Content(b, u, f)
        BY <1>1, <1>4, ContentIs
      <4>2. nb = Joined(Content(b, o, u), Content(b, u, f))
        BY <2>4, <2>7, <4>1 DEF Joined
      <4>3. o <= u
        BY <1>1, <2>2
      <4> HIDE DEF nb
      <4> QED BY <1>1, <1>4, <4>2, <4>3, ContentMeets
    <3>4. d # None \/ \A s \in Slice : o <= Start(s) /\ Start(s) < f => m[s] # None
      <4>1. \A s \in Slice : u <= Start(s) /\ Start(s) < f => m[s] # None
        BY DEF u
      <4>2. d # None \/ \A s \in Slice : o <= Start(s) /\ Start(s) < u => m[s] # None
        BY <2>4, <2>7
      <4> QED BY <1>1, <1>2, <4>1, <4>2
    <3> HIDE DEF nb, nc
    <3>5. a.st = "OK" /\ a.cursor = f /\ a.buf = Content(b, o, f)
      BY <2>5, <2>7, <3>1, <3>2, <3>3 DEF PieceState
    <3> QED BY <3>4, <3>5 DEF PieceSoFar, Pieced, a
  <2> QED BY <2>4, <2>6, <2>7
<1>7. c.st = "OK" \/ c.st # "OK"
  OBVIOUS
<1> HIDE DEF a
<1> QED BY <1>5, <1>6, <1>7

\* _read_block gives the bytes of the range, or ENOENT when a slice of it is
\* neither in memory nor on disk.
LEMMA AssembleIs ==
  ASSUME NEW n \in Nat, NEW b \in Nat, n <= MaxSize, NEW d \in Filed(n, b) \cup {None}, NEW m \in Kept(n, b),
         NEW o, NEW k, WholeRange(o, k, block_size(n, b)), NEW e \in Nat, Reach(o, k, e)
  PROVE  /\ Assemble(m, d, o, k) \in PieceState(n, b)
         /\ Pieced(b, m, d, o, Assemble(m, d, o, k), e)
<1> DEFINE ps == MemRead(m, o, k)
           L == Len(ps)
           first == FirstPiece(o)
           w == block_size(n, b)
           end == Pieces(m, d, o, k)
<1>1. /\ o \in Edges /\ o \in Nat /\ k \in Nat \ {0} /\ e <= w /\ o <= e /\ e = o + k
      /\ e \in Edges \/ e = w
  <2>1. o \in Edges /\ o \in Nat /\ k \in Nat \ {0} /\ o + k <= w /\ (o + k \in Edges \/ o + k = w)
    BY RangeIs
  <2>2. e = o + k
    BY DEF Reach
  <2> HIDE DEF w
  <2> QED BY <2>1, <2>2
<1>2. w \in Int
  BY BlockSizeIs
<1>3. Got(ps, n, b, m, o, e)
  <2>1. Got(ps, n, b, m, o, o + k)
    BY MemReadIs
  <2>2. o + k = e
    BY <1>1
  <2> HIDE DEF ps
  <2> QED BY <2>1, <2>2
<1>4. L \in Nat
  <2>1. ps \in Seq(Parts)
    BY <1>3 DEF Got
  <2> HIDE DEF ps
  <2> QED BY <2>1
<1>5. PICK f \in [0 .. L -> PieceState(n, b)] :
        /\ f[0] = first /\ f[L] = end
        /\ \A i \in 0 .. L - 1 : f[i + 1] = AddPiece(d, f[i], ps[i + 1])
  <2>1. o \in Edges
    BY <1>1
  <2>2. Got(MemRead(m, o, k), n, b, m, o, e)
    BY <1>3
  <2>3. PICK f : PiecesSteps(f, n, b, m, d, o, k)
    <3> HIDE DEF ps, L, end, first, w
    <3> QED BY <2>1, <2>2, PiecesUnfold
  <2> QED BY <2>3 DEF PiecesSteps
<1> HIDE DEF ps, end, w
<1> DEFINE Good == {i \in 0 .. L : /\ From(ps, o, i) \in Nat /\ o <= From(ps, o, i)
                                   /\ PieceSoFar(b, m, d, o, f[i], From(ps, o, i))}
<1>6. 0 \in Good
  <2>1. From(ps, o, 0) = o
    BY DEF From
  <2>2. Content(b, o, o) = << >>
    <3>1. Base(b) \in Nat /\ o - o = 0
      BY <1>1, BlockSizeIs
    <3>2. Content(b, o, o) = Bytes(Base(b) + o, 0)
      BY <3>1 DEF Content
    <3> QED BY <3>2 DEF Bytes
  <2>3. \A s \in Slice : Start(s) \in Nat
    BY LowerIs
  <2>4. first.st = "OK" /\ first.cursor = o /\ first.buf = Content(b, o, o)
    BY <2>2 DEF FirstPiece
  <2> HIDE DEF first
  <2>5. PieceSoFar(b, m, d, o, first, o)
    BY <1>1, <2>3, <2>4 DEF PieceSoFar, Pieced
  <2> QED BY <1>1, <1>4, <1>5, <2>1, <2>5
<1>7. ASSUME NEW i \in 0 .. L - 1, i \in Good PROVE i + 1 \in Good
  <2> DEFINE j == i + 1
             g == ps[j]
             x == From(ps, o, i)
             y == From(ps, o, j)
  <2>1. i \in 0 .. L /\ j \in 1 .. L /\ j \in 0 .. L /\ j # 0 /\ j - 1 = i
    BY <1>4
  <2>2. x \in Nat /\ o <= x /\ PieceSoFar(b, m, d, o, f[i], x) /\ f[i] \in PieceState(n, b)
    BY <1>5, <1>7, <2>1
  <2>3. f[j] = AddPiece(d, f[i], g)
    BY <1>5
  <2>4. y = g.offset + g.size
    <3> HIDE DEF j
    <3> QED BY <2>1 DEF From
  <2>5. /\ g.offset \in Edges /\ g.size \in Nat \ {0}
        /\ y \in Edges \/ y = w
        /\ y <= w
        /\ g = Part(b, g.offset, g.size)
        /\ x <= g.offset
        /\ \A s \in Slice : x <= Start(s) /\ Start(s) < g.offset => m[s] = None
        /\ \A s \in Slice : g.offset <= Start(s) /\ Start(s) < y => m[s] # None
    <3> HIDE DEF j
    <3> QED BY <1>3, <2>1 DEF Got, w
  <2> HIDE DEF j, g, x, y
  <2>6. GoodPart(n, b, g)
    BY <2>4, <2>5 DEF GoodPart, w
  <2>7. y \in Nat /\ Reach(g.offset, g.size, y) /\ o <= y
    <3>1. g.offset \in Nat
      BY <2>5, EdgeStart
    <3> QED BY <1>1, <2>2, <2>4, <2>5, <3>1 DEF Reach
  <2>8. PieceSoFar(b, m, d, o, AddPiece(d, f[i], g), y)
    BY <1>1, <2>2, <2>5, <2>6, <2>7, AddPieceStep
  <2>9. PieceSoFar(b, m, d, o, f[j], From(ps, o, j)) /\ From(ps, o, j) \in Nat /\ o <= From(ps, o, j)
    BY <2>3, <2>7, <2>8 DEF y
  <2> QED BY <2>1, <2>9 DEF j
<1>8. L \in Good
  <2> HIDE DEF Good, L
  <2>1. \A i \in 0 .. L : i \in Good
    BY <1>4, <1>6, <1>7, UpTo
  <2> QED BY <1>4, <2>1
<1> DEFINE x == From(ps, o, L)
<1>9. x \in Nat /\ o <= x /\ PieceSoFar(b, m, d, o, end, x) /\ end \in PieceState(n, b)
  BY <1>4, <1>5, <1>8
<1>10. x <= e /\ \A s \in Slice : x <= Start(s) /\ Start(s) < e => m[s] = None
  BY <1>3 DEF Got
<1> HIDE DEF x, L
<1>11. CASE end.st = "OK"
  <2> DEFINE l == k - Len(end.buf)
             r == Assemble(m, d, o, k)
  <2>1. r = ReadHole(d, end, l)
    BY <1>11 DEF Assemble, end
  <2>2. end.cursor = x /\ end.buf = Content(b, o, x)
    BY <1>9, <1>11 DEF PieceSoFar, Pieced
  <2>3. Len(end.buf) = x - o /\ x - o \in Nat
    <3> DEFINE p == x - o
    <3>1. p \in Nat /\ x = o + p /\ x <= w
      BY <1>1, <1>2, <1>9, <1>10
    <3> HIDE DEF p
    <3>2. Len(Content(b, o, x)) = p
      BY <1>1, <1>9, <3>1, ContentIs DEF w
    <3> QED BY <2>2, <3>1, <3>2 DEF p
  <2>4. l \in Int /\ Reach(x, l, e) /\ l = e - x
    BY <1>1, <1>9, <2>3 DEF Reach
  <2> HIDE DEF l, r
  <2>5. e \in Nat /\ (e \in Edges \/ e = block_size(n, b)) /\ e <= block_size(n, b) /\ x <= e
    BY <1>1, <1>10 DEF w
  <2>6. Pieced(b, m, d, o, ReadHole(d, end, l), e)
    <3>1. o \in Nat /\ o <= x /\ x \in Nat /\ end \in PieceState(n, b) /\ PieceSoFar(b, m, d, o, end, x) /\ end.st = "OK"
      BY <1>1, <1>9, <1>11
    <3>2. l \in Int /\ Reach(x, l, e)
      BY <2>4
    <3>3. \A s \in Slice : x <= Start(s) /\ Start(s) < e => m[s] = None
      BY <1>10
    <3> QED BY <2>5, <3>1, <3>2, <3>3, HoleStep
  <2>7. ReadHole(d, end, l) \in PieceState(n, b)
    <3>1. CASE l <= 0
      BY <1>9, <2>4, <3>1, NoHole
    <3>2. CASE l > 0 /\ d = None
      BY <1>9, <2>4, <3>2, HoleMissed
    <3>3. CASE l > 0 /\ d # None
      <4>1. x < e /\ (x \in Edges \/ x = block_size(n, b))
        BY <1>9, <2>2, <2>4, <3>3 DEF PieceState
      <4>2. WholeRange(x, e - x, block_size(n, b))
        BY <1>9, <2>5, <4>1, HoleIsWhole
      <4>3. WholeRange(end.cursor, l, block_size(n, b)) /\ e \in Int /\ Reach(end.cursor, l, e)
        BY <2>2, <2>4, <2>5, <4>2
      <4> QED BY <1>9, <2>4, <3>3, <4>3, HoleRead
    <3> QED BY <2>4, <3>1, <3>2, <3>3
  <2> QED BY <2>1, <2>6, <2>7 DEF r
<1>12. CASE end.st # "OK"
  <2>1. Assemble(m, d, o, k) = end
    BY <1>12 DEF Assemble, end
  <2>2. end.st = "ENOENT" /\ d = None
    BY <1>9, <1>12 DEF PieceSoFar, Pieced
  <2>3. PICK s \in Slice : o <= Start(s) /\ Start(s) < x /\ m[s] = None
    BY <1>9, <1>12 DEF PieceSoFar, Pieced
  <2>4. Start(s) < e
    BY <1>9, <1>10, <2>3, LowerIs
  <2> QED BY <1>9, <2>1, <2>2, <2>3, <2>4 DEF Pieced
<1> QED BY <1>11, <1>12

-----------------------------------------------------------------------------
(***************************************************************************)
(* The blocks of a range of the object.                                    *)
(***************************************************************************)
LEMMA BlockOf ==
  ASSUME NEW o \in Nat
  PROVE  /\ off2block(o) \in Nat /\ Base(off2block(o)) \in Nat
         /\ Base(off2block(o)) <= o /\ o < Base(off2block(o)) + BlockSize
BY Units, DivBounds, TimesSuccessor DEF off2block, Base

\* No other block is.
LEMMA BlockIs ==
  ASSUME NEW o \in Nat, NEW b \in Nat, Base(b) <= o, o < Base(b) + BlockSize
  PROVE  off2block(o) = b
<1>1. BlockSize * b = Base(b)
  BY Units DEF Base
<1> QED BY <1>1, Units, QuotientIs DEF off2block

\* One block after another.
LEMMA NextBase ==
  ASSUME NEW b \in Nat, NEW c \in Nat
  PROVE  /\ Base(b) \in Nat /\ Base(b + 1) = Base(b) + BlockSize
         /\ b < c => Base(b) + BlockSize <= Base(c)
         /\ b <= c => Base(b) <= Base(c)
<1>1. Base(b) \in Nat /\ Base(b + 1) = Base(b) + BlockSize
  BY Units, TimesSuccessor DEF Base
<1>2. ASSUME NEW x \in Nat, x <= c PROVE Base(x) <= Base(c)
  <2>1. BlockSize * x <= BlockSize * c
    BY <1>2, Units, TimesMonotone
  <2> QED BY <2>1, Units, TimesSuccessor DEF Base
<1>3. b < c => Base(b + 1) <= Base(c)
  BY <1>2
<1> QED BY <1>1, <1>2, <1>3

\* Below 2^32 the start of a block is what it should be.
LEMMA BlockLower ==
  ASSUME NEW b \in Nat, Base(b) < U32
  PROVE  block_lower(b) = Base(b)
<1> DEFINE x == Base(b)
<1>1. x \in Nat /\ x < U32
  BY NextBase
<1>2. block_lower(b) = x % U32
  BY DEF block_lower, Base
<1> HIDE DEF x
<1>3. x \div U32 = 0
  <2>1. U32 * 0 <= x /\ x < U32 * 0 + U32
    BY <1>1, Units
  <2> QED BY <1>1, <2>1, Units, QuotientIs
<1>4. x = U32 * (x \div U32) + (x % U32)
  BY <1>1, Units, QuotientAndRest
<1>5. x % U32 = x
  BY <1>1, <1>3, <1>4, Units
<1> QED BY <1>2, <1>5 DEF x

\* A range of whole slices of an object of n bytes, from lower to upper.
Window(n, lower, upper) ==
  /\ lower \in Edges /\ upper \in Nat /\ lower <= upper /\ upper < n
  /\ upper + 1 \in Edges \/ upper + 1 = n

\* Where the part of the range in block b starts and where it ends.
FromIn(b, lower) == IF b = off2block(lower) THEN lower ELSE Base(b)
ToIn(b, upper) == IF b = off2block(upper) THEN upper + 1 ELSE Base(b + 1)

\* The part of the range in block b.
LEMMA BlockPart ==
  ASSUME NEW n \in Nat, n <= MaxSize, MaxSize <= U32, NEW lower, NEW upper, Window(n, lower, upper),
         NEW b \in off2block(lower) .. off2block(upper), NEW o, o = OffInBlock(b, lower)
  PROVE  /\ b \in Nat /\ b \in Block /\ o \in Nat
         /\ WholeRange(o, ToRead(b, o, upper), block_size(n, b))
         /\ FromIn(b, lower) = Base(b) + o
         /\ ToIn(b, upper) = Base(b) + o + ToRead(b, o, upper)
         /\ lower <= FromIn(b, lower) /\ FromIn(b, lower) < ToIn(b, upper) /\ ToIn(b, upper) <= upper + 1
<1> DEFINE lo == off2block(lower)
           hi == off2block(upper)
           B == Base(b)
           w == block_size(n, b)
           k == ToRead(b, o, upper)
           x == FromIn(b, lower)
           y == ToIn(b, upper)
<1>1. /\ lower \in Edges /\ lower \in Nat /\ upper \in Nat /\ lower <= upper /\ upper < n
      /\ upper + 1 \in Edges \/ upper + 1 = n
  BY EdgeStart DEF Window
<1>2. /\ lo \in Nat /\ Base(lo) \in Nat /\ Base(lo) <= lower /\ lower < Base(lo) + BlockSize
  BY <1>1, BlockOf
<1>3. /\ hi \in Nat /\ Base(hi) \in Nat /\ Base(hi) <= upper /\ upper < Base(hi) + BlockSize
  BY <1>1, BlockOf
<1> HIDE DEF lo, hi
<1>4. b \in Nat /\ lo <= b /\ b <= hi
  BY <1>2, <1>3 DEF lo, hi
<1>5. /\ B \in Nat /\ Base(b + 1) = B + BlockSize
      /\ lo < b => lower < B
      /\ b < hi => B + BlockSize <= upper
      /\ B <= upper
  <2>1. B \in Nat /\ Base(b + 1) = B + BlockSize
    BY <1>4, NextBase
  <2>2. lo < b => Base(lo) + BlockSize <= B
    BY <1>2, <1>4, NextBase
  <2>3. b < hi => B + BlockSize <= Base(hi)
    BY <1>3, <1>4, NextBase
  <2>4. B <= Base(hi)
    BY <1>3, <1>4, NextBase
  <2>5. BlockSize \in Nat \ {0}
    BY Units
  <2> HIDE DEF B
  <2> QED BY <1>1, <1>2, <1>3, <2>1, <2>2, <2>3, <2>4, <2>5
<1>6. B \in Edges /\ BlockSize \in Edges /\ BlockSize \in Nat \ {0} /\ MaxSize \in Nat /\ U32 \in Nat
  BY <1>4, BlockEdges, Units
<1> HIDE DEF B
<1>7. block_lower(b) = B /\ b \in Block
  <2>1. B < MaxSize /\ B < U32
    BY <1>1, <1>5, <1>6
  <2> QED BY <1>4, <2>1, BlockLower, BlocksAre DEF B
<1>8. /\ w \in Int /\ w <= BlockSize /\ B + w <= n
      /\ w = BlockSize \/ B + w = n
  BY <1>4, BlockSizeIs DEF B
<1> HIDE DEF w
<1>9. b = lo \/ lo < b
  BY <1>2, <1>4
<1>10. b = hi \/ b < hi
  BY <1>3, <1>4
<1>11. o \in Nat /\ o \in Edges /\ x = B + o /\ lower <= x /\ x <= upper /\ x < B + BlockSize
  <2>1. CASE b = lo
    <3>1. o = lower - B /\ x = lower
      BY <1>7, <2>1 DEF OffInBlock, FromIn, lo
    <3>2. B <= lower /\ lower < B + BlockSize
      BY <1>2, <2>1 DEF B
    <3>3. lower - B \in Edges
      BY <1>1, <1>6, <3>2, EdgeArithmetic
    <3> QED BY <1>1, <1>5, <3>1, <3>2, <3>3
  <2>2. CASE lo < b
    <3>1. o = 0 /\ x = B
      BY <1>2, <1>4, <2>2 DEF OffInBlock, FromIn, lo, B
    <3> QED BY <1>1, <1>5, <1>6, <2>2, <3>1, BlockEdges
  <2> QED BY <1>9, <2>1, <2>2
<1>12. /\ y = B + o + k /\ k \in Int /\ y \in Nat /\ x < y /\ y <= upper + 1 /\ y <= B + BlockSize
       /\ y \in Edges \/ y = n
  <2>1. CASE b = hi
    <3>1. k = upper - (B + o) + 1 /\ y = upper + 1
      BY <1>7, <2>1 DEF ToRead, ToIn, hi
    <3>2. upper < B + BlockSize
      BY <1>3, <2>1 DEF B
    <3> HIDE DEF k, y, x
    <3> QED BY <1>1, <1>5, <1>6, <1>11, <3>1, <3>2
  <2>2. CASE b < hi
    <3>1. k = BlockSize - o /\ y = B + BlockSize
      BY <1>3, <1>4, <1>5, <2>2 DEF ToRead, ToIn, hi
    <3>2. B + BlockSize \in Edges
      BY <1>6, EdgeArithmetic
    <3> HIDE DEF k, y, x
    <3> QED BY <1>1, <1>5, <1>6, <1>11, <2>2, <3>1, <3>2
  <2> QED BY <1>10, <2>1, <2>2
<1> HIDE DEF k, x, y
<1>13. k \in Nat \ {0} /\ o + k = y - B
  BY <1>5, <1>11, <1>12
<1>14. o + k <= w /\ (o + k \in Edges \/ o + k = w)
  <2>1. y <= n
    BY <1>1, <1>12
  <2>2. o + k <= w
    BY <1>1, <1>5, <1>6, <1>8, <1>12, <1>13, <2>1
  <2>3. CASE y \in Edges
    <3>1. B <= y
      BY <1>5, <1>11, <1>12
    <3>2. y - B \in Edges
      BY <1>6, <2>3, <3>1, EdgeArithmetic
    <3> QED BY <1>13, <2>2, <3>2
  <2>4. CASE y = n
    <3>1. o + k = w
      BY <1>5, <1>8, <1>12, <1>13, <2>2, <2>4
    <3> QED BY <2>2, <3>1
  <2> QED BY <1>12, <2>3, <2>4
<1>15. WholeRange(o, k, w)
  BY <1>11, <1>13, <1>14 DEF WholeRange
<1> QED BY <1>4, <1>7, <1>11, <1>12, <1>15 DEF k, x, y, w, B

\* The byte at p is in memory or on disk.
Here(p) ==
  LET b == off2block(p) IN disk[b] # None \/ slices[b][off2slice(p - b * BlockSize)] # None

\* A part of a block is here when its slices are.
LEMMA HereIs ==
  ASSUME NEW b \in Nat, NEW o \in Edges, NEW e \in Nat, e <= BlockSize, NEW x \in Nat, NEW y \in Nat,
         Reach(Base(b), o, x), Reach(Base(b), e, y)
  PROVE  /\ (disk[b] # None \/ \A s \in Slice : o <= Start(s) /\ Start(s) < e => slices[b][s] # None)
              => \A p \in Nat : x <= p /\ p < y => Here(p)
         /\ (disk[b] = None /\ \E s \in Slice : o <= Start(s) /\ Start(s) < e /\ slices[b][s] = None)
              => \E p \in Nat : x <= p /\ p < y /\ ~Here(p)
<1> DEFINE B == Base(b)
<1>1. B \in Nat /\ o \in Nat /\ x = B + o /\ y = B + e
  BY NextBase, EdgeStart DEF Reach
<1> HIDE DEF B
<1>2. ASSUME NEW p \in Nat, B <= p, p < B + BlockSize
      PROVE  Here(p) <=> disk[b] # None \/ slices[b][off2slice(p - B)] # None
  <2>1. off2block(p) = b
    BY <1>2, BlockIs DEF B
  <2> QED BY <2>1 DEF Here, B, Base
<1>3. ASSUME disk[b] # None \/ \A s \in Slice : o <= Start(s) /\ Start(s) < e => slices[b][s] # None,
             NEW p \in Nat, x <= p, p < y
      PROVE  Here(p)
  <2> DEFINE q == p - B
             s == off2slice(q)
  <2>1. q \in Nat /\ o <= q /\ q < e /\ B <= p /\ p < B + BlockSize
    BY <1>1, <1>3, Units
  <2> HIDE DEF q
  <2>2. s \in Nat /\ Start(s) \in Nat /\ Start(s) <= q /\ q < Start(s) + SliceSize
    BY <2>1, SliceOf
  <2> HIDE DEF s
  <2>3. s \in Slice
    <3>1. Start(s) < BlockSize
      BY <2>1, <2>2, Units
    <3> QED BY <2>2, <3>1, SliceOfBlock
  <2>4. o <= Start(s) /\ Start(s) < e
    <3>1. Start(s) < o => Start(s) + SliceSize <= o
      BY <2>2, EdgeAfter
    <3>2. SliceSize \in Nat
      BY Units
    <3> QED BY <1>1, <2>1, <2>2, <3>1, <3>2
  <2>5. disk[b] # None \/ slices[b][s] # None
    BY <1>3, <2>3, <2>4
  <2> QED BY <1>2, <2>1, <2>5 DEF q, s
<1>4. ASSUME disk[b] = None, NEW s \in Slice, o <= Start(s), Start(s) < e, slices[b][s] = None
      PROVE  \E p \in Nat : x <= p /\ p < y /\ ~Here(p)
  <2> DEFINE v == Start(s)
             p == B + v
  <2>1. s \in Nat /\ v \in Nat
    BY LowerIs
  <2>2. p \in Nat /\ x <= p /\ p < y /\ B <= p /\ p < B + BlockSize /\ p - B = v
    BY <1>1, <1>4, <2>1, Units
  <2> HIDE DEF p
  <2>3. off2slice(v) = s
    <3>1. SliceSize \in Nat \ {0}
      BY Units
    <3> QED BY <2>1, <3>1, SliceIs
  <2>4. ~Here(p)
    BY <1>2, <1>4, <2>2, <2>3
  <2> QED BY <2>2, <2>4
<1> QED BY <1>3, <1>4

\* The bytes from o to before e.
Text(o, e) == Bytes(o, e - o)

\* Two ranges that meet.
LEMMA TextMeets ==
  ASSUME NEW o \in Nat, NEW u \in Nat, NEW e \in Nat, o <= u, u <= e
  PROVE  Joined(Text(o, u), Text(u, e)) = Text(o, e)
<1> DEFINE j == u - o
           k == e - u
           y == e - o
<1>1. j \in Nat /\ k \in Nat /\ y \in Nat /\ Reach(o, j, u) /\ Reach(j, k, y)
  BY DEF Reach
<1>2. Text(o, u) = Bytes(o, j) /\ Text(u, e) = Bytes(u, k) /\ Text(o, e) = Bytes(o, y)
  BY Zenon DEF Text
<1> HIDE DEF j, k, y
<1>3. Joined(Bytes(o, j), Bytes(u, k)) = Bytes(o, y)
  BY <1>1, BytesMeet
<1> QED BY <1>2, <1>3

\* The state of the loop of _read_cache_item.
ReadState == [st : {"OK", "ENOENT"}, buf : Seq(ByteVal), slices : AllKept(size)]

\* What is known of it up to e.
ReadSoFar(c, lower, e) ==
  \/ c.st = "OK" /\ c.buf = Text(lower, e) /\ \A p \in Nat : lower <= p /\ p < e => Here(p)
  \/ c.st = "ENOENT" /\ \E p \in Nat : lower <= p /\ p < e /\ ~Here(p)

\* The blocks are what they should be.
LEMMA BlocksKept ==
  ASSUME LayoutInv, NEW b \in Block
  PROVE  size \in Nat /\ size <= MaxSize /\ slices[b] \in Kept(size, b) /\ disk[b] \in Filed(size, b) \cup {None}
<1>1. size \in Nat /\ size <= MaxSize
  BY Units DEF LayoutInv
<1>2. slices[b] \in Kept(size, b) /\ disk[b] \in Filed(size, b) \cup {None}
  BY Zenon DEF LayoutInv, AllKept, AllFiled
<1> QED BY <1>1, <1>2

\* Where the loop over the blocks starts.
LEMMA NothingReadIs ==
  ASSUME LayoutInv
  PROVE  NothingRead \in ReadState
<1>1. slices \in AllKept(size)
  BY DEF LayoutInv
<1> QED BY <1>1 DEF NothingRead, ReadState

\* What a part of a block contains is a part of the object.
LEMMA ContentText ==
  ASSUME NEW b \in Nat, NEW o \in Nat, NEW e \in Nat, NEW x \in Nat, NEW y \in Nat,
         Reach(Base(b), o, x), Reach(Base(b), e, y)
  PROVE  Content(b, o, e) = Text(x, y)
<1>1. Base(b) \in Nat
  BY NextBase
<1>2. x = Base(b) + o /\ e - o = y - x
  BY <1>1 DEF Reach
<1> QED BY <1>2 DEF Content, Text

\* One turn of the loop over the blocks.
LEMMA ReadBlockStep ==
  ASSUME LayoutInv, MaxSize <= U32, NEW lower, NEW upper, Window(size, lower, upper),
         NEW b \in off2block(lower) .. off2block(upper), NEW granted, NEW c \in ReadState
  PROVE  /\ ReadBlock(c, b, lower, upper, granted) \in ReadState
         /\ ReadSoFar(c, lower, FromIn(b, lower))
              => ReadSoFar(ReadBlock(c, b, lower, upper, granted), lower, ToIn(b, upper))
<1> DEFINE o == OffInBlock(b, lower)
           k == ToRead(b, o, upper)
           r == Assemble(slices[b], disk[b], o, k)
           x == FromIn(b, lower)
           y == ToIn(b, upper)
           R == ReadBlock(c, b, lower, upper, granted)
           e == o + k
           nb == c.buf \o r.buf
           nm == Promote(c.slices[b], r.disk, granted)
           ns == [c.slices EXCEPT ![b] = nm]
<1>1. /\ size \in Nat /\ size <= MaxSize
  BY Units DEF LayoutInv
<1>2. /\ b \in Nat /\ b \in Block /\ o \in Nat /\ WholeRange(o, k, block_size(size, b))
      /\ x = Base(b) + o /\ y = Base(b) + o + k /\ lower <= x /\ x < y /\ y <= upper + 1
  BY <1>1, BlockPart
<1>3. /\ slices[b] \in Kept(size, b) /\ disk[b] \in Filed(size, b) \cup {None}
  BY <1>2, BlocksKept
<1>4. R \in {c, [c EXCEPT !.st = r.st], [c EXCEPT !.buf = nb, !.slices = ns]}
      /\ (c.st # "OK" => R = c)
      /\ (c.st = "OK" /\ r.st # "OK" => R = [c EXCEPT !.st = r.st])
      /\ (c.st = "OK" /\ r.st = "OK" => R = [c EXCEPT !.buf = nb, !.slices = ns])
  BY Zenon DEF ReadBlock
<1> HIDE DEF o, k, R, x, y
<1>5. k \in Nat \ {0} /\ o \in Edges /\ e <= block_size(size, b)
  BY <1>2 DEF WholeRange
<1>6. block_size(size, b) \in Int /\ block_size(size, b) <= BlockSize /\ Base(b) \in Nat
  BY <1>1, <1>2, BlockSizeIs
<1>7. /\ e \in Nat /\ e <= BlockSize /\ Reach(o, k, e) /\ x \in Nat /\ y \in Nat
      /\ Reach(Base(b), o, x) /\ Reach(Base(b), e, y)
  BY <1>2, <1>5, <1>6, Units DEF Reach
<1>8. lower \in Nat
  BY EdgeStart DEF Window
<1> HIDE DEF e
<1>9. r \in PieceState(size, b) /\ Pieced(b, slices[b], disk[b], o, r, e)
  BY <1>1, <1>2, <1>3, <1>7, AssembleIs
<1> HIDE DEF r
<1>10. R \in ReadState
  <2>1. c.slices \in AllKept(size) /\ c.buf \in Seq(ByteVal) /\ c.st \in {"OK", "ENOENT"}
    BY DEF ReadState
  <2>2. r.st \in {"OK", "ENOENT"} /\ r.buf \in Seq(ByteVal) /\ r.disk \in Seq(Right(size, b))
    BY <1>9 DEF PieceState
  <2>3. c.slices[b] \in Kept(size, b)
    BY <1>2, <2>1 DEF AllKept
  <2>4. nm \in Kept(size, b)
    BY <1>1, <1>2, <2>2, <2>3, PromoteKeeps
  <2>5. nb \in Seq(ByteVal)
    BY <2>1, <2>2
  <2> HIDE DEF nm, nb
  <2>6. ns \in AllKept(size)
    BY <1>2, <2>1, <2>4 DEF AllKept
  <2> HIDE DEF ns
  <2>7. [c EXCEPT !.st = r.st] \in ReadState
    BY <2>2 DEF ReadState
  <2>8. [c EXCEPT !.buf = nb, !.slices = ns] \in ReadState
    BY <2>5, <2>6 DEF ReadState
  <2> QED BY <1>4, <2>7, <2>8
<1> HIDE DEF ns, nb
<1>11. ASSUME ReadSoFar(c, lower, x) PROVE ReadSoFar(R, lower, y)
  <2>1. CASE c.st # "OK"
    <3>1. R = c /\ c.st = "ENOENT"
      BY <1>4, <2>1 DEF ReadState
    <3>2. PICK p \in Nat : lower <= p /\ p < x /\ ~Here(p)
      BY <1>11, <2>1 DEF ReadSoFar
    <3>3. p < y
      BY <1>2, <1>7, <3>2
    <3> QED BY <3>1, <3>2, <3>3 DEF ReadSoFar
  <2>2. CASE c.st = "OK" /\ r.st # "OK"
    <3>1. R.st = "ENOENT" /\ r.st = "ENOENT"
      <4>1. r.st = "ENOENT"
        BY <1>9, <2>2 DEF PieceState
      <4>2. R = [c EXCEPT !.st = r.st]
        BY <1>4, <2>2
      <4> QED BY <4>1, <4>2 DEF ReadState
    <3>2. disk[b] = None /\ \E s \in Slice : o <= Start(s) /\ Start(s) < e /\ slices[b][s] = None
      BY <1>9, <3>1 DEF Pieced
    <3>3. PICK p \in Nat : x <= p /\ p < y /\ ~Here(p)
      BY <1>2, <1>5, <1>7, <3>2, HereIs
    <3>4. lower <= p
      BY <1>2, <1>7, <1>8, <3>3
    <3> QED BY <3>1, <3>3, <3>4 DEF ReadSoFar
  <2>3. CASE c.st = "OK" /\ r.st = "OK"
    <3>1. R.st = "OK" /\ R.buf = nb
      <4>1. R = [c EXCEPT !.buf = nb, !.slices = ns]
        BY <1>4, <2>3
      <4> QED BY <2>3, <4>1 DEF ReadState
    <3>2. r.buf = Content(b, o, e) /\ (disk[b] # None \/ \A s \in Slice : o <= Start(s) /\ Start(s) < e => slices[b][s] # None)
      BY <1>9, <2>3 DEF Pieced
    <3>3. c.buf = Text(lower, x) /\ \A p \in Nat : lower <= p /\ p < x => Here(p)
      BY <1>11, <2>3 DEF ReadSoFar
    <3>4. \A p \in Nat : x <= p /\ p < y => Here(p)
      BY <1>2, <1>5, <1>7, <3>2, HereIs
    <3>5. \A p \in Nat : lower <= p /\ p < y => Here(p)
      BY <1>7, <1>8, <3>3, <3>4
    <3>6. nb = Text(lower, y)
      <4>1. r.buf = Text(x, y)
        BY <1>2, <1>7, <3>2, ContentText
      <4>2. nb = Joined(Text(lower, x), Text(x, y))
        BY <3>3, <4>1, Zenon DEF Joined, nb
      <4>3. x <= y
        BY <1>2, <1>7
      <4> QED BY <1>2, <1>7, <1>8, <4>2, <4>3, TextMeets
    <3> QED BY <3>1, <3>5, <3>6 DEF ReadSoFar
  <2> QED BY <2>1, <2>2, <2>3
<1> QED BY <1>10, <1>11 DEF R, x, y

\* The blocks of a range.
Turns(lower, upper) == off2block(upper) - off2block(lower) + 1

\* The turns of the loop are the blocks from the first to the last.
LEMMA TurnsAre ==
  ASSUME NEW n \in Nat, NEW lower, NEW upper, Window(n, lower, upper)
  PROVE  /\ off2block(lower) \in Nat /\ off2block(upper) \in Nat
         /\ Turns(lower, upper) \in Nat \ {0}
         /\ DOMAIN Counting(off2block(lower), off2block(upper)) = 1 .. Turns(lower, upper)
         /\ \A i \in 1 .. Turns(lower, upper) :
              /\ Counting(off2block(lower), off2block(upper))[i] = off2block(lower) + i - 1
              /\ off2block(lower) + i - 1 \in off2block(lower) .. off2block(upper)
<1> DEFINE lo == off2block(lower)
           hi == off2block(upper)
           k == Turns(lower, upper)
<1>1. lower \in Nat /\ upper \in Nat /\ lower <= upper
  BY EdgeStart DEF Window
<1>2. lo \in Nat /\ Base(lo) \in Nat /\ Base(lo) <= lower
  BY <1>1, BlockOf
<1>3. hi \in Nat /\ Base(hi) \in Nat /\ upper < Base(hi) + BlockSize
  BY <1>1, BlockOf
<1>4. k = hi - lo + 1
  BY DEF Turns
<1> HIDE DEF lo, hi, k
<1>5. lo <= hi
  <2>1. hi < lo => Base(hi) + BlockSize <= Base(lo)
    BY <1>2, <1>3, NextBase
  <2>2. BlockSize \in Nat
    BY Units
  <2> QED BY <1>1, <1>2, <1>3, <2>1, <2>2
<1>6. k \in Nat \ {0} /\ k \in Nat /\ hi \in Int /\ hi = lo + k - 1
  BY <1>2, <1>3, <1>4, <1>5
<1>7. DOMAIN Counting(lo, hi) = 1 .. k /\ \A i \in 1 .. k : Counting(lo, hi)[i] = lo + i - 1
  BY <1>2, <1>6, CountingIs
<1>8. \A i \in 1 .. k : lo + i - 1 \in lo .. hi
  BY <1>2, <1>3, <1>6
<1> QED BY <1>2, <1>3, <1>6, <1>7, <1>8 DEF lo, hi, k

BlocksSteps(f, lower, upper, granted) ==
  /\ f \in [0 .. Turns(lower, upper) -> ReadState]
  /\ f[0] = NothingRead /\ f[Turns(lower, upper)] = ReadBlocks(lower, upper, granted)
  /\ \A i \in 0 .. Turns(lower, upper) - 1 :
       f[i + 1] = ReadBlock(f[i], Counting(off2block(lower), off2block(upper))[i + 1], lower, upper, granted)

\* One block after the other.
LEMMA BlocksUnfold ==
  ASSUME LayoutInv, MaxSize <= U32, NEW lower, NEW upper, Window(size, lower, upper), NEW granted
  PROVE  \E f : BlocksSteps(f, lower, upper, granted)
<1> DEFINE L == Turns(lower, upper)
           W == ReadState
           base == NothingRead
           step == [i \in 1 .. L |-> [w \in W |-> ReadBlock(w, Counting(off2block(lower), off2block(upper))[i], lower, upper, granted)]]
           Is(g) == g = [t \in SUBSET (DOMAIN Counting(off2block(lower), off2block(upper))) |->
                           IF t = {} THEN NothingRead
                           ELSE ReadBlock(g[t \ {Max(t)}], Counting(off2block(lower), off2block(upper))[Max(t)], lower, upper, granted)]
           g == CHOOSE x : Is(x)
<1>1. L \in Nat /\ DOMAIN Counting(off2block(lower), off2block(upper)) = 1 .. L
  <2>1. size \in Nat
    BY Units DEF LayoutInv
  <2> QED BY <2>1, TurnsAre
<1>2. base \in W
  BY NothingReadIs
<1>3. ASSUME NEW i \in 1 .. L, NEW w \in W
      PROVE  ReadBlock(w, Counting(off2block(lower), off2block(upper))[i], lower, upper, granted) \in W
  <2> DEFINE b == Counting(off2block(lower), off2block(upper))[i]
  <2>1. size \in Nat
    BY Units DEF LayoutInv
  <2>2. b \in off2block(lower) .. off2block(upper)
    BY <2>1, TurnsAre
  <2> HIDE DEF b
  <2>3. ReadBlock(w, b, lower, upper, granted) \in W
    BY <2>2, ReadBlockStep
  <2> QED BY <2>3 DEF b
<1>4. ReadBlocks(lower, upper, granted) = g[DOMAIN Counting(off2block(lower), off2block(upper))]
  BY DEF ReadBlocks, FoldLeft, MapThenFoldSet
<1>5. step \in [1 .. L -> [W -> W]]
  <2> HIDE DEF W, L
  <2> QED BY <1>3
<1>6. \A t \in SUBSET (1 .. L) : t # {} => Max(t) \in 1 .. L
  BY <1>1, MaxIs
<1>7. Is(g)
  <2>1. PICK f \in [SUBSET (1 .. L) -> W] : Folds(f, 1 .. L, base, step)
    <3> HIDE DEF W, L, base, step
    <3> QED BY <1>1, <1>2, <1>5, FoldExists
  <2>2. ASSUME NEW t \in SUBSET (1 .. L), t # {}
        PROVE  step[Max(t)][f[t \ {Max(t)}]]
                 = ReadBlock(f[t \ {Max(t)}], Counting(off2block(lower), off2block(upper))[Max(t)], lower, upper, granted)
    <3> DEFINE r == f[t \ {Max(t)}]
               j == Max(t)
    <3>1. r \in W /\ j \in 1 .. L
      BY <1>6, <2>1, <2>2
    <3> HIDE DEF r, j, W, L
    <3>2. step[j][r] = ReadBlock(r, Counting(off2block(lower), off2block(upper))[j], lower, upper, granted)
      BY <3>1
    <3> QED BY <3>2 DEF r, j
  <2>3. Is(f)
    <3> HIDE DEF step
    <3> QED BY <1>1, <2>1, <2>2 DEF Folds
  <2> HIDE DEF Is
  <2> QED BY <2>3
<1>8. Follows(g, L, W, base, step)
  <2>1. g[{}] = base
    <3> HIDE DEF g
    <3> QED BY <1>7
  <2>2. ASSUME NEW t \in SUBSET (1 .. L), t # {}, g[t \ {Max(t)}] \in W PROVE g[t] = step[Max(t)][g[t \ {Max(t)}]]
    <3> DEFINE r == g[t \ {Max(t)}]
               j == Max(t)
    <3>1. r \in W /\ j \in 1 .. L
      <4> HIDE DEF g
      <4> QED BY <1>6, <2>2
    <3>2. g[t] = ReadBlock(r, Counting(off2block(lower), off2block(upper))[j], lower, upper, granted)
      <4> HIDE DEF g
      <4> QED BY <1>1, <1>7, <2>2
    <3> HIDE DEF r, j, W, L, g
    <3>3. step[j][r] = ReadBlock(r, Counting(off2block(lower), off2block(upper))[j], lower, upper, granted)
      BY <3>1
    <3> QED BY <3>2, <3>3 DEF r, j
  <2> HIDE DEF g, step, W, base
  <2> QED BY <2>1, <2>2 DEF Follows
<1>9. FoldSteps(g, L, W, base, step)
  <2> HIDE DEF g, step, W, L, base
  <2> QED BY <1>1, <1>2, <1>5, <1>8, FoldFollows
<1> DEFINE h == [i \in 0 .. L |-> g[1 .. i]]
<1>10. h \in [0 .. L -> W] /\ h[0] = base /\ h[L] = g[1 .. L]
  <2> HIDE DEF g, step, W, L, base
  <2> QED BY <1>1, <1>9 DEF FoldSteps
<1>11. ASSUME NEW i \in 0 .. L - 1 PROVE h[i + 1] = ReadBlock(h[i], Counting(off2block(lower), off2block(upper))[i + 1], lower, upper, granted)
  <2> DEFINE r == g[1 .. i]
             j == i + 1
  <2>1. j \in 1 .. L /\ i \in 0 .. L /\ j \in 0 .. L /\ j = i + 1
    <3> HIDE DEF L
    <3> QED BY <1>1
  <2>2. r \in W /\ g[1 .. j] = step[j][r]
    <3> HIDE DEF g, step, W, L, base
    <3> QED BY <1>9, <2>1 DEF FoldSteps
  <2>3. h[i] = r /\ h[j] = g[1 .. j]
    <3> HIDE DEF g, L, j
    <3> QED BY <2>1
  <2> HIDE DEF g, L, W, r, h, j
  <2>4. step[j][r] = ReadBlock(r, Counting(off2block(lower), off2block(upper))[j], lower, upper, granted)
    BY <2>1, <2>2
  <2> QED BY <2>2, <2>3, <2>4 DEF j
<1> HIDE DEF h, W, L, base
<1>12. BlocksSteps(h, lower, upper, granted)
  BY <1>1, <1>4, <1>10, <1>11 DEF BlocksSteps, L, W, base
<1> QED BY <1>12

\* How far the first i turns come.
Done(lower, upper, i) == IF i = 0 THEN lower ELSE ToIn(off2block(lower) + i - 1, upper)

\* A turn ends where the next one starts, and the last at the end of the range.
LEMMA DoneIs ==
  ASSUME NEW n \in Nat, n <= MaxSize, MaxSize <= U32, NEW lower, NEW upper, Window(n, lower, upper)
  PROVE  /\ \A i \in 0 .. Turns(lower, upper) : Done(lower, upper, i) \in Nat
         /\ \A i \in 0 .. Turns(lower, upper) - 1 :
              Done(lower, upper, i) = FromIn(off2block(lower) + i, lower)
         /\ Done(lower, upper, Turns(lower, upper)) = upper + 1
<1> DEFINE lo == off2block(lower)
           hi == off2block(upper)
           k == Turns(lower, upper)
<1>1. lo \in Nat /\ hi \in Nat /\ k \in Nat \ {0} /\ k = hi - lo + 1
  BY TurnsAre DEF Turns
<1>2. lower \in Nat /\ upper \in Nat
  BY EdgeStart DEF Window
<1> HIDE DEF lo, hi, k
<1>3. \A j \in Nat : Base(j) \in Nat
  BY NextBase
<1>4. ASSUME NEW i \in 0 .. k PROVE Done(lower, upper, i) \in Nat
  <2>1. CASE i = 0
    BY <1>2, <2>1 DEF Done
  <2>2. CASE i # 0
    <3> DEFINE j == lo + i - 1
    <3>1. j \in Nat /\ j + 1 \in Nat
      BY <1>1, <2>2
    <3>2. Done(lower, upper, i) = ToIn(j, upper)
      BY <2>2 DEF Done, lo
    <3> HIDE DEF j
    <3> QED BY <1>2, <1>3, <3>1, <3>2 DEF ToIn
  <2> QED BY <2>1, <2>2
<1>5. ASSUME NEW i \in 0 .. k - 1 PROVE Done(lower, upper, i) = FromIn(lo + i, lower)
  <2>1. CASE i = 0
    <3>1. lo + i = lo
      BY <1>1, <2>1
    <3> QED BY <2>1, <3>1 DEF Done, FromIn, lo
  <2>2. CASE i # 0
    <3> DEFINE j == lo + i - 1
               u == lo + i
    <3>1. u = j + 1 /\ j # hi /\ u # lo
      BY <1>1, <2>2
    <3>2. Done(lower, upper, i) = ToIn(j, upper)
      BY <2>2 DEF Done, lo
    <3> HIDE DEF j, u
    <3>3. Done(lower, upper, i) = Base(j + 1) /\ FromIn(u, lower) = Base(u)
      BY <3>1, <3>2 DEF ToIn, FromIn, lo, hi
    <3> QED BY <3>1, <3>3 DEF u
  <2> QED BY <2>1, <2>2
<1>6. Done(lower, upper, k) = upper + 1
  <2> DEFINE j == lo + k - 1
  <2>1. j = hi /\ k # 0
    BY <1>1
  <2>2. Done(lower, upper, k) = ToIn(j, upper)
    BY <2>1 DEF Done, lo
  <2> HIDE DEF j
  <2> QED BY <2>1, <2>2 DEF ToIn, hi
<1> QED BY <1>4, <1>5, <1>6 DEF lo, k

\* The loop over the blocks gives the bytes of the range, or a byte of it is
\* neither in memory nor on disk.
LEMMA ReadBlocksAre ==
  ASSUME LayoutInv, MaxSize <= U32, NEW lower, NEW upper, Window(size, lower, upper), NEW granted
  PROVE  /\ ReadBlocks(lower, upper, granted) \in ReadState
         /\ ReadSoFar(ReadBlocks(lower, upper, granted), lower, upper + 1)
<1> DEFINE lo == off2block(lower)
           hi == off2block(upper)
           k == Turns(lower, upper)
           end == ReadBlocks(lower, upper, granted)
<1>1. PICK f : BlocksSteps(f, lower, upper, granted)
  BY BlocksUnfold
<1>2. size \in Nat /\ size <= MaxSize /\ lower \in Nat
  BY Units, EdgeStart DEF LayoutInv, Window
<1>3. /\ lo \in Nat /\ k \in Nat \ {0}
      /\ \A i \in 1 .. k : Counting(lo, hi)[i] = lo + i - 1 /\ lo + i - 1 \in lo .. hi
  BY <1>2, TurnsAre
<1>4. /\ f \in [0 .. k -> ReadState] /\ f[0] = NothingRead /\ f[k] = end
      /\ \A i \in 0 .. k - 1 : f[i + 1] = ReadBlock(f[i], Counting(lo, hi)[i + 1], lower, upper, granted)
  BY <1>1 DEF BlocksSteps
<1>5. /\ \A i \in 0 .. k : Done(lower, upper, i) \in Nat
      /\ \A i \in 0 .. k - 1 : Done(lower, upper, i) = FromIn(lo + i, lower)
      /\ Done(lower, upper, k) = upper + 1
  BY <1>2, DoneIs
<1> HIDE DEF k, end
<1> DEFINE Good == {i \in 0 .. k : ReadSoFar(f[i], lower, Done(lower, upper, i))}
<1>6. 0 \in Good
  <2>1. Done(lower, upper, 0) = lower
    BY DEF Done
  <2>2. Text(lower, lower) = << >>
    <3>1. lower - lower = 0
      BY <1>2
    <3> QED BY <3>1 DEF Text, Bytes
  <2>3. NothingRead.st = "OK" /\ NothingRead.buf = << >>
    BY DEF NothingRead
  <2>4. ReadSoFar(NothingRead, lower, lower)
    <3>1. \A p \in Nat : ~(lower <= p /\ p < lower)
      BY <1>2
    <3> QED BY <2>2, <2>3, <3>1 DEF ReadSoFar
  <2>5. 0 \in 0 .. k
    BY <1>3
  <2> QED BY <1>4, <2>1, <2>4, <2>5
<1>7. ASSUME NEW i \in 0 .. k - 1, i \in Good PROVE i + 1 \in Good
  <2> DEFINE j == i + 1
             b == lo + i
  <2>1. i \in 0 .. k /\ j \in 1 .. k /\ j \in 0 .. k /\ j # 0 /\ lo + j - 1 = b
    BY <1>3
  <2>2. f[i] \in ReadState /\ ReadSoFar(f[i], lower, FromIn(b, lower))
    BY <1>4, <1>5, <1>7, <2>1
  <2>3. f[j] = ReadBlock(f[i], Counting(lo, hi)[j], lower, upper, granted)
    BY <1>4
  <2>4. Counting(lo, hi)[j] = b /\ b \in lo .. hi /\ Done(lower, upper, j) = ToIn(b, upper)
    <3> HIDE DEF j, b
    <3>1. Counting(lo, hi)[j] = lo + j - 1 /\ lo + j - 1 \in lo .. hi
      BY <1>3, <2>1
    <3>2. Done(lower, upper, j) = ToIn(lo + j - 1, upper)
      BY <2>1 DEF Done
    <3> QED BY <2>1, <3>1, <3>2
  <2> HIDE DEF j, b
  <2>5. ReadSoFar(ReadBlock(f[i], b, lower, upper, granted), lower, ToIn(b, upper))
    BY <2>2, <2>4, ReadBlockStep
  <2>6. j \in Good
    BY <2>1, <2>3, <2>4, <2>5
  <2> QED BY <2>6 DEF j
<1>8. k \in Good
  <2> HIDE DEF Good
  <2>1. \A i \in 0 .. k : i \in Good
    BY <1>3, <1>6, <1>7, UpTo
  <2> QED BY <1>3, <2>1
<1>9. k \in 0 .. k
  BY <1>3
<1> QED BY <1>4, <1>5, <1>8, <1>9 DEF end

-----------------------------------------------------------------------------
(***************************************************************************)
(* A read: the range is cut to the object, widened to slices and trimmed.  *)
(***************************************************************************)
\* The bytes of one slice are all here or all missing.
LEMMA SameSlice ==
  ASSUME NEW u \in Nat, NEW p \in Nat, NEW q \in Nat, Start(u) <= p, p < Start(u) + SliceSize,
         Start(u) <= q, q < Start(u) + SliceSize
  PROVE  Here(p) <=> Here(q)
<1> DEFINE b == off2block(p)
           B == Base(b)
           t == Start(u)
           f == t - B
           v == off2slice(f)
<1>1. b \in Nat /\ B \in Nat /\ B <= p /\ p < B + BlockSize
  BY BlockOf
<1>2. SliceSize \in Nat \ {0} /\ BlockSize \in Nat \ {0}
  BY Units
<1>3. t \in Nat /\ t \in Edges
  <2>1. t \in Edges
    BY DEF Edges
  <2> QED BY <2>1, EdgeStart
<1>4. B \in Edges /\ B + BlockSize \in Edges
  <2> HIDE DEF B, b
  <2>1. B \in Edges /\ BlockSize \in Edges
    BY <1>1, BlockEdges DEF B
  <2> QED BY <2>1, EdgeArithmetic
<1> HIDE DEF b, B
<1>5. (t < B => t + SliceSize <= B) /\ (t < B + BlockSize => t + SliceSize <= B + BlockSize)
  BY <1>4, EdgeAfter
<1> HIDE DEF t
<1>6. B <= t /\ t + SliceSize <= B + BlockSize
  BY <1>1, <1>2, <1>3, <1>5 DEF t
<1>7. B <= q /\ q < B + BlockSize
  BY <1>1, <1>2, <1>3, <1>6 DEF t
<1>8. off2block(q) = b
  BY <1>1, <1>7, BlockIs DEF B
<1>9. f \in Edges /\ f \in Nat
  BY <1>1, <1>3, <1>4, <1>6, EdgeArithmetic
<1>10. v \in Nat /\ f = Start(v)
  BY <1>9, EdgeStart
<1>11. /\ p - B \in Nat /\ f <= p - B /\ p - B < f + SliceSize
       /\ q - B \in Nat /\ f <= q - B /\ q - B < f + SliceSize
  BY <1>1, <1>2, <1>3, <1>6, <1>7 DEF t
<1> HIDE DEF f, v
<1> DEFINE x == p - B
           y == q - B
<1>12. x \in Nat /\ Start(v) <= x /\ x < Start(v) + SliceSize /\ y \in Nat /\ Start(v) <= y /\ y < Start(v) + SliceSize
  BY <1>10, <1>11
<1> HIDE DEF x, y
<1>13. off2slice(x) = v /\ off2slice(y) = v
  BY <1>10, <1>12, SliceIs
<1>14. /\ Here(p) <=> disk[b] # None \/ slices[b][off2slice(x)] # None
       /\ Here(q) <=> disk[b] # None \/ slices[b][off2slice(y)] # None
  BY <1>8, Zenon DEF Here, x, y, B, Base, b
<1> QED BY <1>13, <1>14

\* The range widened to slices.
LEMMA WidenedIs ==
  ASSUME size \in Nat, size <= MaxSize, MaxSize <= U32, NEW o \in Nat, NEW k \in Nat, o <= k, k < size,
         NEW lower, lower = slice_lower(off2slice(o)), NEW upper, upper = Upper(slice_upper(off2slice(k)))
  PROVE  /\ Window(size, lower, upper) /\ lower \in Nat /\ upper \in Nat /\ lower <= o /\ k <= upper
         /\ \A p \in lower .. upper : Here(p) \/ \E q \in o .. k : ~Here(q)
<1> DEFINE s == off2slice(o)
           t == off2slice(k)
           x == Start(s)
           y == Start(t)
           z == Start(t + 1)
<1>1. s \in Nat /\ x \in Nat /\ x <= o /\ o < x + SliceSize /\ t \in Nat /\ y \in Nat /\ y <= k /\ k < y + SliceSize
  BY SliceOf
<1>2. SliceSize \in Nat \ {0} /\ U32 \in Nat /\ MaxSize \in Nat
  BY Units
<1>3. x \in Edges /\ z \in Edges
  <2>1. t + 1 \in Nat
    BY <1>1
  <2> HIDE DEF s, t
  <2> QED BY <1>1, <2>1 DEF Edges
<1>4. z = y + SliceSize
  BY <1>1, NextStart
<1> HIDE DEF s, t, x, y, z
<1>5. x < U32 /\ y < U32
  BY <1>1, <1>2
<1>6. slice_lower(s) = x /\ slice_upper(t) = y + SliceSize - 1
  BY <1>1, <1>5, SliceBounds DEF x, y
<1>7. lower = x /\ upper = Lesser(z - 1, size - 1)
  <2>1. slice_upper(t) = z - 1
    BY <1>1, <1>2, <1>4, <1>6
  <2> QED BY <1>6, <2>1 DEF s, t, Upper
<1>8. z \in Nat /\ (upper = z - 1 \/ upper = size - 1) /\ upper <= z - 1 /\ upper <= size - 1
  BY <1>1, <1>2, <1>4, <1>7 DEF Lesser
<1>9. upper \in Nat /\ lower \in Nat /\ lower <= o /\ k <= upper /\ upper < size /\ (upper + 1 = z \/ upper + 1 = size)
  BY <1>1, <1>2, <1>4, <1>7, <1>8
<1>10. Window(size, lower, upper)
  BY <1>3, <1>7, <1>9 DEF Window
<1>11. ASSUME NEW p \in lower .. upper PROVE Here(p) \/ \E q \in o .. k : ~Here(q)
  <2>1. p \in Nat /\ x <= p /\ p < y + SliceSize
    BY <1>1, <1>2, <1>4, <1>7, <1>8, <1>9
  <2>2. o \in o .. k /\ k \in o .. k
    OBVIOUS
  <2>3. CASE p < o
    <3>1. p < x + SliceSize
      BY <1>1, <1>2, <2>1, <2>3
    <3>2. Here(p) <=> Here(o)
      BY <1>1, <2>1, <3>1, SameSlice DEF x
    <3> QED BY <2>2, <3>2
  <2>4. CASE k < p
    <3>1. y <= p
      BY <1>1, <2>1, <2>4
    <3>2. Here(p) <=> Here(k)
      BY <1>1, <2>1, <3>1, SameSlice DEF y
    <3> QED BY <2>2, <3>2
  <2>5. CASE o <= p /\ p <= k
    <3>1. p \in o .. k
      BY <2>1, <2>5
    <3> QED BY <3>1
  <2> QED BY <2>1, <2>3, <2>4, <2>5
<1> QED BY <1>9, <1>10, <1>11

\* The part of a range that is within the object.
LEMMA ValidIs ==
  ASSUME size \in Nat, NEW o \in Nat, NEW n \in Nat
  PROVE  /\ ReadSize(o, n) \in Nat /\ Valid(o, n) = o .. o + ReadSize(o, n) - 1
         /\ Cardinality(Valid(o, n)) = ReadSize(o, n)
         /\ ReadSize(o, n) # 0 => o + ReadSize(o, n) <= size
<1> DEFINE m == ReadSize(o, n)
<1>1. /\ o + n > size /\ o >= size => m = 0
      /\ o + n > size /\ ~(o >= size) => m = size - o
      /\ ~(o + n > size) => m = n
  BY DEF ReadSize
<1> HIDE DEF m
<1>2. m \in Nat /\ (m # 0 => o + m <= size)
  BY <1>1
<1>3. \A p \in Int : (o <= p /\ p <= o + n - 1 /\ p < size) <=> (o <= p /\ p <= o + m - 1)
  BY <1>1
<1>4. Valid(o, n) = o .. o + m - 1
  <2>1. \A p : p \in Valid(o, n) <=> p \in Int /\ o <= p /\ p <= o + n - 1 /\ p < size
    BY DEF Valid
  <2>2. \A p : p \in o .. o + m - 1 <=> p \in Int /\ o <= p /\ p <= o + m - 1
    BY <1>2
  <2>3. \A p : p \in Valid(o, n) <=> p \in o .. o + m - 1
    BY <1>3, <2>1, <2>2
  <2> HIDE DEF Valid
  <2> QED BY <2>3
<1> DEFINE c == o + m - 1
<1>5. c \in Int /\ (o > c => m = 0) /\ (o <= c => c - o + 1 = m)
  BY <1>2
<1> HIDE DEF c
<1>6. Cardinality(o .. c) = m
  BY <1>5, FS_Interval
<1> QED BY <1>2, <1>4, <1>6 DEF m, c

\* What a read gives and what it leaves in memory.
LEMMA ReadIs ==
  ASSUME LayoutInv, MaxSize <= U32, NEW o \in Nat, NEW n \in Nat, NEW granted
  PROVE  LET r == ReadResult(o, n, granted) IN
         /\ r.slices \in AllKept(size)
         /\ \/ /\ r.st = "OK" /\ r.buf = Bytes(o, Cardinality(Valid(o, n)))
               /\ \A p \in Valid(o, n) : Here(p)
            \/ /\ r.st = "ENOENT" /\ \E p \in Valid(o, n) : ~Here(p)
<1> DEFINE m == ReadSize(o, n)
           r == ReadResult(o, n, granted)
           k == o + m - 1
           lower == slice_lower(off2slice(o))
           upper == Upper(slice_upper(off2slice(k)))
           c == ReadBlocks(lower, upper, granted)
           x == IF c.st # "OK" THEN << >> ELSE Trim(c.buf, o, lower, m)
<1>1. size \in Nat /\ size <= MaxSize
  BY Units DEF LayoutInv
<1>2. /\ m \in Nat /\ Valid(o, n) = o .. k /\ Cardinality(Valid(o, n)) = m
      /\ m # 0 => o + m <= size
  BY <1>1, ValidIs
<1>3. (m = 0 => r = NothingRead) /\ (m # 0 => r = [c EXCEPT !.buf = x])
  BY Zenon DEF ReadResult
<1> HIDE DEF m, r
<1>4. CASE m = 0
  <2>1. r.st = "OK" /\ r.buf = << >> /\ r.slices \in AllKept(size)
    BY <1>3, <1>4, NothingReadIs DEF NothingRead, ReadState
  <2>2. Valid(o, n) = {}
    BY <1>2, <1>4
  <2>3. Bytes(o, m) = << >>
    BY <1>4 DEF Bytes
  <2> QED BY <1>2, <2>1, <2>2, <2>3 DEF r
<1>5. CASE m # 0
  <2>1. k \in Nat /\ o <= k /\ k < size /\ m = k - o + 1
    BY <1>1, <1>2, <1>5
  <2> HIDE DEF k, lower, upper, c
  <2>2. /\ Window(size, lower, upper) /\ lower \in Nat /\ upper \in Nat /\ lower <= o /\ k <= upper
        /\ \A p \in lower .. upper : Here(p) \/ \E q \in o .. k : ~Here(q)
    BY <1>1, <2>1, WidenedIs DEF lower, upper
  <2>3. c \in ReadState /\ ReadSoFar(c, lower, upper + 1)
    BY <2>2, ReadBlocksAre DEF c
  <2> HIDE DEF x
  <2>4. r.st = c.st /\ r.slices = c.slices /\ r.buf = x
    BY <1>3, <1>5, <2>3 DEF ReadState
  <2>5. r.slices \in AllKept(size)
    BY <2>3, <2>4 DEF ReadState
  <2>6. CASE c.st = "OK"
    <3>1. c.buf = Text(lower, upper + 1) /\ \A p \in Nat : lower <= p /\ p < upper + 1 => Here(p)
      BY <2>3, <2>6 DEF ReadSoFar
    <3>2. \A p \in Valid(o, n) : Here(p)
      <4>1. ASSUME NEW p \in o .. k PROVE p \in Nat /\ lower <= p /\ p < upper + 1
        BY <2>1, <2>2
      <4> QED BY <1>2, <3>1, <4>1
    <3>3. x = Bytes(o, m)
      <4> DEFINE l == upper + 1 - lower
                 pos == o - lower
      <4>1. l \in Nat /\ pos \in Nat /\ pos + m <= l /\ \A j \in 1 .. m : pos + j \in 1 .. l /\ lower + (pos + j) - 1 = o + j - 1
        BY <1>2, <2>1, <2>2
      <4> HIDE DEF l
      <4>2. c.buf = Bytes(lower, l)
        <5> DEFINE e == upper + 1
        <5>1. e \in Nat /\ e - lower = l
          BY <2>2 DEF l
        <5>2. c.buf = Text(lower, e)
          BY <3>1
        <5> HIDE DEF e
        <5> QED BY <5>1, <5>2 DEF Text
      <4>3. /\ Bytes(lower, l) \in Seq(Nat) /\ Len(Bytes(lower, l)) = l
            /\ \A j \in 1 .. l : Bytes(lower, l)[j] = lower + j - 1
        BY <2>2, <4>1, BytesType
      <4> DEFINE buf == Bytes(lower, l)
      <4> HIDE DEF buf, pos
      <4>4. buf \in Seq(Nat) /\ pos + m <= Len(buf) /\ \A j \in 1 .. m : buf[pos + j] = o + j - 1
        BY <4>1, <4>3 DEF buf
      <4>5. Cut(buf, m, pos) = Bytes(o, m)
        BY <1>2, <4>1, <4>4, CutBytes
      <4>6. x = Cut(buf, m, pos)
        BY <2>6, <4>2, Zenon DEF x, Trim, buf, pos
      <4> QED BY <4>5, <4>6
    <3> QED BY <1>2, <2>4, <2>5, <2>6, <3>2, <3>3 DEF r
  <2>7. CASE c.st # "OK"
    <3>1. c.st = "ENOENT"
      BY <2>3, <2>7 DEF ReadState
    <3>2. PICK p \in Nat : lower <= p /\ p < upper + 1 /\ ~Here(p)
      BY <2>3, <2>7 DEF ReadSoFar
    <3>3. p \in lower .. upper
      BY <2>2, <3>2
    <3>4. \E q \in o .. k : ~Here(q)
      BY <2>2, <3>2, <3>3
    <3> QED BY <1>2, <2>4, <2>5, <3>1, <3>4 DEF r
  <2> QED BY <2>6, <2>7
<1> QED BY <1>4, <1>5

-----------------------------------------------------------------------------
(***************************************************************************)
(* The properties of BlockLayout.                                          *)
(***************************************************************************)
\* A read that returns OK is exact.
LEMMA ReadExactHolds ==
  ASSUME LayoutInv, MaxSize <= U32
  PROVE  ReadExact
<1> SUFFICES ASSUME NEW o \in Offsets, NEW n \in Offsets, ReadResult(o, n, {}).st = "OK"
             PROVE  ReadResult(o, n, {}).buf = Bytes(o, Cardinality(Valid(o, n)))
  BY DEF ReadExact
<1>1. o \in Nat /\ n \in Nat
  BY Units DEF Offsets
<1> QED BY <1>1, ReadIs

\* A read is complete: it fails only for a byte that is nowhere.
LEMMA ReadCompleteHolds ==
  ASSUME LayoutInv, MaxSize <= U32
  PROVE  ReadComplete
<1> SUFFICES ASSUME NEW o \in Offsets, NEW n \in Offsets
             PROVE  ReadResult(o, n, {}).st = IF \A p \in Valid(o, n) : Here(p) THEN "OK" ELSE "ENOENT"
  BY Zenon DEF ReadComplete, Here
<1>1. o \in Nat /\ n \in Nat
  BY Units DEF Offsets
<1> QED BY <1>1, ReadIs

\* A disk block is whole.
LEMMA DiskBlockWholeHolds ==
  ASSUME LayoutInv
  PROVE  DiskBlockWhole
<1> SUFFICES ASSUME NEW b \in Block, disk[b] # None, NEW p \in 0 .. block_size(size, b) - 1
             PROVE  disk[b].data[p] = b * BlockSize + p
  BY DEF DiskBlockWhole
<1>1. size \in Nat /\ disk[b] \in Filed(size, b) /\ b \in Nat
  BY BlocksKept, BlocksAre
<1>2. block_size(size, b) \in Int /\ block_size(size, b) <= BlockSize /\ BlockSize \in Nat
  BY <1>1, BlockSizeIs, Units
<1>3. p \in 0 .. BlockSize - 1 /\ p < block_size(size, b)
  BY <1>2
<1>4. disk[b].data[p] = Base(b) + p
  BY <1>1, <1>3 DEF Filed, RightBelow
<1> QED BY <1>4 DEF Base

\* Segments lie where they should.
LEMMA TypeHolds ==
  ASSUME LayoutInv
  PROVE  TypeOK
<1>1. size \in 0 .. MaxSize /\ dirty \in [Block -> BOOLEAN]
  BY DEF LayoutInv
<1>2. ASSUME NEW b \in Block, NEW s \in Slice, slices[b][s] # None
      PROVE  /\ slices[b][s].offset >= 0 /\ slices[b][s].offset + slices[b][s].size <= block_size(size, b)
             /\ s \in off2slice(slices[b][s].offset) .. off2slice(slices[b][s].offset + slices[b][s].size - 1)
  <2> DEFINE g == slices[b][s]
  <2>1. size \in Nat /\ slices[b] \in Kept(size, b) /\ b \in Nat
    BY BlocksKept, BlocksAre
  <2>2. g \in Right(size, b) /\ s \in Covered(g)
    BY <1>2, <2>1, KeptIs
  <2> HIDE DEF g
  <2>3. g.offset \in Nat /\ g.offset + g.size <= block_size(size, b)
    BY <2>1, <2>2, RightIs
  <2>4. g.offset >= 0 /\ g.offset + g.size <= block_size(size, b) /\ s \in off2slice(g.offset) .. off2slice(g.offset + g.size - 1)
    BY <2>2, <2>3 DEF Covered
  <2> QED BY <2>4 DEF g
<1>3. ASSUME NEW b \in Block, disk[b] # None PROVE disk[b].data \in [0 .. BlockSize - 1 -> ByteVal]
  BY <1>3, BlocksKept DEF Filed, Files
<1> QED BY <1>1, <1>2, <1>3, Zenon DEF TypeOK, ByteVal

-----------------------------------------------------------------------------
(***************************************************************************)
(* The invariant holds.                                                    *)
(***************************************************************************)
\* The segment of one block of an object.
BlockSegment(n, b) == Segment(0, Len(BlockBytes(n, b)), Aligned(BlockBytes(n, b)))

\* It is a segment of the block, up to its end.
LEMMA BlockSegmentIs ==
  ASSUME NEW n \in Nat, n # 0, n <= MaxSize, NEW b \in 0 .. block_count(n) - 1
  PROVE  /\ b \in Nat /\ BlockSegment(n, b) \in Right(n, b)
         /\ BlockSegment(n, b).offset = 0 /\ BlockSegment(n, b).size = block_size(n, b)
<1> DEFINE w == block_size(n, b)
           B == Base(b)
           h == off2block(n - 1)
           buf == Bytes(B, w)
           l == round_up(w, AlignUnit)
           pad == [j \in 1 .. l - w |-> Junk]
           x == buf \o pad
<1>1. n - 1 \in Nat /\ BlockSize \in Nat \ {0} /\ MaxSize \in Nat /\ AlignUnit \in Nat \ {0}
  BY Units
<1>2. h \in Nat /\ Base(h) \in Nat /\ Base(h) <= n - 1
  BY <1>1, BlockOf
<1>3. block_count(n) = h + 1
  BY DEF block_count, off2block
<1> HIDE DEF h
<1>4. b \in Nat /\ b <= h
  BY <1>2, <1>3
<1>5. B \in Nat /\ B <= n - 1
  <2>1. Base(b) \in Nat /\ Base(b) <= Base(h)
    BY <1>2, <1>4, NextBase
  <2> QED BY <1>1, <1>2, <2>1
<1>6. w \in Int /\ w <= BlockSize /\ B + w <= n /\ (w = BlockSize \/ B + w = n)
  BY <1>4, BlockSizeIs
<1>7. b * BlockSize = B
  BY DEF Base
<1>8. BlockBytes(n, b) = buf
  BY <1>7, Zenon DEF BlockBytes
<1> HIDE DEF w, B
<1>9. w \in Nat \ {0} /\ B + w <= MaxSize
  BY <1>1, <1>5, <1>6
<1>10. l \in Nat /\ w <= l
  BY <1>9, RoundUp
<1>11. buf \in Seq(ByteVal) /\ Len(buf) = w /\ \A j \in 1 .. w : buf[j] = B + j - 1
  BY <1>5, <1>9, BytesType
<1> HIDE DEF l, buf
<1>12. pad \in Seq(ByteVal) /\ Len(pad) = l - w
  BY <1>9, <1>10 DEF ByteVal
<1>13. Aligned(buf) = x
  BY <1>11, Zenon DEF Aligned, l
<1> HIDE DEF pad
<1>14. x \in Seq(ByteVal) /\ Len(x) = l /\ \A j \in 1 .. w : x[j] = B + j - 1
  <2>1. x \in Seq(ByteVal) /\ Len(x) = Len(buf) + Len(pad) /\ \A j \in 1 .. Len(buf) : x[j] = buf[j]
    BY <1>11, <1>12
  <2> HIDE DEF x
  <2>2. Len(x) = l
    BY <1>9, <1>10, <1>11, <1>12, <2>1
  <2>3. \A j \in 1 .. w : x[j] = B + j - 1
    BY <1>11, <2>1
  <2> QED BY <2>1, <2>2, <2>3
<1> DEFINE g == BlockSegment(n, b)
<1>15. g = Segment(0, w, x)
  BY <1>8, <1>11, <1>13 DEF BlockSegment
<1> HIDE DEF x, g
<1>16. g.offset = 0 /\ g.size = w /\ g.buf = x /\ g \in [offset : Nat, size : Nat \ {0}, buf : Seq(ByteVal)]
  BY <1>9, <1>14, <1>15 DEF Segment
<1>17. 0 \in Edges
  BY BlockEdges
<1>18. g \in Right(n, b)
  <2>1. g.offset + g.size = w /\ \A j \in 1 .. w : Base(b) + g.offset + j - 1 = B + j - 1
    BY <1>5, <1>9, <1>16 DEF B
  <2> QED BY <1>9, <1>14, <1>16, <1>17, <2>1 DEF Right, w, l
<1> QED BY <1>4, <1>16, <1>18 DEF g, w

\* A block is written whole.
LEMMA WrittenWhole ==
  ASSUME NEW n \in Nat, n # 0, n <= MaxSize, NEW b \in 0 .. block_count(n) - 1
  PROVE  /\ MemWrite(NoSlices, BlockSegment(n, b)) \in Kept(n, b)
         /\ DiskWrite(NewDiskBlock, BlockSegment(n, b)) \in Filed(n, b)
<1> DEFINE g == BlockSegment(n, b)
           w == block_size(n, b)
<1>1. b \in Nat /\ g \in Right(n, b) /\ g.offset = 0 /\ g.size = w
  BY BlockSegmentIs
<1>2. w \in Int
  BY <1>1, BlockSizeIs
<1> HIDE DEF g
<1>3. MemWrite(NoSlices, g) \in Kept(n, b)
  BY <1>1, NoneKept, MemWriteKeeps
<1>4. RightBelow(NewDiskBlock, n, b, 0)
  BY <1>1, NothingBelow
<1>5. DiskWrite(NewDiskBlock, g) \in Files /\ RightBelow(DiskWrite(NewDiskBlock, g), n, b, g.offset + g.size)
  <2>1. RightBelow(NewDiskBlock, n, b, g.offset)
    BY <1>1, <1>4
  <2> QED BY <1>1, <2>1, NewIsFile, DiskWriteRight
<1>6. g.offset + g.size = w
  BY <1>1, <1>2
<1> HIDE DEF w
<1>7. RightBelow(DiskWrite(NewDiskBlock, g), n, b, w)
  BY <1>5, <1>6
<1> QED BY <1>3, <1>5, <1>7 DEF g, w, Filed

\* With no object nothing is wrong.
LEMMA LayoutInit == Init => LayoutInv
<1> SUFFICES ASSUME Init PROVE LayoutInv
  OBVIOUS
<1>1. size = 0 /\ slices = [b \in Block |-> NoSlices] /\ dirty = [b \in Block |-> FALSE]
      /\ disk = [b \in Block |-> None]
  BY DEF Init
<1>2. size \in 0 .. MaxSize
  BY <1>1, Units
<1>3. \A b \in Block : NoSlices \in Kept(size, b)
  BY <1>1, NoneKept, BlocksAre
<1>4. slices \in AllKept(size)
  BY <1>1, <1>3 DEF AllKept
<1>5. disk \in AllFiled(size)
  BY <1>1 DEF AllFiled
<1>6. dirty \in [Block -> BOOLEAN]
  BY <1>1
<1> QED BY <1>2, <1>4, <1>5, <1>6 DEF LayoutInv

\* A set writes every block whole.
LEMMA SetKeeps ==
  ASSUME NEW n \in 1 .. MaxSize, NEW onDisk, Set(n, onDisk)
  PROVE  LayoutInv'
<1> DEFINE written == 0 .. block_count(n) - 1
<1>1. n \in Nat /\ n # 0 /\ n <= MaxSize /\ n \in 0 .. MaxSize
  BY Units
<1>2. /\ size' = n
      /\ slices' = [b \in Block |-> IF b \in written \ onDisk THEN MemWrite(NoSlices, BlockSegment(n, b)) ELSE NoSlices]
      /\ dirty' = [b \in Block |-> b \in written \ onDisk]
      /\ disk' = [b \in Block |-> IF b \in written \cap onDisk THEN DiskWrite(NewDiskBlock, BlockSegment(n, b)) ELSE None]
  BY Zenon DEF Set, BlockSegment
<1>3. \A b \in written : /\ MemWrite(NoSlices, BlockSegment(n, b)) \in Kept(n, b)
                         /\ DiskWrite(NewDiskBlock, BlockSegment(n, b)) \in Filed(n, b)
  BY <1>1, WrittenWhole
<1> HIDE DEF written
<1>4. \A b \in Block : NoSlices \in Kept(n, b)
  BY <1>1, NoneKept, BlocksAre
<1>5. \A b \in Block : slices'[b] \in Kept(n, b)
  BY <1>2, <1>3, <1>4
<1>6. slices' \in AllKept(n)
  BY <1>2, <1>5 DEF AllKept
<1>7. \A b \in Block : disk'[b] # None => disk'[b] \in Filed(n, b)
  BY <1>2, <1>3
<1>8. disk' \in AllFiled(n)
  <2>1. \A b \in Block : disk'[b] \in Files \cup {None}
    BY <1>7 DEF Filed
  <2> QED BY <1>2, <1>7, <2>1 DEF AllFiled
<1>9. dirty' \in [Block -> BOOLEAN]
  BY <1>2
<1> QED BY <1>1, <1>2, <1>6, <1>8, <1>9 DEF LayoutInv

\* A read promotes what is right.
LEMMA ReadKeeps ==
  ASSUME LayoutInv, MaxSize <= U32, NEW o \in 0 .. MaxSize, NEW n \in 0 .. MaxSize, NEW granted, Read(o, n, granted)
  PROVE  LayoutInv'
<1>1. o \in Nat /\ n \in Nat
  BY Units
<1>2. ReadResult(o, n, granted).slices \in AllKept(size)
  BY <1>1, ReadIs
<1>3. slices' = ReadResult(o, n, granted).slices /\ size' = size /\ dirty' = dirty /\ disk' = disk
  BY DEF Read
<1> QED BY <1>2, <1>3 DEF LayoutInv

\* What eviction does to the memory of a block.
LEMMA Dropped ==
  ASSUME LayoutInv, NEW b \in Block
  PROVE  /\ [slices EXCEPT ![b] = NoSlices] \in AllKept(size)
         /\ [dirty EXCEPT ![b] = FALSE] \in [Block -> BOOLEAN]
         /\ [disk EXCEPT ![b] = None] \in AllFiled(size)
         /\ \A d \in Filed(size, b) : [disk EXCEPT ![b] = d] \in AllFiled(size)
<1>1. NoSlices \in Kept(size, b) /\ slices \in AllKept(size)
  BY BlocksKept, BlocksAre, NoneKept DEF LayoutInv
<1>2. dirty \in [Block -> BOOLEAN] /\ disk \in AllFiled(size)
  BY DEF LayoutInv
<1>3. [slices EXCEPT ![b] = NoSlices] \in AllKept(size)
  BY <1>1 DEF AllKept
<1>4. ASSUME NEW d \in Files \cup {None}, d # None => d \in Filed(size, b)
      PROVE  [disk EXCEPT ![b] = d] \in AllFiled(size)
  BY <1>2, <1>4 DEF AllFiled
<1>5. Filed(size, b) \subseteq Files
  BY DEF Filed
<1> QED BY <1>2, <1>3, <1>4, <1>5

\* Dropping a block from memory leaves the rest.
LEMMA ForgetKeeps ==
  ASSUME LayoutInv, NEW b \in Block, Forget(b)
  PROVE  LayoutInv'
<1>1. slices' = [slices EXCEPT ![b] = NoSlices] /\ size' = size /\ dirty' = dirty /\ disk' = disk
  BY DEF Forget
<1> QED BY <1>1, Dropped DEF LayoutInv

\* So does deleting it.
LEMMA DeleteKeeps ==
  ASSUME LayoutInv, NEW b \in Block, Delete(b)
  PROVE  LayoutInv'
<1>1. /\ slices' = [slices EXCEPT ![b] = NoSlices] /\ size' = size
      /\ dirty' = [dirty EXCEPT ![b] = FALSE] /\ disk' = [disk EXCEPT ![b] = None]
  BY DEF Delete
<1> QED BY <1>1, Dropped DEF LayoutInv

\* A flush writes over a block that is whole, or all of one that is new.
LEMMA FlushKeeps ==
  ASSUME LayoutInv, NEW b \in Block, Flush(b)
  PROVE  LayoutInv'
<1> DEFINE segs == ListSegments(slices[b])
           d == IF disk[b] = None THEN NewDiskBlock ELSE disk[b]
           e == DiskWriteAll(d, segs)
<1>1. /\ slices' = [slices EXCEPT ![b] = NoSlices] /\ size' = size /\ dirty' = [dirty EXCEPT ![b] = FALSE]
      /\ disk' = [disk EXCEPT ![b] = e]
      /\ disk[b] # None \/ ContinuousSize(segs) = block_size(size, b)
  <2>1. b \in DOMAIN disk
    BY DEF LayoutInv, AllFiled
  <2> QED BY <2>1, Zenon DEF Flush, MayFlush
<1>2. size \in Nat /\ b \in Nat /\ slices[b] \in Kept(size, b) /\ disk[b] \in Filed(size, b) \cup {None}
  BY BlocksKept, BlocksAre
<1>3. segs \in Seq(Right(size, b))
  BY <1>2, ListedAreRight
<1> HIDE DEF segs, e
<1>4. d \in Files /\ (d \in Filed(size, b) \/ (d = NewDiskBlock /\ ContinuousSize(segs) = block_size(size, b)))
  <2>1. Filed(size, b) \subseteq Files
    BY DEF Filed
  <2> QED BY <1>1, <1>2, <2>1, NewIsFile
<1> HIDE DEF d
<1>5. e \in Filed(size, b)
  BY <1>2, <1>3, <1>4, FlushIsRight DEF e
<1> QED BY <1>1, <1>5, Dropped DEF LayoutInv

\* Without its disk blocks an object has less.
LEMMA ClearDiskKeeps ==
  ASSUME LayoutInv, ClearDisk
  PROVE  LayoutInv'
<1>1. disk' = [b \in Block |-> None] /\ size' = size /\ slices' = slices /\ dirty' = dirty
  BY DEF ClearDisk
<1>2. disk' \in AllFiled(size)
  BY <1>1 DEF AllFiled
<1> QED BY <1>1, <1>2 DEF LayoutInv

\* Every step keeps what is in memory and on disk right.
LEMMA LayoutStep ==
  ASSUME MaxSize <= U32, LayoutInv, [Next]_vars
  PROVE  LayoutInv'
<1>1. ASSUME NEW n \in 1 .. MaxSize, NEW onDisk \in SUBSET Block, Set(n, onDisk) PROVE LayoutInv'
  BY <1>1, SetKeeps
<1>2. ASSUME NEW o \in 0 .. MaxSize, NEW n \in 0 .. MaxSize, NEW granted, Read(o, n, granted) PROVE LayoutInv'
  BY <1>2, ReadKeeps
<1>3. ASSUME NEW b \in Block, Forget(b) \/ Flush(b) \/ Delete(b) PROVE LayoutInv'
  BY <1>3, ForgetKeeps, FlushKeeps, DeleteKeeps
<1>4. ASSUME ClearDisk PROVE LayoutInv'
  BY <1>4, ClearDiskKeeps
<1>5. ASSUME UNCHANGED vars PROVE LayoutInv'
  BY <1>5 DEF vars, LayoutInv
<1> QED BY <1>1, <1>2, <1>3, <1>4, <1>5 DEF Next

\* As long as an offset fits in 32 bits, no sequence of writes, reads that
\* promote, flushes and evictions leaves anything wrong in memory or on disk.
THEOREM LayoutInvariant == MaxSize <= U32 => (Spec => []LayoutInv)
<1> SUFFICES ASSUME MaxSize <= U32 PROVE Spec => []LayoutInv
  OBVIOUS
<1>1. LayoutInv /\ [Next]_vars => LayoutInv'
  BY LayoutStep
<1> QED BY <1>1, LayoutInit, PTL DEF Spec

\* Segments lie within their blocks and hold the slices they are in.
THEOREM LayoutTyped == MaxSize <= U32 => (Spec => []TypeOK)
<1> SUFFICES ASSUME MaxSize <= U32 PROVE Spec => []TypeOK
  OBVIOUS
<1>1. Spec => []LayoutInv
  BY LayoutInvariant
<1>2. LayoutInv => TypeOK
  BY TypeHolds
<1> QED BY <1>1, <1>2, PTL

\* A disk block holds the whole block.
THEOREM LayoutWhole == MaxSize <= U32 => (Spec => []DiskBlockWhole)
<1> SUFFICES ASSUME MaxSize <= U32 PROVE Spec => []DiskBlockWhole
  OBVIOUS
<1>1. Spec => []LayoutInv
  BY LayoutInvariant
<1>2. LayoutInv => DiskBlockWhole
  BY DiskBlockWholeHolds
<1> QED BY <1>1, <1>2, PTL

\* A read that returns OK returns exactly the bytes of the range that are
\* within the object.
THEOREM LayoutReadExact == MaxSize <= U32 => (Spec => []ReadExact)
<1> SUFFICES ASSUME MaxSize <= U32 PROVE Spec => []ReadExact
  OBVIOUS
<1>1. Spec => []LayoutInv
  BY LayoutInvariant
<1>2. LayoutInv => ReadExact
  BY ReadExactHolds
<1> QED BY <1>1, <1>2, PTL

\* A read returns OK when every byte of it is in memory or on disk, and
\* ENOENT otherwise.
THEOREM LayoutReadComplete == MaxSize <= U32 => (Spec => []ReadComplete)
<1> SUFFICES ASSUME MaxSize <= U32 PROVE Spec => []ReadComplete
  OBVIOUS
<1>1. Spec => []LayoutInv
  BY LayoutInvariant
<1>2. LayoutInv => ReadComplete
  BY ReadCompleteHolds
<1> QED BY <1>1, <1>2, PTL
=============================================================================
