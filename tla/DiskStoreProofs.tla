-------------------------- MODULE DiskStoreProofs --------------------------
(***************************************************************************)
(* Proofs about DiskStore for every set of clients, every list of          *)
(* directories and every size of blocks and files: every block lies within *)
(* one of the files of its directory and no two share a slice, a read that *)
(* returns OK has what was written last, whatever fell short before, and   *)
(* the router keeps every directory near its weight.                       *)
(***************************************************************************)
EXTENDS DiskStore, ArithmeticTheorems, SequenceTheorems

Blocks(d) == 0 .. BlockCount(d) - 1
Steps == {<<"idle">>, <<"route">>} \cup ({"take", "disable", "weigh"} \X Dirs)

\* What is where: the invariant every other one rests on.
FilesShaped ==
  /\ DOMAIN files = Dirs
  /\ \A d \in Dirs : /\ DOMAIN files[d] = 0 .. FileCount(d) - 1
                     /\ \A f \in 0 .. FileCount(d) - 1 : DOMAIN files[d][f] = 0 .. FileSize(d, f) - 1

RouterShaped ==
  /\ router \in Seq([weight : Nat, cur : Int, enable : BOOLEAN])
  /\ Len(router) = opened
  /\ \A d \in 1 .. opened : router[d].weight = quota[d]

BlocksApart ==
  /\ DOMAIN free = Dirs
  /\ \A d \in Dirs : free[d] \subseteq Blocks(d)
  /\ DOMAIN blockOf = Client
  /\ \A c \in Client : blockOf[c] # <<>> => \E d \in Dirs : \E b \in Blocks(d) \ free[d] : blockOf[c] = <<d, b>>
  /\ \A c, e \in Client : c # e /\ blockOf[c] # <<>> => blockOf[c] # blockOf[e]

StepsSound ==
  /\ step \in [Client -> Steps]
  /\ \A c \in Client : step[c] # <<"idle">> => blockOf[c] = <<>>
  /\ \A c \in Client : ~Up => step[c] = <<"idle">> /\ blockOf[c] = <<>>

Shape ==
  /\ quota \in Quotas /\ checked \in BOOLEAN /\ opened \in 0 .. Len(quota) /\ frees \in Nat
  /\ FilesShaped
  /\ RouterShaped
  /\ BlocksApart
  /\ StepsSound

\* What is in the files: of the directories that are open nothing is left of
\* the time before, and the slices a client wrote hold what it signed with,
\* in the checksums always and in the files if nothing fell short.
NothingOld ==
  \A d \in Dirs : d <= opened =>
    \A f \in DOMAIN files[d] : \A p \in DOMAIN files[d][f] : files[d][f][p] # Old

Signed(c) ==
  /\ DOMAIN wrote[c] \subseteq Slices
  /\ blockOf[c] = <<>> => DOMAIN wrote[c] = {} /\ ~hurt[c]
  /\ \A s \in DOMAIN wrote[c] :
        /\ wrote[c][s] = c
        /\ checked => s \in DOMAIN sums[c] /\ sums[c][s] = c
        /\ ~hurt[c] => Stored(c)[s] = c

ItemsRight ==
  /\ DOMAIN sums = Client /\ DOMAIN wrote = Client /\ hurt \in [Client -> BOOLEAN]
  /\ \A c \in Client : Signed(c)

\* The weights: those on the way back included, no more than was handed in,
\* and no set of directories far below its weights.
Weighing == {c \in Client : step[c][1] = "weigh"}

WeightAccounted ==
  SumFunctionOnSet(Currents, DOMAIN router) + BlockSlices * Cardinality(Weighing)
    <= SumFunctionOnSet(Weights, DOMAIN router) + BlockSlices * frees

LagOf(s, n, m) == s * (n - s) * m

NoneTooLight ==
  \A S \in SUBSET (DOMAIN router) :
    S # {} => SumFunctionOnSet(Currents, S) >= SumFunctionOnSet(Weights, S) - LagOf(Cardinality(S), Len(router), Max(Range(Weights)))

FreshWeights == ~Up => \A d \in DOMAIN router : router[d].cur = router[d].weight

Routed == WeightAccounted /\ NoneTooLight /\ FreshWeights

-----------------------------------------------------------------------------
(***************************************************************************)
(* Where a block lies in its directory. FileBlockCount is k, so a block b  *)
(* is k * FileOf(b) + b % k, and a directory's last file has room for the  *)
(* blocks that the whole files leave.                                      *)
(***************************************************************************)
LEMMA QuotaIs ==
  ASSUME quota \in Quotas
  PROVE  quota \in Seq(Nat) /\ Dirs = 1 .. Len(quota) /\ \A d \in Dirs : quota[d] \in Nat
BY QuotasAssumption DEF Dirs

LEMMA DivMod ==
  ASSUME NEW n \in Nat \ {0}, NEW a \in Nat
  PROVE  \E f, m \in Nat : f = a \div n /\ m = a % n /\ m <= n - 1 /\ a = n * f + m
<1> DEFINE f == a \div n
           m == a % n
           p == n * f
<1>1. f \in Nat /\ m \in Nat /\ m <= n - 1 /\ p \in Nat
  OBVIOUS
<1>2. m = a - p
  OBVIOUS
<1>3. a = p + m
  <2> HIDE DEF f, m, p
  <2> QED BY <1>1, <1>2
<1> QED BY <1>1, <1>3

LEMMA FileIsBlocks ==
  /\ FileBlockCount \in Nat \ {0}
  /\ BlockSlices * FileBlockCount = FileSlices
<1> DEFINE k == FileSlices \div BlockSlices
<1>1. PICK f, m \in Nat : f = k /\ m = FileSlices % BlockSlices /\ FileSlices = BlockSlices * f + m
  BY FileSizeAssumption, DivMod
<1> HIDE DEF k
<1>2. BlockSlices * k \in Nat /\ BlockSlices * 0 = 0
  BY <1>1, FileSizeAssumption, TimesSuccessor
<1>3. k \in Nat /\ FileSlices = BlockSlices * k /\ k # 0
  BY <1>1, <1>2, FileSizeAssumption
<1> QED BY <1>3, FileSizeAssumption DEF k, FileBlockCount

\* The room of m blocks, distributed over the products.
LEMMA Distributed ==
  ASSUME NEW b \in Nat, NEW k \in Nat, NEW f \in Nat, NEW m \in Nat
  PROVE  /\ b * (k * f + m + 1) = (b * k) * f + b * m + b
         /\ m * b = b * m
         /\ b * m \in Nat
         /\ (b * k) * f \in Nat
OBVIOUS

\* A block with a number below the block count ends within the quota.
LEMMA BlockEnds ==
  ASSUME NEW q \in Nat, NEW b \in Nat, b <= q \div BlockSlices - 1
  PROVE  BlockSlices * (b + 1) <= q
<1> DEFINE c == q \div BlockSlices
<1>1. BlockSlices \in Nat \ {0} /\ c \in Nat /\ BlockSlices * c <= q
  BY FileSizeAssumption, DivBounds
<1> HIDE DEF c
<1>2. b + 1 \in Nat /\ b + 1 <= c
  BY <1>1 DEF c
<1>3. BlockSlices * (b + 1) <= BlockSlices * c
  BY <1>1, <1>2, TimesMonotone
<1>4. BlockSlices * (b + 1) \in Nat /\ BlockSlices * c \in Nat
  BY <1>1, <1>2, TimesSuccessor
<1> QED BY <1>1, <1>3, <1>4

\* Every slice of a block is in one of the files, within its size.
LEMMA BlockInFile ==
  ASSUME quota \in Quotas, NEW d \in Dirs, NEW b \in Blocks(d), NEW s \in Slices
  PROVE  /\ FileOf(b) \in 0 .. FileCount(d) - 1
         /\ OffsetOf(b, s) \in 0 .. FileSize(d, FileOf(b)) - 1
<1> DEFINE B == BlockSlices
           k == FileBlockCount
           q == quota[d]
           f == b \div k
           m == b % k
           Q == q \div FileSlices
           R == q % FileSlices
<1>1. /\ B \in Nat \ {0} /\ k \in Nat \ {0} /\ B * k = FileSlices /\ FileSlices \in Nat \ {0}
      /\ q \in Nat /\ b \in Nat /\ s \in Nat /\ s <= B - 1
  BY FileSizeAssumption, FileIsBlocks, QuotaIs DEF Blocks, Slices
<1>2. B * (b + 1) <= q
  BY <1>1, BlockEnds DEF Blocks, BlockCount
<1>3. f \in Nat /\ m \in Nat /\ m <= k - 1 /\ b = k * f + m
  BY <1>1, DivMod
<1>4. Q \in Nat /\ R \in Nat /\ R <= FileSlices - 1 /\ q = FileSlices * Q + R
  <2>1. FileSlices \in Nat \ {0} /\ q \in Nat
    BY <1>1
  <2> HIDE DEF q
  <2> QED BY <2>1, DivMod
<1>5. /\ FileOf(b) = f /\ OffsetOf(b, s) = m * B + s
      /\ FileCount(d) = Q + (IF R > 0 THEN 1 ELSE 0)
      /\ FileSize(d, FileOf(b)) = IF f < Q THEN FileSlices ELSE R
  BY DEF FileOf, OffsetOf, FileCount, FileSize
<1> HIDE DEF B, k, q, f, m, Q, R
<1>6. B * (b + 1) = FileSlices * f + B * m + B /\ m * B = B * m /\ B * m \in Nat /\ FileSlices * f \in Nat
  BY <1>1, <1>3, Distributed
<1>7. FileSlices * Q \in Nat /\ FileSlices * (Q + 1) = FileSlices * Q + FileSlices
  BY <1>1, <1>4, TimesSuccessor
<1>8. CASE f < Q
  <2>1. B * m <= B * (k - 1) /\ B * (k - 1) = B * k - B
    <3>1. k - 1 \in Nat /\ (k - 1) + 1 = k
      BY <1>1
    <3>2. B * ((k - 1) + 1) = B * (k - 1) + B /\ B * (k - 1) \in Nat
      BY <3>1, <1>1, TimesSuccessor
    <3> QED BY <3>1, <3>2, <1>1, <1>3, TimesMonotone
  <2>2. m * B + s <= FileSlices - 1 /\ m * B + s \in Nat
    BY <2>1, <1>1, <1>6
  <2> QED BY <2>2, <1>8, <1>1, <1>3, <1>4, <1>5
<1>9. CASE ~(f < Q)
  <2>1. ~(Q + 1 <= f)
    <3> SUFFICES ASSUME Q + 1 <= f PROVE FALSE
      OBVIOUS
    <3>1. FileSlices * (Q + 1) <= FileSlices * f
      BY <1>1, <1>3, <1>4, TimesMonotone
    <3> QED BY <3>1, <1>1, <1>2, <1>4, <1>6, <1>7
  <2>2. f = Q
    BY <2>1, <1>9, <1>3, <1>4
  <2>3. m * B + s <= R - 1 /\ m * B + s \in Nat
    BY <2>2, <1>1, <1>2, <1>4, <1>6
  <2> QED BY <2>2, <2>3, <1>1, <1>3, <1>4, <1>5
<1> QED BY <1>8, <1>9

\* Two slices in the same place of the same file are the same slice.
LEMMA SlicesApart ==
  ASSUME NEW b \in Nat, NEW c \in Nat, NEW s \in Slices, NEW t \in Slices,
         FileOf(b) = FileOf(c), OffsetOf(b, s) = OffsetOf(c, t)
  PROVE  b = c /\ s = t
<1> DEFINE B == BlockSlices
           k == FileBlockCount
           x == b % k
           y == c % k
           f == b \div k
<1>1. /\ B \in Nat \ {0} /\ k \in Nat \ {0} /\ s \in Nat /\ s <= B - 1 /\ t \in Nat /\ t <= B - 1
  BY FileSizeAssumption, FileIsBlocks DEF Slices
<1>2. /\ x \in Nat /\ y \in Nat /\ f \in Nat /\ b = k * f + x /\ c = k * f + y
  BY <1>1, DivMod DEF FileOf
<1>3. x * B + s = y * B + t
  BY DEF OffsetOf
<1> HIDE DEF B, k, x, y, f
<1>4. \A u \in Nat : B * u \in Nat /\ u * B = B * u /\ B * (u + 1) = B * u + B
  BY <1>1, TimesSuccessor
<1>5. ~(x + 1 <= y)
  <2> SUFFICES ASSUME x + 1 <= y PROVE FALSE
    OBVIOUS
  <2>1. B * (x + 1) <= B * y
    BY <1>1, <1>2, TimesMonotone
  <2> QED BY <2>1, <1>1, <1>2, <1>3, <1>4
<1>6. ~(y + 1 <= x)
  <2> SUFFICES ASSUME y + 1 <= x PROVE FALSE
    OBVIOUS
  <2>1. B * (y + 1) <= B * x
    BY <1>1, <1>2, TimesMonotone
  <2> QED BY <2>1, <1>1, <1>2, <1>3, <1>4
<1>7. x = y
  BY <1>2, <1>5, <1>6
<1> QED BY <1>1, <1>2, <1>3, <1>4, <1>7

\* WithinFiles in the terms of the lemmas above.
LEMMA ShapeWithinFiles == Shape => WithinFiles
<1> SUFFICES ASSUME Shape, NEW c \in Client, blockOf[c] # <<>>
             PROVE  /\ FileOf(blockOf[c][2]) < FileCount(blockOf[c][1])
                    /\ OffsetOf(blockOf[c][2], BlockSlices - 1) < FileSize(blockOf[c][1], FileOf(blockOf[c][2]))
  BY DEF WithinFiles
<1>0. PICK d \in Dirs : \E b \in Blocks(d) : blockOf[c] = <<d, b>>
  BY DEF Shape, BlocksApart
<1>1. PICK b \in Blocks(d) : blockOf[c] = <<d, b>>
  BY <1>0
<1>2. BlockSlices - 1 \in Slices
  BY FileSizeAssumption DEF Slices
<1>3. /\ FileOf(b) \in 0 .. FileCount(d) - 1
      /\ OffsetOf(b, BlockSlices - 1) \in 0 .. FileSize(d, FileOf(b)) - 1
  BY <1>2, BlockInFile DEF Shape
<1>4. quota[d] \in Nat /\ FileSlices \in Nat \ {0}
  BY QuotaIs, FileSizeAssumption DEF Shape
<1>5. FileCount(d) \in Nat /\ \A f \in Nat : FileSize(d, f) \in Nat
  <2>1. quota[d] \div FileSlices \in Nat /\ quota[d] % FileSlices \in Nat
    BY <1>4
  <2> QED BY <2>1, <1>4 DEF FileCount, FileSize
<1> QED BY <1>1, <1>3, <1>5

-----------------------------------------------------------------------------
(***************************************************************************)
(* What the steps choose: a free block and the heaviest directory.         *)
(***************************************************************************)
LEMMA MinIsIn ==
  ASSUME NEW n \in Int, NEW S \in SUBSET (0 .. n), S # {}
  PROVE  Min(S) \in S
<1> DEFINE f == [x \in S |-> -x]
<1>0. IsFiniteSet(S)
  <2>1. IsFiniteSet(0 .. n)
    BY FS_Interval
  <2> QED BY <2>1, FS_Subset
<1>1. IsFiniteSet(S) /\ \A x \in S : x \in Int /\ f[x] = -x
  BY <1>0
<1>2. PICK m \in S : \A x \in S : f[x] <= f[m]
  <2>1. \A x \in S : f[x] \in Int
    BY <1>1
  <2> HIDE DEF f
  <2> QED BY <1>0, <2>1, LargestValue
<1>3. \A x \in S : m =< x
  BY <1>1, <1>2
<1> QED BY <1>3 DEF Min

LEMMA RouterIs ==
  ASSUME RouterShaped
  PROVE  /\ DOMAIN router = 1 .. opened
         /\ \A d \in 1 .. opened : /\ router[d] \in [weight : Nat, cur : Int, enable : BOOLEAN]
                                   /\ router[d].cur \in Int /\ router[d].weight \in Nat /\ router[d].enable \in BOOLEAN
<1>1. router \in [1 .. opened -> [weight : Nat, cur : Int, enable : BOOLEAN]]
  BY LenProperties DEF RouterShaped
<1> QED BY <1>1

LEMMA HeaviestIs ==
  ASSUME RouterShaped, Enabled # {}, opened \in Nat
  PROVE  /\ Heaviest \in Enabled /\ Heaviest \in 1 .. opened
         /\ \A e \in Enabled : Raised(e) <= Raised(Heaviest)
<1> DEFINE f == [d \in Enabled |-> Raised(d)]
           Top == {d \in Enabled : \A e \in Enabled : Raised(e) <= Raised(d)}
           g == [d \in Top |-> -d]
<1>0. DOMAIN router = 1 .. opened /\ \A d \in 1 .. opened : router[d].cur \in Int /\ router[d].weight \in Nat
  BY RouterIs
<1>1. Enabled \subseteq 1 .. opened /\ \A d \in Enabled : Raised(d) \in Int
  BY <1>0 DEF Enabled, Raised
<1>2. IsFiniteSet(Enabled)
  <2>1. IsFiniteSet(1 .. opened)
    BY FS_Interval
  <2> QED BY <1>1, <2>1, FS_Subset
<1>3. Top # {}
  <2>1. PICK m \in Enabled : \A e \in Enabled : f[e] <= f[m]
    BY <1>1, <1>2, LargestValue
  <2> QED BY <2>1
<1>4. \E d \in Top : \A e \in Top : d <= e
  <2>1. IsFiniteSet(Top)
    BY <1>2, FS_Subset
  <2>2. \A d \in Top : g[d] = -d /\ d \in Int
    BY <1>1
  <2>3. PICK m \in Top : \A e \in Top : g[e] <= g[m]
    <3>1. \A d \in Top : g[d] \in Int
      BY <2>2
    <3> HIDE DEF Top, g
    <3> QED BY <1>3, <2>1, <3>1, LargestValue
  <2>4. \A e \in Top : m <= e
    <3> HIDE DEF Top, g
    <3> QED BY <2>2, <2>3
  <2> QED BY <2>4
<1>5. PICK d \in Top : \A e \in Top : d <= e
  BY <1>4
<1>6. \A e \in Enabled : e < d => Raised(e) < Raised(d)
  <2> SUFFICES ASSUME NEW e \in Enabled, e < d, ~(Raised(e) < Raised(d)) PROVE FALSE
    OBVIOUS
  <2>1. \A a \in Enabled : Raised(a) <= Raised(e)
    BY <1>1, <1>5
  <2> QED BY <2>1, <1>1, <1>5
<1>7. \E a \in Enabled : /\ \A e \in Enabled : Raised(e) <= Raised(a)
                         /\ \A e \in Enabled : e < a => Raised(e) < Raised(a)
  BY <1>5, <1>6
<1>8. /\ Heaviest \in Enabled
      /\ \A e \in Enabled : Raised(e) <= Raised(Heaviest)
  <2> HIDE DEF Top, f, g
  <2> QED BY <1>7 DEF Heaviest
<1> QED BY <1>1, <1>8

-----------------------------------------------------------------------------
(***************************************************************************)
(* The shape of the state.                                                 *)
(***************************************************************************)
LEMMA InitShape == StoreInit => Shape
<1> SUFFICES ASSUME StoreInit PROVE Shape
  OBVIOUS
<1>1. Dirs = 1 .. Len(quota) /\ Len(quota) \in Nat
  BY QuotaIs DEF StoreInit
<1>2. FilesShaped
  BY DEF StoreInit, FilesShaped, NewFiles
<1>3. RouterShaped
  BY DEF StoreInit, RouterShaped
<1>4. BlocksApart
  BY DEF StoreInit, BlocksApart, AllFree, Each, Blocks
<1>5. StepsSound
  BY DEF StoreInit, StepsSound, Each, Steps
<1> QED BY <1>1, <1>2, <1>3, <1>4, <1>5 DEF StoreInit, Shape

\* A write puts data into the slices of one block and changes nothing else.
Written(F, d, b, data) ==
  /\ DOMAIN F = Dirs
  /\ \A e \in Dirs : /\ DOMAIN F[e] = DOMAIN files[e]
                     /\ \A f \in DOMAIN files[e] :
                          /\ DOMAIN F[e][f] = DOMAIN files[e][f]
                          /\ \A p \in DOMAIN files[e][f] :
                               \/ F[e][f][p] = files[e][f][p]
                               \/ \E s \in DOMAIN data : /\ e = d /\ f = FileOf(b) /\ p = OffsetOf(b, s)
                                                         /\ F[e][f][p] = data[s]
  /\ \A s \in DOMAIN data : F[d][FileOf(b)][OffsetOf(b, s)] = data[s]

LEMMA WriteInto ==
  ASSUME Shape, NEW c \in Client, blockOf[c] # <<>>, NEW data, DOMAIN data \subseteq Slices,
         NEW d, NEW b, blockOf[c] = <<d, b>>, NEW F, F = FilesWith(c, data)
  PROVE  Written(F, d, b, data)
<1> DEFINE At(p) == {s \in DOMAIN data : OffsetOf(b, s) = p}
           G(p) == IF At(p) = {} THEN files[d][FileOf(b)][p] ELSE data[CHOOSE s \in At(p) : TRUE]
<1>1. d \in Dirs /\ b \in Blocks(d) /\ b \in Nat
  BY DEF Shape, BlocksApart, Blocks
<1>2. DOMAIN files = Dirs /\ FileOf(b) \in DOMAIN files[d]
  <2>1. 0 \in Slices
    BY FileSizeAssumption DEF Slices
  <2>2. FileOf(b) \in 0 .. FileCount(d) - 1
    BY <1>1, <2>1, BlockInFile DEF Shape
  <2> QED BY <1>1, <2>2 DEF Shape, FilesShaped
<1>3. F = [files EXCEPT ![d][FileOf(b)] = [p \in DOMAIN files[d][FileOf(b)] |-> G(p)]]
  BY DEF FilesWith
<1> HIDE DEF G
<1>4. /\ DOMAIN F = Dirs
      /\ \A e \in Dirs : e # d => F[e] = files[e]
      /\ DOMAIN F[d] = DOMAIN files[d]
      /\ \A f \in DOMAIN files[d] : f # FileOf(b) => F[d][f] = files[d][f]
      /\ F[d][FileOf(b)] = [p \in DOMAIN files[d][FileOf(b)] |-> G(p)]
  BY <1>1, <1>2, <1>3
<1>5. ASSUME NEW p, At(p) # {} PROVE \E s \in DOMAIN data : p = OffsetOf(b, s) /\ G(p) = data[s]
  <2>1. (CHOOSE s \in At(p) : TRUE) \in At(p)
    BY <1>5
  <2> QED BY <2>1, <1>5 DEF G
<1>6. ASSUME NEW p, At(p) = {} PROVE G(p) = files[d][FileOf(b)][p]
  BY <1>6 DEF G
<1>7. ASSUME NEW s \in DOMAIN data PROVE F[d][FileOf(b)][OffsetOf(b, s)] = data[s]
  <2>1. OffsetOf(b, s) \in DOMAIN files[d][FileOf(b)]
    BY <1>1, BlockInFile DEF Shape, FilesShaped
  <2>2. PICK t \in DOMAIN data : OffsetOf(b, s) = OffsetOf(b, t) /\ G(OffsetOf(b, s)) = data[t]
    BY <1>5
  <2>3. s = t
    BY <2>2, <1>1, SlicesApart
  <2> QED BY <2>1, <2>2, <2>3, <1>4
<1>8. ASSUME NEW e \in Dirs
      PROVE  /\ DOMAIN F[e] = DOMAIN files[e]
             /\ \A f \in DOMAIN files[e] :
                  /\ DOMAIN F[e][f] = DOMAIN files[e][f]
                  /\ \A p \in DOMAIN files[e][f] :
                       \/ F[e][f][p] = files[e][f][p]
                       \/ \E s \in DOMAIN data : /\ e = d /\ f = FileOf(b) /\ p = OffsetOf(b, s)
                                                 /\ F[e][f][p] = data[s]
  <2>1. CASE e # d
    BY <2>1, <1>4
  <2>2. CASE e = d
    <3> SUFFICES ASSUME NEW f \in DOMAIN files[d]
                 PROVE  /\ DOMAIN F[d][f] = DOMAIN files[d][f]
                        /\ \A p \in DOMAIN files[d][f] :
                             \/ F[d][f][p] = files[d][f][p]
                             \/ \E s \in DOMAIN data : f = FileOf(b) /\ p = OffsetOf(b, s) /\ F[d][f][p] = data[s]
      BY <2>2, <1>4
    <3>1. CASE f # FileOf(b)
      BY <3>1, <1>4
    <3>2. CASE f = FileOf(b)
      BY <3>2, <1>4, <1>5, <1>6
    <3> QED BY <3>1, <3>2
  <2> QED BY <2>1, <2>2
<1> QED BY <1>4, <1>7, <1>8 DEF Written

LEMMA StepWrites ==
  ASSUME Shape, NEW c \in Client, blockOf[c] # <<>>, NEW data, DOMAIN data \subseteq Slices,
         NEW d, NEW b, blockOf[c] = <<d, b>>, files' = FilesWith(c, data),
         NEW e \in Dirs, NEW f \in DOMAIN files[e]
  PROVE  /\ DOMAIN files'[e] = DOMAIN files[e]
         /\ DOMAIN files'[e][f] = DOMAIN files[e][f]
         /\ \A p \in DOMAIN files[e][f] :
              files'[e][f][p] = files[e][f][p] \/ \E s \in DOMAIN data : files'[e][f][p] = data[s]
         /\ \A s \in DOMAIN data : files'[d][FileOf(b)][OffsetOf(b, s)] = data[s]
<1>1. Written(files', d, b, data)
  BY WriteInto
<1> QED BY <1>1 DEF Written

LEMMA HeldIs ==
  ASSUME Shape, NEW c \in Client, blockOf[c] # <<>>
  PROVE  Up /\ \E d \in Dirs : \E b \in Blocks(d) : blockOf[c] = <<d, b>> /\ b \in Nat
<1>1. PICK d \in Dirs : \E b \in Blocks(d) : blockOf[c] = <<d, b>>
  BY DEF Shape, BlocksApart
<1>2. PICK b \in Blocks(d) : blockOf[c] = <<d, b>>
  BY <1>1
<1>3. b \in Nat
  BY DEF Blocks
<1>4. Up
  BY DEF Shape, StepsSound
<1> QED BY <1>2, <1>3, <1>4

LEMMA SlotAfterWrite ==
  ASSUME Shape, NEW c \in Client, blockOf[c] # <<>>, NEW data, DOMAIN data \subseteq Slices, files' = FilesWith(c, data),
         NEW e \in Dirs, NEW f \in DOMAIN files[e], NEW p \in DOMAIN files[e][f],
         files'[e][f][p] # files[e][f][p]
  PROVE  /\ e = blockOf[c][1] /\ f = FileOf(blockOf[c][2])
         /\ \E s \in DOMAIN data : p = OffsetOf(blockOf[c][2], s)
<1>1. PICK d \in Dirs : \E b \in Blocks(d) : blockOf[c] = <<d, b>>
  BY HeldIs
<1>2. PICK b \in Blocks(d) : blockOf[c] = <<d, b>>
  BY <1>1
<1>3. Written(files', d, b, data)
  BY <1>2, WriteInto
<1>4. blockOf[c][1] = d /\ blockOf[c][2] = b
  BY <1>2
<1> QED BY <1>3, <1>4 DEF Written

\* What nothing changes.
LEMMA NextFixed ==
  ASSUME Shape, StoreNext
  PROVE  /\ quota' = quota /\ checked' = checked /\ Dirs' = Dirs
         /\ opened' \in 0 .. Len(quota) /\ frees' \in Nat
         /\ Len(quota) \in Nat /\ Dirs = 1 .. Len(quota)
<1> USE DEF Shape, config, dirState, Dirs
<1>0. Len(quota) \in Nat
  BY QuotaIs
<1>1. CASE AddCacheDir
  BY <1>0, <1>1 DEF AddCacheDir
<1>2. CASE AddCacheDirFails
  BY <1>0, <1>2 DEF AddCacheDirFails
<1>3. CASE Crash
  BY <1>0, <1>3 DEF Crash
<1>4. ASSUME NEW c \in Client, NewBlockItem(c) \/ NextDir(c) \/ NoDir(c) \/ TakeBlock(c) \/ NoBlock(c)
             \/ DisableDir(c) \/ PRead(c) \/ ReadFails(c) \/ DeleteItem(c) \/ AddDirWeight(c)
      PROVE  quota' = quota /\ checked' = checked /\ opened' = opened /\ frees' \in Nat
  <2>1. CASE NewBlockItem(c) \/ NextDir(c) \/ NoDir(c) \/ TakeBlock(c) \/ NoBlock(c) \/ DisableDir(c)
    BY <2>1 DEF NewBlockItem, NextDir, NoDir, TakeBlock, NoBlock, DisableDir
  <2>2. CASE PRead(c) \/ ReadFails(c) \/ AddDirWeight(c)
    BY <2>2 DEF PRead, ReadFails, AddDirWeight
  <2>3. CASE DeleteItem(c)
    BY <2>3 DEF DeleteItem
  <2> QED BY <1>4, <2>1, <2>2, <2>3
<1>5. ASSUME NEW c \in Client, PWrite(c) \/ PWriteFallsShort(c)
      PROVE  quota' = quota /\ checked' = checked /\ opened' = opened /\ frees' \in Nat
  BY <1>5 DEF PWrite, PWriteFallsShort, WriteBlock
<1> QED BY <1>0, <1>1, <1>2, <1>3, <1>4, <1>5 DEF StoreNext

\* A write that falls short is a write of less.
LEMMA WrittenIs ==
  ASSUME Shape, NEW c \in Client, PWrite(c) \/ PWriteFallsShort(c)
  PROVE  \E data, all : /\ DOMAIN data \subseteq Slices /\ DOMAIN data \subseteq DOMAIN all /\ DOMAIN all \subseteq Slices
                        /\ blockOf[c] # <<>> /\ step[c] = <<"idle">>
                        /\ files' = FilesWith(c, data) /\ WriteBlock(c, all)
                        /\ \A s \in DOMAIN all : all[s] = c
                        /\ \A s \in DOMAIN data : data[s] \in {c, Torn}
                        /\ \/ PWrite(c) /\ data = all /\ hurt' = hurt
                           \/ hurt' = [hurt EXCEPT ![c] = TRUE]
<1>0. \A segment \in Segments : segment \subseteq Slices
  BY FileSizeAssumption DEF Segments, Slices
<1>1. CASE PWrite(c)
  <2>1. PICK segment \in Segments : /\ WriteBlock(c, [s \in segment |-> c])
                                    /\ files' = FilesWith(c, [s \in segment |-> c]) /\ hurt' = hurt
    BY <1>1 DEF PWrite
  <2> DEFINE data == [s \in segment |-> c]
  <2>2. DOMAIN data \subseteq Slices /\ \A s \in DOMAIN data : data[s] = c
    BY <1>0
  <2>3. blockOf[c] # <<>> /\ step[c] = <<"idle">>
    BY <2>1 DEF WriteBlock, Idle
  <2> HIDE DEF data
  <2> QED BY <1>1, <2>1, <2>2, <2>3 DEF data
<1>2. CASE PWriteFallsShort(c)
  <2>1. PICK segment \in Segments : \E end \in segment, torn \in BOOLEAN :
          /\ WriteBlock(c, [s \in segment |-> c])
          /\ files' = FilesWith(c, [s \in {s \in segment : s < end \/ (s = end /\ torn)} |-> IF s = end THEN Torn ELSE c])
          /\ hurt' = [hurt EXCEPT ![c] = TRUE]
    BY <1>2 DEF PWriteFallsShort
  <2>2. PICK end \in segment : \E torn \in BOOLEAN :
          /\ WriteBlock(c, [s \in segment |-> c])
          /\ files' = FilesWith(c, [s \in {s \in segment : s < end \/ (s = end /\ torn)} |-> IF s = end THEN Torn ELSE c])
          /\ hurt' = [hurt EXCEPT ![c] = TRUE]
    BY <2>1
  <2>3. PICK torn \in BOOLEAN :
          /\ WriteBlock(c, [s \in segment |-> c])
          /\ files' = FilesWith(c, [s \in {s \in segment : s < end \/ (s = end /\ torn)} |-> IF s = end THEN Torn ELSE c])
          /\ hurt' = [hurt EXCEPT ![c] = TRUE]
    BY <2>2
  <2> DEFINE all == [s \in segment |-> c]
             data == [s \in {s \in segment : s < end \/ (s = end /\ torn)} |-> IF s = end THEN Torn ELSE c]
  <2>4. /\ DOMAIN all \subseteq Slices /\ \A s \in DOMAIN all : all[s] = c
        /\ DOMAIN data \subseteq DOMAIN all /\ DOMAIN data \subseteq Slices /\ \A s \in DOMAIN data : data[s] \in {c, Torn}
    BY <1>0
  <2>5. blockOf[c] # <<>> /\ step[c] = <<"idle">>
    BY <2>3 DEF WriteBlock, Idle
  <2>6. WriteBlock(c, all) /\ files' = FilesWith(c, data) /\ hurt' = [hurt EXCEPT ![c] = TRUE]
    BY <2>3
  <2> HIDE DEF data, all
  <2> QED BY <2>4, <2>5, <2>6
<1> QED BY <1>1, <1>2

LEMMA FilesKept ==
  ASSUME NEW c \in Client, NewBlockItem(c) \/ NextDir(c) \/ NoDir(c) \/ TakeBlock(c) \/ NoBlock(c)
             \/ DisableDir(c) \/ PRead(c) \/ ReadFails(c) \/ DeleteItem(c) \/ AddDirWeight(c)
  PROVE  files' = files
<1> USE DEF dirState
<1>1. CASE NewBlockItem(c) \/ NextDir(c) \/ NoDir(c) \/ TakeBlock(c) \/ NoBlock(c)
  BY <1>1 DEF NewBlockItem, NextDir, NoDir, TakeBlock, NoBlock
<1>2. CASE DisableDir(c) \/ PRead(c) \/ ReadFails(c) \/ DeleteItem(c) \/ AddDirWeight(c)
  BY <1>2 DEF DisableDir, PRead, ReadFails, DeleteItem, AddDirWeight
<1> QED BY <1>1, <1>2

LEMMA RouterKept ==
  ASSUME NEW c \in Client, NewBlockItem(c) \/ NoDir(c) \/ TakeBlock(c) \/ NoBlock(c) \/ PWrite(c) \/ PWriteFallsShort(c)
             \/ PRead(c) \/ ReadFails(c) \/ DeleteItem(c)
  PROVE  UNCHANGED <<opened, router>>
<1> USE DEF dirState
<1>1. CASE NewBlockItem(c) \/ NoDir(c) \/ TakeBlock(c) \/ NoBlock(c) \/ DeleteItem(c)
  BY <1>1 DEF NewBlockItem, NoDir, TakeBlock, NoBlock, DeleteItem
<1>2. CASE PWrite(c) \/ PWriteFallsShort(c) \/ PRead(c) \/ ReadFails(c)
  BY <1>2 DEF PWrite, PWriteFallsShort, WriteBlock, PRead, ReadFails
<1> QED BY <1>1, <1>2

LEMMA WeightsAre ==
  ASSUME RouterShaped, opened \in Nat
  PROVE  /\ DOMAIN router = 1 .. opened /\ IsFiniteSet(1 .. opened)
         /\ \A d \in 1 .. opened : /\ Weights[d] = router[d].weight /\ Weights[d] \in Nat
                                   /\ Currents[d] = router[d].cur /\ Currents[d] \in Int
<1>1. IsFiniteSet(1 .. opened)
  BY FS_Interval
<1> QED BY <1>1, RouterIs DEF Weights, Currents

LEMMA TotalWeightIs ==
  ASSUME RouterShaped, opened \in Nat
  PROVE  TotalWeight \in Nat
<1>1. Enabled \subseteq 1 .. opened
  BY WeightsAre DEF Enabled
<1>2. IsFiniteSet(Enabled) /\ \A d \in Enabled : Weights[d] \in Nat
  BY <1>1, WeightsAre, FS_Subset
<1> QED BY <1>2, SumType DEF TotalWeight

LEMMA FunctionIsSeq ==
  ASSUME NEW S, NEW n \in Nat, NEW f \in [1 .. n -> S]
  PROVE  f \in Seq(S) /\ Len(f) = n
<1>1. f \in Seq(S)
  BY SeqDef
<1>2. Len(f) \in Nat /\ DOMAIN f = 1 .. Len(f) /\ DOMAIN f = 1 .. n
  BY <1>1, LenProperties
<1> QED BY <1>1, <1>2

LEMMA NextFilesShaped == Shape /\ StoreNext => FilesShaped'
<1> SUFFICES ASSUME Shape, StoreNext PROVE FilesShaped'
  OBVIOUS
<1>0. /\ quota' = quota /\ Dirs' = Dirs /\ FilesShaped
      /\ Len(quota) \in Nat /\ Dirs = 1 .. Len(quota) /\ opened \in 0 .. Len(quota)
  BY NextFixed DEF Shape
<1>1. ASSUME DOMAIN files' = Dirs,
             \A d \in Dirs : DOMAIN files'[d] = DOMAIN files[d]
                             /\ \A f \in DOMAIN files[d] : DOMAIN files'[d][f] = DOMAIN files[d][f]
      PROVE  FilesShaped'
  <2>1. ASSUME NEW d \in Dirs
        PROVE  /\ DOMAIN files'[d] = 0 .. FileCount(d)' - 1
               /\ \A f \in 0 .. FileCount(d)' - 1 : DOMAIN files'[d][f] = 0 .. FileSize(d, f)' - 1
    <3>1. FileCount(d)' = FileCount(d)
      BY <1>0 DEF FileCount
    <3>2. ASSUME NEW f \in 0 .. FileCount(d) - 1 PROVE DOMAIN files'[d][f] = 0 .. FileSize(d, f)' - 1
      <4>1. FileSize(d, f)' = FileSize(d, f)
        BY <1>0 DEF FileSize
      <4>2. f \in DOMAIN files[d] /\ DOMAIN files[d][f] = 0 .. FileSize(d, f) - 1
        BY <1>0 DEF FilesShaped
      <4> QED BY <1>1, <4>1, <4>2
    <3>3. DOMAIN files'[d] = 0 .. FileCount(d) - 1
      BY <1>0, <1>1 DEF FilesShaped
    <3> QED BY <3>1, <3>2, <3>3
  <2> QED BY <1>0, <1>1, <2>1 DEF FilesShaped
<1>2. CASE AddCacheDir
  <2>1. opened + 1 \in Dirs /\ opened' = opened + 1 /\ files' = [files EXCEPT ![opened + 1] = NewFiles(opened + 1, Hole)]
    BY <1>0, <1>2 DEF AddCacheDir
  <2>2. /\ DOMAIN files' = Dirs
        /\ \A d \in Dirs : d # opened + 1 => files'[d] = files[d]
        /\ files'[opened + 1] = NewFiles(opened + 1, Hole)
    BY <1>0, <2>1 DEF FilesShaped
  <2>3. /\ DOMAIN NewFiles(opened + 1, Hole) = DOMAIN files[opened + 1]
        /\ \A f \in DOMAIN files[opened + 1] : DOMAIN NewFiles(opened + 1, Hole)[f] = DOMAIN files[opened + 1][f]
    BY <1>0, <2>1 DEF FilesShaped, NewFiles
  <2> QED BY <1>1, <2>2, <2>3
<1>3. CASE AddCacheDirFails
  <2>1. opened + 1 \in Dirs
    BY <1>0, <1>3 DEF AddCacheDirFails
  <2>2. PICK gone \in SUBSET DOMAIN files[opened + 1] :
          files' = [files EXCEPT ![opened + 1] = [f \in DOMAIN files[opened + 1] |->
                        IF f \in gone THEN NewFiles(opened + 1, Hole)[f] ELSE files[opened + 1][f]]]
    BY <1>3 DEF AddCacheDirFails
  <2>3. /\ DOMAIN files' = Dirs
        /\ \A d \in Dirs : d # opened + 1 => files'[d] = files[d]
        /\ files'[opened + 1] = [f \in DOMAIN files[opened + 1] |->
                        IF f \in gone THEN NewFiles(opened + 1, Hole)[f] ELSE files[opened + 1][f]]
    BY <1>0, <2>1, <2>2 DEF FilesShaped
  <2>4. \A f \in DOMAIN files[opened + 1] : DOMAIN NewFiles(opened + 1, Hole)[f] = DOMAIN files[opened + 1][f]
    BY <1>0, <2>1 DEF FilesShaped, NewFiles
  <2>5. DOMAIN files'[opened + 1] = DOMAIN files[opened + 1]
        /\ \A f \in DOMAIN files[opened + 1] : DOMAIN files'[opened + 1][f] = DOMAIN files[opened + 1][f]
    BY <2>3, <2>4
  <2> QED BY <1>1, <2>3, <2>5
<1>4. CASE Crash
  <2>1. files' = [d \in Dirs |-> [f \in DOMAIN files[d] |-> [p \in DOMAIN files[d][f] |-> IF files[d][f][p] = Hole THEN Hole ELSE Old]]]
    BY <1>4 DEF Crash
  <2> QED BY <1>1, <2>1
<1>5. CASE files' = files
  BY <1>0, <1>1, <1>5 DEF FilesShaped
<1>6. ASSUME NEW c \in Client, NEW data, DOMAIN data \subseteq Slices, blockOf[c] # <<>>, files' = FilesWith(c, data)
      PROVE  FilesShaped'
  <2>1. PICK d \in Dirs : \E b \in Blocks(d) : blockOf[c] = <<d, b>>
    BY <1>6 DEF Shape, BlocksApart
  <2>2. PICK b \in Blocks(d) : blockOf[c] = <<d, b>>
    BY <2>1
  <2>3. /\ DOMAIN files' = Dirs
        /\ \A e \in Dirs : DOMAIN files'[e] = DOMAIN files[e]
                           /\ \A f \in DOMAIN files[e] : DOMAIN files'[e][f] = DOMAIN files[e][f]
    BY <1>6, <2>2, WriteInto DEF Written
  <2> QED BY <2>3, <1>1
<1>7. ASSUME NEW c \in Client, PWrite(c) \/ PWriteFallsShort(c) PROVE FilesShaped'
  <2>1. PICK data : DOMAIN data \subseteq Slices /\ blockOf[c] # <<>> /\ files' = FilesWith(c, data)
    BY <1>7, WrittenIs
  <2> QED BY <2>1, <1>6
<1>8. ASSUME NEW c \in Client, NewBlockItem(c) \/ NextDir(c) \/ NoDir(c) \/ TakeBlock(c) \/ NoBlock(c)
             \/ DisableDir(c) \/ PRead(c) \/ ReadFails(c) \/ DeleteItem(c) \/ AddDirWeight(c)
      PROVE  files' = files
  BY <1>8, FilesKept
<1> QED BY <1>2, <1>3, <1>4, <1>5, <1>7, <1>8 DEF StoreNext

LEMMA NextRouterShaped == Shape /\ StoreNext => RouterShaped'
<1> SUFFICES ASSUME Shape, StoreNext PROVE RouterShaped'
  OBVIOUS
<1> DEFINE Entry == [weight : Nat, cur : Int, enable : BOOLEAN]
<1>0. /\ quota' = quota /\ Dirs' = Dirs /\ RouterShaped /\ \A d \in Dirs : quota[d] \in Nat
      /\ Len(quota) \in Nat /\ Dirs = 1 .. Len(quota) /\ opened \in 0 .. Len(quota) /\ BlockSlices \in Nat
  BY NextFixed, QuotaIs, FileSizeAssumption DEF Shape
<1>1. ASSUME opened' = opened, DOMAIN router' = 1 .. opened, router' = [d \in 1 .. opened |-> router'[d]],
             \A d \in 1 .. opened : router'[d] \in Entry /\ router'[d].weight = router[d].weight
      PROVE  RouterShaped'
  <2>1. router' \in [1 .. opened -> Entry]
    BY <1>1
  <2>2. opened \in Nat
    BY <1>0
  <2>3. router' \in Seq(Entry) /\ Len(router') = opened
    BY <2>1, <2>2, FunctionIsSeq
  <2> QED BY <1>0, <1>1, <2>3 DEF RouterShaped
<1>2. CASE AddCacheDir
  <2>1. opened + 1 \in Dirs /\ opened' = opened + 1 /\ router' = Append(router, NewWeight(opened + 1))
    BY <1>0, <1>2 DEF AddCacheDir
  <2>2. NewWeight(opened + 1) \in Entry /\ NewWeight(opened + 1).weight = quota[opened + 1]
    BY <1>0, <2>1 DEF NewWeight
  <2>3. router \in Seq(Entry) /\ Len(router) = opened
    BY <1>0 DEF RouterShaped
  <2>4. /\ router' \in Seq(Entry) /\ Len(router') = opened + 1
        /\ router'[opened + 1] = NewWeight(opened + 1)
        /\ \A d \in 1 .. opened : router'[d] = router[d]
    BY <2>1, <2>2, <2>3, AppendProperties
  <2>5. \A d \in 1 .. opened + 1 : router'[d].weight = quota[d]
    <3>1. \A d \in 1 .. opened + 1 : d \in 1 .. opened \/ d = opened + 1
      BY <1>0
    <3> QED BY <3>1, <2>2, <2>4, <1>0 DEF RouterShaped
  <2> QED BY <2>1, <2>4, <2>5, <1>0 DEF RouterShaped
<1>3. CASE opened' = 0 /\ router' = <<>>
  BY <1>3 DEF RouterShaped
<1>4. CASE UNCHANGED <<opened, router>>
  BY <1>0, <1>4 DEF RouterShaped
<1>5. ASSUME NEW c \in Client, NextDir(c) PROVE RouterShaped'
  <2>1. TotalWeight \in Int
    BY <1>0, WeightsAre, TotalWeightIs
  <2>2. /\ router' = [d \in DOMAIN router |->
              CASE d = Heaviest -> [router[d] EXCEPT !.cur = Raised(d) - TotalWeight]
                [] d \in Enabled \ {Heaviest} -> [router[d] EXCEPT !.cur = Raised(d)]
                [] OTHER -> router[d]]
        /\ opened' = opened
    BY <1>5 DEF NextDir, dirState
  <2>3. ASSUME NEW d \in 1 .. opened PROVE router'[d] \in Entry /\ router'[d].weight = router[d].weight
    <3>1. router[d] \in Entry /\ router[d].cur \in Int /\ router[d].weight \in Nat /\ d \in DOMAIN router
      BY <1>0, RouterIs
    <3>2. Raised(d) \in Int
      BY <3>1 DEF Raised
    <3>3. \A x \in Int : [router[d] EXCEPT !.cur = x] \in Entry /\ [router[d] EXCEPT !.cur = x].weight = router[d].weight
      BY <3>1
    <3>4. router'[d] = router[d] \/ \E x \in Int : router'[d] = [router[d] EXCEPT !.cur = x]
      <4>1. CASE d = Heaviest
        <5>1. router'[d] = [router[d] EXCEPT !.cur = Raised(d) - TotalWeight] /\ Raised(d) - TotalWeight \in Int
          BY <4>1, <3>1, <3>2, <2>1, <2>2
        <5> QED BY <5>1
      <4>2. CASE d \in Enabled \ {Heaviest}
        <5>1. router'[d] = [router[d] EXCEPT !.cur = Raised(d)]
          BY <4>2, <3>1, <2>2
        <5> QED BY <5>1, <3>2
      <4>3. CASE d # Heaviest /\ d \notin Enabled \ {Heaviest}
        BY <4>3, <3>1, <2>2
      <4> QED BY <4>1, <4>2, <4>3
    <3> QED BY <3>1, <3>3, <3>4
  <2>4. DOMAIN router = 1 .. opened
    BY <1>0, RouterIs
  <2> QED BY <2>2, <2>3, <2>4, <1>1
<1>6. ASSUME NEW c \in Client, DisableDir(c) PROVE RouterShaped'
  <2>1. PICK d \in Dirs : router' = [router EXCEPT ![d].enable = FALSE] /\ opened' = opened
    BY <1>6 DEF DisableDir, dirState
  <2>2. ASSUME NEW e \in 1 .. opened PROVE router'[e] \in Entry /\ router'[e].weight = router[e].weight
    <3>1. router[e] \in Entry /\ e \in DOMAIN router
      BY <1>0, RouterIs
    <3>2. [router[e] EXCEPT !.enable = FALSE] \in Entry /\ [router[e] EXCEPT !.enable = FALSE].weight = router[e].weight
      BY <3>1
    <3> QED BY <2>1, <3>1, <3>2
  <2>3. DOMAIN router = 1 .. opened
    BY <1>0, RouterIs
  <2> QED BY <2>1, <2>2, <2>3, <1>1
<1>7. ASSUME NEW c \in Client, AddDirWeight(c) PROVE RouterShaped'
  <2>1. PICK d \in Dirs : router' = [router EXCEPT ![d].cur = router[d].cur + BlockSlices, ![d].enable = TRUE]
                          /\ opened' = opened
    BY <1>7 DEF AddDirWeight, dirState
  <2>2. ASSUME NEW e \in 1 .. opened PROVE router'[e] \in Entry /\ router'[e].weight = router[e].weight
    <3>1. router[e] \in Entry /\ e \in DOMAIN router /\ router[e].cur + BlockSlices \in Int
      BY <1>0, RouterIs
    <3> DEFINE n == [router[e] EXCEPT !.cur = router[e].cur + BlockSlices, !.enable = TRUE]
    <3>2. n \in Entry /\ n.weight = router[e].weight
      BY <3>1
    <3>3. router'[e] = IF e = d THEN n ELSE router[e]
      BY <2>1, <3>1
    <3> QED BY <3>1, <3>2, <3>3
  <2>3. DOMAIN router = 1 .. opened
    BY <1>0, RouterIs
  <2> QED BY <2>1, <2>2, <2>3, <1>1
<1>8. ASSUME NEW c \in Client, NewBlockItem(c) \/ NoDir(c) \/ TakeBlock(c) \/ NoBlock(c) \/ PWrite(c) \/ PWriteFallsShort(c)
             \/ PRead(c) \/ ReadFails(c) \/ DeleteItem(c)
      PROVE  UNCHANGED <<opened, router>>
  BY <1>8, RouterKept
<1> QED
  <2>1. CASE AddCacheDirFails \/ Crash
    BY <2>1, <1>3 DEF AddCacheDirFails, Crash
  <2> QED BY <2>1, <1>2, <1>4, <1>5, <1>6, <1>7, <1>8 DEF StoreNext

LEMMA NextBlocksApart == Shape /\ StoreNext => BlocksApart'
<1> SUFFICES ASSUME Shape, StoreNext PROVE BlocksApart'
  OBVIOUS
<1>0. /\ quota' = quota /\ Dirs' = Dirs /\ BlocksApart
      /\ \A d \in Dirs : Blocks(d)' = Blocks(d) /\ BlockCount(d) \in Int
  <2>1. quota' = quota /\ Dirs' = Dirs /\ \A d \in Dirs : quota[d] \in Nat
    BY NextFixed, QuotaIs DEF Shape
  <2>2. ASSUME NEW d \in Dirs PROVE Blocks(d)' = Blocks(d) /\ BlockCount(d) \in Int
    <3>1. quota[d] \div BlockSlices \in Int
      BY <2>1, FileSizeAssumption
    <3> QED BY <2>1, <3>1 DEF Blocks, BlockCount
  <2> QED BY <2>1, <2>2 DEF Shape
<1>1. CASE UNCHANGED <<free, blockOf>>
  BY <1>0, <1>1 DEF BlocksApart
<1>2. CASE Crash
  <2>1. free' = AllFree /\ blockOf' = Each(<<>>)
    BY <1>2 DEF Crash
  <2> QED BY <1>0, <2>1 DEF BlocksApart, AllFree, Each, Blocks
<1>3. ASSUME NEW c \in Client, TakeBlock(c) PROVE BlocksApart'
  <2>1. PICK d \in Dirs : /\ step[c] = <<"take", d>>
                          /\ free[d] # {} /\ free' = [free EXCEPT ![d] = free[d] \ {Min(free[d])}]
                          /\ blockOf' = [blockOf EXCEPT ![c] = <<d, Min(free[d])>>]
    BY <1>3 DEF TakeBlock, Moves
  <2> DEFINE b == Min(free[d])
  <2>2. b \in free[d] /\ b \in Blocks(d)
    <3> DEFINE n == BlockCount(d) - 1
    <3>1. n \in Int /\ free[d] \in SUBSET (0 .. n) /\ free[d] # {} /\ Blocks(d) = 0 .. n
      BY <1>0, <2>1 DEF BlocksApart, Blocks
    <3> HIDE DEF n
    <3> QED BY <3>1, MinIsIn
  <2> HIDE DEF b
  <2>3. /\ DOMAIN free' = Dirs /\ \A e \in Dirs : free'[e] = IF e = d THEN free[d] \ {b} ELSE free[e]
        /\ DOMAIN blockOf' = Client /\ \A e \in Client : blockOf'[e] = IF e = c THEN <<d, b>> ELSE blockOf[e]
    BY <1>0, <2>1 DEF BlocksApart, b
  <2>4. ASSUME NEW e \in Client, blockOf'[e] # <<>>
        PROVE  \E a \in Dirs : \E i \in Blocks(a) \ free'[a] : blockOf'[e] = <<a, i>>
    <3>1. CASE e = c
      <4>1. b \in Blocks(d) \ free'[d] /\ blockOf'[e] = <<d, b>>
        BY <3>1, <2>2, <2>3
      <4> QED BY <4>1
    <3>2. CASE e # c
      <4>1. PICK a \in Dirs : \E i \in Blocks(a) \ free[a] : blockOf[e] = <<a, i>>
        BY <1>0, <2>3, <2>4, <3>2 DEF BlocksApart
      <4>2. Blocks(a) \ free[a] \subseteq Blocks(a) \ free'[a]
        BY <2>3
      <4> QED BY <3>2, <4>1, <4>2, <2>3
    <3> QED BY <3>1, <3>2
  <2>5. ASSUME NEW e \in Client, e # c, blockOf[e] # <<>> PROVE blockOf[e] # <<d, b>>
    BY <1>0, <2>2, <2>5 DEF BlocksApart
  <2>6. \A e, g \in Client : e # g /\ blockOf'[e] # <<>> => blockOf'[e] # blockOf'[g]
    BY <1>0, <2>3, <2>5 DEF BlocksApart
  <2>7. \A e \in Dirs : free'[e] \subseteq Blocks(e)
    BY <1>0, <2>3 DEF BlocksApart
  <2> QED BY <1>0, <2>3, <2>4, <2>6, <2>7 DEF BlocksApart
<1>4. ASSUME NEW c \in Client, DeleteItem(c) PROVE BlocksApart'
  <2>1. /\ blockOf[c] # <<>>
        /\ free' = [free EXCEPT ![blockOf[c][1]] = free[blockOf[c][1]] \cup {blockOf[c][2]}]
        /\ blockOf' = [blockOf EXCEPT ![c] = <<>>]
    BY <1>4 DEF DeleteItem, Idle
  <2>2. PICK d \in Dirs : \E b \in Blocks(d) \ free[d] : blockOf[c] = <<d, b>>
    BY <1>0, <2>1 DEF BlocksApart
  <2>3. PICK b \in Blocks(d) \ free[d] : blockOf[c] = <<d, b>>
    BY <2>2
  <2>4. /\ DOMAIN free' = Dirs /\ \A e \in Dirs : free'[e] = IF e = d THEN free[d] \cup {b} ELSE free[e]
        /\ DOMAIN blockOf' = Client /\ \A e \in Client : blockOf'[e] = IF e = c THEN <<>> ELSE blockOf[e]
    BY <1>0, <2>1, <2>3 DEF BlocksApart
  <2>5. ASSUME NEW e \in Client, blockOf'[e] # <<>>
        PROVE  \E a \in Dirs : \E i \in Blocks(a) \ free'[a] : blockOf'[e] = <<a, i>>
    <3>1. e # c /\ blockOf'[e] = blockOf[e]
      BY <2>4, <2>5
    <3>2. PICK a \in Dirs : \E i \in Blocks(a) \ free[a] : blockOf[e] = <<a, i>>
      BY <1>0, <3>1, <2>5 DEF BlocksApart
    <3>3. PICK i \in Blocks(a) \ free[a] : blockOf[e] = <<a, i>>
      BY <3>2
    <3>4. <<a, i>> # <<d, b>>
      BY <1>0, <3>1, <3>3, <2>3, <2>1 DEF BlocksApart
    <3>5. i \notin free'[a]
      BY <3>3, <3>4, <2>4
    <3> QED BY <3>1, <3>3, <3>5
  <2>6. \A e, g \in Client : e # g /\ blockOf'[e] # <<>> => blockOf'[e] # blockOf'[g]
    BY <1>0, <2>4 DEF BlocksApart
  <2>7. \A e \in Dirs : free'[e] \subseteq Blocks(e)
    BY <1>0, <2>4 DEF BlocksApart
  <2> QED BY <1>0, <2>4, <2>5, <2>6, <2>7 DEF BlocksApart
<1>5. CASE AddCacheDir \/ AddCacheDirFails
  BY <1>5, <1>1 DEF AddCacheDir, AddCacheDirFails
<1>6. ASSUME NEW c \in Client, NewBlockItem(c) \/ NextDir(c) \/ NoDir(c) \/ NoBlock(c) \/ DisableDir(c)
      PROVE  UNCHANGED <<free, blockOf>>
  BY <1>6 DEF NewBlockItem, NextDir, NoDir, NoBlock, DisableDir
<1>7. ASSUME NEW c \in Client, PWrite(c) \/ PWriteFallsShort(c) \/ PRead(c) \/ ReadFails(c) \/ AddDirWeight(c)
      PROVE  UNCHANGED <<free, blockOf>>
  BY <1>7 DEF PWrite, PWriteFallsShort, WriteBlock, PRead, ReadFails, AddDirWeight
<1> QED BY <1>1, <1>2, <1>3, <1>4, <1>5, <1>6, <1>7 DEF StoreNext

LEMMA NextStepsSound == Shape /\ StoreNext => StepsSound'
<1> SUFFICES ASSUME Shape, StoreNext PROVE StepsSound'
  OBVIOUS
<1>0. /\ quota' = quota /\ Dirs' = Dirs /\ StepsSound /\ Steps' = Steps
      /\ DOMAIN blockOf = Client
  BY NextFixed DEF Shape, Steps, BlocksApart
<1>1. CASE AddCacheDir \/ AddCacheDirFails
  <2>1. UNCHANGED <<blockOf, step>> /\ ~Up
    <3>1. opened < Len(quota)
      BY <1>1 DEF AddCacheDir, AddCacheDirFails
    <3>2. Len(quota) \in Nat
      BY QuotaIs DEF Shape
    <3> QED BY <1>1, <3>1, <3>2 DEF AddCacheDir, AddCacheDirFails, Up
  <2> QED BY <1>0, <2>1 DEF StepsSound
<1>2. CASE Crash
  <2>1. step' = Each(<<"idle">>) /\ blockOf' = Each(<<>>)
    BY <1>2 DEF Crash
  <2>2. \A c \in Client : step'[c] = <<"idle">> /\ blockOf'[c] = <<>>
    BY <2>1 DEF Each
  <2>3. step' \in [Client -> Steps]
    BY <2>1 DEF Each, Steps
  <2> QED BY <1>0, <2>2, <2>3 DEF StepsSound
\* A client moves, without a block.
<1>3. ASSUME NEW c \in Client, NEW to \in Steps, step' = [step EXCEPT ![c] = to], DOMAIN blockOf' = Client,
             \A e \in Client \ {c} : blockOf'[e] = blockOf[e],
             to # <<"idle">> => blockOf'[c] = <<>>, Up', Up
      PROVE  StepsSound'
  <2>1. \A e \in Client : step'[e] = IF e = c THEN to ELSE step[e]
    BY <1>0, <1>3 DEF StepsSound
  <2>2. step' \in [Client -> Steps]
    BY <1>0, <1>3 DEF StepsSound
  <2>3. \A e \in Client : step'[e] # <<"idle">> => blockOf'[e] = <<>>
    BY <1>0, <1>3, <2>1 DEF StepsSound
  <2> QED BY <1>0, <1>3, <2>2, <2>3 DEF StepsSound
<1>4. CASE UNCHANGED <<opened, blockOf, step>>
  BY <1>0, <1>4 DEF StepsSound, Up
<1>5. ASSUME NEW c \in Client, step[c] # <<"idle">> \/ blockOf[c] # <<>>, opened' = opened PROVE Up /\ Up'
  BY <1>0, <1>5 DEF StepsSound, Up
<1>6. ASSUME NEW c \in Client, NewBlockItem(c) PROVE StepsSound'
  <2>1. /\ Up /\ Up' /\ blockOf[c] = <<>> /\ blockOf' = blockOf /\ step' = [step EXCEPT ![c] = <<"route">>]
    BY <1>0, <1>6 DEF NewBlockItem, Moves, dirState, Up
  <2>2. <<"route">> \in Steps
    BY DEF Steps
  <2> QED BY <1>0, <1>3, <2>1, <2>2
<1>7. ASSUME NEW c \in Client, NextDir(c) PROVE StepsSound'
  <2>1. /\ step[c] = <<"route">> /\ step' = [step EXCEPT ![c] = <<"take", Heaviest>>] /\ blockOf' = blockOf
        /\ opened' = opened /\ Enabled # {}
    BY <1>7 DEF NextDir, Moves, dirState
  <2>2. Heaviest \in Dirs
    BY <2>1, HeaviestIs, NextFixed DEF Shape
  <2>3. <<"take", Heaviest>> \in Steps
    BY <2>2 DEF Steps
  <2>4. blockOf[c] = <<>> /\ Up /\ Up'
    BY <1>0, <1>5, <2>1 DEF StepsSound
  <2> QED BY <1>0, <1>3, <2>1, <2>3, <2>4
<1>8. ASSUME NEW c \in Client, NoDir(c) \/ NoBlock(c) \/ DisableDir(c) PROVE StepsSound'
  <2>1. PICK to \in Steps : step' = [step EXCEPT ![c] = to]
    <3>1. <<"idle">> \in Steps /\ <<"route">> \in Steps /\ \A d \in Dirs : <<"disable", d>> \in Steps
      BY DEF Steps
    <3> QED BY <1>8, <3>1 DEF NoDir, NoBlock, DisableDir, Moves
  <2>2. step[c] # <<"idle">> /\ blockOf' = blockOf /\ opened' = opened
    BY <1>8 DEF NoDir, NoBlock, DisableDir, Moves, dirState
  <2>3. blockOf[c] = <<>> /\ Up /\ Up'
    BY <1>0, <1>5, <2>2 DEF StepsSound
  <2> QED BY <1>0, <1>3, <2>1, <2>2, <2>3
<1>9. ASSUME NEW c \in Client, TakeBlock(c) PROVE StepsSound'
  <2>1. /\ step[c] # <<"idle">> /\ opened' = opened /\ step' = [step EXCEPT ![c] = <<"idle">>]
        /\ DOMAIN blockOf' = Client /\ \A e \in Client \ {c} : blockOf'[e] = blockOf[e]
    BY <1>0, <1>9 DEF TakeBlock, Moves, dirState
  <2>2. Up /\ Up'
    BY <1>0, <1>5, <2>1
  <2>3. <<"idle">> \in Steps
    BY DEF Steps
  <2> QED BY <1>3, <2>1, <2>2, <2>3
<1>10. ASSUME NEW c \in Client, DeleteItem(c) PROVE StepsSound'
  <2>1. /\ blockOf[c] # <<>> /\ opened' = opened /\ step' = [step EXCEPT ![c] = <<"weigh", blockOf[c][1]>>]
        /\ blockOf' = [blockOf EXCEPT ![c] = <<>>]
    BY <1>10 DEF DeleteItem, Idle, dirState
  <2>2. Up /\ Up'
    BY <1>0, <1>5, <2>1
  <2>3. PICK d \in Dirs : \E b \in Blocks(d) : blockOf[c] = <<d, b>>
    BY <2>1 DEF Shape, BlocksApart
  <2>4. blockOf[c][1] = d
    BY <2>3
  <2>5. <<"weigh", blockOf[c][1]>> \in Steps
    BY <2>4 DEF Steps
  <2>6. DOMAIN blockOf' = Client /\ blockOf'[c] = <<>> /\ \A e \in Client \ {c} : blockOf'[e] = blockOf[e]
    BY <1>0, <2>1
  <2> QED BY <1>3, <2>1, <2>2, <2>5, <2>6
<1>11. ASSUME NEW c \in Client, AddDirWeight(c) PROVE StepsSound'
  <2>1. step[c] # <<"idle">> /\ opened' = opened /\ step' = [step EXCEPT ![c] = <<"idle">>] /\ blockOf' = blockOf
    BY <1>11 DEF AddDirWeight, Moves, dirState
  <2>2. Up /\ Up'
    BY <1>0, <1>5, <2>1
  <2>3. <<"idle">> \in Steps
    BY DEF Steps
  <2> QED BY <1>0, <1>3, <2>1, <2>2, <2>3
<1>12. ASSUME NEW c \in Client, PWrite(c) \/ PWriteFallsShort(c) \/ PRead(c) \/ ReadFails(c)
       PROVE  UNCHANGED <<opened, blockOf, step>>
  BY <1>12 DEF PWrite, PWriteFallsShort, WriteBlock, PRead, ReadFails, dirState
<1> QED BY <1>1, <1>2, <1>4, <1>6, <1>7, <1>8, <1>9, <1>10, <1>11, <1>12 DEF StoreNext

LEMMA UnchangedShape == Shape /\ UNCHANGED storeVars => Shape'
<1> SUFFICES ASSUME Shape, UNCHANGED storeVars PROVE Shape'
  OBVIOUS
<1>1. /\ quota' = quota /\ checked' = checked /\ opened' = opened /\ files' = files /\ router' = router
      /\ free' = free /\ blockOf' = blockOf /\ step' = step /\ frees' = frees
  BY DEF storeVars, config, dirState
<1>2. FilesShaped' /\ RouterShaped'
  BY <1>1 DEF Shape, FilesShaped, RouterShaped, FileCount, FileSize, Dirs
<1>3. BlocksApart'
  BY <1>1 DEF Shape, BlocksApart, Blocks, BlockCount, Dirs
<1>4. StepsSound'
  BY <1>1 DEF Shape, StepsSound, Steps, Dirs, Up
<1> QED BY <1>1, <1>2, <1>3, <1>4 DEF Shape

\* Files, router, blocks and steps keep the shape the others rely on.
THEOREM ShapeKept == StoreSpec => []Shape
<1>1. Shape /\ [StoreNext]_storeVars => Shape'
  <2>1. Shape /\ StoreNext => Shape'
    BY NextFixed, NextFilesShaped, NextRouterShaped, NextBlocksApart, NextStepsSound DEF Shape
  <2> QED BY <2>1, UnchangedShape
<1> QED BY <1>1, InitShape, PTL DEF StoreSpec

\* WithinFiles: a block never reaches beyond its file, for the division of a
\* directory into files of BlockFileConfig and the last, smaller one.
THEOREM BlocksWithinFiles == StoreSpec => []WithinFiles
BY ShapeKept, ShapeWithinFiles, PTL

-----------------------------------------------------------------------------
(***************************************************************************)
(* What is in the files.                                                   *)
(***************************************************************************)
LEMMA EmptyDomain == DOMAIN <<>> = {}
OBVIOUS

LEMMA MaxIsIn ==
  ASSUME NEW n \in Int, NEW S \in SUBSET (0 .. n), S # {}
  PROVE  Max(S) \in S /\ \A x \in S : x <= Max(S)
<1> DEFINE f == [x \in S |-> x]
<1>1. IsFiniteSet(S)
  <2>1. IsFiniteSet(0 .. n)
    BY FS_Interval
  <2> QED BY <2>1, FS_Subset
<1>2. PICK m \in S : \A x \in S : f[x] <= f[m]
  <2>1. \A x \in S : f[x] \in Int
    OBVIOUS
  <2> HIDE DEF f
  <2> QED BY <1>1, <2>1, LargestValue
<1>3. \A x \in S : m >= x
  BY <1>2
<1> QED BY <1>3 DEF Max

LEMMA StoredIs ==
  ASSUME Shape, NEW c \in Client, NEW d \in Dirs, NEW b \in Blocks(d), blockOf[c] = <<d, b>>, NEW s \in Slices
  PROVE  /\ FileOf(b) \in DOMAIN files[d] /\ OffsetOf(b, s) \in DOMAIN files[d][FileOf(b)]
         /\ Stored(c)[s] = files[d][FileOf(b)][OffsetOf(b, s)]
<1>1. FileOf(b) \in DOMAIN files[d] /\ OffsetOf(b, s) \in DOMAIN files[d][FileOf(b)]
  BY BlockInFile DEF Shape, FilesShaped
<1> QED BY <1>1 DEF Stored

LEMMA MarksApart == /\ Hole # Old /\ Torn # Old /\ Noise # Old
                    /\ \A c \in Client : c # Old /\ c # Noise
BY ClientAssumption DEF Hole, Old, Torn, Noise

LEMMA NextNothingOld == Shape /\ NothingOld /\ StoreNext => NothingOld'
<1> SUFFICES ASSUME Shape, NothingOld, StoreNext PROVE NothingOld'
  OBVIOUS
<1>0. /\ Dirs' = Dirs /\ Len(quota) \in Nat /\ Dirs = 1 .. Len(quota) /\ opened \in 0 .. Len(quota)
      /\ DOMAIN files = Dirs
  BY NextFixed DEF Shape, FilesShaped
<1>1. CASE AddCacheDir
  <2>1. opened' = opened + 1 /\ files' = [files EXCEPT ![opened + 1] = NewFiles(opened + 1, Hole)]
    BY <1>1 DEF AddCacheDir
  <2> SUFFICES ASSUME NEW d \in Dirs, d <= opened + 1, NEW f \in DOMAIN files'[d], NEW p \in DOMAIN files'[d][f]
               PROVE  files'[d][f][p] # Old
    BY <1>0, <2>1 DEF NothingOld
  <2>2. CASE d = opened + 1
    <3>1. files'[d] = NewFiles(d, Hole)
      BY <1>0, <2>1, <2>2
    <3>2. files'[d][f][p] = Hole
      BY <3>1 DEF NewFiles
    <3> QED BY <3>2, MarksApart
  <2>3. CASE d <= opened
    <3>1. files'[d] = files[d]
      BY <1>0, <2>1, <2>3
    <3> QED BY <3>1, <2>3 DEF NothingOld
  <2> QED BY <1>0, <2>2, <2>3
<1>2. CASE AddCacheDirFails \/ Crash
  <2>1. opened' = 0
    BY <1>2 DEF AddCacheDirFails, Crash
  <2> QED BY <1>0, <2>1 DEF NothingOld
<1>3. ASSUME NEW c \in Client, PWrite(c) \/ PWriteFallsShort(c) PROVE NothingOld'
  <2>1. PICK data : /\ DOMAIN data \subseteq Slices /\ blockOf[c] # <<>> /\ files' = FilesWith(c, data)
                    /\ \A s \in DOMAIN data : data[s] \in {c, Torn}
    BY <1>3, WrittenIs
  <2>2. opened' = opened
    BY <1>3, RouterKept
  <2>3. PICK d \in Dirs : \E b \in Blocks(d) : blockOf[c] = <<d, b>>
    BY <2>1, HeldIs
  <2>4. PICK b \in Blocks(d) : blockOf[c] = <<d, b>>
    BY <2>3
  <2>5. \A s \in DOMAIN data : data[s] # Old
    BY <2>1, MarksApart
  <2>6. ASSUME NEW e \in Dirs PROVE DOMAIN files'[e] = DOMAIN files[e]
    BY <2>1, <2>4, WriteInto DEF Written
  <2> SUFFICES ASSUME NEW e \in Dirs, e <= opened, NEW f \in DOMAIN files[e], NEW p \in DOMAIN files'[e][f]
               PROVE  files'[e][f][p] # Old
    BY <1>0, <2>2, <2>6 DEF NothingOld
  <2>7. /\ DOMAIN files'[e][f] = DOMAIN files[e][f]
        /\ \A q \in DOMAIN files[e][f] :
             files'[e][f][q] = files[e][f][q] \/ \E s \in DOMAIN data : files'[e][f][q] = data[s]
    BY <2>1, <2>4, StepWrites
  <2> QED BY <2>5, <2>7 DEF NothingOld
<1>4. CASE UNCHANGED <<opened, files>>
  BY <1>0, <1>4 DEF NothingOld
<1>5. ASSUME NEW c \in Client, NewBlockItem(c) \/ NextDir(c) \/ NoDir(c) \/ TakeBlock(c) \/ NoBlock(c)
             \/ DisableDir(c) \/ PRead(c) \/ ReadFails(c) \/ DeleteItem(c) \/ AddDirWeight(c)
      PROVE  UNCHANGED <<opened, files>>
  <2>1. opened' = opened
    BY <1>5 DEF NewBlockItem, NextDir, NoDir, TakeBlock, NoBlock, DisableDir, PRead, ReadFails, DeleteItem, AddDirWeight, dirState
  <2> QED BY <2>1, <1>5, FilesKept
<1> QED BY <1>1, <1>2, <1>3, <1>4, <1>5 DEF StoreNext

\* A client whose item, block and stored slices stay the same.
LEMMA SignedKept ==
  ASSUME NEW e \in Client, Signed(e), checked' = checked,
         blockOf'[e] = blockOf[e], wrote'[e] = wrote[e], hurt'[e] = hurt[e],
         \A s \in DOMAIN wrote[e] : sums'[e] = sums[e] /\ Stored(e)'[s] = Stored(e)[s]
  PROVE  Signed(e)'
BY DEF Signed, Slices

\* A write by another client does not touch the slices of this one.
LEMMA OthersKept ==
  ASSUME Shape, Shape', NEW c \in Client, NEW e \in Client \ {c}, blockOf[c] # <<>>, blockOf[e] # <<>>, blockOf' = blockOf,
         quota' = quota, NEW data, DOMAIN data \subseteq Slices, files' = FilesWith(c, data), NEW s \in Slices
  PROVE  Stored(e)'[s] = Stored(e)[s]
<1>1. PICK d \in Dirs : \E b \in Blocks(d) : blockOf[c] = <<d, b>> /\ b \in Nat
  BY HeldIs
<1>2. PICK b \in Blocks(d) : blockOf[c] = <<d, b>> /\ b \in Nat
  BY <1>1
<1>3. PICK a \in Dirs : \E i \in Blocks(a) : blockOf[e] = <<a, i>> /\ i \in Nat
  BY HeldIs
<1>4. PICK i \in Blocks(a) : blockOf[e] = <<a, i>> /\ i \in Nat
  BY <1>3
<1>5. <<a, i>> # <<d, b>>
  BY <1>2, <1>4 DEF Shape, BlocksApart
<1>6. /\ FileOf(i) \in DOMAIN files[a] /\ OffsetOf(i, s) \in DOMAIN files[a][FileOf(i)]
      /\ Stored(e)[s] = files[a][FileOf(i)][OffsetOf(i, s)]
  BY <1>4, StoredIs
<1>7. \/ files'[a][FileOf(i)][OffsetOf(i, s)] = files[a][FileOf(i)][OffsetOf(i, s)]
      \/ \E t \in DOMAIN data : a = d /\ FileOf(i) = FileOf(b) /\ OffsetOf(i, s) = OffsetOf(b, t)
  <2>1. blockOf[c][1] = d /\ blockOf[c][2] = b
    BY <1>2
  <2> QED BY <2>1, <1>6, SlotAfterWrite
<1>8. files'[a][FileOf(i)][OffsetOf(i, s)] = files[a][FileOf(i)][OffsetOf(i, s)]
  BY <1>2, <1>4, <1>5, <1>7, SlicesApart
<1>9. OffsetOf(i, s) \in DOMAIN files'[a][FileOf(i)]
  <2>1. DOMAIN files'[a][FileOf(i)] = DOMAIN files[a][FileOf(i)]
    <3> HIDE DEF FilesWith
    <3> QED BY <1>2, <1>6, StepWrites
  <2> QED BY <1>6, <2>1
<1>10. Stored(e)'[s] = files'[a][FileOf(i)][OffsetOf(i, s)]
  BY <1>4, <1>9 DEF Stored, Slices
<1> QED BY <1>6, <1>8, <1>10

\* The slices that were written have the data.
LEMMA OwnWritten ==
  ASSUME Shape, NEW c \in Client, blockOf[c] # <<>>, blockOf' = blockOf,
         NEW data, DOMAIN data \subseteq Slices, files' = FilesWith(c, data), NEW s \in Slices
  PROVE  Stored(c)'[s] = IF s \in DOMAIN data THEN data[s] ELSE Stored(c)[s]
<1>1. PICK d \in Dirs : \E b \in Blocks(d) : blockOf[c] = <<d, b>> /\ b \in Nat
  BY HeldIs
<1>2. PICK b \in Blocks(d) : blockOf[c] = <<d, b>> /\ b \in Nat
  BY <1>1
<1>3. /\ FileOf(b) \in DOMAIN files[d] /\ OffsetOf(b, s) \in DOMAIN files[d][FileOf(b)]
      /\ Stored(c)[s] = files[d][FileOf(b)][OffsetOf(b, s)]
  BY <1>2, StoredIs
<1>4. OffsetOf(b, s) \in DOMAIN files'[d][FileOf(b)]
  BY <1>2, <1>3, StepWrites
<1>5. Stored(c)'[s] = files'[d][FileOf(b)][OffsetOf(b, s)]
  BY <1>2, <1>4 DEF Stored, Slices
<1>6. CASE s \in DOMAIN data
  <2>1. files'[d][FileOf(b)][OffsetOf(b, s)] = data[s]
    BY <1>2, <1>3, <1>6, StepWrites
  <2> QED BY <2>1, <1>5, <1>6
<1>7. CASE s \notin DOMAIN data
  <2>1. \/ files'[d][FileOf(b)][OffsetOf(b, s)] = files[d][FileOf(b)][OffsetOf(b, s)]
        \/ \E t \in DOMAIN data : OffsetOf(b, s) = OffsetOf(b, t)
    <3>1. blockOf[c][1] = d /\ blockOf[c][2] = b
      BY <1>2
    <3> QED BY <3>1, <1>3, SlotAfterWrite
  <2>2. \A t \in DOMAIN data : OffsetOf(b, s) # OffsetOf(b, t)
    BY <1>2, <1>7, SlicesApart
  <2> QED BY <2>1, <2>2, <1>3, <1>5, <1>7
<1> QED BY <1>6, <1>7

\* What the write records, whatever becomes of it.
LEMMA WriteRecords ==
  ASSUME ItemsRight, NEW c \in Client, NEW all, WriteBlock(c, all)
  PROVE  /\ DOMAIN sums' = Client /\ DOMAIN wrote' = Client
         /\ \A e \in Client \ {c} : sums'[e] = sums[e] /\ wrote'[e] = wrote[e]
         /\ DOMAIN wrote'[c] = DOMAIN wrote[c] \cup DOMAIN all
         /\ \A s \in DOMAIN wrote'[c] : wrote'[c][s] = IF s \in DOMAIN all THEN all[s] ELSE wrote[c][s]
         /\ checked => /\ DOMAIN sums'[c] = DOMAIN sums[c] \cup DOMAIN all
                       /\ \A s \in DOMAIN sums'[c] : sums'[c][s] = IF s \in DOMAIN all THEN all[s] ELSE sums[c][s]
         /\ blockOf' = blockOf /\ opened' = opened /\ quota' = quota /\ checked' = checked
<1>1. /\ sums' = [sums EXCEPT ![c] = IF checked THEN With(sums[c], all) ELSE sums[c]]
      /\ wrote' = [wrote EXCEPT ![c] = With(wrote[c], all)]
      /\ blockOf' = blockOf /\ opened' = opened /\ quota' = quota /\ checked' = checked
  BY DEF WriteBlock, config
<1>2. /\ DOMAIN sums' = Client /\ DOMAIN wrote' = Client
      /\ \A e \in Client \ {c} : sums'[e] = sums[e] /\ wrote'[e] = wrote[e]
      /\ wrote'[c] = With(wrote[c], all) /\ (checked => sums'[c] = With(sums[c], all))
  BY <1>1 DEF ItemsRight
<1> QED BY <1>1, <1>2 DEF With

LEMMA NextItemsRight == Shape /\ Shape' /\ ItemsRight /\ StoreNext => ItemsRight'
<1> SUFFICES ASSUME Shape, Shape', ItemsRight, StoreNext PROVE ItemsRight'
  OBVIOUS
<1>0. /\ DOMAIN sums = Client /\ DOMAIN wrote = Client /\ hurt \in [Client -> BOOLEAN] /\ DOMAIN blockOf = Client
      /\ \A e \in Client : Signed(e)
      /\ quota' = quota /\ checked' = checked
  BY NextFixed DEF ItemsRight, Shape, BlocksApart
\* The items of all clients but one stay as they are.
<1>1. ASSUME NEW c \in Client, DOMAIN sums' = Client, DOMAIN wrote' = Client, hurt' \in [Client -> BOOLEAN], files' = files,
             \A e \in Client \ {c} : /\ sums'[e] = sums[e] /\ wrote'[e] = wrote[e] /\ hurt'[e] = hurt[e]
                                     /\ blockOf'[e] = blockOf[e],
             Signed(c)'
      PROVE  ItemsRight'
  <2>1. ASSUME NEW e \in Client \ {c} PROVE Signed(e)'
    <3>1. \A s \in Slices : Stored(e)'[s] = Stored(e)[s]
      BY <1>1, <2>1 DEF Stored, Slices
    <3>2. DOMAIN wrote[e] \subseteq Slices
      BY <1>0 DEF Signed
    <3> QED BY <1>0, <1>1, <3>1, <3>2, SignedKept
  <2> QED BY <1>1, <2>1 DEF ItemsRight
<1>2. CASE AddCacheDir \/ AddCacheDirFails
  <2>1. UNCHANGED <<blockOf, item>> /\ ~Up
    <3>1. opened < Len(quota)
      BY <1>2 DEF AddCacheDir, AddCacheDirFails
    <3>2. Len(quota) \in Nat
      BY QuotaIs DEF Shape
    <3> QED BY <1>2, <3>1, <3>2 DEF AddCacheDir, AddCacheDirFails, Up
  <2>2. ASSUME NEW e \in Client PROVE Signed(e)'
    <3>1. DOMAIN wrote[e] = {}
      BY <1>0, <2>1 DEF Shape, StepsSound, Signed
    <3> QED BY <1>0, <2>1, <3>1 DEF Signed, item
  <2> QED BY <1>0, <2>1, <2>2 DEF ItemsRight, item
<1>3. CASE Crash
  <2>1. sums' = Each(<<>>) /\ wrote' = Each(<<>>) /\ hurt' = Each(FALSE)
    BY <1>3 DEF Crash
  <2>2. ASSUME NEW e \in Client PROVE Signed(e)'
    <3>1. wrote'[e] = <<>> /\ hurt'[e] = FALSE
      BY <2>1 DEF Each
    <3> QED BY <3>1, EmptyDomain DEF Signed
  <2> QED BY <2>1, <2>2 DEF ItemsRight, Each
<1>4. ASSUME NEW c \in Client, PWrite(c) \/ PWriteFallsShort(c) PROVE ItemsRight'
  <2>1. PICK data, all : /\ DOMAIN data \subseteq Slices /\ DOMAIN data \subseteq DOMAIN all /\ DOMAIN all \subseteq Slices
                         /\ blockOf[c] # <<>>
                         /\ files' = FilesWith(c, data) /\ WriteBlock(c, all)
                         /\ \A s \in DOMAIN all : all[s] = c
                         /\ \/ PWrite(c) /\ data = all /\ hurt' = hurt
                            \/ hurt' = [hurt EXCEPT ![c] = TRUE]
    BY <1>4, WrittenIs
  <2>2. /\ DOMAIN sums' = Client /\ DOMAIN wrote' = Client
        /\ \A e \in Client \ {c} : sums'[e] = sums[e] /\ wrote'[e] = wrote[e]
        /\ DOMAIN wrote'[c] = DOMAIN wrote[c] \cup DOMAIN all
        /\ \A s \in DOMAIN wrote'[c] : wrote'[c][s] = IF s \in DOMAIN all THEN all[s] ELSE wrote[c][s]
        /\ checked => /\ DOMAIN sums'[c] = DOMAIN sums[c] \cup DOMAIN all
                      /\ \A s \in DOMAIN sums'[c] : sums'[c][s] = IF s \in DOMAIN all THEN all[s] ELSE sums[c][s]
        /\ blockOf' = blockOf
    BY <2>1, WriteRecords
  <2>3. /\ hurt' \in [Client -> BOOLEAN] /\ \A e \in Client \ {c} : hurt'[e] = hurt[e]
        /\ ~hurt'[c] => ~hurt[c] /\ data = all
    BY <1>0, <2>1
  <2>4. ASSUME NEW e \in Client \ {c} PROVE Signed(e)'
    <3>1. ASSUME NEW s \in DOMAIN wrote[e] PROVE Stored(e)'[s] = Stored(e)[s]
      <4>1. blockOf[e] # <<>> /\ s \in Slices
        BY <1>0, <3>1 DEF Signed
      <4> QED BY <1>0, <2>1, <2>2, <4>1, OthersKept
    <3> QED BY <1>0, <2>2, <2>3, <3>1, SignedKept
  <2>5. Signed(c)'
    <3>1. DOMAIN wrote[c] \subseteq Slices
      BY <1>0 DEF Signed
    <3>2. ASSUME NEW s \in DOMAIN wrote'[c]
          PROVE  /\ wrote'[c][s] = c
                 /\ checked => s \in DOMAIN sums'[c] /\ sums'[c][s] = c
                 /\ ~hurt'[c] => Stored(c)'[s] = c
      <4>1. s \in Slices
        BY <2>1, <2>2, <3>1, <3>2
      <4>2. Stored(c)'[s] = IF s \in DOMAIN data THEN data[s] ELSE Stored(c)[s]
        BY <2>1, <2>2, <4>1, OwnWritten
      <4>3. CASE s \in DOMAIN all
        BY <2>1, <2>2, <2>3, <4>2, <4>3, <3>2
      <4>4. CASE s \notin DOMAIN all
        <5>1. s \in DOMAIN wrote[c] /\ s \notin DOMAIN data
          BY <2>1, <2>2, <3>2, <4>4
        <5>2. /\ wrote[c][s] = c
              /\ checked => s \in DOMAIN sums[c] /\ sums[c][s] = c
              /\ ~hurt[c] => Stored(c)[s] = c
          BY <1>0, <5>1 DEF Signed
        <5> QED BY <2>2, <2>3, <3>2, <4>2, <4>4, <5>1, <5>2
      <4> QED BY <4>3, <4>4
    <3>3. DOMAIN wrote'[c] \subseteq Slices /\ blockOf'[c] # <<>>
      BY <2>1, <2>2, <3>1
    <3> QED BY <1>0, <3>2, <3>3 DEF Signed, Slices
  <2> QED BY <2>2, <2>3, <2>4, <2>5 DEF ItemsRight
<1>5. ASSUME NEW c \in Client, TakeBlock(c) PROVE ItemsRight'
  <2>1. /\ step[c] # <<"idle">> /\ wrote' = wrote /\ hurt' = hurt /\ files' = files
        /\ sums' = [sums EXCEPT ![c] = [s \in Slices |-> Noise]]
        /\ \A e \in Client \ {c} : blockOf'[e] = blockOf[e]
    BY <1>0, <1>5 DEF TakeBlock, Moves, dirState
  <2>2. blockOf[c] = <<>>
    BY <2>1 DEF Shape, StepsSound
  <2>3. DOMAIN wrote[c] = {} /\ ~hurt[c]
    BY <1>0, <2>2 DEF Signed
  <2>4. Signed(c)'
    BY <2>1, <2>3 DEF Signed
  <2> QED BY <1>0, <1>1, <2>1, <2>4
<1>6. ASSUME NEW c \in Client, DeleteItem(c) PROVE ItemsRight'
  <2>1. /\ sums' = [sums EXCEPT ![c] = <<>>] /\ wrote' = [wrote EXCEPT ![c] = <<>>] /\ hurt' = [hurt EXCEPT ![c] = FALSE]
        /\ files' = files /\ blockOf' = [blockOf EXCEPT ![c] = <<>>]
    BY <1>6 DEF DeleteItem, dirState
  <2>2. wrote'[c] = <<>> /\ hurt'[c] = FALSE
    BY <1>0, <2>1
  <2>3. Signed(c)'
    BY <2>2, EmptyDomain DEF Signed
  <2>4. /\ DOMAIN sums' = Client /\ DOMAIN wrote' = Client /\ hurt' \in [Client -> BOOLEAN]
        /\ \A e \in Client \ {c} : /\ sums'[e] = sums[e] /\ wrote'[e] = wrote[e] /\ hurt'[e] = hurt[e]
                                   /\ blockOf'[e] = blockOf[e]
    BY <1>0, <2>1
  <2> QED BY <1>1, <2>1, <2>3, <2>4
<1>7. CASE UNCHANGED <<files, blockOf, item>>
  <2>1. ASSUME NEW e \in Client PROVE Signed(e)'
    <3>1. \A s \in Slices : Stored(e)'[s] = Stored(e)[s]
      BY <1>7 DEF Stored
    <3>2. DOMAIN wrote[e] \subseteq Slices
      BY <1>0 DEF Signed
    <3> QED BY <1>0, <1>7, <3>1, <3>2, SignedKept DEF item
  <2> QED BY <1>0, <1>7, <2>1 DEF ItemsRight, item
<1>8. ASSUME NEW c \in Client, NewBlockItem(c) \/ NextDir(c) \/ NoDir(c) \/ NoBlock(c) \/ DisableDir(c)
      PROVE  UNCHANGED <<files, blockOf, item>>
  BY <1>8 DEF NewBlockItem, NextDir, NoDir, NoBlock, DisableDir, dirState
<1>9. ASSUME NEW c \in Client, PRead(c) \/ ReadFails(c) \/ AddDirWeight(c)
      PROVE  UNCHANGED <<files, blockOf, item>>
  BY <1>9 DEF PRead, ReadFails, AddDirWeight, dirState
<1> QED BY <1>2, <1>3, <1>4, <1>5, <1>6, <1>7, <1>8, <1>9 DEF StoreNext

\* A read that returns successfully has what was written.
LEMMA ReadIsRight ==
  ASSUME Shape, NothingOld, ItemsRight, NEW c \in Client, PRead(c)
  PROVE  OkReadIsLastWrite'
<1>1. PICK segment \in Segments : \E end \in segment \cup {Max(segment) + 1} :
        LET data == [s \in segment |-> IF s < end THEN Stored(c)[s] ELSE Noise]
        IN  Verified(c, data) /\ answer' = <<c, data, end \notin segment>>
  BY DEF PRead
<1>2. PICK end \in segment \cup {Max(segment) + 1} :
        LET data == [s \in segment |-> IF s < end THEN Stored(c)[s] ELSE Noise]
        IN  Verified(c, data) /\ answer' = <<c, data, end \notin segment>>
  BY <1>1
<1> DEFINE data == [s \in segment |-> IF s < end THEN Stored(c)[s] ELSE Noise]
<1>3. Verified(c, data) /\ answer' = <<c, data, end \notin segment>>
  BY <1>2
<1>4. /\ DOMAIN data = segment
      /\ \A s \in segment : data[s] = IF s < end THEN Stored(c)[s] ELSE Noise
  OBVIOUS
<1> HIDE DEF data
<1>5. checked' = checked /\ wrote' = wrote /\ hurt' = hurt
  BY DEF PRead, config, item
<1>6. /\ segment \subseteq Slices /\ segment # {} /\ BlockSlices \in Nat
      /\ \A s \in Slices : s \in Nat
  BY FileSizeAssumption DEF Segments, Slices
<1>7. end \notin segment => \A s \in segment : s < end
  <2> SUFFICES ASSUME end = Max(segment) + 1, NEW s \in segment PROVE s < end
    BY <1>2
  <2>1. Max(segment) \in segment /\ s <= Max(segment)
    <3>1. segment \in SUBSET (0 .. BlockSlices - 1) /\ BlockSlices - 1 \in Int
      BY <1>6 DEF Slices
    <3> QED BY <1>6, <3>1, MaxIsIn
  <2>2. s \in Nat /\ Max(segment) \in Nat
    BY <1>6, <2>1
  <2> QED BY <2>1, <2>2
<1>8. blockOf[c] # <<>>
  BY DEF PRead, Idle
<1>9. ASSUME NEW s \in segment PROVE data[s] # Old
  <2>1. PICK d \in Dirs : \E b \in Blocks(d) : blockOf[c] = <<d, b>>
    BY <1>8, HeldIs
  <2>2. PICK b \in Blocks(d) : blockOf[c] = <<d, b>>
    BY <2>1
  <2>3. /\ FileOf(b) \in DOMAIN files[d] /\ OffsetOf(b, s) \in DOMAIN files[d][FileOf(b)]
        /\ Stored(c)[s] = files[d][FileOf(b)][OffsetOf(b, s)]
    BY <1>6, <2>2, StoredIs
  <2>4. Up /\ d <= opened
    BY <1>8, HeldIs, QuotaIs DEF Up, Shape
  <2>5. Stored(c)[s] # Old
    BY <2>3, <2>4 DEF NothingOld
  <2> QED BY <1>4, <2>5, MarksApart
<1>10. ASSUME NEW s \in segment, s \in DOMAIN wrote[c], checked \/ (end \notin segment /\ ~hurt[c])
       PROVE  data[s] = wrote[c][s]
  <2>1. /\ wrote[c][s] = c
        /\ checked => sums[c][s] = c
        /\ ~hurt[c] => Stored(c)[s] = c
    BY <1>10 DEF ItemsRight, Signed
  <2>2. CASE checked
    <3>1. sums[c][s] \in {data[s], Noise}
      BY <1>3, <1>4, <2>2 DEF Verified
    <3> QED BY <2>1, <2>2, <3>1, MarksApart
  <2>3. CASE ~checked
    BY <1>4, <1>7, <1>10, <2>1, <2>3
  <2> QED BY <2>2, <2>3
<1>11. answer'[1] = c /\ answer'[2] = data /\ answer'[3] = (end \notin segment)
  BY <1>3
<1> QED BY <1>4, <1>5, <1>9, <1>10, <1>11 DEF OkReadIsLastWrite

LEMMA NextOkRead ==
  ASSUME Shape, NothingOld, ItemsRight, OkReadIsLastWrite, StoreNext
  PROVE  OkReadIsLastWrite'
<1>1. CASE AddCacheDir \/ AddCacheDirFails
  <2>1. checked' = checked /\ wrote' = wrote /\ hurt' = hurt /\ answer' = answer
    BY <1>1 DEF AddCacheDir, AddCacheDirFails, config, item
  <2> QED BY <2>1 DEF OkReadIsLastWrite
<1>2. CASE answer' = <<>>
  BY <1>2 DEF OkReadIsLastWrite
<1>3. CASE Crash
  BY <1>2, <1>3 DEF Crash
<1>4. ASSUME NEW c \in Client, NewBlockItem(c) \/ NextDir(c) \/ NoDir(c) \/ TakeBlock(c) \/ NoBlock(c) \/ DisableDir(c)
      PROVE  answer' = <<>>
  BY <1>4 DEF NewBlockItem, NextDir, NoDir, TakeBlock, NoBlock, DisableDir
<1>5. ASSUME NEW c \in Client, PWrite(c) \/ PWriteFallsShort(c) \/ ReadFails(c) \/ DeleteItem(c) \/ AddDirWeight(c)
      PROVE  answer' = <<>>
  BY <1>5 DEF PWrite, PWriteFallsShort, WriteBlock, ReadFails, DeleteItem, AddDirWeight
<1>6. ASSUME NEW c \in Client, PRead(c) PROVE OkReadIsLastWrite'
  BY <1>6, ReadIsRight
<1> QED BY <1>1, <1>2, <1>3, <1>4, <1>5, <1>6 DEF StoreNext

Contents == NothingOld /\ ItemsRight /\ OkReadIsLastWrite

LEMMA InitContents == StoreInit => Contents
<1> SUFFICES ASSUME StoreInit PROVE Contents
  OBVIOUS
<1>1. NothingOld
  <2>1. Dirs = 1 .. Len(quota) /\ opened = 0
    BY QuotaIs DEF StoreInit
  <2> QED BY <2>1 DEF NothingOld
<1>2. ItemsRight
  <2>1. \A c \in Client : wrote[c] = <<>> /\ hurt[c] = FALSE
    BY DEF StoreInit, Each
  <2>2. \A c \in Client : Signed(c)
    BY <2>1, EmptyDomain DEF Signed
  <2>3. DOMAIN sums = Client /\ DOMAIN wrote = Client /\ hurt \in [Client -> BOOLEAN]
    BY DEF StoreInit, Each
  <2> QED BY <2>2, <2>3 DEF ItemsRight
<1>3. OkReadIsLastWrite
  BY DEF StoreInit, OkReadIsLastWrite
<1> QED BY <1>1, <1>2, <1>3 DEF Contents

LEMMA UnchangedContents == Contents /\ UNCHANGED storeVars => Contents'
<1> SUFFICES ASSUME Contents, UNCHANGED storeVars PROVE Contents'
  OBVIOUS
<1>1. /\ quota' = quota /\ checked' = checked /\ opened' = opened /\ files' = files
      /\ blockOf' = blockOf /\ sums' = sums /\ wrote' = wrote /\ hurt' = hurt /\ answer' = answer
  BY DEF storeVars, config, dirState, item
<1>2. NothingOld' /\ OkReadIsLastWrite'
  BY <1>1 DEF Contents, NothingOld, OkReadIsLastWrite, Dirs
<1>3. \A c \in Client : Signed(c)'
  <2> SUFFICES ASSUME NEW c \in Client PROVE Signed(c)'
    OBVIOUS
  <2>1. \A s : Stored(c)'[s] = Stored(c)[s]
    BY <1>1 DEF Stored
  <2>2. Signed(c)
    BY DEF Contents, ItemsRight
  <2> QED BY <1>1, <2>1, <2>2, SignedKept
<1> QED BY <1>1, <1>2, <1>3 DEF Contents, ItemsRight

\* OkReadIsLastWrite: a successful read has what was written last to the
\* block, however many blocks share a file, whichever writes and reads fell
\* short and whatever was in the files before a restart.
THEOREM ReadsAreRight == StoreSpec => []OkReadIsLastWrite
<1>1. Shape /\ Shape' /\ Contents /\ [StoreNext]_storeVars => Contents'
  BY NextNothingOld, NextItemsRight, NextOkRead, UnchangedContents DEF Contents
<1>2. Contents => OkReadIsLastWrite
  BY DEF Contents
<1> QED BY <1>1, <1>2, InitContents, ShapeKept, PTL DEF StoreSpec

-----------------------------------------------------------------------------
(***************************************************************************)
(* The router. A set S of s directories out of n lags behind its weights   *)
(* by at most s * (n - s) * m, m the largest weight. When a turn takes     *)
(* weight from S it takes what the enabled directories outside S gain; the *)
(* chosen one was the heaviest, so either S was ahead or those outside     *)
(* were no heavier, and S together with them lags by no more.              *)
(***************************************************************************)
LEMMA LagTypes ==
  ASSUME NEW s \in Int, NEW n \in Int, NEW m \in Int
  PROVE  LagOf(s, n, m) \in Int
BY DEF LagOf

LEMMA LagIdentity ==
  ASSUME NEW s \in Int, NEW n \in Int, NEW m \in Int, NEW a \in Int
  PROVE  (a + 1) * LagOf(s, n, m) = a * LagOf(s - 1, n, m) + LagOf(s + a, n, m) + a * (a + 1) * m
BY DEF LagOf

LEMMA NotNegative ==
  ASSUME NEW a \in Nat, NEW u \in Int, (a + 1) * u >= 0
  PROVE  u >= 0
OBVIOUS

LEMMA IntTimesMonotone ==
  ASSUME NEW n \in Nat, NEW x \in Int, NEW y \in Int, x <= y
  PROVE  n * x <= n * y
OBVIOUS

\* The arithmetic of a turn. c, w: what S has now and its weights; x, v: the
\* raised weight and the weight of the chosen one; ca, wa: what those outside
\* S have and their weights.
LEMMA TurnLags ==
  ASSUME NEW s \in Nat, NEW n \in Nat, NEW m \in Nat, NEW a \in Nat,
         NEW c \in Int, NEW w \in Int, NEW x \in Int, NEW v \in Int, NEW ca \in Int, NEW wa \in Int,
         (c + ca) >= (w + wa) - LagOf(s + a, n, m),
         (c - (x - v)) >= (w - v) - LagOf(s - 1, n, m),
         ca + wa <= a * x, wa <= a * m, wa >= 0, v <= m
  PROVE  c - wa >= w - LagOf(s, n, m)
<1> DEFINE K == LagOf(s, n, m)
           K1 == LagOf(s - 1, n, m)
           Ka == LagOf(s + a, n, m)
           u == (c - wa) - (w - K)
<1>1. K \in Int /\ K1 \in Int /\ Ka \in Int
  BY LagTypes
<1>2. (a + 1) * K = a * K1 + Ka + a * (a + 1) * m
  BY LagIdentity
<1> HIDE DEF K, K1, Ka
<1>3. c - wa >= w - Ka + wa - a * x
  <2>1. a * x \in Int
    OBVIOUS
  <2> QED BY <2>1, <1>1 DEF Ka
<1>4. c - wa >= w - 2 * v - K1 + x - wa
  BY <1>1 DEF K1
<1>5. u \in Int /\ u >= K - 2 * v - K1 + x - wa /\ u >= K - Ka + wa - a * x
  <2>1. a * x \in Int
    OBVIOUS
  <2> QED BY <2>1, <1>1, <1>3, <1>4
<1> HIDE DEF u
<1>6. a * u >= a * (K - 2 * v - K1 + x - wa)
  BY <1>1, <1>5, IntTimesMonotone
<1>7. a * (K - 2 * v - K1 + x - wa) = a * K - 2 * (a * v) - a * K1 + a * x - a * wa
  BY <1>1
<1>8. a * v <= a * m
  BY IntTimesMonotone
<1>9. a * wa - wa <= a * (a - 1) * m
  <2>1. CASE a = 0
    BY <2>1
  <2>2. CASE a # 0
    <3>1. a - 1 \in Nat /\ a * m \in Int
      BY <2>2
    <3>2. (a - 1) * wa <= (a - 1) * (a * m)
      BY <3>1, IntTimesMonotone
    <3>3. (a - 1) * wa = a * wa - wa /\ (a - 1) * (a * m) = a * (a - 1) * m
      OBVIOUS
    <3> QED BY <3>2, <3>3
  <2> QED BY <2>1, <2>2
<1>10. (a + 1) * u = a * u + u
  BY <1>5
<1>11. (a + 1) * K = a * K + K
  BY <1>1
<1>12. a * (a + 1) * m = a * (a - 1) * m + 2 * (a * m)
  OBVIOUS
<1> DEFINE au == a * u
           ax == a * x
           aK == a * K
           aK1 == a * K1
           av == a * v
           awa == a * wa
           am == a * m
           aam == a * (a - 1) * m
           aap == a * (a + 1) * m
<1>13. au \in Int /\ ax \in Int /\ aK \in Int /\ aK1 \in Int /\ av \in Int /\ awa \in Int /\ am \in Int /\ aam \in Int /\ aap \in Int
  BY <1>1, <1>5
<1>14. /\ au >= aK - 2 * av - aK1 + ax - awa
       /\ u >= K - Ka + wa - ax
       /\ av <= am /\ awa - wa <= aam
       /\ aK + K = aK1 + Ka + aap /\ aap = aam + 2 * am
  BY <1>2, <1>5, <1>6, <1>7, <1>8, <1>9, <1>11, <1>12
<1>15. au + u >= 0
  <2> HIDE DEF au, ax, aK, aK1, av, awa, am, aam, aap
  <2> QED BY <1>1, <1>5, <1>13, <1>14
<1>16. u >= 0
  BY <1>5, <1>10, <1>15, NotNegative
<1> QED BY <1>1, <1>16 DEF u, K

\* What a turn does to the directories D: those in E gain their weights w,
\* and the chosen one, h, pays for all of them.
Turn(D, E, h, cur, nxt, w) ==
  /\ IsFiniteSet(D) /\ E \in SUBSET D /\ h \in E
  /\ \A d \in D : cur[d] \in Int /\ w[d] \in Nat
  /\ nxt[h] = cur[h] + w[h] - SumFunctionOnSet(w, E)
  /\ \A d \in E \ {h} : nxt[d] = cur[d] + w[d]
  /\ \A d \in D \ E : nxt[d] = cur[d]

LEMMA TurnTypes ==
  ASSUME NEW D, NEW E, NEW h, NEW cur, NEW nxt, NEW w, Turn(D, E, h, cur, nxt, w)
  PROVE  \A d \in D : cur[d] \in Int /\ w[d] \in Int /\ nxt[d] \in Int
<1>1. SumFunctionOnSet(w, E) \in Nat
  <2>1. IsFiniteSet(E) /\ \A d \in E : w[d] \in Nat
    BY FS_Subset DEF Turn
  <2> QED BY <2>1, SumType
<1> QED BY <1>1 DEF Turn

\* A set with the chosen one in it loses what those outside it gain.
LEMMA TurnSum ==
  ASSUME NEW D, NEW E, NEW h, NEW cur, NEW nxt, NEW w, Turn(D, E, h, cur, nxt, w),
         NEW S \in SUBSET D, h \in S
  PROVE  SumFunctionOnSet(nxt, S) = SumFunctionOnSet(cur, S) - SumFunctionOnSet(w, E \ S)
<1> DEFINE g == [d \in D |-> IF d \in E THEN w[d] ELSE 0]
           raised == [d \in D |-> cur[d] + g[d]]
           B == E \cap S
           A == E \ S
           R == S \ B
<1>0. IsFiniteSet(D) /\ E \in SUBSET D /\ h \in E
  BY DEF Turn
<1>1. IsFiniteSet(S) /\ IsFiniteSet(E) /\ IsFiniteSet(B) /\ IsFiniteSet(A) /\ IsFiniteSet(R)
  <2>1. B \in SUBSET D /\ A \in SUBSET D /\ R \in SUBSET D
    BY <1>0
  <2>2. \A U \in SUBSET D : IsFiniteSet(U)
    BY <1>0, FS_Subset
  <2> HIDE DEF A, B, R
  <2> QED BY <1>0, <2>1, <2>2
<1>2. \A d \in D : /\ cur[d] \in Int /\ w[d] \in Int /\ nxt[d] \in Int
                        /\ g[d] \in Int /\ raised[d] = cur[d] + g[d] /\ raised[d] \in Int
  <2>1. \A d \in D : cur[d] \in Int /\ w[d] \in Int /\ nxt[d] \in Int
    BY TurnTypes
  <2>2. \A d \in D : g[d] \in Int
    BY <2>1
  <2> HIDE DEF g
  <2> QED BY <2>1, <2>2
<1>3. /\ \A d \in B : g[d] = w[d]
      /\ \A d \in R : g[d] = 0
      /\ raised[h] = cur[h] + w[h]
      /\ \A d \in S \ {h} : nxt[d] = raised[d]
      /\ nxt[h] = raised[h] - SumFunctionOnSet(w, E)
  <2>1. \A d \in D : g[d] = IF d \in E THEN w[d] ELSE 0
    OBVIOUS
  <2>2. \A d \in D : raised[d] = cur[d] + g[d]
    OBVIOUS
  <2>3. raised[h] = cur[h] + w[h]
    BY <1>0, <2>1, <2>2
  <2> HIDE DEF g, raised
  <2>4. \A d \in S \ {h} : nxt[d] = raised[d]
    <3> TAKE d \in S \ {h}
    <3>1. CASE d \in E
      BY <3>1, <1>0, <2>1, <2>2 DEF Turn
    <3>2. CASE d \notin E
      <4>1. nxt[d] = cur[d] /\ raised[d] = cur[d] + 0
        BY <3>2, <1>0, <2>1, <2>2 DEF Turn
      <4> QED BY <4>1, <1>2
    <3> QED BY <3>1, <3>2
  <2>5. nxt[h] = cur[h] + w[h] - SumFunctionOnSet(w, E)
    BY DEF Turn
  <2>6. \A d \in B : g[d] = w[d]
    BY <1>0, <2>1
  <2>7. \A d \in R : g[d] = 0
    BY <2>1
  <2>8. nxt[h] = raised[h] - SumFunctionOnSet(w, E)
    <3>1. \A d \in E : w[d] \in Int
      BY <1>0, <1>2
    <3>2. SumFunctionOnSet(w, E) \in Int /\ cur[h] \in Int /\ w[h] \in Int
      BY <1>0, <1>1, <1>2, <3>1, SumType
    <3> QED BY <2>3, <2>5, <3>2
  <2> HIDE DEF B, R
  <2> QED BY <2>3, <2>4, <2>6, <2>7, <2>8
<1>4. B \in SUBSET S /\ B \in SUBSET E /\ E \ B = A /\ S \ B = R
  OBVIOUS
<1>12. /\ \A d \in S : /\ cur[d] \in Int /\ w[d] \in Int /\ nxt[d] \in Int
                       /\ g[d] \in Int /\ raised[d] = cur[d] + g[d] /\ raised[d] \in Int
       /\ \A d \in E : w[d] \in Int
       /\ h \in S
  <2> HIDE DEF g, raised
  <2> QED BY <1>0, <1>2
<1> HIDE DEF g, raised, A, B, R
<1>5. SumFunctionOnSet(raised, S) = SumFunctionOnSet(cur, S) + SumFunctionOnSet(g, S)
  BY <1>1, <1>12, SumOfSums
<1>6. SumFunctionOnSet(nxt, S) = (SumFunctionOnSet(raised, S) - raised[h]) + nxt[h]
  BY <1>1, <1>3, <1>12, SumChange
<1>7. SumFunctionOnSet(g, S) = SumFunctionOnSet(g, B) + SumFunctionOnSet(g, R)
  <2>1. \A d \in S : g[d] \in Int
    BY <1>12
  <2> QED BY <2>1, <1>1, <1>4, SumOfParts
<1>8. SumFunctionOnSet(g, B) = SumFunctionOnSet(w, B) /\ SumFunctionOnSet(g, R) = 0
  BY <1>1, <1>3, SumSame, SumOfZeros
<1>9. SumFunctionOnSet(w, E) = SumFunctionOnSet(w, B) + SumFunctionOnSet(w, A)
  BY <1>1, <1>4, <1>12, SumOfParts
<1>10. /\ SumFunctionOnSet(cur, S) \in Int /\ SumFunctionOnSet(w, B) \in Int /\ SumFunctionOnSet(w, A) \in Int
       /\ raised[h] \in Int
  <2>1. B \subseteq D /\ A \subseteq D /\ h \in D
    BY <1>0 DEF A, B
  <2> QED BY <1>1, <1>2, <2>1, SumType
<1>11. SumFunctionOnSet(nxt, S) = SumFunctionOnSet(cur, S) - SumFunctionOnSet(w, A)
  BY <1>3, <1>5, <1>6, <1>7, <1>8, <1>9, <1>10
<1> QED BY <1>11 DEF A

LagsAtMost(D, m, f, w) ==
  \A S \in SUBSET D :
    S # {} => SumFunctionOnSet(f, S) >= SumFunctionOnSet(w, S) - LagOf(Cardinality(S), Cardinality(D), m)

\* A turn that chooses the heaviest lets no set lag by more.
LEMMA TurnKeepsLags ==
  ASSUME NEW D, NEW E, NEW h, NEW cur, NEW nxt, NEW w, Turn(D, E, h, cur, nxt, w),
         NEW m \in Nat, \A d \in D : w[d] <= m,
         \A e \in E : cur[e] + w[e] <= cur[h] + w[h],
         LagsAtMost(D, m, cur, w)
  PROVE  LagsAtMost(D, m, nxt, w)
<1>0. IsFiniteSet(D) /\ E \in SUBSET D /\ h \in E /\ h \in D /\ Cardinality(D) \in Nat
  BY FS_CardinalityType DEF Turn
<1>1. \A d \in D : cur[d] \in Int /\ w[d] \in Int /\ w[d] \in Nat /\ nxt[d] \in Int
  <2>1. \A d \in D : w[d] \in Nat
    BY DEF Turn
  <2> QED BY <2>1, TurnTypes
<1> SUFFICES ASSUME NEW S \in SUBSET D, S # {}
             PROVE  SumFunctionOnSet(nxt, S) >= SumFunctionOnSet(w, S) - LagOf(Cardinality(S), Cardinality(D), m)
  BY DEF LagsAtMost
<1>2. IsFiniteSet(S) /\ Cardinality(S) \in Nat
  BY <1>0, FS_Subset, FS_CardinalityType
<1>3. /\ SumFunctionOnSet(nxt, S) \in Int /\ SumFunctionOnSet(cur, S) \in Int /\ SumFunctionOnSet(w, S) \in Int
      /\ LagOf(Cardinality(S), Cardinality(D), m) \in Int
  <2>1. \A d \in S : cur[d] \in Int /\ w[d] \in Int /\ nxt[d] \in Int
    BY <1>1
  <2>2. SumFunctionOnSet(nxt, S) \in Int /\ SumFunctionOnSet(cur, S) \in Int /\ SumFunctionOnSet(w, S) \in Int
    BY <1>2, <2>1, SumType
  <2> QED BY <1>0, <1>2, <2>2, LagTypes
<1>4. CASE h \notin S
  <2>1. \A d \in S : cur[d] \in Int /\ nxt[d] \in Int /\ cur[d] <= nxt[d]
    <3> TAKE d \in S
    <3>1. nxt[d] = cur[d] + w[d] \/ nxt[d] = cur[d]
      BY <1>4 DEF Turn
    <3> QED BY <1>1, <3>1
  <2>2. SumFunctionOnSet(cur, S) <= SumFunctionOnSet(nxt, S)
    BY <1>2, <2>1, SumMonotone
  <2>3. SumFunctionOnSet(cur, S) >= SumFunctionOnSet(w, S) - LagOf(Cardinality(S), Cardinality(D), m)
    BY DEF LagsAtMost
  <2> QED BY <1>3, <2>2, <2>3
<1>5. CASE h \in S
  <2> DEFINE A == E \ S
             P == S \cup A
             Q == S \ {h}
             s == Cardinality(S)
             a == Cardinality(A)
             c == SumFunctionOnSet(cur, S)
             W == SumFunctionOnSet(w, S)
             x == cur[h] + w[h]
             v == w[h]
             ca == SumFunctionOnSet(cur, A)
             wa == SumFunctionOnSet(w, A)
  <2>1. A \in SUBSET D /\ P \in SUBSET D /\ Q \in SUBSET D /\ A \cap S = {} /\ A \subseteq E \ {h}
    BY <1>0, <1>5
  <2>2. /\ IsFiniteSet(A) /\ a \in Nat /\ IsFiniteSet(P) /\ Cardinality(P) \in Nat /\ IsFiniteSet(Q) /\ Cardinality(Q) \in Nat
        /\ s \in Nat
    <3> HIDE DEF A, P, Q
    <3>1. IsFiniteSet(A) /\ IsFiniteSet(P) /\ IsFiniteSet(Q)
      BY <1>0, <2>1, FS_Subset
    <3> QED BY <1>2, <3>1, FS_CardinalityType
  <2>3. SumFunctionOnSet(nxt, S) = c - wa
    BY <1>5, TurnSum
  <2>4. /\ c \in Int /\ W \in Int /\ x \in Int /\ v \in Int /\ ca \in Int /\ wa \in Int /\ wa \in Nat
    <3>1. \A d \in A : cur[d] \in Int /\ w[d] \in Int /\ w[d] \in Nat
      BY <1>1, <2>1
    <3> HIDE DEF A
    <3>2. ca \in Int /\ wa \in Int /\ wa \in Nat
      BY <2>2, <3>1, SumType
    <3> QED BY <1>0, <1>1, <1>3, <3>2
  <2>11. /\ s + a \in Int /\ s - 1 \in Int /\ Cardinality(D) \in Int /\ m \in Int /\ s \in Int
    <3> HIDE DEF s, a
    <3> QED BY <1>0, <2>2
  <2>12. /\ LagOf(s + a, Cardinality(D), m) \in Int /\ LagOf(s - 1, Cardinality(D), m) \in Int
         /\ LagOf(s, Cardinality(D), m) \in Int
    <3> HIDE DEF s, a
    <3> QED BY <2>11, LagTypes
  <2>5. c + ca >= W + wa - LagOf(s + a, Cardinality(D), m)
    <3>1. P # {} /\ S \in SUBSET P /\ P \ S = A /\ \A d \in P : cur[d] \in Int /\ w[d] \in Int
      BY <1>1, <2>1
    <3> HIDE DEF A, P
    <3>2. SumFunctionOnSet(cur, P) = c + ca /\ SumFunctionOnSet(w, P) = W + wa
      BY <2>2, <3>1, SumOfParts
    <3>3. Cardinality(P) = s + a
      <4>1. A \cap S = {} /\ P = S \cup A
        BY <2>1 DEF P
      <4>2. Cardinality(S \cap A) = 0
        <5>1. S \cap A = {}
          BY <4>1
        <5> QED BY <5>1, FS_EmptySet
      <4>3. Cardinality(S \cup A) = Cardinality(S) + Cardinality(A) - Cardinality(S \cap A)
        BY <1>2, <2>2, FS_Union
      <4> QED BY <4>1, <4>2, <4>3, <2>2
    <3>4. SumFunctionOnSet(cur, P) >= SumFunctionOnSet(w, P) - LagOf(Cardinality(P), Cardinality(D), m)
      BY <2>1, <3>1 DEF LagsAtMost
    <3> HIDE DEF s, a, c, W, ca, wa
    <3> QED BY <2>4, <2>12, <3>2, <3>3, <3>4
  <2>6. c - (x - v) >= W - v - LagOf(s - 1, Cardinality(D), m)
    <3>1. /\ c = cur[h] + SumFunctionOnSet(cur, Q) /\ W = w[h] + SumFunctionOnSet(w, Q)
      BY <1>1, <1>2, <1>5, SumRemove
    <3>2. Cardinality(Q) = s - 1
      BY <1>2, <1>5, FS_RemoveElement
    <3>3. SumFunctionOnSet(cur, Q) \in Int /\ SumFunctionOnSet(w, Q) \in Int
      <4>1. \A d \in Q : cur[d] \in Int /\ w[d] \in Int
        BY <1>1, <2>1
      <4> HIDE DEF Q
      <4> QED BY <2>2, <4>1, SumType
    <3>4. SumFunctionOnSet(cur, Q) >= SumFunctionOnSet(w, Q) - LagOf(s - 1, Cardinality(D), m)
      <4>1. CASE Q # {}
        BY <2>1, <3>2, <4>1 DEF LagsAtMost
      <4>2. CASE Q = {}
        <5>1. SumFunctionOnSet(cur, Q) = 0 /\ SumFunctionOnSet(w, Q) = 0
          BY <4>2, SumEmpty
        <5>2. s - 1 = 0
          BY <4>2, <3>2, FS_EmptySet
        <5>3. LagOf(0, Cardinality(D), m) = 0
          BY <1>0 DEF LagOf
        <5> QED BY <5>1, <5>2, <5>3
      <4> QED BY <4>1, <4>2
    <3>5. cur[h] \in Int /\ w[h] \in Int
      BY <1>0, <1>1
    <3>6. x - v = cur[h]
      BY <3>5
    <3> HIDE DEF Q
    <3> QED BY <2>4, <2>12, <3>1, <3>3, <3>4, <3>5, <3>6
  <2>7. ca + wa <= a * x
    <3> DEFINE r == [d \in A |-> cur[d] + w[d]]
    <3>1. \A d \in A : cur[d] \in Int /\ w[d] \in Int /\ r[d] = cur[d] + w[d] /\ r[d] \in Int /\ r[d] <= x
      BY <1>1, <2>1
    <3> HIDE DEF r, A, x
    <3>2. SumFunctionOnSet(r, A) = ca + wa
      BY <2>2, <3>1, SumOfSums
    <3>3. SumFunctionOnSet(r, A) <= a * x
      BY <2>2, <2>4, <3>1, SumAtMost
    <3> QED BY <3>2, <3>3
  <2>8. wa <= a * m
    <3>1. \A d \in A : w[d] \in Int /\ w[d] <= m
      BY <1>1, <2>1
    <3> HIDE DEF A
    <3> QED BY <2>2, <3>1, SumAtMost
  <2>9. v <= m /\ wa >= 0
    BY <1>0, <2>4
  <2> HIDE DEF A, P, Q, s, a, c, W, x, v, ca, wa
  <2>13. (c + ca) >= (W + wa) - LagOf(s + a, Cardinality(D), m) /\ (c - (x - v)) >= (W - v) - LagOf(s - 1, Cardinality(D), m)
    BY <2>4, <2>5, <2>6, <2>12
  <2>10. c - wa >= W - LagOf(s, Cardinality(D), m)
    <3>1. s \in Nat /\ Cardinality(D) \in Nat /\ m \in Nat /\ a \in Nat
      BY <1>0, <2>2
    <3> QED BY <2>4, <2>13, <2>7, <2>8, <2>9, <3>1, TurnLags
  <2> QED BY <2>3, <2>10 DEF s, W
<1> QED BY <1>4, <1>5
\* The weights and what the directories have, at any time.
LEMMA LagsAre ==
  ASSUME RouterShaped, opened \in Nat
  PROVE  /\ Cardinality(1 .. opened) = opened
         /\ NoneTooLight <=> LagsAtMost(1 .. opened, Max(Range(Weights)), Currents, Weights)
<1>1. DOMAIN router = 1 .. opened /\ Len(router) = opened
  BY WeightsAre DEF RouterShaped
<1>2. Cardinality(1 .. opened) = opened
  BY FS_Interval
<1> QED BY <1>1, <1>2 DEF NoneTooLight, LagsAtMost

LEMMA LagsAreNext ==
  ASSUME RouterShaped', opened' \in Nat
  PROVE  NoneTooLight' <=> LagsAtMost(1 .. opened', Max(Range(Weights')), Currents', Weights')
<1>1. router' \in Seq([weight : Nat, cur : Int, enable : BOOLEAN]) /\ Len(router') = opened'
  BY DEF RouterShaped
<1>2. DOMAIN router' = 1 .. opened'
  BY <1>1, LenProperties
<1>3. Cardinality(1 .. opened') = opened'
  BY FS_Interval
<1> QED BY <1>1, <1>2, <1>3 DEF NoneTooLight, LagsAtMost

LEMMA HeaviestWeight ==
  ASSUME RouterShaped, opened \in Nat \ {0}
  PROVE  Max(Range(Weights)) \in Nat /\ \A d \in 1 .. opened : Weights[d] <= Max(Range(Weights))
<1>1. /\ DOMAIN Weights = 1 .. opened /\ IsFiniteSet(1 .. opened) /\ 1 .. opened # {}
      /\ \A d \in 1 .. opened : Weights[d] \in Nat /\ Weights[d] \in Int
  <2>1. 1 \in 1 .. opened
    OBVIOUS
  <2> QED BY <2>1, WeightsAre DEF Weights
<1>2. PICK m \in 1 .. opened : \A d \in 1 .. opened : Weights[d] <= Weights[m]
  BY <1>1, LargestValue
<1>3. Range(Weights) = {Weights[d] : d \in 1 .. opened}
  BY <1>1 DEF Range
<1>4. Weights[m] \in Range(Weights) /\ \A x \in Range(Weights) : Weights[m] >= x
  BY <1>1, <1>2, <1>3
<1>5. Max(Range(Weights)) \in Range(Weights) /\ \A x \in Range(Weights) : Max(Range(Weights)) >= x
  BY <1>4 DEF Max
<1> QED BY <1>1, <1>3, <1>5

LEMMA TurnIs ==
  ASSUME Shape, NEW c \in Client, NextDir(c)
  PROVE  /\ Turn(1 .. opened, Enabled, Heaviest, Currents, Currents', Weights)
         /\ Weights' = Weights /\ opened' = opened /\ opened # 0
         /\ \A e \in Enabled : Currents[e] + Weights[e] <= Currents[Heaviest] + Weights[Heaviest]
<1>1. RouterShaped /\ opened \in Nat
  BY QuotaIs DEF Shape
<1>2. /\ router' = [d \in DOMAIN router |->
              CASE d = Heaviest -> [router[d] EXCEPT !.cur = Raised(d) - TotalWeight]
                [] d \in Enabled \ {Heaviest} -> [router[d] EXCEPT !.cur = Raised(d)]
                [] OTHER -> router[d]]
      /\ opened' = opened /\ Enabled # {}
  BY DEF NextDir, dirState
<1>3. /\ DOMAIN router = 1 .. opened
      /\ \A d \in 1 .. opened : /\ router[d] \in [weight : Nat, cur : Int, enable : BOOLEAN]
                                /\ router[d].cur \in Int /\ router[d].weight \in Nat
  BY <1>1, RouterIs
<1>4. /\ Heaviest \in Enabled /\ Heaviest \in 1 .. opened
      /\ \A e \in Enabled : Raised(e) <= Raised(Heaviest)
  BY <1>1, <1>2, HeaviestIs
<1>5. Enabled \in SUBSET (1 .. opened)
  BY <1>3 DEF Enabled
<1>6. \A d \in 1 .. opened : /\ Weights[d] = router[d].weight /\ Currents[d] = router[d].cur
                             /\ Raised(d) = Currents[d] + Weights[d]
                             /\ Currents[d] \in Int /\ Weights[d] \in Nat
  BY <1>1, WeightsAre DEF Raised
<1>7. TotalWeight \in Nat
  BY <1>1, TotalWeightIs
<1>8. \A d \in 1 .. opened : \A x : [router[d] EXCEPT !.cur = x].cur = x /\ [router[d] EXCEPT !.cur = x].weight = router[d].weight
  BY <1>3
<1>9. router'[Heaviest].cur = Raised(Heaviest) - TotalWeight /\ router'[Heaviest].weight = router[Heaviest].weight
  BY <1>2, <1>3, <1>4, <1>8
<1>10. \A d \in Enabled \ {Heaviest} : router'[d].cur = Raised(d) /\ router'[d].weight = router[d].weight
  <2> TAKE d \in Enabled \ {Heaviest}
  <2>1. router'[d] = [router[d] EXCEPT !.cur = Raised(d)]
    BY <1>2, <1>3, <1>5
  <2> QED BY <2>1, <1>5, <1>8
<1>11. \A d \in (1 .. opened) \ Enabled : router'[d] = router[d]
  BY <1>2, <1>3, <1>4
<1>12. DOMAIN router' = 1 .. opened
  BY <1>2, <1>3
<1>13. \A d \in 1 .. opened : Currents'[d] = router'[d].cur
  BY <1>12 DEF Currents
<1>14. Weights' = Weights
  <2>1. \A d \in 1 .. opened : router'[d].weight = router[d].weight
    BY <1>9, <1>10, <1>11
  <2> QED BY <1>3, <1>12, <2>1 DEF Weights
<1>15. Currents'[Heaviest] = Currents[Heaviest] + Weights[Heaviest] - SumFunctionOnSet(Weights, Enabled)
  <2>1. Currents'[Heaviest] = Raised(Heaviest) - TotalWeight
    BY <1>4, <1>9, <1>13
  <2>2. Raised(Heaviest) = Currents[Heaviest] + Weights[Heaviest] /\ Currents[Heaviest] \in Int /\ Weights[Heaviest] \in Nat
    BY <1>4, <1>6
  <2> QED BY <2>1, <2>2, <1>7 DEF TotalWeight
<1>16. \A d \in Enabled \ {Heaviest} : Currents'[d] = Currents[d] + Weights[d]
  BY <1>5, <1>6, <1>10, <1>13
<1>17. \A d \in (1 .. opened) \ Enabled : Currents'[d] = Currents[d]
  BY <1>6, <1>11, <1>13
<1>18. IsFiniteSet(1 .. opened)
  BY <1>1, WeightsAre
<1>19. opened # 0
  BY <1>4
<1>20. \A e \in Enabled : Currents[e] + Weights[e] <= Currents[Heaviest] + Weights[Heaviest]
  BY <1>4, <1>5, <1>6
<1>21. \A d \in 1 .. opened : Currents[d] \in Int /\ Weights[d] \in Nat
  BY <1>6
<1> QED BY <1>2, <1>4, <1>5, <1>14, <1>15, <1>16, <1>17, <1>18, <1>19, <1>20, <1>21 DEF Turn

LEMMA BackIs ==
  ASSUME Shape, NEW c \in Client, AddDirWeight(c)
  PROVE  /\ Weights' = Weights /\ opened' = opened
         /\ \E d \in 1 .. opened : /\ Currents'[d] = Currents[d] + BlockSlices
                                   /\ \A e \in (1 .. opened) \ {d} : Currents'[e] = Currents[e]
<1>1. RouterShaped /\ opened \in Nat
  BY QuotaIs DEF Shape
<1>2. PICK d \in Dirs : /\ step[c] = <<"weigh", d>> /\ opened' = opened
                        /\ router' = [router EXCEPT ![d].cur = router[d].cur + BlockSlices, ![d].enable = TRUE]
  BY DEF AddDirWeight, Moves, dirState
<1>3. d \in 1 .. opened
  <2>1. step[c] # <<"idle">>
    BY <1>2
  <2> QED BY <2>1 DEF Shape, StepsSound, Up, Dirs
<1>4. /\ DOMAIN router = 1 .. opened
      /\ \A e \in 1 .. opened : router[e] \in [weight : Nat, cur : Int, enable : BOOLEAN]
  BY <1>1, RouterIs
<1> DEFINE n == [router[d] EXCEPT !.cur = router[d].cur + BlockSlices, !.enable = TRUE]
<1>5. n.cur = router[d].cur + BlockSlices /\ n.weight = router[d].weight
  BY <1>3, <1>4
<1>6. \A e \in 1 .. opened : router'[e] = IF e = d THEN n ELSE router[e]
  BY <1>2, <1>4
<1> HIDE DEF n
<1>7. DOMAIN router' = 1 .. opened
  BY <1>2, <1>4
<1>8. \A e \in 1 .. opened : Currents'[e] = router'[e].cur /\ Currents[e] = router[e].cur
  BY <1>4, <1>7 DEF Currents
<1>9. Weights' = Weights
  <2>1. \A e \in 1 .. opened : router'[e].weight = router[e].weight
    BY <1>5, <1>6
  <2> QED BY <2>1, <1>4, <1>7 DEF Weights
<1>10. Currents'[d] = Currents[d] + BlockSlices
  BY <1>3, <1>5, <1>6, <1>8
<1>11. \A e \in (1 .. opened) \ {d} : Currents'[e] = Currents[e]
  BY <1>6, <1>8
<1> QED BY <1>2, <1>3, <1>9, <1>10, <1>11

LEMMA DisableIs ==
  ASSUME Shape, NEW c \in Client, DisableDir(c)
  PROVE  Weights' = Weights /\ Currents' = Currents /\ opened' = opened
<1>1. RouterShaped /\ opened \in Nat
  BY QuotaIs DEF Shape
<1>2. PICK d \in Dirs : opened' = opened /\ router' = [router EXCEPT ![d].enable = FALSE]
  BY DEF DisableDir, dirState
<1>3. /\ DOMAIN router = 1 .. opened
      /\ \A e \in 1 .. opened : router[e] \in [weight : Nat, cur : Int, enable : BOOLEAN]
  BY <1>1, RouterIs
<1>4. \A e \in 1 .. opened : [router[e] EXCEPT !.enable = FALSE].cur = router[e].cur
                             /\ [router[e] EXCEPT !.enable = FALSE].weight = router[e].weight
  BY <1>3
<1>5. DOMAIN router' = 1 .. opened
      /\ \A e \in 1 .. opened : router'[e] = router[e] \/ router'[e] = [router[e] EXCEPT !.enable = FALSE]
  BY <1>2, <1>3
<1>6. \A e \in 1 .. opened : router'[e].cur = router[e].cur /\ router'[e].weight = router[e].weight
  BY <1>4, <1>5
<1> QED BY <1>2, <1>3, <1>5, <1>6 DEF Weights, Currents

\* A directory comes up with all its weight.
LEMMA OpeningIs ==
  ASSUME Shape, FreshWeights, AddCacheDir
  PROVE  opened' = opened + 1 /\ \A d \in 1 .. opened' : Currents'[d] = Weights'[d]
<1>1. RouterShaped /\ opened \in Nat /\ ~Up /\ Dirs = 1 .. Len(quota) /\ Len(quota) \in Nat /\ opened < Len(quota)
  BY QuotaIs DEF Shape, AddCacheDir, Up
<1>2. opened' = opened + 1 /\ router' = Append(router, NewWeight(opened + 1))
  BY DEF AddCacheDir
<1> DEFINE Entry == [weight : Nat, cur : Int, enable : BOOLEAN]
<1>3. router \in Seq(Entry) /\ Len(router) = opened /\ DOMAIN router = 1 .. opened
  BY <1>1, WeightsAre DEF RouterShaped
<1>4. quota[opened + 1] \in Nat
  BY <1>1, QuotaIs DEF Shape
<1>5. NewWeight(opened + 1) \in Entry /\ NewWeight(opened + 1).cur = NewWeight(opened + 1).weight
  BY <1>4 DEF NewWeight
<1>6. /\ router' \in Seq(Entry) /\ Len(router') = opened + 1
      /\ router'[opened + 1] = NewWeight(opened + 1)
      /\ \A d \in 1 .. opened : router'[d] = router[d]
  BY <1>2, <1>3, <1>5, AppendProperties
<1>7. DOMAIN router' = 1 .. opened + 1
  BY <1>6, LenProperties
<1>8. \A d \in 1 .. opened + 1 : router'[d].cur = router'[d].weight
  <2>1. \A d \in 1 .. opened : router'[d].cur = router'[d].weight
    BY <1>1, <1>3, <1>6 DEF FreshWeights
  <2>2. \A d \in 1 .. opened + 1 : d \in 1 .. opened \/ d = opened + 1
    BY <1>1
  <2> QED BY <1>5, <1>6, <2>1, <2>2
<1> QED BY <1>2, <1>7, <1>8 DEF Currents, Weights

\* A set of directories whose weight is untouched does not lag.
LEMMA FreshDoNotLag ==
  ASSUME NEW D, IsFiniteSet(D), NEW m \in Int, m >= 0, NEW f, NEW w, \A d \in D : w[d] \in Int /\ f[d] = w[d]
  PROVE  LagsAtMost(D, m, f, w)
<1> SUFFICES ASSUME NEW S \in SUBSET D, S # {}
             PROVE  SumFunctionOnSet(f, S) >= SumFunctionOnSet(w, S) - LagOf(Cardinality(S), Cardinality(D), m)
  BY DEF LagsAtMost
<1>1. IsFiniteSet(S) /\ Cardinality(S) \in Nat /\ Cardinality(D) \in Nat /\ Cardinality(S) <= Cardinality(D)
  BY FS_Subset, FS_CardinalityType
<1>2. SumFunctionOnSet(f, S) = SumFunctionOnSet(w, S) /\ SumFunctionOnSet(w, S) \in Int
  BY <1>1, SumSame, SumType
<1>3. LagOf(Cardinality(S), Cardinality(D), m) \in Nat
  <2>1. ASSUME NEW s \in Nat, NEW n \in Nat, s <= n PROVE LagOf(s, n, m) \in Nat
    <3>1. \A x, y \in Nat : x * y \in Nat
      OBVIOUS
    <3>2. n - s \in Nat
      BY <2>1
    <3>3. s * (n - s) \in Nat
      BY <3>1, <3>2
    <3> QED BY <3>1, <3>3 DEF LagOf
  <2> QED BY <1>1, <2>1
<1> QED BY <1>2, <1>3

\* With more in it a set of directories does not lag by more.
LEMMA RaisedKeepsLags ==
  ASSUME NEW D, IsFiniteSet(D), NEW m \in Int, NEW f, NEW g, NEW w,
         \A d \in D : f[d] \in Int /\ g[d] \in Int /\ w[d] \in Int /\ f[d] <= g[d],
         LagsAtMost(D, m, f, w)
  PROVE  LagsAtMost(D, m, g, w)
<1> SUFFICES ASSUME NEW S \in SUBSET D, S # {}
             PROVE  SumFunctionOnSet(g, S) >= SumFunctionOnSet(w, S) - LagOf(Cardinality(S), Cardinality(D), m)
  BY DEF LagsAtMost
<1>1. IsFiniteSet(S) /\ Cardinality(S) \in Int /\ Cardinality(D) \in Int
  BY FS_Subset, FS_CardinalityType
<1>2. LagOf(Cardinality(S), Cardinality(D), m) \in Int
  BY <1>1, LagTypes
<1>3. \A d \in S : f[d] \in Int /\ g[d] \in Int /\ w[d] \in Int /\ f[d] <= g[d]
  OBVIOUS
<1>4. /\ SumFunctionOnSet(f, S) \in Int /\ SumFunctionOnSet(g, S) \in Int /\ SumFunctionOnSet(w, S) \in Int
      /\ SumFunctionOnSet(f, S) <= SumFunctionOnSet(g, S)
  BY <1>1, <1>3, SumType, SumMonotone
<1>5. SumFunctionOnSet(f, S) >= SumFunctionOnSet(w, S) - LagOf(Cardinality(S), Cardinality(D), m)
  BY DEF LagsAtMost
<1> QED BY <1>2, <1>4, <1>5

\* What the other steps of the clients leave as it is.
LEMMA RouterUntouched ==
  ASSUME NEW c \in Client, NewBlockItem(c) \/ NoDir(c) \/ TakeBlock(c) \/ NoBlock(c) \/ PWrite(c) \/ PWriteFallsShort(c)
             \/ PRead(c) \/ ReadFails(c) \/ DeleteItem(c)
  PROVE  opened' = opened /\ router' = router /\ Weights' = Weights /\ Currents' = Currents
BY RouterKept DEF Weights, Currents

LEMMA NextNoneTooLight == Shape /\ Shape' /\ FreshWeights /\ NoneTooLight /\ StoreNext => NoneTooLight'
<1> SUFFICES ASSUME Shape, Shape', FreshWeights, NoneTooLight, StoreNext PROVE NoneTooLight'
  OBVIOUS
<1>0. /\ RouterShaped /\ RouterShaped' /\ opened \in Nat /\ opened' \in Nat
      /\ IsFiniteSet(1 .. opened) /\ IsFiniteSet(1 .. opened')
      /\ \A d \in 1 .. opened : Weights[d] \in Nat /\ Currents[d] \in Int
  <2>1. opened \in Nat /\ opened' \in Nat
    BY DEF Shape
  <2>2. RouterShaped /\ RouterShaped'
    BY DEF Shape
  <2>3. IsFiniteSet(1 .. opened) /\ IsFiniteSet(1 .. opened')
    BY <2>1, FS_Interval
  <2>4. \A d \in 1 .. opened : Weights[d] \in Nat /\ Currents[d] \in Int
    BY <2>1, <2>2, WeightsAre
  <2> QED BY <2>1, <2>2, <2>3, <2>4
<1>1. LagsAtMost(1 .. opened, Max(Range(Weights)), Currents, Weights)
  BY <1>0, LagsAre
<1>2. ASSUME opened' = opened, Weights' = Weights,
             LagsAtMost(1 .. opened, Max(Range(Weights)), Currents', Weights)
      PROVE  NoneTooLight'
  BY <1>0, <1>2, LagsAreNext
<1>3. ASSUME NEW c \in Client, NextDir(c) PROVE NoneTooLight'
  <2>1. /\ Turn(1 .. opened, Enabled, Heaviest, Currents, Currents', Weights)
        /\ Weights' = Weights /\ opened' = opened /\ opened # 0
        /\ \A e \in Enabled : Currents[e] + Weights[e] <= Currents[Heaviest] + Weights[Heaviest]
    BY <1>3, TurnIs
  <2>2. Max(Range(Weights)) \in Nat /\ \A d \in 1 .. opened : Weights[d] <= Max(Range(Weights))
    BY <1>0, <2>1, HeaviestWeight
  <2>3. LagsAtMost(1 .. opened, Max(Range(Weights)), Currents', Weights)
    BY <1>1, <2>1, <2>2, TurnKeepsLags
  <2> QED BY <1>2, <2>1, <2>3
<1>4. ASSUME NEW c \in Client, DisableDir(c) PROVE NoneTooLight'
  BY <1>1, <1>2, <1>4, DisableIs
<1>5. ASSUME NEW c \in Client, AddDirWeight(c) PROVE NoneTooLight'
  <2>1. PICK d \in 1 .. opened : /\ Currents'[d] = Currents[d] + BlockSlices
                                 /\ \A e \in (1 .. opened) \ {d} : Currents'[e] = Currents[e]
    BY <1>5, BackIs
  <2>2. Weights' = Weights /\ opened' = opened
    BY <1>5, BackIs
  <2>3. Max(Range(Weights)) \in Int
    <3>1. opened \in Nat \ {0}
      BY <1>0
    <3> QED BY <1>0, <3>1, HeaviestWeight
  <2>4. \A e \in 1 .. opened : /\ Currents[e] \in Int /\ Currents'[e] \in Int /\ Weights[e] \in Int
                               /\ Currents[e] <= Currents'[e]
    BY <1>0, <2>1, FileSizeAssumption
  <2>5. LagsAtMost(1 .. opened, Max(Range(Weights)), Currents', Weights)
    BY <1>0, <1>1, <2>3, <2>4, RaisedKeepsLags
  <2> QED BY <1>2, <2>2, <2>5
<1>6. CASE AddCacheDir
  <2>1. opened' = opened + 1 /\ \A d \in 1 .. opened' : Currents'[d] = Weights'[d]
    BY <1>6, OpeningIs
  <2>2. /\ DOMAIN Weights' = 1 .. opened'
        /\ \A d \in 1 .. opened' : Weights'[d] \in Nat
    <3>1. router' \in Seq([weight : Nat, cur : Int, enable : BOOLEAN]) /\ Len(router') = opened'
      BY <1>0 DEF RouterShaped
    <3>2. DOMAIN router' = 1 .. opened' /\ router' \in [1 .. opened' -> [weight : Nat, cur : Int, enable : BOOLEAN]]
      BY <3>1, LenProperties
    <3> QED BY <3>2 DEF Weights
  <2>3. Max(Range(Weights')) \in Nat
    <3>1. opened' \in 1 .. opened' /\ \A d \in 1 .. opened' : Weights'[d] \in Int
      BY <1>0, <2>1, <2>2
    <3>2. PICK k \in 1 .. opened' : \A d \in 1 .. opened' : Weights'[d] <= Weights'[k]
      BY <1>0, <3>1, LargestValue
    <3>3. Range(Weights') = {Weights'[d] : d \in 1 .. opened'}
      BY <2>2 DEF Range
    <3>4. Weights'[k] \in Range(Weights') /\ \A x \in Range(Weights') : Weights'[k] >= x
      BY <3>1, <3>2, <3>3
    <3>5. Max(Range(Weights')) \in Range(Weights')
      BY <3>4 DEF Max
    <3> QED BY <2>2, <3>3, <3>5
  <2>4. LagsAtMost(1 .. opened', Max(Range(Weights')), Currents', Weights')
    <3>1. \A d \in 1 .. opened' : Weights'[d] \in Int /\ Currents'[d] = Weights'[d]
      BY <2>1, <2>2
    <3> QED BY <1>0, <2>3, <3>1, FreshDoNotLag
  <2> QED BY <1>0, <2>4, LagsAreNext
<1>7. CASE AddCacheDirFails \/ Crash
  <2>1. router' = <<>>
    BY <1>7 DEF AddCacheDirFails, Crash
  <2>2. DOMAIN router' = {}
    BY <2>1, EmptyDomain
  <2> QED BY <2>2 DEF NoneTooLight
<1>8. ASSUME NEW c \in Client, NewBlockItem(c) \/ NoDir(c) \/ TakeBlock(c) \/ NoBlock(c) \/ PWrite(c) \/ PWriteFallsShort(c)
             \/ PRead(c) \/ ReadFails(c) \/ DeleteItem(c)
      PROVE  NoneTooLight'
  BY <1>1, <1>2, <1>8, RouterUntouched
<1> QED BY <1>3, <1>4, <1>5, <1>6, <1>7, <1>8 DEF StoreNext

\* A directory has all its weight as long as the manager has not come up.
LEMMA NextFreshWeights == Shape /\ Shape' /\ FreshWeights /\ StoreNext => FreshWeights'
<1> SUFFICES ASSUME Shape, Shape', FreshWeights, StoreNext PROVE FreshWeights'
  OBVIOUS
<1>0. /\ opened \in 0 .. Len(quota) /\ Len(quota) \in Nat /\ quota' = quota /\ Up' <=> opened' = Len(quota)
      /\ DOMAIN router = 1 .. opened /\ opened' \in Nat
  <2>1. quota' = quota
    BY NextFixed
  <2>2. opened \in 0 .. Len(quota) /\ Len(quota) \in Nat /\ RouterShaped /\ opened' \in Nat
    BY QuotaIs DEF Shape
  <2> QED BY <2>1, <2>2, WeightsAre DEF Up
<1>1. CASE AddCacheDir
  <2>1. opened' = opened + 1 /\ \A d \in 1 .. opened' : Currents'[d] = Weights'[d]
    BY <1>1, OpeningIs
  <2>2. DOMAIN router' = 1 .. opened'
    <3>1. router' \in Seq([weight : Nat, cur : Int, enable : BOOLEAN]) /\ Len(router') = opened'
      BY DEF Shape, RouterShaped
    <3> QED BY <3>1, LenProperties
  <2>3. \A d \in 1 .. opened' : router'[d].cur = router'[d].weight
    BY <2>1, <2>2 DEF Currents, Weights
  <2> QED BY <2>2, <2>3 DEF FreshWeights
<1>2. CASE AddCacheDirFails \/ Crash
  <2>1. router' = <<>>
    BY <1>2 DEF AddCacheDirFails, Crash
  <2>2. DOMAIN router' = {}
    BY <2>1, EmptyDomain
  <2> QED BY <2>2 DEF FreshWeights
<1>3. ASSUME NEW c \in Client, NewBlockItem(c) \/ NoDir(c) \/ TakeBlock(c) \/ NoBlock(c) \/ PWrite(c) \/ PWriteFallsShort(c)
             \/ PRead(c) \/ ReadFails(c) \/ DeleteItem(c)
      PROVE  FreshWeights'
  <2>1. opened' = opened /\ router' = router
    BY <1>3, RouterUntouched
  <2> QED BY <1>0, <2>1 DEF FreshWeights, Up
<1>4. ASSUME NEW c \in Client, NextDir(c) \/ DisableDir(c) \/ AddDirWeight(c) PROVE FreshWeights'
  <2>1. step[c] # <<"idle">> /\ opened' = opened
    <3>1. CASE NextDir(c)
      BY <3>1 DEF NextDir, Moves, dirState
    <3>2. CASE DisableDir(c)
      BY <3>2 DEF DisableDir, Moves, dirState
    <3>3. CASE AddDirWeight(c)
      BY <3>3 DEF AddDirWeight, Moves, dirState
    <3> QED BY <1>4, <3>1, <3>2, <3>3
  <2>2. Up
    BY <2>1 DEF Shape, StepsSound
  <2> QED BY <1>0, <2>1, <2>2 DEF FreshWeights, Up
<1> QED BY <1>1, <1>2, <1>3, <1>4 DEF StoreNext

\* A sum grows by what one of its values grows.
LEMMA SumRaised ==
  ASSUME NEW f, NEW g, NEW D, IsFiniteSet(D), NEW d \in D, NEW k \in Int,
         \A e \in D : f[e] \in Int, g[d] = f[d] + k, \A e \in D \ {d} : g[e] = f[e]
  PROVE  SumFunctionOnSet(g, D) = SumFunctionOnSet(f, D) + k
<1>1. f[d] \in Int /\ g[d] \in Int /\ SumFunctionOnSet(f, D) \in Int
  BY SumType
<1>2. SumFunctionOnSet(g, D) = (SumFunctionOnSet(f, D) - f[d]) + g[d]
  BY <1>1, SumChange
<1> QED BY <1>1, <1>2

\* The clients that are about to give weight back.
LEMMA WeighingFinite == IsFiniteSet(Weighing) /\ Cardinality(Weighing) \in Nat
<1>1. IsFiniteSet(Weighing)
  BY ClientAssumption, FS_Subset DEF Weighing
<1> QED BY <1>1, FS_CardinalityType

LEMMA WeighingKept ==
  ASSUME Shape, NEW c \in Client,
         NewBlockItem(c) \/ NextDir(c) \/ NoDir(c) \/ TakeBlock(c) \/ NoBlock(c) \/ DisableDir(c)
           \/ PWrite(c) \/ PWriteFallsShort(c) \/ PRead(c) \/ ReadFails(c)
  PROVE  Weighing' = Weighing /\ frees' = frees
<1>0. DOMAIN step = Client
  BY DEF Shape, StepsSound
<1>1. ASSUME NEW from, NEW to, Moves(c, from, to), from[1] # "weigh", to[1] # "weigh"
      PROVE  Weighing' = Weighing
  <2>1. step[c][1] # "weigh" /\ step'[c][1] # "weigh" /\ \A e \in Client \ {c} : step'[e] = step[e]
    BY <1>0, <1>1 DEF Moves
  <2> QED BY <2>1 DEF Weighing
<1>2. /\ <<"idle">>[1] # "weigh" /\ <<"route">>[1] # "weigh"
      /\ \A d : <<"take", d>>[1] # "weigh" /\ <<"disable", d>>[1] # "weigh"
  OBVIOUS
<1>3. CASE NewBlockItem(c)
  BY <1>1, <1>2, <1>3 DEF NewBlockItem
<1>4. CASE NextDir(c)
  BY <1>1, <1>2, <1>4 DEF NextDir
<1>5. CASE NoDir(c)
  BY <1>1, <1>2, <1>5 DEF NoDir
<1>6. CASE TakeBlock(c)
  BY <1>1, <1>2, <1>6 DEF TakeBlock
<1>7. CASE NoBlock(c)
  BY <1>1, <1>2, <1>7 DEF NoBlock
<1>8. CASE DisableDir(c)
  BY <1>1, <1>2, <1>8 DEF DisableDir
<1>9. CASE PWrite(c) \/ PWriteFallsShort(c)
  <2>1. step' = step /\ frees' = frees
    BY <1>9 DEF PWrite, PWriteFallsShort, WriteBlock
  <2> QED BY <2>1 DEF Weighing
<1>10. CASE PRead(c) \/ ReadFails(c)
  BY <1>10 DEF PRead, ReadFails, Weighing
<1> QED BY <1>3, <1>4, <1>5, <1>6, <1>7, <1>8, <1>9, <1>10

\* A free hands in as much as is given back later.
LEMMA NextWeightAccounted == Shape /\ Shape' /\ FreshWeights /\ WeightAccounted /\ StoreNext => WeightAccounted'
<1> SUFFICES ASSUME Shape, Shape', FreshWeights, WeightAccounted, StoreNext PROVE WeightAccounted'
  OBVIOUS
<1>0. opened \in Nat /\ opened' \in Nat /\ frees \in Nat /\ frees' \in Nat /\ BlockSlices \in Nat
  BY FileSizeAssumption DEF Shape
<1>1. /\ DOMAIN router = 1 .. opened /\ IsFiniteSet(1 .. opened) /\ IsFiniteSet(1 .. opened')
      /\ \A d \in 1 .. opened : Weights[d] \in Int /\ Currents[d] \in Int
  <2>1. RouterShaped
    BY DEF Shape
  <2>2. IsFiniteSet(1 .. opened')
    BY <1>0, FS_Interval
  <2>3. \A d \in 1 .. opened : Weights[d] \in Int /\ Currents[d] \in Int
    BY <1>0, <2>1, WeightsAre
  <2> QED BY <1>0, <2>1, <2>2, <2>3, WeightsAre
<1>2. router' \in [1 .. opened' -> [weight : Nat, cur : Int, enable : BOOLEAN]]
  <2>1. router' \in Seq([weight : Nat, cur : Int, enable : BOOLEAN]) /\ Len(router') = opened'
    BY DEF Shape, RouterShaped
  <2> QED BY <2>1, LenProperties
<1>3. /\ DOMAIN router' = 1 .. opened'
      /\ \A d \in 1 .. opened' : Weights'[d] \in Int /\ Currents'[d] \in Int
  BY <1>2 DEF Weights, Currents
<1> DEFINE Now == SumFunctionOnSet(Currents, 1 .. opened)
           Weight == SumFunctionOnSet(Weights, 1 .. opened)
           Then == SumFunctionOnSet(Currents', 1 .. opened')
           Weight2 == SumFunctionOnSet(Weights', 1 .. opened')
           n == Cardinality(Weighing)
           n2 == Cardinality(Weighing')
<1>4. Now \in Int /\ Weight \in Int /\ Then \in Int /\ Weight2 \in Int
  BY <1>1, <1>3, SumType
<1>5. n \in Nat /\ n2 \in Nat
  <2>1. IsFiniteSet(Weighing')
    BY ClientAssumption, FS_Subset DEF Weighing
  <2> QED BY <2>1, WeighingFinite, FS_CardinalityType
<1>6. Now + BlockSlices * n <= Weight + BlockSlices * frees
  BY <1>1 DEF WeightAccounted
<1>7. ASSUME Then + BlockSlices * n2 <= Weight2 + BlockSlices * frees' PROVE WeightAccounted'
  BY <1>3, <1>7 DEF WeightAccounted
<1>8. ASSUME NEW c \in Client, NewBlockItem(c) \/ NoDir(c) \/ TakeBlock(c) \/ NoBlock(c) \/ PWrite(c) \/ PWriteFallsShort(c)
             \/ PRead(c) \/ ReadFails(c) \/ DisableDir(c)
      PROVE  WeightAccounted'
  <2>1. Weighing' = Weighing /\ frees' = frees
    BY <1>8, WeighingKept
  <2>2. Weights' = Weights /\ Currents' = Currents /\ opened' = opened
    BY <1>8, RouterUntouched, DisableIs
  <2> QED BY <1>6, <1>7, <2>1, <2>2
<1>9. ASSUME NEW c \in Client, NextDir(c) PROVE WeightAccounted'
  <2>1. Weighing' = Weighing /\ frees' = frees
    BY <1>9, WeighingKept
  <2>2. /\ Turn(1 .. opened, Enabled, Heaviest, Currents, Currents', Weights)
        /\ Weights' = Weights /\ opened' = opened
    BY <1>9, TurnIs
  <2>3. Then = Now
    <3> DEFINE D == 1 .. opened
    <3>1. D \in SUBSET D /\ Enabled \in SUBSET D /\ Heaviest \in D
      BY <2>2 DEF Turn
    <3>2. Enabled \ D = {} /\ Turn(D, Enabled, Heaviest, Currents, Currents', Weights)
      BY <2>2, <3>1
    <3> HIDE DEF D
    <3>3. SumFunctionOnSet(Currents', D) = SumFunctionOnSet(Currents, D) - SumFunctionOnSet(Weights, Enabled \ D)
      BY <3>1, <3>2, TurnSum
    <3>4. SumFunctionOnSet(Weights, Enabled \ D) = 0
      BY <3>2, SumEmpty
    <3>5. SumFunctionOnSet(Currents, D) \in Int
      BY <1>4 DEF D
    <3> QED BY <2>2, <3>3, <3>4, <3>5 DEF D
  <2> QED BY <1>6, <1>7, <2>1, <2>2, <2>3
<1>10. ASSUME NEW c \in Client, AddDirWeight(c) PROVE WeightAccounted'
  <2>1. Weights' = Weights /\ opened' = opened
    BY <1>10, BackIs
  <2>3. Then = Now + BlockSlices
    <3> DEFINE D == 1 .. opened
    <3>1. /\ IsFiniteSet(D) /\ \A e \in D : Currents[e] \in Int
          /\ \E d \in D : /\ Currents'[d] = Currents[d] + BlockSlices
                         /\ \A e \in D \ {d} : Currents'[e] = Currents[e]
          /\ BlockSlices \in Int
      BY <1>0, <1>1, <1>10, BackIs
    <3> HIDE DEF D
    <3>2. PICK d \in D : /\ Currents'[d] = Currents[d] + BlockSlices
                        /\ \A e \in D \ {d} : Currents'[e] = Currents[e]
      BY <3>1
    <3>3. SumFunctionOnSet(Currents', D) = SumFunctionOnSet(Currents, D) + BlockSlices
      BY <3>1, <3>2, SumRaised
    <3> QED BY <2>1, <3>3 DEF D
  <2>4. frees' = frees /\ n2 = n - 1
    <3>1. PICK d2 \in Dirs : Moves(c, <<"weigh", d2>>, <<"idle">>) /\ frees' = frees
      BY <1>10 DEF AddDirWeight
    <3>2. DOMAIN step = Client
      BY DEF Shape, StepsSound
    <3>3. step[c][1] = "weigh" /\ step'[c][1] # "weigh" /\ \A e \in Client \ {c} : step'[e] = step[e]
      BY <3>1, <3>2 DEF Moves
    <3>4. Weighing' = Weighing \ {c} /\ c \in Weighing
      BY <3>3 DEF Weighing
    <3> QED BY <3>1, <3>4, WeighingFinite, FS_RemoveElement
  <2>5. BlockSlices * n2 = BlockSlices * n - BlockSlices
    BY <1>0, <1>5, <2>4
  <2>6. BlockSlices * n \in Int /\ BlockSlices * n2 \in Int /\ BlockSlices * frees \in Int
    BY <1>0, <1>5
  <2>7. Then + BlockSlices * n2 <= Weight2 + BlockSlices * frees'
    <3> HIDE DEF Now, Then, Weight, n, n2
    <3>1. Weight2 = Weight
      BY <2>1 DEF Weight
    <3> HIDE DEF Weight2
    <3> DEFINE a == BlockSlices * n
               b == BlockSlices * n2
               e == BlockSlices * frees
    <3>2. a \in Int /\ b \in Int /\ e \in Int /\ b = a - BlockSlices /\ Now + a <= Weight + e
      BY <1>6, <2>5, <2>6
    <3>3. b = BlockSlices * n2 /\ e = BlockSlices * frees'
      BY <2>4
    <3> HIDE DEF a, b, e
    <3>4. Then + b <= Weight + e
      BY <1>0, <1>4, <2>3, <3>2
    <3> QED BY <3>1, <3>3, <3>4
  <2> QED BY <1>7, <2>7
<1>11. ASSUME NEW c \in Client, DeleteItem(c) PROVE WeightAccounted'
  <2>1. Weights' = Weights /\ Currents' = Currents /\ opened' = opened
    BY <1>11, RouterUntouched
  <2>2. frees' = frees + 1 /\ n2 = n + 1
    <3>1. step[c] = <<"idle">> /\ frees' = frees + 1 /\ step' = [step EXCEPT ![c] = <<"weigh", blockOf[c][1]>>]
      BY <1>11 DEF DeleteItem, Idle
    <3>2. DOMAIN step = Client
      BY DEF Shape, StepsSound
    <3>3. step[c][1] # "weigh" /\ step'[c][1] = "weigh" /\ \A e \in Client \ {c} : step'[e] = step[e]
      BY <3>1, <3>2
    <3>4. Weighing' = Weighing \cup {c} /\ c \notin Weighing
      BY <3>3 DEF Weighing
    <3> QED BY <3>1, <3>4, WeighingFinite, FS_AddElement
  <2>3. BlockSlices * n2 = BlockSlices * n + BlockSlices /\ BlockSlices * frees' = BlockSlices * frees + BlockSlices
    BY <1>0, <1>5, <2>2
  <2>4. BlockSlices * n \in Int /\ BlockSlices * frees \in Int
    BY <1>0, <1>5
  <2>5. Then = Now /\ Weight2 = Weight
    BY <2>1
  <2>6. Then + BlockSlices * n2 <= Weight2 + BlockSlices * frees'
    <3> HIDE DEF Now, Then, Weight, Weight2, n, n2
    <3> DEFINE a == BlockSlices * n
               b == BlockSlices * n2
               e == BlockSlices * frees
               g == BlockSlices * frees'
    <3>1. a \in Int /\ e \in Int /\ b = a + BlockSlices /\ g = e + BlockSlices /\ Now + a <= Weight + e
      BY <1>6, <2>3, <2>4
    <3>2. b = BlockSlices * n2 /\ g = BlockSlices * frees'
      OBVIOUS
    <3> HIDE DEF a, b, e, g
    <3>3. Then + b <= Weight2 + g
      BY <1>0, <1>4, <2>5, <3>1
    <3> QED BY <3>2, <3>3
  <2> QED BY <1>7, <2>6
<1>12. ASSUME Weighing' = {}, Then = Weight2 PROVE WeightAccounted'
  <2>1. n2 = 0
    BY <1>12, FS_EmptySet
  <2>2. BlockSlices * n2 = 0 /\ BlockSlices * frees' \in Nat
    <3>1. \A x, y \in Nat : x * y \in Nat
      OBVIOUS
    <3>2. BlockSlices * 0 = 0
      BY <1>0
    <3>3. BlockSlices * frees' \in Nat
      BY <1>0, <3>1
    <3> QED BY <2>1, <3>2, <3>3
  <2> HIDE DEF Then, Weight2, n2
  <2>3. Then + 0 <= Weight2 + BlockSlices * frees'
    BY <1>4, <1>12, <2>2
  <2> QED BY <1>7, <2>2, <2>3
<1>13. CASE AddCacheDir
  <2>1. opened' = opened + 1 /\ \A d \in 1 .. opened' : Currents'[d] = Weights'[d]
    BY <1>13, OpeningIs
  <2>2. Then = Weight2
    BY <1>1, <2>1, SumSame
  <2>3. Weighing' = {}
    <3>1. ~Up /\ step' = step
      BY <1>13 DEF AddCacheDir, Up, Shape
    <3>2. \A e \in Client : step'[e] = <<"idle">>
      BY <3>1 DEF Shape, StepsSound
    <3> QED BY <3>2 DEF Weighing
  <2> QED BY <1>12, <2>2, <2>3
<1>14. CASE AddCacheDirFails \/ Crash
  <2>1. opened' = 0
    BY <1>14 DEF AddCacheDirFails, Crash
  <2>2. Then = Weight2
    <3>1. \A d \in 1 .. opened' : Currents'[d] = Weights'[d]
      BY <2>1
    <3> QED BY <1>1, <3>1, SumSame
  <2>3. Weighing' = {}
    <3>1. CASE AddCacheDirFails
      <4>1. ~Up /\ step' = step
        BY <3>1 DEF AddCacheDirFails, Up, Shape
      <4>2. \A e \in Client : step'[e] = <<"idle">>
        BY <4>1 DEF Shape, StepsSound
      <4> QED BY <4>2 DEF Weighing
    <3>2. CASE Crash
      BY <3>2 DEF Crash, Each, Weighing
    <3> QED BY <1>14, <3>1, <3>2
  <2> QED BY <1>12, <2>2, <2>3
<1> QED BY <1>8, <1>9, <1>10, <1>11, <1>13, <1>14 DEF StoreNext

\* What the lags and the account say of all the directories and of each.
LEMMA WeightsStayClose ==
  ASSUME NEW D, IsFiniteSet(D), NEW m \in Nat, NEW f, NEW w, \A d \in D : f[d] \in Int /\ w[d] \in Int,
         LagsAtMost(D, m, f, w),
         NEW extra \in Nat, SumFunctionOnSet(f, D) <= SumFunctionOnSet(w, D) + extra
  PROVE  \A d \in D : /\ f[d] >= w[d] - (Cardinality(D) - 1) * m
                      /\ f[d] <= w[d] + (Cardinality(D) - 1) * m + extra
<1> TAKE d \in D
<1> DEFINE R == D \ {d}
           n == Cardinality(D)
           lag == (n - 1) * m
<1>1. n \in Nat /\ Cardinality(R) = n - 1 /\ IsFiniteSet(R) /\ IsFiniteSet({d}) /\ Cardinality({d}) = 1
  BY FS_CardinalityType, FS_RemoveElement, FS_Singleton
<1>2. f[d] \in Int /\ w[d] \in Int /\ \A e \in R : f[e] \in Int /\ w[e] \in Int
  OBVIOUS
<1>3. SumFunctionOnSet(f, D) = f[d] + SumFunctionOnSet(f, R) /\ SumFunctionOnSet(w, D) = w[d] + SumFunctionOnSet(w, R)
  BY SumRemove
<1>4. R \in SUBSET D /\ {d} \in SUBSET D /\ {d} # {}
  OBVIOUS
<1> HIDE DEF R, n
<1>5. SumFunctionOnSet(f, R) \in Int /\ SumFunctionOnSet(w, R) \in Int
  BY <1>1, <1>2, SumType
<1>6. LagOf(1, n, m) = lag /\ LagOf(n - 1, n, m) = lag /\ lag \in Int
  BY <1>1 DEF LagOf
<1> HIDE DEF lag
<1>7. f[d] >= w[d] - lag
  <2>1. SumFunctionOnSet(f, {d}) = f[d] /\ SumFunctionOnSet(w, {d}) = w[d]
    BY <1>2, SumSingleton
  <2>2. SumFunctionOnSet(f, {d}) >= SumFunctionOnSet(w, {d}) - LagOf(1, n, m)
    BY <1>1, <1>4 DEF LagsAtMost, n
  <2> QED BY <1>6, <2>1, <2>2
<1>8. SumFunctionOnSet(f, R) >= SumFunctionOnSet(w, R) - lag
  <2>1. CASE R # {}
    BY <1>1, <1>4, <1>6, <2>1 DEF LagsAtMost, n
  <2>2. CASE R = {}
    <3>1. SumFunctionOnSet(f, R) = 0 /\ SumFunctionOnSet(w, R) = 0
      BY <2>2, SumEmpty
    <3>2. n - 1 = 0
      BY <1>1, <2>2, FS_EmptySet
    <3>3. lag = 0
      BY <3>2 DEF lag
    <3> QED BY <3>1, <3>3
  <2> QED BY <2>1, <2>2
<1>9. f[d] + SumFunctionOnSet(f, R) <= w[d] + SumFunctionOnSet(w, R) + extra
  BY <1>3
<1>10. f[d] <= w[d] + lag + extra
  BY <1>2, <1>5, <1>6, <1>8, <1>9
<1> QED BY <1>7, <1>10 DEF n, lag

LEMMA RoutedIsSmooth == Shape /\ Routed => RouterStaysSmooth
<1> SUFFICES ASSUME Shape, Routed PROVE RouterStaysSmooth
  OBVIOUS
<1>0. /\ opened \in Nat /\ RouterShaped /\ frees \in Nat /\ BlockSlices \in Nat /\ Len(router) = opened
      /\ WeightAccounted /\ NoneTooLight
  BY FileSizeAssumption DEF Shape, Routed, RouterShaped
<1>1. /\ DOMAIN router = 1 .. opened /\ IsFiniteSet(1 .. opened) /\ Cardinality(1 .. opened) = opened
      /\ \A d \in 1 .. opened : /\ Weights[d] = router[d].weight /\ Currents[d] = router[d].cur
                                /\ Weights[d] \in Int /\ Currents[d] \in Int
      /\ LagsAtMost(1 .. opened, Max(Range(Weights)), Currents, Weights)
  BY <1>0, WeightsAre, LagsAre
<1> DEFINE m == Max(Range(Weights))
           D == 1 .. opened
           Now == SumFunctionOnSet(Currents, D)
           Weight == SumFunctionOnSet(Weights, D)
           extra == BlockSlices * frees
<1>2. Now \in Int /\ Weight \in Int
  BY <1>1, SumType
<1>3. CASE opened = 0
  <2>1. D = {}
    BY <1>3
  <2>2. Now = 0 /\ Weight = 0
    <3> HIDE DEF D
    <3> QED BY <2>1, SumEmpty
  <2> QED BY <1>1, <2>1, <2>2 DEF RouterStaysSmooth
<1>4. CASE opened # 0
  <2>1. m \in Nat
    <3>1. opened \in Nat \ {0}
      BY <1>0, <1>4
    <3> QED BY <1>0, <3>1, HeaviestWeight
  <2>2. Now >= Weight
    <3>1. D \in SUBSET D /\ D # {}
      <4>1. 1 \in D
        BY <1>0, <1>4
      <4> QED BY <4>1
    <3>2. LagOf(Cardinality(D), Cardinality(D), m) = 0
      <4>1. \A k \in Nat : LagOf(k, k, m) = 0
        BY <2>1 DEF LagOf
      <4> QED BY <1>0, <1>1, <4>1
    <3>3. Now >= Weight - LagOf(Cardinality(D), Cardinality(D), m)
      BY <1>1, <3>1 DEF LagsAtMost
    <3> HIDE DEF Now, Weight
    <3> QED BY <1>2, <3>2, <3>3
  <2>3. Now <= Weight + extra /\ extra \in Nat
    <3>1. BlockSlices * Cardinality(Weighing) \in Nat /\ extra \in Nat
      <4>1. \A x, y \in Nat : x * y \in Nat
        OBVIOUS
      <4> QED BY <1>0, <4>1, WeighingFinite
    <3>2. Now + BlockSlices * Cardinality(Weighing) <= Weight + extra
      BY <1>0, <1>1 DEF WeightAccounted
    <3> HIDE DEF Now, Weight, extra
    <3> QED BY <1>2, <3>1, <3>2
  <2>4. \A d \in D : /\ Currents[d] >= Weights[d] - (Cardinality(D) - 1) * m
                     /\ Currents[d] <= Weights[d] + (Cardinality(D) - 1) * m + extra
    <3>1. IsFiniteSet(D) /\ (\A d \in D : Currents[d] \in Int /\ Weights[d] \in Int) /\ LagsAtMost(D, m, Currents, Weights)
      BY <1>1
    <3>2. Now = SumFunctionOnSet(Currents, D) /\ Weight = SumFunctionOnSet(Weights, D)
      OBVIOUS
    <3> HIDE DEF D, m, extra, Now, Weight
    <3> QED BY <2>1, <2>3, <3>1, <3>2, WeightsStayClose
  <2>5. Slack = (Cardinality(D) - 1) * m
    BY <1>0, <1>1 DEF Slack
  <2>6. \A d \in DOMAIN router : /\ router[d].cur >= router[d].weight - Slack
                                 /\ router[d].cur <= router[d].weight + Slack + BlockSlices * frees
    BY <1>1, <2>4, <2>5
  <2> QED BY <1>1, <2>2, <2>6 DEF RouterStaysSmooth
<1> QED BY <1>3, <1>4

LEMMA InitRouted == StoreInit => Routed
<1> SUFFICES ASSUME StoreInit PROVE Routed
  OBVIOUS
<1>1. DOMAIN router = {}
  BY EmptyDomain DEF StoreInit
<1>2. Weighing = {}
  BY DEF StoreInit, Each, Weighing
<1>3. SumFunctionOnSet(Currents, DOMAIN router) = 0 /\ SumFunctionOnSet(Weights, DOMAIN router) = 0
  BY <1>1, SumEmpty
<1>4. Cardinality(Weighing) = 0 /\ frees = 0 /\ BlockSlices \in Nat
  BY <1>2, FS_EmptySet, FileSizeAssumption DEF StoreInit
<1>5. 0 + BlockSlices * 0 <= 0 + BlockSlices * 0
  BY <1>4
<1>6. WeightAccounted
  BY <1>3, <1>4, <1>5 DEF WeightAccounted
<1> QED BY <1>1, <1>6 DEF Routed, NoneTooLight, FreshWeights

LEMMA UnchangedRouted == Routed /\ UNCHANGED storeVars => Routed'
<1> SUFFICES ASSUME Routed, UNCHANGED storeVars PROVE Routed'
  OBVIOUS
<1>1. UNCHANGED <<quota, opened, router, step, frees>>
  BY DEF storeVars, config, dirState
<1>2. Weighing' = Weighing /\ Currents' = Currents /\ Weights' = Weights
  BY <1>1 DEF Weighing, Currents, Weights
<1>3. WeightAccounted'
  BY <1>1, <1>2 DEF Routed, WeightAccounted
<1>4. NoneTooLight'
  BY <1>1, <1>2 DEF Routed, NoneTooLight
<1>5. FreshWeights'
  BY <1>1 DEF Routed, FreshWeights, Up
<1> QED BY <1>3, <1>4, <1>5 DEF Routed

\* An allocation never loses weight and a free never adds it twice, so that
\* no directory is starved or chosen over and over, whichever directories
\* are disabled and enabled again in between (CacheDirRouter::next_dir_index
\* and add_dir_weight).
THEOREM RouterSmooth == StoreSpec => []RouterStaysSmooth
<1>1. Shape /\ Shape' /\ Routed /\ [StoreNext]_storeVars => Routed'
  BY NextNoneTooLight, NextWeightAccounted, NextFreshWeights, UnchangedRouted DEF Routed
<1> QED BY <1>1, InitRouted, RoutedIsSmooth, ShapeKept, PTL DEF StoreSpec

=============================================================================
