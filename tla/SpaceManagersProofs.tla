------------------------ MODULE SpaceManagersProofs ------------------------
(***************************************************************************)
(* Proofs about the two space managers.                                    *)
(* MemSpaceManager, for every quota, threshold, set of sizes and number of *)
(* requesters: what a release finds reserved for whom, that _used_bytes is *)
(* the sum of the live objects, and the quota.                             *)
(* DiskSpaceManager, for every set of threads and directories, every       *)
(* number of blocks in each and every size of a space: a disk block is     *)
(* never in two places and never lost, the list of free spaces is right    *)
(* and the used bytes are those of the blocks that are out.                *)
(***************************************************************************)
EXTENDS DiskSpaceManager, MemSpaceManager, ArithmeticTheorems, SequenceTheorems

-----------------------------------------------------------------------------
(***************************************************************************)
(* Memory.                                                                 *)
(***************************************************************************)
\* t was refused and has not left its loop.
Refused(t) == phase[t] = "evict" \/ (phase[t] = "alloc" /\ Urgent(t))

\* A refused request that nobody outbid: what was given back since is in the
\* private quota, and what is still missing is in the need.
ReservedFor(t) ==
    Refused(t) =>
        /\ freed[t] <= want[t]
        /\ ~outbid[t] => privateQuota >= freed[t] /\ need >= want[t] - freed[t]

Reserved == \A t \in Requester : ReservedFor(t)

\* A loop starts with attempt 0.
IdleIsFresh == \A t \in Requester : phase[t] = "idle" => attempt[t] = 0

MemInv == MemTypeOK /\ Reserved /\ IdleIsFresh

LEMMA MemInitInv == MemInit => MemInv
  BY BoundAssumption DEF MemInit, MemInv, MemTypeOK, IdleIsFresh, Reserved, ReservedFor, Refused, Urgent

LEMMA NextMemTypeOK == MemTypeOK /\ [MemNext]_memVars => MemTypeOK'
<1> SUFFICES ASSUME MemTypeOK, [MemNext]_memVars PROVE MemTypeOK'
  OBVIOUS
<1>1. ASSUME NEW t \in Requester, NEW size \in Size, Request(t, size) PROVE MemTypeOK'
  BY <1>1, SizeAssumption DEF Request, MemTypeOK
<1>2. ASSUME NEW t \in Requester, NEW o \in Object, GrantPrivate(t, o) PROVE MemTypeOK'
  BY <1>2, BoundAssumption
  DEF GrantPrivate, FitsPrivate, UsedWithPrivate, Obtain, Leave, MemTypeOK, Urgent
<1>3. ASSUME NEW t \in Requester, NEW o \in Object, GrantPublic(t, o) PROVE MemTypeOK'
  BY <1>3, BoundAssumption DEF GrantPublic, Obtain, Leave, MemTypeOK
<1>4. ASSUME NEW t \in Requester, Refuse(t) PROVE MemTypeOK'
  BY <1>4 DEF Refuse, MemTypeOK
<1>5. ASSUME NEW t \in Requester, Retry(t) PROVE MemTypeOK'
  BY <1>5, BoundAssumption DEF Retry, MemTypeOK
<1>6. ASSUME NEW t \in Requester, GiveUp(t) PROVE MemTypeOK'
  BY <1>6, BoundAssumption DEF GiveUp, Leave, MemTypeOK
<1>7. ASSUME NEW o \in Object, Free(o) PROVE MemTypeOK'
  BY <1>7 DEF Free, Served, MemTypeOK
<1>8. CASE UNCHANGED memVars
  BY <1>8 DEF memVars, MemTypeOK
<1> QED BY <1>1, <1>2, <1>3, <1>4, <1>5, <1>6, <1>7, <1>8 DEF MemNext

LEMMA NextIdleIsFresh == MemTypeOK /\ IdleIsFresh /\ [MemNext]_memVars => IdleIsFresh'
  BY DEF MemTypeOK, IdleIsFresh, MemNext, memVars, Request, GrantPrivate, GrantPublic, Obtain,
         Leave, Refuse, Retry, GiveUp, Free

LEMMA NextReserved == MemInv /\ [MemNext]_memVars => Reserved'
<1> SUFFICES ASSUME MemInv, [MemNext]_memVars, NEW r \in Requester PROVE ReservedFor(r)'
  BY DEF Reserved
<1>1. MemTypeOK /\ ReservedFor(r)
  BY DEF MemInv, Reserved
<1>2. want[r] \in Nat /\ freed[r] \in Nat /\ attempt[r] \in Nat /\ outbid[r] \in BOOLEAN
  BY <1>1 DEF MemTypeOK
<1> USE DEF MemTypeOK, ReservedFor, Refused, Urgent
<1>3. ASSUME NEW t \in Requester, NEW size \in Size, Request(t, size)
      PROVE  ReservedFor(r)'
  BY <1>1, <1>3 DEF MemInv, Request, IdleIsFresh
<1>4. ASSUME NEW t \in Requester, NEW o \in Object, GrantPrivate(t, o)
      PROVE  ReservedFor(r)'
  <2>1. CASE r = t
    BY <1>1, <1>4, <2>1 DEF GrantPrivate, Obtain, Leave
  <2>2. CASE r # t
    BY <1>1, <1>2, <1>4, <2>2 DEF GrantPrivate, FitsPrivate, Obtain, Leave
  <2> QED BY <2>1, <2>2
<1>5. ASSUME NEW t \in Requester, NEW o \in Object, GrantPublic(t, o)
      PROVE  ReservedFor(r)'
  <2>1. CASE r = t
    BY <1>1, <1>5, <2>1 DEF GrantPublic, Obtain, Leave
  <2>2. CASE r # t
    BY <1>1, <1>2, <1>5, <2>2 DEF GrantPublic, Obtain, Leave
  <2> QED BY <2>1, <2>2
<1>6. ASSUME NEW t \in Requester, Refuse(t) PROVE ReservedFor(r)'
  <2>1. CASE r = t
    BY <1>1, <1>2, <1>6, <2>1 DEF Refuse
  <2>2. CASE r # t
    BY <1>1, <1>2, <1>6, <2>2 DEF Refuse
  <2> QED BY <2>1, <2>2
<1>7. ASSUME NEW t \in Requester, Retry(t) PROVE ReservedFor(r)'
  BY <1>1, <1>2, <1>7 DEF Retry
<1>8. ASSUME NEW t \in Requester, GiveUp(t) PROVE ReservedFor(r)'
  BY <1>1, <1>2, <1>8 DEF GiveUp, Leave
<1>9. ASSUME NEW o \in Object, Free(o) PROVE ReservedFor(r)'
  <2>1. object[o] \in Nat
    BY <1>1
  <2> QED BY <1>1, <1>2, <1>9, <2>1 DEF Free, Served
<1>10. CASE UNCHANGED memVars
  BY <1>1, <1>10 DEF memVars
<1> QED BY <1>3, <1>4, <1>5, <1>6, <1>7, <1>8, <1>9, <1>10 DEF MemNext

\* The accounting invariant of the retry loop.
THEOREM Accounting == MemSpec => []MemInv
<1>1. MemInit => MemInv
  BY MemInitInv
<1>2. MemInv /\ [MemNext]_memVars => MemInv'
  BY NextMemTypeOK, NextIdleIsFresh, NextReserved DEF MemInv
<1> QED BY <1>1, <1>2, PTL DEF MemSpec

\* Type correctness: no grant or release drives the reserve or the need
\* below zero.
THEOREM MemTypeCorrect == MemSpec => []MemTypeOK
<1>1. MemInv => MemTypeOK
  BY DEF MemInv
<1> QED BY <1>1, Accounting, PTL

\* Room that is given back after a refusal is kept for the refused request:
\* no plain request, however many arrive, can take it.
THEOREM EvictorServed == MemSpec => []EvictorIsServed
<1>1. MemInv => EvictorIsServed
  BY DEF MemInv, MemTypeOK, Reserved, ReservedFor, Refused, EvictorIsServed, FitsPrivate
<1> QED BY <1>1, Accounting, PTL

\* The threshold never lets a grant exceed what is not reserved.
LEMMA ThresholdWithin ==
    ASSUME NEW x \in Nat
    PROVE  (x * Threshold) \div 100 <= x
<1>1. Threshold \in Nat /\ Threshold <= 100
  BY ThresholdAssumption
<1>2. x * Threshold <= x * 100
  BY <1>1
<1>3. x * Threshold \in Nat
  BY <1>1
<1>4. ASSUME NEW y \in Nat, y <= x * 100 PROVE y \div 100 <= x
  BY <1>4
<1> QED BY <1>2, <1>3, <1>4

-----------------------------------------------------------------------------
(***************************************************************************)
(* What the live objects take.                                             *)
(***************************************************************************)

\* An object appears or goes, and used_bytes with it.
LEMMA ObjectChanges ==
    ASSUME MemTypeOK, UsedIsLive, NEW o \in Object, object'[o] \in Nat,
           \A p \in Object \ {o} : object'[p] = object[p],
           usedBytes' = (usedBytes - object[o]) + object'[o]
    PROVE  UsedIsLive'
<1>1. \A p \in Object : object[p] \in Int
  BY DEF MemTypeOK
<1>2. SumFunctionOnSet(object', Object) = (SumFunctionOnSet(object, Object) - object[o]) + object'[o]
  BY <1>1, ObjectAssumption, SumChange
<1> QED BY <1>2 DEF UsedIsLive

LEMMA NextUsedIsLive == MemInv /\ UsedIsLive /\ [MemNext]_memVars => UsedIsLive'
<1> SUFFICES ASSUME MemInv, UsedIsLive, [MemNext]_memVars PROVE UsedIsLive'
  OBVIOUS
<1> USE DEF MemInv
<1>1. \A t \in Requester : want[t] \in Nat
  BY DEF MemTypeOK
<1>2. \A o \in Object : object[o] \in Nat
  BY DEF MemTypeOK
<1>3. usedBytes \in Int
  BY DEF MemTypeOK
<1>4. ASSUME NEW t \in Requester, NEW size \in Size, Request(t, size) PROVE UsedIsLive'
  BY <1>4 DEF Request, UsedIsLive
<1>5. ASSUME NEW t \in Requester, NEW o \in Object, GrantPrivate(t, o) PROVE UsedIsLive'
  <2>1. /\ object'[o] = want[t] /\ \A p \in Object \ {o} : object'[p] = object[p]
        /\ usedBytes' = (usedBytes - object[o]) + object'[o]
    BY <1>1, <1>3, <1>5 DEF GrantPrivate, UsedWithPrivate, Obtain, MemTypeOK
  <2> QED BY <1>1, <2>1, ObjectChanges
<1>6. ASSUME NEW t \in Requester, NEW o \in Object, GrantPublic(t, o) PROVE UsedIsLive'
  <2>1. /\ object'[o] = want[t] /\ \A p \in Object \ {o} : object'[p] = object[p]
        /\ usedBytes' = (usedBytes - object[o]) + object'[o]
    BY <1>1, <1>3, <1>6 DEF GrantPublic, Obtain, MemTypeOK
  <2> QED BY <1>1, <2>1, ObjectChanges
<1>7. ASSUME NEW t \in Requester, Refuse(t) PROVE UsedIsLive'
  BY <1>7 DEF Refuse, UsedIsLive
<1>8. ASSUME NEW t \in Requester, Retry(t) PROVE UsedIsLive'
  BY <1>8 DEF Retry, UsedIsLive
<1>9. ASSUME NEW t \in Requester, GiveUp(t) PROVE UsedIsLive'
  BY <1>9 DEF GiveUp, UsedIsLive
<1>10. ASSUME NEW o \in Object, Free(o) PROVE UsedIsLive'
  <2>1. /\ object'[o] = 0 /\ \A p \in Object \ {o} : object'[p] = object[p]
        /\ usedBytes' = (usedBytes - object[o]) + object'[o]
    BY <1>2, <1>3, <1>10 DEF Free, MemTypeOK
  <2> QED BY <2>1, ObjectChanges
<1>11. CASE UNCHANGED memVars
  BY <1>11 DEF memVars, UsedIsLive
<1> QED BY <1>4, <1>5, <1>6, <1>7, <1>8, <1>9, <1>10, <1>11 DEF MemNext

\* used_bytes() is what the live objects take, however many requests are
\* refused, retried, served from the reserve or given up.
THEOREM UsedMemoryCorrect == MemSpec => []UsedIsLive
<1>1. MemInit => UsedIsLive
  <2> SUFFICES ASSUME MemInit PROVE SumFunctionOnSet(object, Object) = 0
    BY DEF MemInit, UsedIsLive
  <2>1. \A o \in Object : object[o] = 0
    BY DEF MemInit
  <2> QED BY <2>1, ObjectAssumption, SumOfZeros
<1>2. MemInv /\ UsedIsLive /\ [MemNext]_memVars => UsedIsLive'
  BY NextUsedIsLive
<1> QED BY <1>1, <1>2, Accounting, PTL DEF MemSpec

\* The subtraction in dec_mem never wraps: an object is a part of what is in
\* use.
THEOREM NeverWraps == MemSpec => []NoWrap
<1>1. ASSUME MemTypeOK, UsedIsLive PROVE NoWrap
  <2>1. \A o \in Object : object[o] \in Nat
    BY <1>1 DEF MemTypeOK
  <2>2. \A o \in Object : object[o] <= SumFunctionOnSet(object, Object)
    BY <2>1, ObjectAssumption, SumBounds
  <2> QED BY <1>1, <2>2 DEF UsedIsLive, NoWrap
<1> QED BY <1>1, MemTypeCorrect, UsedMemoryCorrect, PTL

\* Used and reserved memory together stay within the quota of
\* MemCacheOptions.
THEOREM QuotaKept == MemSpec => []WithinQuota
<1> DEFINE Kept == WithinQuota /\ usedBytes >= 0
<1>1. MemInit => Kept
  BY QuotaAssumption DEF MemInit, WithinQuota
<1>2. MemInv /\ NoWrap /\ NoWrap' /\ Kept /\ [MemNext]_memVars => Kept'
  <2> SUFFICES ASSUME MemInv, NoWrap, Kept, [MemNext]_memVars PROVE Kept'
    OBVIOUS
  <2> USE QuotaAssumption DEF MemInv, MemTypeOK, WithinQuota
  <2>1. ASSUME NEW t \in Requester, NEW size \in Size, Request(t, size) PROVE Kept'
    BY <2>1 DEF Request
  <2>2. ASSUME NEW t \in Requester, NEW o \in Object, GrantPrivate(t, o) PROVE Kept'
    BY <2>2 DEF GrantPrivate, UsedWithPrivate
  <2>3. ASSUME NEW t \in Requester, NEW o \in Object, GrantPublic(t, o) PROVE Kept'
    <3>1. Quota - privateQuota \in Nat
      OBVIOUS
    <3>2. UpperThreshold <= Quota - privateQuota
      BY <3>1, ThresholdWithin DEF UpperThreshold
    <3>3. UpperThreshold \in Int
      BY <3>1, ThresholdAssumption DEF UpperThreshold
    <3> QED BY <2>3, <3>2, <3>3 DEF GrantPublic, FitsPublic
  <2>4. ASSUME NEW t \in Requester, Refuse(t) PROVE Kept'
    BY <2>4 DEF Refuse
  <2>5. ASSUME NEW t \in Requester, Retry(t) PROVE Kept'
    BY <2>5 DEF Retry
  <2>6. ASSUME NEW t \in Requester, GiveUp(t) PROVE Kept'
    BY <2>6 DEF GiveUp
  <2>7. ASSUME NEW o \in Object, Free(o) PROVE Kept'
    BY <2>7 DEF Free, Served, NoWrap
  <2>8. CASE UNCHANGED memVars
    BY <2>8 DEF memVars
  <2> QED BY <2>1, <2>2, <2>3, <2>4, <2>5, <2>6, <2>7, <2>8 DEF MemNext
<1> QED BY <1>1, <1>2, Accounting, NeverWraps, PTL DEF MemSpec

-----------------------------------------------------------------------------
(***************************************************************************)
(* Disk.                                                                   *)
(***************************************************************************)
\* The properties themselves are inductive together: a block comes back to the
\* right space because of BlocksPartition, is counted once because of it, and
\* the counter stays natural because of UsedCountsBlocks.
Inv ==
    /\ TypeOK
    /\ IsFiniteSet(owned)
    /\ BlocksPartition
    /\ FreeListComplete
    /\ UsedCountsBlocks

-----------------------------------------------------------------------------
(***************************************************************************)
(* Blocks and spaces: the arithmetic of free_block and                     *)
(* _init_free_space_list.                                                  *)
(***************************************************************************)
\* The blocks of space s are those from s * SpaceSize on.
LEMMA SpaceOfIs ==
    ASSUME NEW b \in Nat, NEW s \in Nat
    PROVE  SpaceOf(b) = s <=> (s * SpaceSize <= b /\ b < (s + 1) * SpaceSize)
<1> DEFINE n == SpaceSize
           q == b \div n
<1>1. n \in Nat \ {0}
  BY SpaceSizeAssumption
<1>2. q \in Nat /\ n * q <= b /\ b < n * q + n
  BY <1>1, DivBounds
<1>3. SpaceOf(b) = q
  BY DEF SpaceOf
<1> HIDE DEF n, q
<1>4. /\ n * s \in Nat /\ s * n = n * s /\ (s + 1) * n = n * s + n
      /\ n * q \in Nat
      /\ n * (q + 1) = n * q + n
      /\ n * (s + 1) = n * s + n
  BY <1>1, <1>2, TimesSuccessor
<1>5. ASSUME q = s PROVE s * n <= b /\ b < (s + 1) * n
  BY <1>2, <1>4, <1>5
<1>6. ASSUME s * n <= b, b < (s + 1) * n PROVE q = s
  <2>1. ~(q + 1 <= s)
    <3> SUFFICES ASSUME q + 1 <= s PROVE FALSE
      OBVIOUS
    <3>1. n * (q + 1) <= n * s
      BY <1>1, <1>2, TimesMonotone
    <3> QED BY <3>1, <1>1, <1>2, <1>4, <1>6
  <2>2. ~(s + 1 <= q)
    <3> SUFFICES ASSUME s + 1 <= q PROVE FALSE
      OBVIOUS
    <3>1. n * (s + 1) <= n * q
      BY <1>1, <1>2, TimesMonotone
    <3> QED BY <3>1, <1>1, <1>2, <1>4, <1>6
  <2> QED BY <2>1, <2>2, <1>2
<1> QED BY <1>3, <1>5, <1>6 DEF n

\* Every space has a block, and every block is in one of the spaces.
LEMMA SpaceStart ==
    ASSUME NEW d \in Dir, NEW s \in Spaces(d)
    PROVE  s \in Nat /\ s * SpaceSize \in Nat /\ s * SpaceSize < TotalBlocks[d]
<1> DEFINE n == SpaceSize
           m == TotalBlocks[d]
           r == SpaceCount(d)
<1>1. n \in Nat \ {0} /\ m \in Nat
  BY SpaceSizeAssumption, TotalBlocksAssumption
<1>2. r = (m + n - 1) \div n /\ m + n - 1 \in Nat
  BY <1>1 DEF SpaceCount
<1>3. r \in Nat /\ n * r <= m + n - 1
  BY <1>1, <1>2, DivBounds
<1>4. s \in Nat /\ s + 1 <= r
  BY <1>3 DEF Spaces
<1> HIDE DEF n, m, r
<1>5. n * (s + 1) <= n * r
  BY <1>1, <1>3, <1>4, TimesMonotone
<1>6. n * (s + 1) = n * s + n /\ s * n = n * s /\ n * s \in Nat /\ n * r \in Nat
  BY <1>1, <1>3, <1>4, TimesSuccessor
<1>7. s * n \in Nat /\ s * n < m
  BY <1>1, <1>3, <1>5, <1>6
<1> QED BY <1>4, <1>7 DEF n, m

LEMMA SpaceInRange ==
    ASSUME NEW d \in Dir, NEW b \in Blocks(d)
    PROVE  SpaceOf(b) \in Spaces(d)
<1> DEFINE n == SpaceSize
           m == TotalBlocks[d]
           r == SpaceCount(d)
           q == b \div n
<1>1. n \in Nat \ {0} /\ m \in Nat /\ b \in Nat /\ b <= m - 1
  BY SpaceSizeAssumption, TotalBlocksAssumption DEF Blocks
<1>2. r = (m + n - 1) \div n /\ m + n - 1 \in Nat
  BY <1>1 DEF SpaceCount
<1>3. r \in Nat /\ m + n - 1 < n * r + n
  BY <1>1, <1>2, DivBounds
<1>4. q \in Nat /\ n * q <= b
  BY <1>1, DivBounds
<1> HIDE DEF n, m, r, q
<1>5. n * r \in Nat /\ n * q \in Nat
  BY <1>1, <1>3, <1>4, TimesSuccessor
<1>6. ~(r <= q)
  <2> SUFFICES ASSUME r <= q PROVE FALSE
    OBVIOUS
  <2>1. n * r <= n * q
    BY <1>1, <1>3, <1>4, TimesMonotone
  <2> QED BY <2>1, <1>1, <1>3, <1>4, <1>5
<1>7. q \in 0..(r - 1)
  BY <1>3, <1>4, <1>6
<1> QED BY <1>7 DEF q, r, n, SpaceOf, Spaces

-----------------------------------------------------------------------------
(***************************************************************************)
(* The free space list.                                                    *)
(***************************************************************************)
Listed(q, x) == \E i \in 1..Len(q) : q[i] = x

\* pop_front takes the front and nothing else.
LEMMA PopFrontProperties ==
    ASSUME NEW S, NEW q \in Seq(S), q # << >>, IsInjective(q)
    PROVE  /\ Tail(q) \in Seq(S)
           /\ IsInjective(Tail(q))
           /\ \A x : Listed(Tail(q), x) <=> (Listed(q, x) /\ x # Head(q))
<1> DEFINE r == Tail(q)
<1>1. /\ r \in Seq(S) /\ Len(r) = Len(q) - 1 /\ Len(q) \in Nat \ {0}
      /\ Head(q) = q[1]
      /\ \A i \in 1..Len(r) : r[i] = q[i + 1]
  OBVIOUS
<1>2. DOMAIN q = 1..Len(q) /\ DOMAIN r = 1..Len(r)
  BY <1>1
<1> HIDE DEF r
<1>3. IsInjective(r)
  BY <1>1, <1>2 DEF IsInjective
<1>4. ASSUME NEW x PROVE Listed(r, x) <=> (Listed(q, x) /\ x # Head(q))
  <2>1. ASSUME NEW i \in 1..Len(r), r[i] = x PROVE Listed(q, x) /\ x # Head(q)
    BY <2>1, <1>1, <1>2 DEF Listed, IsInjective
  <2>2. ASSUME NEW i \in 1..Len(q), q[i] = x, x # q[1] PROVE Listed(r, x)
    <3>1. i - 1 \in 1..Len(r) /\ r[i - 1] = q[(i - 1) + 1] /\ (i - 1) + 1 = i
      BY <2>2, <1>1
    <3> QED BY <3>1, <2>2 DEF Listed
  <2> QED BY <2>1, <2>2, <1>1 DEF Listed
<1> QED BY <1>1, <1>3, <1>4 DEF r

\* push_back of a space that is not listed.
LEMMA PushBackProperties ==
    ASSUME NEW S, NEW q \in Seq(S), NEW e \in S, IsInjective(q), ~Listed(q, e)
    PROVE  /\ Append(q, e) \in Seq(S)
           /\ IsInjective(Append(q, e))
           /\ \A x : Listed(Append(q, e), x) <=> (Listed(q, x) \/ x = e)
<1> DEFINE r == Append(q, e)
<1>1. /\ r \in Seq(S) /\ Len(r) = Len(q) + 1 /\ Len(q) \in Nat
      /\ r[Len(q) + 1] = e
      /\ \A i \in 1..Len(q) : r[i] = q[i]
  OBVIOUS
<1>2. DOMAIN q = 1..Len(q) /\ DOMAIN r = 1..Len(r)
  BY <1>1
<1> HIDE DEF r
<1>3. IsInjective(r)
  <2> SUFFICES ASSUME NEW i \in 1..Len(r), NEW j \in 1..Len(r), r[i] = r[j] PROVE i = j
    BY <1>2 DEF IsInjective
  <2>1. CASE i \in 1..Len(q) /\ j \in 1..Len(q)
    BY <2>1, <1>1, <1>2 DEF IsInjective
  <2>2. CASE i = Len(q) + 1 \/ j = Len(q) + 1
    BY <2>2, <1>1 DEF Listed
  <2> QED BY <2>1, <2>2, <1>1
<1>4. ASSUME NEW x PROVE Listed(r, x) <=> (Listed(q, x) \/ x = e)
  <2>1. ASSUME NEW i \in 1..Len(r), r[i] = x PROVE Listed(q, x) \/ x = e
    BY <2>1, <1>1 DEF Listed
  <2>2. ASSUME NEW i \in 1..Len(q), q[i] = x PROVE Listed(r, x)
    <3>1. i \in 1..Len(r) /\ r[i] = x
      BY <2>2, <1>1
    <3> QED BY <3>1 DEF Listed
  <2>3. Listed(r, e)
    <3>1. Len(q) + 1 \in 1..Len(r)
      BY <1>1
    <3> QED BY <3>1, <1>1 DEF Listed
  <2> QED BY <2>1, <2>2, <2>3 DEF Listed
<1> QED BY <1>1, <1>3, <1>4 DEF r

-----------------------------------------------------------------------------
(***************************************************************************)
(* The initial states.                                                     *)
(***************************************************************************)
LEMMA BlocksAreNat == \A d \in Dir : Blocks(d) \subseteq Nat
  BY TotalBlocksAssumption DEF Blocks

\* _init_free_space_list counts the blocks of each space right.
LEMMA InitialCount ==
    ASSUME NEW d \in Dir, NEW s \in Spaces(d), Init
    PROVE  /\ freeCount[d][s] \in Nat \ {0}
           /\ freeCount[d][s] = Cardinality(SpaceBits(d, s))
<1> DEFINE lo == s * SpaceSize
           hi == (s + 1) * SpaceSize
           m == TotalBlocks[d]
<1>1. s \in Nat /\ lo \in Nat /\ m \in Nat /\ lo < m
  BY SpaceStart, TotalBlocksAssumption
<1>2. hi \in Nat /\ hi = lo + SpaceSize /\ SpaceSize \in Nat \ {0}
  <2>1. SpaceSize \in Nat \ {0}
    BY SpaceSizeAssumption
  <2> QED BY <1>1, <2>1, TimesSuccessor
<1>3. freeCount[d][s] = IF hi <= m THEN SpaceSize ELSE m - lo
  BY DEF Init
<1>4. SpaceBits(d, s) = {b \in 0..(m - 1) : lo <= b /\ b < hi}
  <2>1. \A b \in 0..(m - 1) : b \in Nat
    BY <1>1
  <2>2. \A b \in 0..(m - 1) : SpaceOf(b) = s <=> (lo <= b /\ b < hi)
    BY <2>1, <1>1, SpaceOfIs
  <2> QED BY <2>2 DEF SpaceBits, Init, Blocks
<1> HIDE DEF lo, hi, m
<1>5. CASE hi <= m
  <2>1. SpaceBits(d, s) = lo..(hi - 1)
    BY <1>1, <1>2, <1>4, <1>5
  <2>2. Cardinality(lo..(hi - 1)) = (hi - 1) - lo + 1
    BY <1>1, <1>2, FS_Interval
  <2> QED BY <2>1, <2>2, <1>1, <1>2, <1>3, <1>5
<1>6. CASE ~(hi <= m)
  <2>1. SpaceBits(d, s) = lo..(m - 1)
    BY <1>1, <1>2, <1>4, <1>6
  <2>2. Cardinality(lo..(m - 1)) = (m - 1) - lo + 1
    BY <1>1, FS_Interval
  <2> QED BY <2>1, <2>2, <1>1, <1>2, <1>3, <1>6
<1> QED BY <1>5, <1>6

LEMMA InitInv == Init => Inv
<1> SUFFICES ASSUME Init PROVE Inv
  OBVIOUS
<1>1. \A d \in Dir : SpaceCount(d) \in Nat
  <2> SUFFICES ASSUME NEW d \in Dir PROVE SpaceCount(d) \in Nat
    OBVIOUS
  <2>1. TotalBlocks[d] + SpaceSize - 1 \in Nat /\ SpaceSize \in Nat \ {0}
    BY TotalBlocksAssumption, SpaceSizeAssumption
  <2> QED BY <2>1, DivBounds DEF SpaceCount
<1>2. \A d \in Dir : freeList[d] \in Seq(Spaces(d))
  <2> SUFFICES ASSUME NEW d \in Dir PROVE freeList[d] \in Seq(Spaces(d))
    OBVIOUS
  <2>1. \A i \in 1..SpaceCount(d) : i - 1 \in Spaces(d)
    BY <1>1 DEF Spaces
  <2>2. freeList[d] = [i \in 1..SpaceCount(d) |-> i - 1]
    BY DEF Init
  <2>3. freeList[d] \in [1..SpaceCount(d) -> Spaces(d)]
    BY <2>1, <2>2
  <2> QED BY <2>3, <1>1
<1>3. TypeOK
  <2>1. \A d \in Dir : freeCount[d] \in [Spaces(d) -> Nat]
    <3> SUFFICES ASSUME NEW d \in Dir PROVE freeCount[d] \in [Spaces(d) -> Nat]
      OBVIOUS
    <3>1. \A s \in Spaces(d) : freeCount[d][s] \in Nat
      BY InitialCount
    <3> QED BY <3>1 DEF Init
  <2> QED BY <1>2, <2>1, BlocksAreNat DEF Init, TypeOK
<1>4. IsFiniteSet(owned) /\ UsedCountsBlocks
  <2>1. owned = {} /\ {t \in Thread : pc[t] \in {"return", "uncount"}} = {} /\ used = 0
    BY DEF Init
  <2>2. Cardinality({}) = 0 /\ IsFiniteSet({})
    BY FS_EmptySet
  <2> QED BY <2>1, <2>2 DEF UsedCountsBlocks
<1>5. BlocksPartition
  BY DEF Init, BlocksPartition, InFlight, Flying, BlockId
<1>6. FreeListComplete
  <2> SUFFICES ASSUME NEW d \in Dir
               PROVE  /\ \A s \in Spaces(d) :
                           /\ freeCount[d][s] = Cardinality(SpaceBits(d, s))
                           /\ freeCount[d][s] > 0
                                <=> \E i \in 1..Len(freeList[d]) : freeList[d][i] = s
                      /\ IsInjective(freeList[d])
    BY DEF FreeListComplete
  <2>1. Len(freeList[d]) = SpaceCount(d) /\ DOMAIN freeList[d] = 1..SpaceCount(d)
    BY <1>1 DEF Init
  <2>2. \A i \in 1..SpaceCount(d) : freeList[d][i] = i - 1
    BY DEF Init
  <2>3. IsInjective(freeList[d])
    BY <1>1, <2>1, <2>2 DEF IsInjective
  <2>4. ASSUME NEW s \in Spaces(d)
        PROVE  \E i \in 1..Len(freeList[d]) : freeList[d][i] = s
    <3>1. s + 1 \in 1..SpaceCount(d) /\ (s + 1) - 1 = s
      BY <1>1 DEF Spaces
    <3> QED BY <3>1, <2>1, <2>2
  <2> QED BY <2>3, <2>4, InitialCount
<1> QED BY <1>3, <1>4, <1>5, <1>6 DEF Inv

-----------------------------------------------------------------------------
(***************************************************************************)
(* The used bytes.                                                         *)
(***************************************************************************)
Freeing == {t \in Thread : pc[t] \in {"return", "uncount"}}

\* The steps of alloc_block and free_block that only move a thread on.
Quiet(t) ==
    \/ AllocBegin(t) \/ Route(t) \/ RouteFails(t) \/ TakeFails(t) \/ Disable(t)
    \/ AddWeight(t)

LEMMA NextUsed ==
    ASSUME Inv, [Next]_vars
    PROVE  UsedCountsBlocks' /\ IsFiniteSet(owned')
<1>1. /\ pc \in [Thread -> {"idle", "route", "take", "disable", "count",
                           "return", "uncount", "weigh"}]
      /\ IsFiniteSet(owned) /\ IsFiniteSet(Freeing)
      /\ used = Cardinality(owned) + Cardinality(Freeing)
      /\ Cardinality(owned) \in Nat /\ Cardinality(Freeing) \in Nat
  <2>1. IsFiniteSet(Freeing)
    BY ThreadAssumption, FS_Subset DEF Freeing
  <2> QED BY <2>1, FS_CardinalityType DEF Inv, TypeOK, UsedCountsBlocks, Freeing
<1> SUFFICES used' = Cardinality(owned') + Cardinality(Freeing') /\ IsFiniteSet(owned')
  BY DEF UsedCountsBlocks, Freeing
<1>2. ASSUME NEW t \in Thread, Quiet(t) \/ Take(t) \/ Return(t)
      PROVE  used' = used /\ owned' = owned /\ Freeing' = Freeing
  BY <1>1, <1>2 DEF Quiet, AllocBegin, Route, RouteFails, TakeFails, Disable, AddWeight,
     Take, Return, Goto, Freeing
<1>3. ASSUME NEW t \in Thread, Count(t)
      PROVE  used' = Cardinality(owned') + Cardinality(Freeing') /\ IsFiniteSet(owned')
  <2>1. Flying(t) \notin owned
    BY <1>3 DEF Inv, BlocksPartition, InFlight, Count, Goto
  <2>2. used' = used + 1 /\ owned' = owned \cup {Flying(t)} /\ Freeing' = Freeing
    BY <1>1, <1>3 DEF Count, Goto, UsedAfterAlloc, Flying, Freeing
  <2>3. Cardinality(owned') = Cardinality(owned) + 1 /\ IsFiniteSet(owned')
    BY <1>1, <2>1, <2>2, FS_AddElement
  <2> QED BY <1>1, <2>2, <2>3
<1>4. ASSUME NEW t \in Thread, FreeBegin(t)
      PROVE  used' = Cardinality(owned') + Cardinality(Freeing') /\ IsFiniteSet(owned')
  <2>1. PICK id \in owned : Goto(t, "idle", "return") /\ owned' = owned \ {id}
    BY <1>4 DEF FreeBegin
  <2>2. used' = used /\ t \notin Freeing /\ Freeing' = Freeing \cup {t}
    BY <1>1, <1>4, <2>1 DEF FreeBegin, Goto, Freeing
  <2>3. Cardinality(owned') = Cardinality(owned) - 1 /\ IsFiniteSet(owned')
    BY <1>1, <2>1, FS_RemoveElement
  <2>4. Cardinality(Freeing') = Cardinality(Freeing) + 1
    BY <1>1, <2>2, FS_AddElement
  <2> QED BY <1>1, <2>2, <2>3, <2>4
<1>5. ASSUME NEW t \in Thread, Uncount(t)
      PROVE  used' = Cardinality(owned') + Cardinality(Freeing') /\ IsFiniteSet(owned')
  <2>1. used' = used - 1 /\ owned' = owned /\ t \in Freeing /\ Freeing' = Freeing \ {t}
    BY <1>1, <1>5 DEF Uncount, UsedAfterFree, Goto, Freeing
  <2>2. Cardinality(Freeing') = Cardinality(Freeing) - 1
    BY <1>1, <2>1, FS_RemoveElement
  <2> QED BY <1>1, <2>1, <2>2
<1>6. CASE UNCHANGED vars
  BY <1>1, <1>6 DEF vars, Freeing
<1> QED BY <1>1, <1>2, <1>3, <1>4, <1>5, <1>6 DEF Next, Step, Quiet

-----------------------------------------------------------------------------
(***************************************************************************)
(* The blocks.                                                             *)
(***************************************************************************)
LEMMA NextBlocksPartition ==
    ASSUME Inv, [Next]_vars
    PROVE  BlocksPartition'
<1>1. /\ TypeOK
      /\ BlocksPartition
  BY DEF Inv
<1>2. ASSUME NEW t \in Thread, Quiet(t) \/ Uncount(t)
      PROVE  BlocksPartition'
  <2>1. freeBits' = freeBits /\ owned' = owned /\ block' = block
    BY <1>2 DEF Quiet, AllocBegin, Route, RouteFails, TakeFails, Disable, AddWeight, Uncount
  <2>2. \A u \in Thread : InFlight(u)' <=> InFlight(u)
    BY <1>1, <1>2 DEF Quiet, AllocBegin, Route, RouteFails, TakeFails, Disable, AddWeight,
       Uncount, Goto, InFlight, TypeOK
  <2>3. \A u \in Thread : InFlight(u) => dir'[u] = dir[u]
    BY <1>1, <1>2 DEF Quiet, AllocBegin, Route, RouteFails, TakeFails, Disable, AddWeight,
       Uncount, Goto, InFlight, TypeOK
  <2> QED BY <1>1, <2>1, <2>2, <2>3 DEF BlocksPartition, Flying
<1>3. ASSUME NEW t \in Thread, Take(t)
      PROVE  BlocksPartition'
  <2> DEFINE d == dir[t]
  <2>1. PICK b \in SpaceBits(d, Head(freeList[d])) :
           /\ freeBits' = [freeBits EXCEPT ![d] = freeBits[d] \ {b}]
           /\ block' = [block EXCEPT ![t] = b]
    BY <1>3 DEF Take, BitsAfterTake
  <2>2. d \in Dir /\ b \in freeBits[d] /\ b \in Blocks(d) /\ <<d, b>> \in BlockId
    BY <1>1, <2>1 DEF TypeOK, SpaceBits, BlockId
  <2>3. /\ owned' = owned /\ dir' = dir
        /\ block'[t] = b
        /\ \A u \in Thread : u # t => block'[u] = block[u]
        /\ \A e \in Dir, x \in Nat :
             x \in freeBits'[e] <=> (x \in freeBits[e] /\ <<e, x>> # <<d, b>>)
    BY <1>1, <1>3, <2>1, <2>2 DEF Take, TypeOK
  <2>4. /\ InFlight(t)' /\ ~InFlight(t)
        /\ \A u \in Thread : u # t => (InFlight(u)' <=> InFlight(u))
    BY <1>1, <1>3 DEF Take, Goto, InFlight, TypeOK
  <2>5. <<d, b>> \notin owned /\ \A u \in Thread : InFlight(u) => Flying(u) # <<d, b>>
    BY <1>1, <2>2 DEF BlocksPartition
  <2>6. \A e \in Dir : \A x \in Blocks(e) : x \in Nat
    BY BlocksAreNat
  <2>7. /\ Flying(t)' = <<d, b>>
        /\ \A u \in Thread : u # t => Flying(u)' = Flying(u)
    BY <2>3 DEF Flying
  <2>8. \A id \in BlockId : id[1] \in Dir /\ id[2] \in Nat /\ id = <<id[1], id[2]>>
    BY <2>6 DEF BlockId
  <2>9. ASSUME NEW u \in Thread, InFlight(u)'
        PROVE  /\ block'[u] \in Blocks(dir'[u]) \ freeBits'[dir'[u]]
               /\ Flying(u)' \notin owned'
               /\ \A w \in Thread \ {u} : InFlight(w)' => Flying(w)' # Flying(u)'
    <3>1. dir[u] \in Dir /\ block[u] \in Nat /\ b \in Nat
      BY <1>1, <2>2, <2>6 DEF TypeOK
    <3>2. CASE u = t
      BY <3>1, <3>2, <2>2, <2>3, <2>4, <2>5, <2>7
    <3>3. CASE u # t
      <4>1. InFlight(u) /\ block[u] \in Blocks(dir[u]) \ freeBits[dir[u]] /\ Flying(u) \notin owned
        BY <1>1, <2>4, <2>9, <3>3 DEF BlocksPartition
      <4>2. block'[u] \in Blocks(dir'[u]) \ freeBits'[dir'[u]]
        BY <3>1, <3>3, <4>1, <2>3
      <4>3. \A w \in Thread \ {u} : InFlight(w)' => Flying(w)' # Flying(u)'
        BY <1>1, <3>3, <4>1, <2>4, <2>5, <2>7 DEF BlocksPartition
      <4> QED BY <4>1, <4>2, <4>3, <3>3, <2>3, <2>7
    <3> QED BY <3>2, <3>3
  <2>10. ASSUME NEW id \in BlockId
         PROVE  id[2] \notin freeBits'[id[1]] <=>
                  (id \in owned' \/ \E u \in Thread : InFlight(u)' /\ Flying(u)' = id)
    <3>1. id[2] \notin freeBits[id[1]] <=>
                  (id \in owned \/ \E u \in Thread : InFlight(u) /\ Flying(u) = id)
      BY <1>1 DEF BlocksPartition
    <3>2. id[2] \notin freeBits'[id[1]] <=> (id[2] \notin freeBits[id[1]] \/ id = <<d, b>>)
      BY <2>3, <2>8
    <3>3. (\E u \in Thread : InFlight(u)' /\ Flying(u)' = id) <=>
            (id = <<d, b>> \/ \E u \in Thread : InFlight(u) /\ Flying(u) = id)
      BY <2>4, <2>7
    <3> QED BY <3>1, <3>2, <3>3, <2>3
  <2> QED BY <2>9, <2>10 DEF BlocksPartition
<1>4. ASSUME NEW t \in Thread, Count(t)
      PROVE  BlocksPartition'
  <2>1. /\ freeBits' = freeBits /\ dir' = dir /\ block' = block
        /\ owned' = owned \cup {Flying(t)}
        /\ InFlight(t) /\ ~InFlight(t)'
        /\ \A u \in Thread : u # t => (InFlight(u)' <=> InFlight(u))
    BY <1>1, <1>4 DEF Count, Goto, InFlight, Flying, TypeOK
  <2>2. \A u \in Thread : Flying(u)' = Flying(u)
    BY <2>1 DEF Flying
  <2> QED BY <1>1, <2>1, <2>2 DEF BlocksPartition
<1>5. ASSUME NEW t \in Thread, FreeBegin(t)
      PROVE  BlocksPartition'
  <2>1. PICK id \in owned :
           /\ owned' = owned \ {id}
           /\ dir' = [dir EXCEPT ![t] = id[1]]
           /\ block' = [block EXCEPT ![t] = id[2]]
    BY <1>5 DEF FreeBegin
  <2>2. id \in BlockId /\ id = <<id[1], id[2]>> /\ id[1] \in Dir /\ id[2] \in Blocks(id[1])
    BY <1>1, <2>1 DEF TypeOK, BlockId
  <2>3. /\ freeBits' = freeBits
        /\ Flying(t)' = id
        /\ dir'[t] = id[1] /\ block'[t] = id[2]
        /\ \A u \in Thread : u # t => /\ Flying(u)' = Flying(u)
                                      /\ dir'[u] = dir[u] /\ block'[u] = block[u]
    BY <1>1, <1>5, <2>1, <2>2 DEF FreeBegin, Flying, TypeOK
  <2>4. /\ InFlight(t)' /\ ~InFlight(t)
        /\ \A u \in Thread : u # t => (InFlight(u)' <=> InFlight(u))
    BY <1>1, <1>5 DEF FreeBegin, Goto, InFlight, TypeOK
  <2>5. id[2] \notin freeBits[id[1]]
    BY <1>1, <2>1, <2>2 DEF BlocksPartition
  <2>6. ASSUME NEW u \in Thread, InFlight(u)'
        PROVE  /\ block'[u] \in Blocks(dir'[u]) \ freeBits'[dir'[u]]
               /\ Flying(u)' \notin owned'
               /\ \A w \in Thread \ {u} : InFlight(w)' => Flying(w)' # Flying(u)'
    <3>1. CASE u = t
      BY <1>1, <3>1, <2>1, <2>2, <2>3, <2>4, <2>5 DEF BlocksPartition
    <3>2. CASE u # t
      BY <1>1, <3>2, <2>1, <2>3, <2>4, <2>6 DEF BlocksPartition
    <3> QED BY <3>1, <3>2
  <2>7. ASSUME NEW x \in BlockId
        PROVE  x[2] \notin freeBits'[x[1]] <=>
                  (x \in owned' \/ \E u \in Thread : InFlight(u)' /\ Flying(u)' = x)
    BY <1>1, <2>1, <2>3, <2>4 DEF BlocksPartition
  <2> QED BY <2>6, <2>7 DEF BlocksPartition
<1>6. ASSUME NEW t \in Thread, Return(t)
      PROVE  BlocksPartition'
  <2> DEFINE d == dir[t]
             b == block[t]
  <2>1. /\ owned' = owned /\ dir' = dir /\ block' = block
        /\ freeBits' = [freeBits EXCEPT ![d] = @ \cup {b}]
        /\ InFlight(t) /\ ~InFlight(t)'
        /\ \A u \in Thread : u # t => (InFlight(u)' <=> InFlight(u))
    BY <1>1, <1>6 DEF Return, Goto, InFlight, TypeOK
  <2>2. d \in Dir /\ freeBits \in [Dir -> SUBSET Nat]
    BY <1>1 DEF TypeOK
  <2>3. \A e \in Dir : \A x : x \in freeBits'[e] <=> (x \in freeBits[e] \/ <<e, x>> = <<d, b>>)
    BY <2>1, <2>2
  <2>4. /\ \A u \in Thread : Flying(u)' = Flying(u)
        /\ Flying(t) = <<d, b>>
    BY <2>1 DEF Flying
  <2>5. \A id \in BlockId : id[1] \in Dir /\ id = <<id[1], id[2]>>
    BY DEF BlockId
  <2>6. ASSUME NEW u \in Thread, InFlight(u)'
        PROVE  /\ block'[u] \in Blocks(dir'[u]) \ freeBits'[dir'[u]]
               /\ Flying(u)' \notin owned'
               /\ \A w \in Thread \ {u} : InFlight(w)' => Flying(w)' # Flying(u)'
    <3>1. u # t /\ InFlight(u) /\ dir[u] \in Dir
      BY <1>1, <2>1, <2>6 DEF TypeOK
    <3>2. Flying(u) # <<d, b>>
      BY <1>1, <2>1, <2>4, <3>1 DEF BlocksPartition
    <3>3. block'[u] \in Blocks(dir'[u]) \ freeBits'[dir'[u]]
      BY <1>1, <2>1, <2>3, <3>1, <3>2 DEF BlocksPartition, Flying
    <3> QED BY <1>1, <2>1, <2>4, <3>1, <3>3 DEF BlocksPartition
  <2>7. ASSUME NEW id \in BlockId
        PROVE  id[2] \notin freeBits'[id[1]] <=>
                  (id \in owned' \/ \E u \in Thread : InFlight(u)' /\ Flying(u)' = id)
    <3>1. id[2] \in freeBits'[id[1]] <=> (id[2] \in freeBits[id[1]] \/ id = <<d, b>>)
      BY <2>3, <2>5
    <3>2. CASE id = <<d, b>>
      BY <1>1, <2>1, <2>4, <3>1, <3>2 DEF BlocksPartition
    <3>3. CASE id # <<d, b>>
      BY <1>1, <2>1, <2>4, <3>1, <3>3 DEF BlocksPartition
    <3> QED BY <3>2, <3>3
  <2> QED BY <2>6, <2>7 DEF BlocksPartition
<1>7. CASE UNCHANGED vars
  BY <1>1, <1>7 DEF vars, BlocksPartition, InFlight, Flying
<1> QED BY <1>2, <1>3, <1>4, <1>5, <1>6, <1>7 DEF Next, Step, Quiet

-----------------------------------------------------------------------------
(***************************************************************************)
(* The free space list, one directory at a time.                           *)
(***************************************************************************)
\* The types of a directory's list and counts, and FreeListComplete for it.
DirFree(d) ==
    /\ freeList[d] \in Seq(Spaces(d))
    /\ freeCount[d] \in [Spaces(d) -> Nat]
    /\ freeBits[d] \subseteq Blocks(d)
    /\ \A s \in Spaces(d) :
         /\ freeCount[d][s] = Cardinality(SpaceBits(d, s))
         /\ freeCount[d][s] > 0 <=> Listed(freeList[d], s)
    /\ IsInjective(freeList[d])

LEMMA InvDirFree == Inv => \A d \in Dir : DirFree(d)
  BY DEF Inv, TypeOK, FreeListComplete, DirFree, Listed

LEMMA SpaceBitsFinite ==
    ASSUME NEW d \in Dir, NEW s, freeBits[d] \subseteq Blocks(d)
    PROVE  IsFiniteSet(SpaceBits(d, s))
<1>1. IsFiniteSet(Blocks(d))
  BY TotalBlocksAssumption, FS_Interval DEF Blocks
<1>2. SpaceBits(d, s) \in SUBSET Blocks(d)
  BY DEF SpaceBits
<1> QED BY <1>1, <1>2, FS_Subset

LEMMA DirFreeUnchanged ==
    ASSUME NEW d, DirFree(d), freeList'[d] = freeList[d],
           freeCount'[d] = freeCount[d], freeBits'[d] = freeBits[d]
    PROVE  DirFree(d)'
  BY DEF DirFree, SpaceBits

LEMMA TakeDirFree ==
    ASSUME Inv, NEW t \in Thread, Take(t), NEW d, d = dir[t]
    PROVE  DirFree(d)'
<1>0. PICK s : s = Head(freeList[d])
  OBVIOUS
<1>1. /\ d \in Dir /\ DirFree(d)
      /\ freeBits \in [Dir -> SUBSET Nat]
      /\ freeCount = [e \in Dir |-> freeCount[e]]
      /\ freeList = [e \in Dir |-> freeList[e]]
  BY InvDirFree DEF Inv, TypeOK
<1>2. PICK b \in SpaceBits(d, s) : freeBits' = [freeBits EXCEPT ![d] = freeBits[d] \ {b}]
  BY <1>0 DEF Take, BitsAfterTake
<1>3. /\ freeList[d] # << >> /\ freeList[d] \in Seq(Spaces(d)) /\ IsInjective(freeList[d])
      /\ freeBits'[d] = freeBits[d] \ {b}
      /\ freeCount'[d] = [freeCount[d] EXCEPT ![s] = @ - 1]
      /\ freeList'[d] = IF freeCount[d][s] = 1 THEN Tail(freeList[d]) ELSE freeList[d]
  BY <1>0, <1>1, <1>2 DEF Take, ListAfterTake, DirFree
<1>4. s \in Spaces(d) /\ Listed(freeList[d], s)
  BY <1>0, <1>3 DEF Listed
<1>5. /\ Tail(freeList[d]) \in Seq(Spaces(d))
      /\ IsInjective(Tail(freeList[d]))
      /\ \A x : Listed(Tail(freeList[d]), x) <=> (Listed(freeList[d], x) /\ x # s)
  BY <1>0, <1>3, PopFrontProperties
<1>6. /\ SpaceBits(d, s)' = SpaceBits(d, s) \ {b}
      /\ \A x \in Spaces(d) : x # s => SpaceBits(d, x)' = SpaceBits(d, x)
  BY <1>2, <1>3 DEF SpaceBits
<1>7. Cardinality(SpaceBits(d, s)') = Cardinality(SpaceBits(d, s)) - 1
  BY <1>1, <1>2, <1>6, SpaceBitsFinite, FS_RemoveElement DEF DirFree
<1>8. freeCount[d] \in [Spaces(d) -> Nat] /\ freeCount[d][s] \in Nat /\ freeCount[d][s] > 0
  BY <1>1, <1>4 DEF DirFree
<1>9. freeCount'[d] \in [Spaces(d) -> Nat]
  BY <1>3, <1>4, <1>8
<1>10. ASSUME NEW x \in Spaces(d)
       PROVE  /\ freeCount'[d][x] = Cardinality(SpaceBits(d, x)')
              /\ freeCount'[d][x] > 0 <=> Listed(freeList'[d], x)
  <2>1. /\ freeCount[d][x] = Cardinality(SpaceBits(d, x))
        /\ freeCount[d][x] > 0 <=> Listed(freeList[d], x)
    BY <1>1 DEF DirFree
  <2>2. CASE x # s
    BY <2>1, <2>2, <1>3, <1>5, <1>6, <1>8
  <2>3. CASE x = s
    <3>1. freeCount'[d][x] = freeCount[d][s] - 1
      BY <2>3, <1>3, <1>4, <1>8
    <3>2. freeCount'[d][x] = Cardinality(SpaceBits(d, x)')
      BY <3>1, <2>1, <2>3, <1>7
    <3>3. CASE freeCount[d][s] = 1
      BY <3>1, <3>2, <3>3, <2>3, <1>3, <1>5
    <3>4. CASE freeCount[d][s] # 1
      BY <3>1, <3>2, <3>4, <2>3, <1>3, <1>4, <1>8
    <3> QED BY <3>3, <3>4
  <2> QED BY <2>2, <2>3
<1>11. freeList'[d] \in Seq(Spaces(d)) /\ IsInjective(freeList'[d])
  BY <1>3, <1>5
<1>12. freeBits'[d] \subseteq Blocks(d)
  BY <1>1, <1>3 DEF DirFree
<1> QED BY <1>9, <1>10, <1>11, <1>12 DEF DirFree

LEMMA ReturnDirFree ==
    ASSUME Inv, NEW t \in Thread, Return(t), NEW d, d = dir[t]
    PROVE  DirFree(d)'
<1>0. PICK b, s : b = block[t] /\ s = SpaceOf(b)
  OBVIOUS
<1>1. /\ d \in Dir /\ DirFree(d)
      /\ freeBits \in [Dir -> SUBSET Nat]
      /\ freeCount = [e \in Dir |-> freeCount[e]]
      /\ freeList = [e \in Dir |-> freeList[e]]
  BY InvDirFree DEF Inv, TypeOK
<1>2. b \in Blocks(d) /\ b \notin freeBits[d]
  BY <1>0 DEF Inv, BlocksPartition, InFlight, Return, Goto
<1>3. s \in Spaces(d)
  BY <1>0, <1>1, <1>2, SpaceInRange
<1>4. /\ freeBits'[d] = freeBits[d] \cup {b}
      /\ freeCount'[d] = [freeCount[d] EXCEPT ![s] = @ + 1]
      /\ freeList'[d] = IF freeCount[d][s] = 0 THEN Append(freeList[d], s) ELSE freeList[d]
  BY <1>0, <1>1 DEF Return, ListAfterReturn
<1>5. /\ freeCount[d] \in [Spaces(d) -> Nat] /\ freeCount[d][s] \in Nat
      /\ freeList[d] \in Seq(Spaces(d)) /\ IsInjective(freeList[d])
      /\ freeCount[d][s] > 0 <=> Listed(freeList[d], s)
  BY <1>1, <1>3 DEF DirFree
<1>6. freeCount[d][s] = 0 =>
        /\ Append(freeList[d], s) \in Seq(Spaces(d))
        /\ IsInjective(Append(freeList[d], s))
        /\ \A x : Listed(Append(freeList[d], s), x) <=> (Listed(freeList[d], x) \/ x = s)
  <2> HAVE freeCount[d][s] = 0
  <2>1. ~Listed(freeList[d], s)
    BY <1>5
  <2> QED BY <2>1, <1>3, <1>5, PushBackProperties
<1>7. /\ SpaceBits(d, s)' = SpaceBits(d, s) \cup {b}
      /\ \A x \in Spaces(d) : x # s => SpaceBits(d, x)' = SpaceBits(d, x)
      /\ b \notin SpaceBits(d, s)
  BY <1>0, <1>2, <1>4 DEF SpaceBits
<1>8. Cardinality(SpaceBits(d, s)') = Cardinality(SpaceBits(d, s)) + 1
  <2>1. IsFiniteSet(SpaceBits(d, s))
    BY <1>1, SpaceBitsFinite DEF DirFree
  <2> QED BY <2>1, <1>7, FS_AddElement
<1>9. freeCount'[d] \in [Spaces(d) -> Nat]
  BY <1>3, <1>4, <1>5
<1>10. ASSUME NEW x \in Spaces(d)
       PROVE  /\ freeCount'[d][x] = Cardinality(SpaceBits(d, x)')
              /\ freeCount'[d][x] > 0 <=> Listed(freeList'[d], x)
  <2>1. /\ freeCount[d][x] = Cardinality(SpaceBits(d, x))
        /\ freeCount[d][x] > 0 <=> Listed(freeList[d], x)
    BY <1>1 DEF DirFree
  <2>2. CASE x # s
    <3>1. freeCount'[d][x] = freeCount[d][x] /\ SpaceBits(d, x)' = SpaceBits(d, x)
      BY <2>2, <1>4, <1>5, <1>7
    <3>2. Listed(freeList'[d], x) <=> Listed(freeList[d], x)
      BY <2>2, <1>4, <1>6
    <3> QED BY <3>1, <3>2, <2>1
  <2>3. CASE x = s
    <3>1. freeCount'[d][x] = freeCount[d][s] + 1
      BY <2>3, <1>3, <1>4, <1>5
    <3>2. freeCount'[d][x] = Cardinality(SpaceBits(d, x)')
      BY <3>1, <2>1, <2>3, <1>8
    <3>3. Listed(freeList'[d], x)
      BY <2>3, <1>4, <1>5, <1>6
    <3> QED BY <3>1, <3>2, <3>3, <1>5
  <2> QED BY <2>2, <2>3
<1>11. freeList'[d] \in Seq(Spaces(d)) /\ IsInjective(freeList'[d])
  BY <1>4, <1>5, <1>6
<1>12. freeBits'[d] \subseteq Blocks(d)
  BY <1>1, <1>2, <1>4 DEF DirFree
<1> QED BY <1>9, <1>10, <1>11, <1>12 DEF DirFree

LEMMA NextDirFree ==
    ASSUME Inv, [Next]_vars, NEW d \in Dir
    PROVE  DirFree(d)'
<1>1. /\ DirFree(d)
      /\ freeBits \in [Dir -> SUBSET Nat]
      /\ freeCount = [e \in Dir |-> freeCount[e]]
      /\ freeList = [e \in Dir |-> freeList[e]]
  BY InvDirFree DEF Inv, TypeOK
<1>2. ASSUME NEW t \in Thread, Take(t)
      PROVE  DirFree(d)'
  <2>1. CASE d = dir[t]
    BY <1>2, <2>1, TakeDirFree
  <2>2. CASE d # dir[t]
    <3>1. freeBits'[d] = freeBits[d] /\ freeCount'[d] = freeCount[d] /\ freeList'[d] = freeList[d]
      BY <1>1, <1>2, <2>2 DEF Take
    <3> QED BY <1>1, <3>1, DirFreeUnchanged
  <2> QED BY <2>1, <2>2
<1>3. ASSUME NEW t \in Thread, Return(t)
      PROVE  DirFree(d)'
  <2>1. CASE d = dir[t]
    BY <1>3, <2>1, ReturnDirFree
  <2>2. CASE d # dir[t]
    <3>1. freeBits'[d] = freeBits[d] /\ freeCount'[d] = freeCount[d] /\ freeList'[d] = freeList[d]
      BY <1>1, <1>3, <2>2 DEF Return
    <3> QED BY <1>1, <3>1, DirFreeUnchanged
  <2> QED BY <2>1, <2>2
<1>4. ASSUME NEW t \in Thread, Quiet(t) \/ Count(t) \/ FreeBegin(t) \/ Uncount(t)
      PROVE  DirFree(d)'
  <2>1. freeBits' = freeBits /\ freeCount' = freeCount /\ freeList' = freeList
    BY <1>4 DEF Quiet, AllocBegin, Route, RouteFails, TakeFails, Disable, AddWeight,
       Count, FreeBegin, Uncount
  <2> QED BY <1>1, <2>1, DirFreeUnchanged
<1>5. CASE UNCHANGED vars
  BY <1>1, <1>5, DirFreeUnchanged DEF vars
<1> QED BY <1>2, <1>3, <1>4, <1>5 DEF Next, Step, Quiet

-----------------------------------------------------------------------------
(***************************************************************************)
(* The types.                                                              *)
(***************************************************************************)
LEMMA NextTypeOK ==
    ASSUME Inv, [Next]_vars
    PROVE  TypeOK'
<1>1. TypeOK
  BY DEF Inv
<1>2. \A d \in Dir : DirFree(d)'
  BY NextDirFree
<1>3. used' \in Nat
  <2>1. IsFiniteSet(owned') /\ IsFiniteSet(Freeing')
    <3>1. Freeing' \in SUBSET Thread
      BY DEF Freeing
    <3> QED BY <3>1, NextUsed, ThreadAssumption, FS_Subset
  <2>2. used' = Cardinality(owned') + Cardinality(Freeing')
    BY NextUsed DEF UsedCountsBlocks, Freeing
  <2> QED BY <2>1, <2>2, FS_CardinalityType
<1>4. freeBits' \in [Dir -> SUBSET Nat]
  <2>1. ASSUME NEW t \in Thread, Take(t) PROVE freeBits' \in [Dir -> SUBSET Nat]
    BY <1>1, <2>1 DEF Take, BitsAfterTake, TypeOK
  <2>2. ASSUME NEW t \in Thread, Return(t) PROVE freeBits' \in [Dir -> SUBSET Nat]
    BY <1>1, <2>2 DEF Return, TypeOK
  <2>3. CASE freeBits' = freeBits
    BY <1>1, <2>3 DEF TypeOK
  <2> QED BY <2>1, <2>2, <2>3 DEF Next, Step, AllocBegin, Route, RouteFails, TakeFails,
          Disable, Count, FreeBegin, Uncount, AddWeight, vars
<1>5. freeCount' = [d \in Dir |-> freeCount'[d]] /\ freeList' = [d \in Dir |-> freeList'[d]]
  BY <1>1 DEF TypeOK, Next, Step, AllocBegin, Route, RouteFails, TakeFails, Take, Return,
     Disable, Count, FreeBegin, Uncount, AddWeight, vars
<1>6. /\ pc' \in [Thread -> {"idle", "route", "take", "disable", "count",
                            "return", "uncount", "weigh"}]
      /\ enabled' \subseteq Dir
  <2> DEFINE Place == {"idle", "route", "take", "disable", "count",
                       "return", "uncount", "weigh"}
  <2>1. pc \in [Thread -> Place] /\ enabled \subseteq Dir /\ dir \in [Thread -> Dir]
    BY <1>1 DEF TypeOK
  <2>2. CASE UNCHANGED vars
    BY <2>1, <2>2 DEF vars
  <2>3. ASSUME NEW t \in Thread, Step(t)
        PROVE  (\E p \in Place : pc' = [pc EXCEPT ![t] = p]) /\ enabled' \subseteq Dir
    <3>1. CASE AllocBegin(t) \/ Route(t) \/ RouteFails(t) \/ TakeFails(t) \/ Take(t)
      BY <2>1, <3>1 DEF AllocBegin, Route, RouteFails, TakeFails, Take, Goto
    <3>2. CASE Disable(t) \/ Count(t) \/ FreeBegin(t) \/ Return(t)
      BY <2>1, <3>2 DEF Disable, Count, FreeBegin, Return, Goto
    <3>3. CASE Uncount(t) \/ AddWeight(t)
      BY <2>1, <3>3 DEF Uncount, AddWeight, Goto
    <3> QED BY <2>3, <3>1, <3>2, <3>3 DEF Step
  <2> HIDE DEF Place
  <2>4. ASSUME NEW t \in Thread, NEW p \in Place, pc' = [pc EXCEPT ![t] = p]
        PROVE  pc' \in [Thread -> Place]
    BY <2>1, <2>4
  <2>5. pc' \in [Thread -> Place] /\ enabled' \subseteq Dir
    BY <2>1, <2>2, <2>3, <2>4 DEF Next, vars
  <2> QED BY <2>5 DEF Place
<1>7. owned' \subseteq BlockId /\ dir' \in [Thread -> Dir] /\ block' \in [Thread -> Nat]
  <2>1. ASSUME NEW t \in Thread, Take(t)
        PROVE  owned' = owned /\ dir' = dir /\ block' \in [Thread -> Nat]
    BY <1>1, <2>1 DEF Take, SpaceBits, TypeOK
  <2>2. ASSUME NEW t \in Thread, Count(t)
        PROVE  owned' \subseteq BlockId /\ dir' = dir /\ block' = block
    <3>1. dir[t] \in Dir /\ block[t] \in Blocks(dir[t])
      BY <1>1, <2>2 DEF Inv, BlocksPartition, InFlight, Count, Goto, TypeOK
    <3>2. <<dir[t], block[t]>> \in BlockId
      BY <3>1 DEF BlockId
    <3> QED BY <1>1, <2>2, <3>2 DEF Count, TypeOK
  <2>3. ASSUME NEW t \in Thread, FreeBegin(t)
        PROVE  owned' \subseteq BlockId /\ dir' \in [Thread -> Dir] /\ block' \in [Thread -> Nat]
    <3>1. PICK id \in owned : /\ owned' = owned \ {id}
                              /\ dir' = [dir EXCEPT ![t] = id[1]]
                              /\ block' = [block EXCEPT ![t] = id[2]]
      BY <2>3 DEF FreeBegin
    <3>2. id[1] \in Dir /\ id[2] \in Blocks(id[1]) /\ id[2] \in Nat
      BY <1>1, <3>1, BlocksAreNat DEF TypeOK, BlockId
    <3> QED BY <1>1, <3>1, <3>2 DEF TypeOK
  <2>4. ASSUME NEW t \in Thread, Quiet(t) \/ Return(t) \/ Uncount(t)
        PROVE  owned' = owned /\ dir' \in [Thread -> Dir] /\ block' = block
    BY <1>1, <2>4 DEF Quiet, AllocBegin, Route, RouteFails, TakeFails, Disable, AddWeight,
       Return, Uncount, TypeOK
  <2>5. CASE UNCHANGED vars
    BY <1>1, <2>5 DEF vars, TypeOK
  <2> QED BY <1>1, <2>1, <2>2, <2>3, <2>4, <2>5 DEF Next, Step, Quiet, TypeOK
<1> QED BY <1>2, <1>3, <1>4, <1>5, <1>6, <1>7 DEF TypeOK, DirFree

-----------------------------------------------------------------------------
\* The free bits, the counts, the lists, the owners and the used bytes agree
\* after every interleaving of alloc_block and free_block.
THEOREM DiskInvariant == Spec => []Inv
<1>1. Init => Inv
  BY InitInv
<1>2. Inv /\ [Next]_vars => Inv'
  <2> SUFFICES ASSUME Inv, [Next]_vars PROVE Inv'
    OBVIOUS
  <2>1. FreeListComplete'
    BY NextDirFree DEF FreeListComplete, DirFree, Listed
  <2> QED BY <2>1, NextTypeOK, NextUsed, NextBlocksPartition DEF Inv
<1> QED BY <1>1, <1>2, PTL DEF Spec

\* The types, and with them that _used_bytes never wraps.
THEOREM TypeCorrect == Spec => []TypeOK
<1>1. Inv => TypeOK
  BY DEF Inv
<1> QED BY <1>1, DiskInvariant, PTL

\* alloc_block never hands out a block that is in use, free_block never
\* returns one twice, and no block is lost between them.
THEOREM BlocksCorrect == Spec => []BlocksPartition
<1>1. Inv => BlocksPartition
  BY DEF Inv
<1> QED BY <1>1, DiskInvariant, PTL

\* CacheDir::alloc_block finds a free block whenever the directory has one:
\* the space at the front of the list has a free bit.
THEOREM FreeListCorrect == Spec => []FreeListComplete
<1>1. Inv => FreeListComplete
  BY DEF Inv
<1> QED BY <1>1, DiskInvariant, PTL

\* used_bytes() is the blocks that are out, or on their way back.
THEOREM UsedCorrect == Spec => []UsedCountsBlocks
<1>1. Inv => UsedCountsBlocks
  BY DEF Inv
<1> QED BY <1>1, DiskInvariant, PTL
=============================================================================
