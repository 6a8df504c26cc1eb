-------------------------- MODULE MemSpaceManager --------------------------
(***************************************************************************)
(* The memory accounting of src/src/mem_space_manager.cpp together with    *)
(* the loop of StarCacheImpl::_alloc_cache_item and _alloc_block_segment   *)
(* that drives it: try to allocate, evict, try again as an urgent request. *)
(* inc_mem and dec_mem run under the manager's mutex and are one action    *)
(* each.  A refused request leaves its size in _need_bytes, and memory     *)
(* that is given back moves to the private quota until that need is met,   *)
(* so that what an evicting request frees is not taken by a fresh one.     *)
(***************************************************************************)
EXTENDS Integers, FiniteSetsExt

CONSTANTS
    Requester,   \* threads in one of the two allocation loops
    Object,      \* cells for the allocated cache items and segments
    Size,        \* sizes of requests
    Quota,       \* the zones that MemCache::init adds
    Threshold,   \* FLAGS_alloc_mem_threshold, a percentage
    MaxRetry,    \* FLAGS_max_retry_when_allocate
    MaxNeed      \* bound on _need_bytes, which failed requests only raise

ASSUME ObjectAssumption == IsFiniteSet(Object)
ASSUME SizeAssumption == Size \subseteq Nat \ {0}
ASSUME QuotaAssumption == Quota \in Nat
ASSUME ThresholdAssumption == Threshold \in 0..100
ASSUME BoundAssumption == MaxRetry \in Nat \ {0} /\ MaxNeed \in Nat

VARIABLES
    usedBytes,     \* _used_bytes
    privateQuota,  \* _private_quota_bytes
    need,          \* _need_bytes
    object,        \* size of each live object, 0 where there is none
    want,          \* the size each requester asks for, 0 when it asks nothing
    attempt,       \* i of its loop: attempts that have failed
    phase,         \* "idle", "alloc" (about to call inc_mem) or "evict"
    freed,         \* history: bytes given back since its last refusal, at
                   \* most its size
    outbid         \* history: another urgent request was served from the
                   \* private quota since its last refusal

memVars == <<usedBytes, privateQuota, need, object, want, attempt, phase, freed, outbid>>

MemInit ==
    /\ usedBytes = 0 /\ privateQuota = 0 /\ need = 0
    /\ object = [o \in Object |-> 0]
    /\ want = [t \in Requester |-> 0]
    /\ attempt = [t \in Requester |-> 0]
    /\ phase = [t \in Requester |-> "idle"]
    /\ freed = [t \in Requester |-> 0]
    /\ outbid = [t \in Requester |-> FALSE]

\* The second attempt and the later ones may take the private quota.
Urgent(t) == attempt[t] > 0

(***************************************************************************)
(* inc_mem.  A definition whose name starts with Bad is not part of the    *)
(* model: it is the definition after it with a plausible bug.              *)
(***************************************************************************)
BadFitsPrivate(t) == privateQuota >= want[t]
FitsPrivate(t) == Urgent(t) /\ privateQuota >= want[t]

BadUpperThreshold == (Quota * Threshold) \div 100
UpperThreshold == ((Quota - privateQuota) * Threshold) \div 100

\* The private quota is reserved, not used: a grant from it counts.
BadUsedWithPrivate(t) == usedBytes
UsedWithPrivate(t) == usedBytes + want[t]

FitsPublic(t) == usedBytes + want[t] < UpperThreshold

\* The loop leaves with an object of the requested size.
Leave(t) ==
    /\ phase' = [phase EXCEPT ![t] = "idle"]
    /\ want' = [want EXCEPT ![t] = 0]
    /\ attempt' = [attempt EXCEPT ![t] = 0]

Obtain(t, o) ==
    /\ object[o] = 0
    /\ object' = [object EXCEPT ![o] = want[t]]
    /\ Leave(t)

GrantPrivate(t, o) ==
    /\ phase[t] = "alloc" /\ FitsPrivate(t)
    /\ privateQuota' = privateQuota - want[t]
    /\ usedBytes' = UsedWithPrivate(t)
    /\ Obtain(t, o)
    /\ outbid' = [r \in Requester |-> outbid[r] \/ (Urgent(t) /\ r # t)]
    /\ UNCHANGED <<need, freed>>

GrantPublic(t, o) ==
    /\ phase[t] = "alloc" /\ ~FitsPrivate(t) /\ FitsPublic(t)
    /\ usedBytes' = usedBytes + want[t]
    /\ Obtain(t, o)
    /\ UNCHANGED <<privateQuota, need, freed, outbid>>

Refuse(t) ==
    /\ phase[t] = "alloc" /\ ~FitsPrivate(t) /\ ~FitsPublic(t)
    /\ need + want[t] <= MaxNeed
    /\ need' = need + want[t]
    /\ phase' = [phase EXCEPT ![t] = "evict"]
    /\ freed' = [freed EXCEPT ![t] = 0]
    /\ outbid' = [outbid EXCEPT ![t] = FALSE]
    /\ UNCHANGED <<usedBytes, privateQuota, object, want, attempt>>

(***************************************************************************)
(* dec_mem, when the last shared_ptr to an object goes: during a           *)
(* requester's eviction, or at any time because a reader or a remove held  *)
(* the object.                                                             *)
(***************************************************************************)
Served(size) == IF need >= size THEN size ELSE need

Free(o) ==
    LET size == object[o] IN
    /\ size > 0
    /\ privateQuota' = privateQuota + Served(size)
    /\ need' = need - Served(size)
    /\ usedBytes' = usedBytes - size
    /\ object' = [object EXCEPT ![o] = 0]
    /\ freed' = [t \in Requester |->
                    IF freed[t] + size <= want[t] THEN freed[t] + size ELSE want[t]]
    /\ UNCHANGED <<want, attempt, phase, outbid>>

\* The loops: how much an eviction frees before the next attempt is left
\* open, victims may be held by readers.
Request(t, size) ==
    /\ phase[t] = "idle"
    /\ phase' = [phase EXCEPT ![t] = "alloc"]
    /\ want' = [want EXCEPT ![t] = size]
    /\ freed' = [freed EXCEPT ![t] = 0]
    /\ outbid' = [outbid EXCEPT ![t] = FALSE]
    /\ UNCHANGED <<usedBytes, privateQuota, need, object, attempt>>

Retry(t) ==
    /\ phase[t] = "evict" /\ attempt[t] + 1 < MaxRetry
    /\ attempt' = [attempt EXCEPT ![t] = @ + 1]
    /\ phase' = [phase EXCEPT ![t] = "alloc"]
    /\ UNCHANGED <<usedBytes, privateQuota, need, object, want, freed, outbid>>

GiveUp(t) ==
    /\ phase[t] = "evict" /\ attempt[t] + 1 = MaxRetry
    /\ Leave(t)
    /\ UNCHANGED <<usedBytes, privateQuota, need, object, freed, outbid>>

MemNext ==
    \/ \E t \in Requester, size \in Size : Request(t, size)
    \/ \E t \in Requester, o \in Object : GrantPrivate(t, o)
    \/ \E t \in Requester, o \in Object : GrantPublic(t, o)
    \/ \E t \in Requester : Refuse(t)
    \/ \E t \in Requester : Retry(t)
    \/ \E t \in Requester : GiveUp(t)
    \/ \E o \in Object : Free(o)

MemSpec == MemInit /\ [][MemNext]_memVars

-----------------------------------------------------------------------------
\* The reserve and the need are unsigned in effect: no grant takes more than
\* is reserved, no release serves more than is needed.
MemTypeOK ==
    /\ usedBytes \in Int
    /\ privateQuota \in Nat /\ need \in Nat
    /\ object \in [Object -> Nat]
    /\ want \in [Requester -> Nat]
    /\ attempt \in [Requester -> 0..(MaxRetry - 1)]
    /\ phase \in [Requester -> {"idle", "alloc", "evict"}]
    /\ freed \in [Requester -> Nat]
    /\ outbid \in [Requester -> BOOLEAN]

\* used_bytes() is what the live objects take, through refusals and retries.
UsedIsLive == usedBytes = SumFunctionOnSet(object, Object)

\* The size_t subtraction _used_bytes -= size in dec_mem never wraps.
NoWrap == \A o \in Object : object[o] <= usedBytes

\* Live objects and the reserve together stay within the quota that
\* MemCacheOptions gives, whatever mix of urgent and plain requests runs.
WithinQuota == usedBytes + privateQuota <= Quota

\* What private quota is for: a request that was refused, and since whose
\* refusal at least its size was given back, is served at its urgent attempt
\* unless another urgent request got there first.  Fresh requests cannot
\* take the room its eviction made.
EvictorIsServed ==
    \A t \in Requester :
        (phase[t] = "alloc" /\ Urgent(t) /\ freed[t] = want[t] /\ ~outbid[t])
            => FitsPrivate(t)
=============================================================================
