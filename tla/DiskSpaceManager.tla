-------------------------- MODULE DiskSpaceManager --------------------------
(***************************************************************************)
(* Disk block allocation (src/src/disk_space_manager.cpp): the free space  *)
(* list of every CacheDir, the CacheDirRouter, and DiskSpaceManager's      *)
(* alloc_block and free_block as threads run them.  The directory, the     *)
(* router and the used counter are each atomic on their own (a mutex, a    *)
(* mutex, a std::atomic), and nothing makes a whole call atomic: every     *)
(* critical section is one action, and a thread can be overtaken between   *)
(* any two.  Which enabled directory the weighted round robin picks is     *)
(* left open: the weights decide balance, not correctness.                 *)
(***************************************************************************)
EXTENDS Integers, Sequences, FiniteSets, Functions

CONSTANTS
    Thread,
    Dir,           \* cache directories
    TotalBlocks,   \* _total_block_count of each directory
    SpaceSize      \* BLOCK_COUNT_IN_SPACE

ASSUME ThreadAssumption == IsFiniteSet(Thread)
ASSUME DirAssumption == IsFiniteSet(Dir)
ASSUME TotalBlocksAssumption == TotalBlocks \in [Dir -> Nat]
ASSUME SpaceSizeAssumption == SpaceSize \in Nat \ {0}

VARIABLES
    freeBits,    \* per directory: the blocks whose free bit is set
    freeCount,   \* per directory and space: BlockSpace::free_count
    freeList,    \* per directory: _free_space_list, front first
    enabled,     \* directories the router may pick
    used,        \* _used_bytes, in blocks
    owned,       \* blocks that a DiskBlockItem refers to
    pc,          \* where each thread is in alloc_block or free_block
    dir,         \* dir_index of its current call
    block        \* block_index of its current call

vars == <<freeBits, freeCount, freeList, enabled, used, owned, pc, dir, block>>

Blocks(d) == 0..(TotalBlocks[d] - 1)
SpaceOf(b) == b \div SpaceSize
\* _init_free_space_list: whole spaces and one for the remaining blocks.
SpaceCount(d) == (TotalBlocks[d] + SpaceSize - 1) \div SpaceSize
Spaces(d) == 0..(SpaceCount(d) - 1)
SpaceBits(d, s) == {b \in freeBits[d] : SpaceOf(b) = s}
BlockId == UNION {{d} \X Blocks(d) : d \in Dir}

Init ==
    /\ freeBits = [d \in Dir |-> Blocks(d)]
    /\ freeCount = [d \in Dir |->
                      [s \in Spaces(d) |-> IF (s + 1) * SpaceSize <= TotalBlocks[d]
                                           THEN SpaceSize
                                           ELSE TotalBlocks[d] - s * SpaceSize]]
    /\ freeList = [d \in Dir |-> [i \in 1..SpaceCount(d) |-> i - 1]]
    /\ enabled = Dir
    /\ used = 0
    /\ owned = {}
    /\ pc = [t \in Thread |-> "idle"]
    /\ \E d \in Dir : dir = [t \in Thread |-> d]     \* not read before it is set
    /\ block = [t \in Thread |-> 0]

Goto(t, from, to) == pc[t] = from /\ pc' = [pc EXCEPT ![t] = to]

-----------------------------------------------------------------------------
\* DiskSpaceManager::alloc_block, one turn of its loop after another.
AllocBegin(t) ==
    /\ Goto(t, "idle", "route")
    /\ UNCHANGED <<freeBits, freeCount, freeList, enabled, used, owned, dir, block>>

\* next_dir_index finds an enabled directory.
Route(t) ==
    /\ Goto(t, "route", "take")
    /\ \E d \in enabled : dir' = [dir EXCEPT ![t] = d]
    /\ UNCHANGED <<freeBits, freeCount, freeList, enabled, used, owned, block>>

\* next_dir_index returns -1 and the call fails.
RouteFails(t) ==
    /\ Goto(t, "route", "idle")
    /\ enabled = {}
    /\ UNCHANGED <<freeBits, freeCount, freeList, enabled, used, owned, dir, block>>

(***************************************************************************)
(* CacheDir::alloc_block takes the first free block of the front space.  A *)
(* definition whose name starts with Bad is not part of the model: it is   *)
(* the definition after it with a plausible bug.                           *)
(***************************************************************************)
BadListAfterTake(d, s) ==
    IF freeCount[d][s] <= 2 THEN Tail(freeList[d]) ELSE freeList[d]
ListAfterTake(d, s) ==
    IF freeCount[d][s] = 1 THEN Tail(freeList[d]) ELSE freeList[d]

BadBitsAfterTake(d, b) == IF b = 0 THEN freeBits[d] ELSE freeBits[d] \ {b}
BitsAfterTake(d, b) == freeBits[d] \ {b}

Take(t) ==
    LET d == dir[t]
        s == Head(freeList[d])
    IN
    /\ Goto(t, "take", "count")
    /\ freeList[d] # << >>
    /\ \E b \in SpaceBits(d, s) :
         /\ \A c \in SpaceBits(d, s) : b <= c
         /\ freeBits' = [freeBits EXCEPT ![d] = BitsAfterTake(d, b)]
         /\ block' = [block EXCEPT ![t] = b]
    /\ freeCount' = [freeCount EXCEPT ![d][s] = @ - 1]
    /\ freeList' = [freeList EXCEPT ![d] = ListAfterTake(d, s)]
    /\ UNCHANGED <<enabled, used, owned, dir>>

\* It returns -1: no space has a free block.
TakeFails(t) ==
    /\ Goto(t, "take", "disable")
    /\ freeList[dir[t]] = << >>
    /\ UNCHANGED <<freeBits, freeCount, freeList, enabled, used, owned, dir, block>>

\* disable_dir, whatever happened to the directory since.
Disable(t) ==
    /\ Goto(t, "disable", "route")
    /\ enabled' = enabled \ {dir[t]}
    /\ UNCHANGED <<freeBits, freeCount, freeList, used, owned, dir, block>>

UsedAfterAlloc == used + 1

\* The call counts the block and hands it to a new DiskBlockItem.
Count(t) ==
    /\ Goto(t, "count", "idle")
    /\ used' = UsedAfterAlloc
    /\ owned' = owned \cup {<<dir[t], block[t]>>}
    /\ UNCHANGED <<freeBits, freeCount, freeList, enabled, dir, block>>

-----------------------------------------------------------------------------
\* DiskSpaceManager::free_block, from the deleter of a DiskBlockItem, which
\* runs in whichever thread drops the last reference.
FreeBegin(t) ==
    \E id \in owned :
        /\ Goto(t, "idle", "return")
        /\ owned' = owned \ {id}
        /\ dir' = [dir EXCEPT ![t] = id[1]]
        /\ block' = [block EXCEPT ![t] = id[2]]
        /\ UNCHANGED <<freeBits, freeCount, freeList, enabled, used>>

\* CacheDir::free_block puts a space that has a free block again at the back.
ListAfterReturn(d, s) ==
    IF freeCount[d][s] = 0 THEN Append(freeList[d], s) ELSE freeList[d]

Return(t) ==
    LET d == dir[t]
        s == SpaceOf(block[t])
    IN
    /\ Goto(t, "return", "uncount")
    /\ freeBits' = [freeBits EXCEPT ![d] = @ \cup {block[t]}]
    /\ freeCount' = [freeCount EXCEPT ![d][s] = @ + 1]
    /\ freeList' = [freeList EXCEPT ![d] = ListAfterReturn(d, s)]
    /\ UNCHANGED <<enabled, used, owned, dir, block>>

BadUsedAfterFree == IF enabled = Dir THEN used ELSE used - 1
UsedAfterFree == used - 1

Uncount(t) ==
    /\ Goto(t, "uncount", "weigh")
    /\ used' = UsedAfterFree
    /\ UNCHANGED <<freeBits, freeCount, freeList, enabled, owned, dir, block>>

\* add_dir_weight enables the directory again.
AddWeight(t) ==
    /\ Goto(t, "weigh", "idle")
    /\ enabled' = enabled \cup {dir[t]}
    /\ UNCHANGED <<freeBits, freeCount, freeList, used, owned, dir, block>>

Step(t) ==
    \/ AllocBegin(t) \/ Route(t) \/ RouteFails(t) \/ Take(t) \/ TakeFails(t)
    \/ Disable(t) \/ Count(t)
    \/ FreeBegin(t) \/ Return(t) \/ Uncount(t) \/ AddWeight(t)

Next == \E t \in Thread : Step(t)

Spec == Init /\ [][Next]_vars

-----------------------------------------------------------------------------
\* _used_bytes is a size_t: used \in Nat says that free_block never wraps it.
TypeOK ==
    /\ freeBits \in [Dir -> SUBSET Nat] /\ \A d \in Dir : freeBits[d] \subseteq Blocks(d)
    /\ \A d \in Dir : freeCount[d] \in [Spaces(d) -> Nat]
    /\ freeCount = [d \in Dir |-> freeCount[d]]
    /\ \A d \in Dir : freeList[d] \in Seq(Spaces(d))
    /\ freeList = [d \in Dir |-> freeList[d]]
    /\ enabled \subseteq Dir
    /\ used \in Nat
    /\ owned \subseteq BlockId
    /\ pc \in [Thread -> {"idle", "route", "take", "disable", "count",
                          "return", "uncount", "weigh"}]
    /\ dir \in [Thread -> Dir]
    /\ block \in [Thread -> Nat]

\* The thread holds a block that is neither free nor owned.
InFlight(t) == pc[t] \in {"count", "return"}
Flying(t) == <<dir[t], block[t]>>

\* Every block is in exactly one place: free, owned by one DiskBlockItem, or
\* in the hands of one thread.  No block is allocated twice, freed twice
\* (the DCHECK_EQ in CacheDir::free_block) or lost.
BlocksPartition ==
    /\ \A t \in Thread : InFlight(t) =>
         /\ block[t] \in Blocks(dir[t]) \ freeBits[dir[t]]
         /\ Flying(t) \notin owned
         /\ \A u \in Thread \ {t} : InFlight(u) => Flying(u) # Flying(t)
    /\ \A id \in BlockId :
         id[2] \notin freeBits[id[1]] <=>
            (id \in owned \/ \E t \in Thread : InFlight(t) /\ Flying(t) = id)

\* The list holds each space that has a free block once and no other, and
\* free_count is the number of free bits: the DCHECK_NE on find_first holds
\* and no free block is out of reach.
FreeListComplete ==
    \A d \in Dir :
        /\ \A s \in Spaces(d) :
             /\ freeCount[d][s] = Cardinality(SpaceBits(d, s))
             /\ freeCount[d][s] > 0 <=> \E i \in 1..Len(freeList[d]) : freeList[d][i] = s
        /\ IsInjective(freeList[d])

\* used_bytes() is the owned blocks and those on their way back to the
\* directory: it never wraps, and is exact when nobody is freeing.
UsedCountsBlocks ==
    used = Cardinality(owned) + Cardinality({t \in Thread : pc[t] \in {"return", "uncount"}})

\* disk_space_manager.cpp:219 says that when no directory is enabled "all
\* disks are full".  At rest, then, a directory that is not enabled has no
\* free block.
DisabledIsFull ==
    (\A t \in Thread : pc[t] = "idle") =>
        \A d \in Dir \ enabled : freeBits[d] = {}
=============================================================================
