----------------------------- MODULE DiskStore ------------------------------
(***************************************************************************)
(* Where the blocks of the disk cache lie, and what becomes of them there: *)
(* the router that chooses a directory (CacheDirRouter), the block files   *)
(* of a directory (CacheDir, src/src/disk_space_manager.cpp), reads and    *)
(* writes of a block with their checksums (src/src/disk_cache.cpp), and    *)
(* the calls of BlockFile, which may fail or fall short.  Which block of a *)
(* directory is free is the matter of DiskSpaceManager.                    *)
(*                                                                         *)
(* Sizes and offsets count slices; that a slice is read and written to the *)
(* byte is shown for BlockLayout.  An offset that is no multiple of the    *)
(* slice size is refused without effect, as is a call without any          *)
(* directory, and neither is modelled.                                     *)
(***************************************************************************)
EXTENDS Integers, Sequences, FiniteSetsExt, Functions

CONSTANTS Client,        \* each has at most one DiskBlockItem, makes the calls on it and
                         \* signs what it writes
          Quotas,        \* sequences: the quota of every directory
          BlockSlices, FileSlices,
          MaxFree        \* bounds how often a block is freed

\* Blocks are numbered through the files of a directory by division.
ASSUME FileSizeAssumption == /\ BlockSlices \in Nat \ {0} /\ FileSlices \in Nat \ {0}
                             /\ FileSlices % BlockSlices = 0

\* A directory may have no room at all.
ASSUME QuotasAssumption == \A q \in Quotas : q \in Seq(Nat)

VARIABLES quota,         \* the configured directories; it never changes
          checked,       \* enable_disk_checksum; it never changes
          opened,        \* how many directories the manager has
          files,         \* directory -> file -> position -> content
          router,        \* _dir_weights
          free,          \* directory -> its free blocks
          blockOf,       \* client -> directory and index of its block, <<>> if it has none
          step,          \* client -> where it is in alloc_block or free_block, and for which directory
          sums,          \* client -> checksums of its block
          wrote,         \* client -> what it wrote to its block last
          hurt,          \* client -> whether a write to its block failed or fell short
          answer,        \* what the last step read successfully, and for whom, <<>> if it was no such read
          frees

config == <<quota, checked>>
dirState == <<opened, files>>
item == <<sums, wrote, hurt>>
storeVars == <<config, dirState, router, free, blockOf, step, item, answer, frees>>

Hole == "hole"     \* never written since the file was created
Old == "old"       \* written before the last crash
Torn == "torn"     \* partly written
Noise == "noise"   \* memory that was not initialized

\* What a client writes is none of these.
ASSUME ClientAssumption == IsFiniteSet(Client) /\ Client \cap {Hole, Old, Torn, Noise} = {}

Dirs == 1 .. Len(quota)
Slices == 0 .. BlockSlices - 1
Segments == {lo .. hi : lo \in Slices, hi \in Slices} \ {{}}

-----------------------------------------------------------------------------
(* Block files *)

BadBlockCount(d) == (quota[d] + BlockSlices - 1) \div BlockSlices

BlockCount(d) == quota[d] \div BlockSlices

FileBlockCount == FileSlices \div BlockSlices

\* Whole files and one for what remains.
FileCount(d) == quota[d] \div FileSlices + (IF quota[d] % FileSlices > 0 THEN 1 ELSE 0)
FileSize(d, f) == IF f < quota[d] \div FileSlices THEN FileSlices ELSE quota[d] % FileSlices

NewFiles(d, content) == [f \in 0 .. FileCount(d) - 1 |-> [p \in 0 .. FileSize(d, f) - 1 |-> content]]

FileOf(b) == b \div FileBlockCount

BadOffsetOf(b, s) == (b \div FileBlockCount) * BlockSlices + s

OffsetOf(b, s) == (b % FileBlockCount) * BlockSlices + s

\* What is in the slices of the block of client c, past the end of the file too.
Stored(c) == LET d == blockOf[c][1] b == blockOf[c][2]
             IN  [s \in Slices |-> IF OffsetOf(b, s) \in DOMAIN files[d][FileOf(b)] THEN files[d][FileOf(b)][OffsetOf(b, s)] ELSE Noise]

\* The files after data (slice -> content) has been put into the block of c.
FilesWith(c, data) == LET d == blockOf[c][1] b == blockOf[c][2]
                          At(p) == {s \in DOMAIN data : OffsetOf(b, s) = p}
                      IN  [files EXCEPT ![d][FileOf(b)] = [p \in DOMAIN @ |-> IF At(p) = {} THEN @[p] ELSE data[CHOOSE s \in At(p) : TRUE]]]

-----------------------------------------------------------------------------
(* The manager comes up: a directory at a time, its block files removed and *)
(* created anew.                                                            *)

NewWeight(d) == [weight |-> quota[d], cur |-> quota[d], enable |-> TRUE]

AddCacheDir == /\ opened < Len(quota)
               /\ opened' = opened + 1
               /\ files' = [files EXCEPT ![opened'] = NewFiles(opened', Hole)]
               /\ router' = Append(router, NewWeight(opened'))
               /\ UNCHANGED <<config, free, blockOf, step, item, answer, frees>>

\* A file cannot be removed, opened or allocated: the next attempt starts with a reset.
AddCacheDirFails == /\ opened < Len(quota)
                    /\ \E gone \in SUBSET DOMAIN files[opened + 1] :
                          files' = [files EXCEPT ![opened + 1] = [f \in DOMAIN @ |-> IF f \in gone THEN NewFiles(opened + 1, Hole)[f] ELSE @[f]]]
                    /\ opened' = 0
                    /\ router' = <<>>
                    /\ UNCHANGED <<config, free, blockOf, step, item, answer, frees>>

Up == opened = Len(quota)

AllFree == [d \in Dirs |-> 0 .. BlockCount(d) - 1]
Each(value) == [c \in Client |-> value]

\* The process ends and starts again. Only the files outlive it.
Crash == /\ Up
         /\ opened' = 0 /\ router' = <<>> /\ free' = AllFree
         /\ blockOf' = Each(<<>>) /\ step' = Each(<<"idle">>)
         /\ sums' = Each(<<>>) /\ wrote' = Each(<<>>) /\ hurt' = Each(FALSE)
         /\ answer' = <<>>
         /\ files' = [d \in Dirs |-> [f \in DOMAIN files[d] |-> [p \in DOMAIN files[d][f] |-> IF files[d][f][p] = Hole THEN Hole ELSE Old]]]
         /\ UNCHANGED <<config, frees>>

-----------------------------------------------------------------------------
(* The router *)

Enabled == {d \in DOMAIN router : router[d].enable}

\* The directories that are enabled have gained their weight.
Raised(d) == router[d].cur + router[d].weight

\* The first of the heaviest.
Heaviest == CHOOSE d \in Enabled : /\ \A e \in Enabled : Raised(e) <= Raised(d)
                                   /\ \A e \in Enabled : e < d => Raised(e) < Raised(d)

Weights == [d \in DOMAIN router |-> router[d].weight]

BadTotalWeight == SumFunctionOnSet(Weights, DOMAIN router)

TotalWeight == SumFunctionOnSet(Weights, Enabled)

Moves(c, from, to) == step[c] = from /\ step' = [step EXCEPT ![c] = to]

\* next_dir_index
NextDir(c) == /\ Enabled # {}
              /\ Moves(c, <<"route">>, <<"take", Heaviest>>)
              /\ router' = [d \in DOMAIN router |-> CASE d = Heaviest -> [router[d] EXCEPT !.cur = Raised(d) - TotalWeight]
                                                      [] d \in Enabled \ {Heaviest} -> [router[d] EXCEPT !.cur = Raised(d)]
                                                      [] OTHER -> router[d]]
              /\ answer' = <<>>
              /\ UNCHANGED <<config, dirState, free, blockOf, item, frees>>

NoDir(c) == /\ Moves(c, <<"route">>, <<"idle">>)
            /\ Enabled = {}
            /\ answer' = <<>>
            /\ UNCHANGED <<config, dirState, router, free, blockOf, item, frees>>

DisableDir(c) == \E d \in Dirs :
                   /\ Moves(c, <<"disable", d>>, <<"route">>)
                   /\ router' = [router EXCEPT ![d].enable = FALSE]
                   /\ answer' = <<>>
                   /\ UNCHANGED <<config, dirState, free, blockOf, item, frees>>

AddDirWeight(c) == \E d \in Dirs :
                     /\ Moves(c, <<"weigh", d>>, <<"idle">>)
                     /\ router' = [router EXCEPT ![d].cur = @ + BlockSlices, ![d].enable = TRUE]
                     /\ answer' = <<>>
                     /\ UNCHANGED <<config, dirState, free, blockOf, item, frees>>

-----------------------------------------------------------------------------
(* Block items *)

NewBlockItem(c) == /\ Up /\ blockOf[c] = <<>>
                   /\ Moves(c, <<"idle">>, <<"route">>)
                   /\ answer' = <<>>
                   /\ UNCHANGED <<config, dirState, router, free, blockOf, item, frees>>

\* The checksums are not initialized.
TakeBlock(c) == \E d \in Dirs :
                  /\ Moves(c, <<"take", d>>, <<"idle">>)
                  /\ free[d] # {}
                  /\ free' = [free EXCEPT ![d] = @ \ {Min(@)}]
                  /\ blockOf' = [blockOf EXCEPT ![c] = <<d, Min(free[d])>>]
                  /\ sums' = [sums EXCEPT ![c] = [s \in Slices |-> Noise]]
                  /\ answer' = <<>>
                  /\ UNCHANGED <<config, dirState, router, wrote, hurt, frees>>

NoBlock(c) == \E d \in Dirs :
                /\ Moves(c, <<"take", d>>, <<"disable", d>>)
                /\ free[d] = {}
                /\ answer' = <<>>
                /\ UNCHANGED <<config, dirState, router, free, blockOf, item, frees>>

Idle(c) == step[c] = <<"idle">> /\ blockOf[c] # <<>>

\* The last reference to the item goes: CacheDir::free_block.
DeleteItem(c) == /\ Idle(c)
                 /\ frees < MaxFree
                 /\ frees' = frees + 1
                 /\ free' = [free EXCEPT ![blockOf[c][1]] = @ \cup {blockOf[c][2]}]
                 /\ blockOf' = [blockOf EXCEPT ![c] = <<>>]
                 /\ step' = [step EXCEPT ![c] = <<"weigh", blockOf[c][1]>>]
                 /\ sums' = [sums EXCEPT ![c] = <<>>] /\ wrote' = [wrote EXCEPT ![c] = <<>>]
                 /\ hurt' = [hurt EXCEPT ![c] = FALSE]
                 /\ answer' = <<>>
                 /\ UNCHANGED <<config, dirState, router>>

-----------------------------------------------------------------------------
(* write_block and read_block. Calls on a block do not overlap: its item is *)
(* locked, and blocks do not share a byte.                                  *)

With(f, data) == [s \in DOMAIN f \cup DOMAIN data |-> IF s \in DOMAIN data THEN data[s] ELSE f[s]]

\* The checksums are updated before the write and whatever becomes of it.
WriteBlock(c, data) == /\ Idle(c)
                       /\ sums' = [sums EXCEPT ![c] = IF checked THEN With(@, data) ELSE @]
                       /\ wrote' = [wrote EXCEPT ![c] = With(@, data)]
                       /\ answer' = <<>>
                       /\ UNCHANGED <<config, opened, router, free, blockOf, step, frees>>

PWrite(c) == \E segment \in Segments :
               LET data == [s \in segment |-> c]
               IN  /\ WriteBlock(c, data)
                   /\ files' = FilesWith(c, data)
                   /\ UNCHANGED hurt

\* pwrite fails, which is reported, or writes less, which is not noticed.
PWriteFallsShort(c) == \E segment \in Segments : \E end \in segment, torn \in BOOLEAN :
                         /\ WriteBlock(c, [s \in segment |-> c])
                         /\ files' = FilesWith(c, [s \in {s \in segment : s < end \/ (s = end /\ torn)} |-> IF s = end THEN Torn ELSE c])
                         /\ hurt' = [hurt EXCEPT ![c] = TRUE]

\* What the checksums let pass. One that was never computed may match anything.
Verified(c, data) == ~checked \/ \A s \in DOMAIN data : sums[c][s] \in {data[s], Noise}

\* pread fills the buffer up to end; what is behind it is what was in memory.
PRead(c) == /\ Idle(c)
                /\ \E segment \in Segments : \E end \in segment \cup {Max(segment) + 1} :
                      LET data == [s \in segment |-> IF s < end THEN Stored(c)[s] ELSE Noise]
                      IN  /\ Verified(c, data)
                          /\ answer' = <<c, data, end \notin segment>>
                /\ UNCHANGED <<config, dirState, router, free, blockOf, step, item, frees>>

\* pread fails, or the checksums do not match.
ReadFails(c) == /\ Idle(c)
                /\ answer' = <<>>
                /\ UNCHANGED <<config, dirState, router, free, blockOf, step, item, frees>>

-----------------------------------------------------------------------------
StoreInit == /\ quota \in Quotas
             /\ checked \in BOOLEAN
             /\ opened = 0 /\ router = <<>> /\ free = AllFree
             /\ blockOf = Each(<<>>) /\ step = Each(<<"idle">>)
             /\ sums = Each(<<>>) /\ wrote = Each(<<>>) /\ hurt = Each(FALSE)
             /\ answer = <<>>
             /\ files = [d \in Dirs |-> NewFiles(d, Old)]
             /\ frees = 0

StoreNext == \/ AddCacheDir \/ AddCacheDirFails \/ Crash
             \/ \E c \in Client : \/ NewBlockItem(c) \/ NextDir(c) \/ NoDir(c) \/ TakeBlock(c) \/ NoBlock(c) \/ DisableDir(c)
                                  \/ PWrite(c) \/ PWriteFallsShort(c) \/ PRead(c) \/ ReadFails(c)
                                  \/ DeleteItem(c) \/ AddDirWeight(c)

StoreSpec == StoreInit /\ [][StoreNext]_storeVars

-----------------------------------------------------------------------------
(* Correctness *)

\* A read that returns OK has what was last written to the block by its
\* present owner, however many blocks share a file and whatever fell short
\* before or in this read (block_file.cpp does not look at the number of
\* bytes); without checksums, as long as nothing did.  What was written
\* before a restart is never read.
OkReadIsLastWrite ==
  answer # <<>> => LET c == answer[1] data == answer[2] full == answer[3]
                   IN  \A s \in DOMAIN data :
                          /\ data[s] # Old
                          /\ s \in DOMAIN wrote[c] /\ (checked \/ (full /\ ~hurt[c])) => data[s] = wrote[c][s]

\* Every block lies in one of the files of its directory, within its size.
WithinFiles == \A c \in Client : blockOf[c] # <<>> =>
                  /\ FileOf(blockOf[c][2]) < FileCount(blockOf[c][1])
                  /\ OffsetOf(blockOf[c][2], BlockSlices - 1) < FileSize(blockOf[c][1], FileOf(blockOf[c][2]))

Currents == [d \in DOMAIN router |-> router[d].cur]

\* How far the others can pull a directory away from its weight.
Slack == (Len(router) - 1) * Max(Range(Weights))

\* An allocation moves weight between the directories that are enabled, and
\* only a free adds some, to one directory: in total none is lost, whichever
\* directories are disabled in between, and no directory ends up so light
\* that the others are filled over and over before its turn comes, nor so
\* heavy that the others are never chosen.
RouterStaysSmooth ==
  /\ SumFunctionOnSet(Currents, DOMAIN router) >= SumFunctionOnSet(Weights, DOMAIN router)
  /\ \A d \in DOMAIN router : /\ router[d].cur >= router[d].weight - Slack
                             /\ router[d].cur <= router[d].weight + Slack + BlockSlices * frees
=============================================================================
