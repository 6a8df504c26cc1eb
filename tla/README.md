# A TLA+ model of StarCache

StarCache is a library that caches objects in memory and on disk. It runs in the threads of its
caller: there is no background thread, no message and no recovery of the disk contents. Whatever has
to be evicted, flushed or promoted is done by the call that needs the room. This directory holds
TLA+ modules of the library's own logic, TLC configurations that check them on small instances, and
proofs of most of the safety results for every instance. It covers the cache itself, the hash maps and the
B-tree that are kept in the same tree (`src/utils`), and the load generator.

Paths below are relative to the repository; line numbers are those of the commit beside this
directory.

## 1. Inventory

| Component | State | Operations | What makes it correct |
|---|---|---|---|
| StarCache core (`src/star_cache_impl.cpp`, `src/star_cache.cpp`) | the other components; the count of concurrent writes | `set`, `get`, `read`, `remove`, `pin`, `unpin`, and inside them: write, read, flush, promote, evict | a read returns the bytes of the object it found or an error; an object is visible only when it is whole; a pinned object stays; an object with nothing left leaves the index; every call returns |
| Cache item, block item (`src/cache_item.h`, `src/block_item.h`) | per item: size, state bits PINNED and RELEASED, per block a memory block (slices, clean/dirty) and a disk block (place, checksums) | `release`, `release_if_empty`, `pin`, `unpin`, `clear_disk_blocks`, `set_mem_block`, `set_disk_block`, `list_segments` | one thread only releases an item; a disk block holds the whole block |
| Offsets (`src/aux_funcs.h`, `src/aux_funcs.cpp`) | none | offset to block, slice and back; `align_iobuf` | ranges are neither short nor long at any boundary |
| Memory cache (`src/mem_cache.cpp`) | an eviction policy over block keys | `write_block`, `read_block`, `new_block_segment`, `new_cache_item`, `evict*` | memory is accounted from allocation to the last reference |
| Memory space manager (`src/mem_space_manager.cpp`) | quota, private quota, need, used | `inc_mem`, `dec_mem`, `reset` | used bytes exact and within the quota; room made for a waiting request is not taken by others |
| Disk cache (`src/disk_cache.cpp`) | an eviction policy over cache ids | `write_block`, `read_block`, `new_block_item`, `evict*` | a disk block has one owner; stale data is noticed |
| Disk space manager (`src/disk_space_manager.cpp`) | per directory: free bits, spaces, free-space list; router weights; used bytes | `alloc_block`, `free_block`, `write_block`, `read_block` | no block lost or handed out twice; a free block can be allocated |
| Block files (`src/block_file.cpp`, `disk_space_manager.h:44-64`) | file descriptors; the blocks of a directory, numbered through its files | open, preallocate, read, write | a block lies in one file and apart from the others; a read that succeeds returns what was written |
| Eviction policy (`src/eviction_policy.h`, `src/lru_eviction_policy*.h`) | tracked keys, handles | `add`, `touch`, `remove`, `evict`, `evict_for`, `Handle::~Handle` | a key with a handle is not evicted, other tracked keys can be |
| LRU container (`src/utils/lru_container.*`) | hash table, LRU list, reference counts, usage | `insert`, `lookup`, `release`, `erase`, `evict`, `evict_for`, `prune`; the same over several shards | counts match references; nothing freed is reachable; usage never wraps; a stored key is found after the table has grown |
| Access index (`src/hashtable_access_index.cpp`) | cache id to item | `insert`, `find`, `remove` | atomic operations |
| Sharded locks (`src/sharded_lock_manager.h`) | 2^n shared mutexes | shared / unique lock of a block key | exclusion per block |
| Admission policy (`src/size_based_admission_policy.cpp`) | a random generator | FLUSH / DELETE / SKIP for an evicted memory block | any answer is safe |
| Promotion policy (`src/capacity_based_promotion_policy.cpp`) | none (reads used bytes and quotas) | where to write a block; whether to promote after a read | any answer is safe |
| Hash maps (`src/utils/phmap/phmap.h`, `src/utils/parallel_hash_map.h`, `src/utils/dbd_hash_map.h`) | control bytes and slots, size, `growth_left`; per sub-table a shared mutex; or two copies and the index of the one in front | all of a map's interface: insert, find, erase, rehash, reserve, merge, swap, extract, compare, clear | the map that was asked for; an unsuccessful lookup ends; no access to a table without its lock; readers of the copies see one map |
| B-tree (`src/utils/phmap/btree.h`) | nodes with values, children, parent and position | insert with and without a hint, erase by iterator, range and key, search, merge, swap, walks both ways | a sorted container; iterators stand where they should after an erase |
| Blocking queues (`src/utils/blocking_queue.hpp`) | a deque, a shutdown flag, two conditions | put, get, try_put, try_get, waits, shutdown | first in, first out; no wakeup is lost |
| Load generator (`src/tools/starcache_tester.cpp`) | the current directory, mutexes per object, a queue of misses | readers, a writer, a remover, an updater | its own comparisons never fail for a reason other than the cache |

How they interact: the core finds items in the index, and holds them by `shared_ptr` for the length
of a call. Blocks of items are guarded by sharded locks that are taken and dropped several times
within one flush or promotion. Allocations of memory and disk blocks fail when the space managers
refuse; the core then asks the eviction policies for victims, finds each victim *by key* in the
index and flushes, deletes or clears it, which can itself allocate, evict and remove. The space
comes back when the last `shared_ptr` to a segment or a disk block goes, in any thread.

Hard behaviours, listed one by one under `hazards` in `PROJECT.json`: state that is read without a
lock and used after an allocation has evicted other things; victims found by key after the object
under the key was replaced; error paths that stop half-way; the last reference going in the middle
of somebody else's call; unsigned counters in many places; offsets at block, slice and object
boundaries; the bookkeeping of hash tables and trees, where one wrong byte shows only many calls
later. There are no timeouts, messages or durable state.

## 2. Modules

| Module | Models | Lines of code |
|---|---|---|
| `EvictionPolicy` | the promise of `eviction_policy.h`: which keys may be evicted | abstract specification |
| `LRUContainer` | one LRU shard, refined to `EvictionPolicy` | `lru_container.cpp:156-345` |
| `LRUContainerProofs` | its proofs | |
| `HandleTable` | the chained hash table of a shard and its growth | `lru_container.cpp:38-150` |
| `ShardedLRUContainer` | all shards with their tables, under the eviction policy | `lru_container.cpp:156-450`, `lru_eviction_policy-inl.h` |
| `MemSpaceManager` | `inc_mem`, `dec_mem` and the allocation loop that drives them | `mem_space_manager.cpp:30-60`, `star_cache_impl.cpp:675-702` |
| `DiskSpaceManager` | block allocation over several directories | `disk_space_manager.cpp:42-242` |
| `SpaceManagersProofs` | the proofs of both | |
| `DiskStore` | the router's weights, the files of a directory, reads and writes that fail or fall short, a restart over old files | `disk_space_manager.*`, `block_file.cpp`, `disk_cache.cpp` |
| `DiskStoreProofs` | its proofs | |
| `ArithmeticTheorems` | what the proofs need of quotients, of sums over finite sets and of folds over sequences | |
| `BlockLayout` | the bytes of one object: set, read, promote, flush, evict, with the block and slice arithmetic | `aux_funcs.h`, `star_cache_impl.cpp:110-318, 423-588`, `mem_cache.cpp:35-93`, `disk_cache.cpp:45-114` |
| `BlockLayoutProofs` | its proofs | |
| `StarCache` | the calls of the API as concurrent threads | `star_cache_impl.cpp:31-717`, `cache_item.h` |
| `StarCacheProofs` | its proofs: calls and items; disk blocks and what a set writes | |
| `RawHashSet` | one flat hash table: control bytes, probing, growth, tombstones | `phmap.h`, `raw_hash_set` |
| `FlatHashMap` | two maps in the hands of one thread: their whole interface | `phmap.h`, `raw_hash_set`, `raw_hash_map`; `phmap_base.h`, `node_handle` |
| `PartialMaps`, `AbstractMaps` | functions with a finite domain; maps as such, which `FlatHashMap` implements | abstract specification |
| `ParallelHashMap` | the parallel maps: threads, sub-tables, locks | `phmap.h`, `parallel_hash_set` and `_map`; `parallel_hash_map.h` |
| `AtomicIndex` | what threads that share maps rely on; `ParallelHashMap` and `DBDHashMap` implement it | abstract specification |
| `DBDHashMap` | a map in two copies | `dbd_hash_map.h` |
| `HashMapsProofs` | the proofs of both | |
| `BTree`, `OrderedContainers` | the nodes of a tree; two containers in the hands of one thread | `btree.h` |
| `AbstractOrder` | sorted sequences, which `OrderedContainers` implements | abstract specification |
| `BlockingQueue` | both queues, for any number of threads | `blocking_queue.hpp` |
| `AbstractQueue` | a queue with atomic calls, which `BlockingQueue` implements | abstract specification |
| `CacheTester` | the threads of the load generator, with a queue | `starcache_tester.cpp` |
| `LoadGeneratorProofs` | the proofs of the queue and of the load generator | |
| `MC*` | instances for TLC | |

Definitions named `Bad...` are faults placed next to the definition they stand in for. They are no
part of the model: each shows that a property notices a bug of that kind.

### LRUContainer and EvictionPolicy

An entry is a cell of a small arena with a `cell` state: `live`, `unlinked` (its last reference is
gone and the mutex dropped, `free()` not yet called) and `free`. `lru` is the list, oldest first,
`table` the hash table, `ref[h]` the entry a handle of the caller leads to. The actions are the
critical sections of the mutex; the late `free()` is the action `Free`. `EvictionPolicy` has two
variables, the tracked keys and the pairs of handle and key that protect a key; `Tracked` and
`Holders` map the container to it. `touch(key, false)` changes nothing that is modelled.

`ShardedLRUContainer` puts such shards behind `LruEvictionPolicy`. A shard's entries are found
through its `HandleTable`, a key's shard and its bucket by its hash value; `evict` and `prune` visit
the shards one after the other, `evict` frees the entries it took after the last and `prune` after
each, so a thread in the middle of an eviction has a place in the order and cells to free. `ShardsKeepPromise` is the same
`EvictionPolicy` again, for the whole.

### MemSpaceManager

`inc_mem` and `dec_mem` are atomic under their mutex. Each requester runs the loop of
`_alloc_block_segment`: an attempt, an eviction, an urgent attempt, up to `MaxRetry`; how much an
eviction releases is open. `freed` and `outbid` are history variables: what was released since the
last refusal, and whether another urgent request was served since.

### DiskSpaceManager

A directory's mutex, the router's mutex and the atomic counter are separate, so a call of
`alloc_block` or `free_block` is several actions. `owned` are the blocks some `DiskBlockItem` refers
to. Which enabled directory the router picks is open, so the results hold for every weight.

### DiskStore

The weights the router really computes are here, with the drift of a free (`RouterStaysSmooth`
bounds how far the directories' shares part). A directory is a sequence of files; a block's file and
offset come from divisions. A client owns at most one block and writes it whole or by slices; a
transfer may fail or stop short, and a short one is reported as success, as the code does.
`OkReadIsLastWrite` is about reads that verify the checksums. After a `Crash` and the restart the
files that are not yet replaced hold what they held.

### BlockLayout

One object and one thread: the data part. Bytes are numbered by their offset, so content that is in
the wrong place, missing or doubled is visible. `slices` are the memory segments, `disk` the bytes
and checksums of the disk blocks. `U32` stands for 2^32. `Read` includes promotion, `Flush` includes
the partial flush to an existing disk block. An item that lost all its blocks stays readable (with
nothing found): taking it out of the index is StarCache's subject.

### StarCache

Each thread has a stack of labels for the routines it is in, and locals per routine (`op`,
`memCall`, `flush`, `diskCall`, `removal`); a routine is written once and called from all its call
sites. A step ends where the code takes or drops a block lock, calls the index, an eviction policy
or an allocator, or reads state without a lock that it uses later. Abstractions:

* A slice of a disk block holds the bytes of `<<item, block>>` or junk. Memory needs no content.
* Whether memory suffices is open at every attempt (that question is `MemSpaceManager`'s); disk
  blocks are the finite set `Slot`. With `RouterFails`, an allocation may also fail with a free
  block, which `DiskSpaceManager` shows to happen.
* The promotion policy may answer anything, the admission policy anything in `Admission` for items
  of fewer than `MaxCheckSize` slices and `FLUSH` for others (`size_based_admission_policy.cpp:24`).
* Evicted keys are processed in any order. Lock holders other than a reader that reads the disk
  finish in the same step; keys that share a lock have fewer interleavings than the model.
* Adjacent unlocked reads are one step where nothing that is read there can make a difference to the
  other: the reads of the memory block, the item's state and the disk block in `FlushDecide`, and
  the tracking that follows the last write of a routine.
* The several allocations of one promotion are one run of the allocation loop, with any subset of
  the segments obtained. A whole block made of overlapping promoted segments is not judged by the
  assertion at `star_cache_impl.cpp:504`.
* An item's `CacheItem` cell is reused when it is destroyed; `Item` bounds how many exist at once.
* `Crash` is the failing `DCHECK` (with `DcheckOn`) and the null item of `_write_cache_item`. The
  process restarts empty: block files are not read back.

### RawHashSet, FlatHashMap, AbstractMaps

A table is a record with the sequence of control bytes (with the sentinel and the copy of the first
bytes behind it), the slots, and `growth_left`; the width of a probing window is 16 as with SSE2, or
8 as in the portable code. Every member function that the interface reaches is an operator from
tables to tables, and `FlatHashMap` has one action per call of the interface on one map or on two.
`answer` is what a call returned, and `AbstractMaps` says what it has to return. `TablesAgree` is
the bookkeeping that keeps lookups finite and complete.

### ParallelHashMap, AtomicIndex

A sub-table is the map it implements, as `FlatHashMap` shows it to be. A step ends where a lock is
taken or dropped. Calls on one key take one lock; `clear`, `rehash` go through the tables one by
one; `merge`, `swap` and comparison lock a pair. A table is written under the unique lock only
(`OneWriter`), and `AtomicIndex` says that calls on one key are atomic, and calls on whole maps are
atomic for each key. This is what `StarCache` assumes of its index.

### DBDHashMap

The two copies are a `butil::DoublyBufferedData`, which is not in the repository; the module models
what the code relies on (a reader's own mutex, the index of the copy in front). A writer changes the
copy behind, puts it in front, waits for each reader once, and changes the other. `CopiesAreOne`
says that this is one map.

### BTree, OrderedContainers, AbstractOrder

A node is a record in a store of nodes; iterators are pairs of a node and a position. The node sizes
3 and 4 are the smallest with which the code's splits (which depend on where the new entry goes),
merges and rebalancing occur. Sets, multisets and three-way comparison are `kind`s of one tree.

### BlockingQueue, AbstractQueue, CacheTester

A stretch under the queue's mutex is a step; a wait may end for no reason. `AbstractQueue` is the
queue with atomic calls. In `CacheTester` the two stores are maps, so a failing `CHECK` of the
generator would be its own fault; `Key` is an hour's directory and an object.

## 3. Runs

| Run | Instance | Result |
|---|---|---|
| `lru` | a shard with 2 keys, 3 cells, 3 handles, charges 1 and 2; or 2 shards with 6 keys, 7 cells, 2 threads; 75 123 states | passes: `RefsCountReferences`, `LruHoldsTheIdle`, `ValidIsTabled`, `NoUseAfterFree`, `UsageIsLiveCharge`, `ShardsSound`, `PolicySpec` and `ShardsKeepPromise` (refinements), `DroppedIsFreed` (liveness) |
| `space_managers` | memory: 2 requesters, 3 objects of sizes 2 and 3, quota 8; or disk: 3 threads, directories of 3 blocks (a full and a partial space) and 1 block; 675 431 states | passes: `UsedIsLive`, `NoWrap`, `WithinQuota`, `EvictorIsServed`, `BlocksPartition`, `FreeListComplete`, `UsedCountsBlocks` |
| `disk_disabled` | the same | `DisabledIsFull` violated |
| `block_layout` | an object of up to 11 bytes in blocks of 8, slices of 2; or the blocks of 2 clients in directories of 7 and 2, of 3 and 1, or of 2, 1 and 2 slices; 371 000 states, those of the object each with all ranges | passes: `TypeOK`, `ReadExact`, `ReadComplete`, `DiskBlockWhole`, `OkReadIsLastWrite`, `WithinFiles`, `RouterStaysSmooth` |
| `block_layout_32bit` | the width of an offset scaled to 8, objects to 9 bytes | `ReadExact` violated |
| `star_cache` | 2 threads, 1 key, 2 items, 1 block of 2 slices, 1 disk block, all calls and answers; 506 149 states | passes: `DiskBlockWhole`, `ReadIntegrity`, `ReleasedIsLeaving` |
| `star_cache_blocks` | items of 2 blocks, 1 disk block, set and read; 1 531 647 states | passes: `ReadIntegrity`, `InsertedIsWhole` |
| `star_cache_mem` | no disk, items of 2 blocks, all calls; 474 204 states | passes: `CallsReturn` (liveness) |
| `utilities` | one of six parts, see below; 127 821 states | passes: `TablesAgree`, `OneWriter`, `TreesSound`, `NoLostWakeup`, `ChecksHold`, `ExpiredIsGone`; the refinements `ImplementsMaps`, `CallsAreAtomic`, `CopiesAreOne`, `ImplementsOrder`, `ImplementsQueue` |
| `pinned_evicted` | 2 threads, 2 keys, 3 items, set and set pinned | `PinnedNotEvicted` violated |
| `empty_item` | 2 threads, 2 keys, 3 items, set | `EmptyIsReleased` violated |
| `partial_flush` | 2 threads, 2 keys, 2 items, 1 block of 2 slices, set and read, DCHECKs off | `DiskBlockWhole` violated |

Some runs look at several independent parts: a variable `part` is chosen at the start and the others
stand still. The parts of `utilities` are: two flat maps with windows of 8 and 16 bytes, started
from tables that are empty, almost full, without an empty byte in a window, or full of tombstones,
and any 3 calls; two parallel maps of 2 tables under 2 threads with a call each; a map in two copies
under 2 threads with 2 calls each; two ordered containers, trees of three levels with small nodes
among them, and any 2 calls; a queue of capacity 1 under 3 threads that make any calls, without end;
the load generator with a reader, writer, remover, updater and 2 hours.

Why the bounds are enough. In the LRU container everything but the list concerns one entry and its
key; three cells allow an entry that is held, its replacement under the same key, and one of another
key. The memory quota of 8 holds two or three objects, so requests of both sizes are refused,
retried and given up; `MaxNeed` only bounds the counter that grows with every refusal, and an
instance that the bound keeps from a further refusal has finished. In the disk instance one space is partial, one directory is exhausted by a single block, and
three threads allow an allocation, a free and a third call between their steps. In `BlockLayout` a
block has four slices and the second block of an object is partial, with a last slice that is whole
or partial; every offset and size is tried in every state. In `StarCache` two threads with one key
already give an evictor and a replaced, removed, pinned or read victim; one disk block makes every
flush compete. `MaxRetry` 1 is the smallest loop that evicts. Three threads, or two keys with all
calls, exceed the time given to a run: races that need them are covered by the three directed runs,
whose instances leave out calls and answers, and by the theorems, which hold for any number of
threads and keys. Likewise the router is checked with up to three directories and proved for any number.

Two shards and one growing table show an eviction that visits a shard after another thread changed
it. Two clients and two directories let a client be given the block that another one gave back and
had written; `MaxFree` bounds the drift of the weights, which grows with every free. In the hash
maps the hard states need long histories, so the instance starts from tables that such histories,
made of the model's own operators, have built; three calls then cross a growth, a cleaning of
tombstones and a lookup. The trees start in the same way. In the parallel maps two threads with a
call each meet at every pair of steps, which is all that `OneWriter` and the refinement compare; two
calls in a row of one thread matter for the copies only, where the second call of a reader sees
another copy.

### What the violated properties show

* `DisabledIsFull`: `alloc_block` disables a directory that a concurrent `free_block` has just
  enabled, and the directory then is unusable until another of its blocks is freed.
* `ReadExact` with the scaled width: `slice_lower` and `slice_upper` return `uint32_t`, and an
  object above 4 GiB is returned in part with an OK status.
* `PinnedNotEvicted`: the eviction of an older version removes the index entry of the pinned object
  that replaced it.
* `EmptyIsReleased`: a flush that gets no disk block leaves an item without blocks in the index.
* `DiskBlockWhole` with `DcheckOn` false, that is, in a release build (`CMakeLists.txt:53`): a flush
  decides to write a part of a block because it sees a disk block (`star_cache_impl.cpp:453`), an
  eviction clears the disk block, and the flush puts its part into a new one (`:502-515`). Later
  reads of the rest fail their checksum (which nobody wrote, `disk_cache.cpp:101`), or, with checksums
  switched off, return what an earlier owner of the block left there.

### Observations without a run

Met while modelling; the models follow the code in each.

The cache:

* `size_based_admission_policy.cpp:33` applies the comma operator where a division was meant, so
  small items are always skipped.
* `read` with a positive offset and a size near the maximum of `size_t` wraps at
  `star_cache_impl.cpp:235` and is not cut to the object.
* The comment at `star_cache_impl.cpp:344` expects an untracked entry to return to the LRU list; it
  is freed (`lru_container.cpp:223, 310`), which is harmless.
* `_alloc_cache_item` may return null, which `star_cache_impl.cpp:115` does not check (`Crash`).
* A refused request that gives up leaves its need behind (`mem_space_manager.cpp:45`): memory that
  is released later goes to the private share, from which urgent requests only are served.
* A file size that is no multiple of the block size gives blocks a file index out of range; the
  models assume it is one (`FileSizeAssumption`).
* A short `pwrite` or `pread` is not noticed (`block_file.cpp:61`); checksums find it later.
* `evict(size)` of the sharded container asks every shard for the whole size. The shard and the
  bucket of a key come from the same low bits of its hash, so a shard uses 1/shards of its buckets.

The utilities:

* `rehash(0)` of a table with 7 entries (windows of 8) or 15 (windows of 16) leaves no empty byte,
  and a lookup of an absent key then does not end, against `phmap.h:488`; starcache never calls it.
* `emplace` of the parallel maps hashes a slot before the value is constructed in it when it has no
  key to hash (`phmap.h:2887-2899`); `erase_if` walks on into tables it has not locked
  (`phmap.h:3520`). Neither is called by starcache.
* The constructors of the lockable wrappers that try to lock ignore the result;
  `parallel_hash_set(bucket_cnt)` divides by N where the number of tables is meant; `load` in
  `phmap_dump.h` does not restore what tombstones took from `growth_left`.
* The B-tree's `swap` of nodes is only right for leaves; starcache does not use the B-tree.
* `DBDHashMap` answers a `find` or `list` whose `Read` fails as if the map were empty.
* The locks in the tester's `_get_cur_dir` and `_set_cur_dir` are default-constructed and lock
  nothing. After `stop` the writer can stay in `blocking_get` (`starcache_tester.cpp:44`): nobody
  shuts the queue down. That its checks hold rests on the sleep before a directory is cleaned up
  being longer than any call (`CleanOld`).

## 4. Fairness

`LRUContainer`: weak fairness of `Release` for every handle and of `Free` for every cell. A `Handle`
is an RAII object in the frame of a call, and `free()` follows the mutex in the same function.
`StarCache`: weak fairness of each thread's step and of `Crash`, that is, the scheduler runs every
thread that can run; making another call is never required. Mutexes are released within a step
except the shared lock of a disk read, whose own step is fair. Nothing is assumed of the answers of
the policies, and no strong fairness is used. `BlockingQueue`: weak fairness of each thread's step
within a call, so that a thread that was notified gets the mutex; whether anybody makes another call
is open, and the liveness half of `ImplementsQueue` is that every call returns once the queue is
shut down. `MCUtilities` states the same fairness for its part.

## 5. Proofs

`tlapm` checks the theorems of the `*Proofs` modules, from the named assumptions of the modules
only. The sets of handles, threads, directories, objects and clients are finite; charges, quotas and
the block counts of directories are natural numbers; sizes of requests, of a space, of a block and of
a file are positive, and a file is a whole number of blocks; the alignment unit divides the size of
a slice, that the size of a block, and that 2^32 (`LayoutAssumption`); the threshold is a percentage; the
capacity of a queue is positive; the null values differ from the others; the requests that are made
and the contents at the start are of the right types (`FillingAssumption`: a table starts as a map);
the workers of the load generator are different threads and its queue carries keys
(`RoleAssumption`, `ItemAssumption`); a hash value is a natural number, the number of shards a power
of two, calls are made with some key, and cells are finitely many. `TablesAssumption` says of the parallel maps that there is a
table and that each key has one: facts about 2^N and about masked bits, which would need induction.
TLC evaluates all of them.

**Sums.** `ArithmeticTheorems` proves what the accounts rest on: a sum over a finite set loses or
gains what one element has, sums over disjoint sets add up, and a sum bounds its elements. The fold
behind a sum is defined by recursion on the set, so each fact is proved by well-founded induction
over the finite subsets (`FS_StrictSubsetOrderingWellFounded`): a subset without the property would
have a smallest one below it. `FoldLeft` over a sequence is the same recursion on a set of positions:
the function it chooses exists if the step keeps within a set (`FoldExists`), is unique
(`FoldsUnique`), and so goes through the sequence a step at a time (`FoldFollows`).

**LRUContainer.** `LRUInvariant` proves the inductive invariant `Inv`: `TypeOK`,
`RefsCountReferences`, `LruHoldsTheIdle`, `ValidIsTabled`, and `CellIsReferenced`, which ties the
state of a cell to its count (live exactly if the count is positive). None is inductive alone: that
`release` may append an entry to the list needs `refs` to be right, that `evict` may drop the
table's reference needs the list to hold idle entries only, and that a dropped cell is unreachable
needs both. From it follow `TypeCorrect`, `RefsCorrect`, `ListCorrect`, `TableCorrect`,
`NoDanglingPointer`, and `LRUImplementsPolicy`: the initial states map to initial states, and each
action maps to the action of `EvictionPolicy` of the same name or to a stutter (a lookup that finds
nothing, a release of an entry that left the table, `Free`). `UsageCorrect` is about the sum: the
usage is the charge of the live entries (`UsageIsLiveCharge`), hence never below zero. The liveness
property `DroppedIsFreed` is model-checked only.

**ShardedLRUContainer.** The second half of `LRUContainerProofs` is about the whole component, for any
number of shards and threads, any hash values and sizes, and any failed allocation. It goes from the
bottom up. For a table, `Right` says that each entry is in the chain of its hash value, that no chain
has a key twice (`WellFiled`) and that `elems` counts the entries; a search, an insertion, a
replacement and a removal do to the set of entries what they should (`LookupIs`, `InsertIs`,
`RemoveIs`), and so does growing, by induction over the chains and the entries of each that are
moved (`MoveIs`, `RehashIs`). For the shards, `Whole` says that a table holds the valid entries of its
shard, the LRU list those of them that only the table refers to, each once, and the usage is the sum
of what is live; one lemma for each thing that happens under a mutex says that it keeps `Whole` and
what becomes of each cell (`InsertedIs`, `ReferencedIs`, `ReleasedIs`, `EraseIs`, and `EvictedIs` for
a row of victims). In between an insertion the old entry is out of the table and still valid, which
is what `WholeBut` is for. For the threads, `Held` adds that `refs` is the number of threads with a
handle plus one for the table, and that an unlinked cell is garbage of one thread; `Accounted` says
what a step has to do to the counts and the garbage for that to stay. `ShardedSound` (`ShardsSound`)
follows. It is not inductive alone: that the victims of an eviction are freed by nobody else needs
the counts to be exact.

`ShardedKeepsPromise` (`ShardsKeepPromise`) and `ShardedImplementsPolicy` map the keys of the valid
entries to `tracked` and the handles on them to `holders` (`Stored`, `Handled`, `ViewIs`). The victims
of one shard are one `Evict`; that none of them is held is the count again, and that no other key is
lost is that no two valid entries have one key (`OneCellPerKey`). These theorems start from the empty
container; the run also starts from a filled one, which calls lead to.

**MemSpaceManager.** `Accounting` proves `Inv`: types, that a loop starts with attempt 0, and
`Reserved`: for each refused requester that nobody outbid, what was released since its refusal is in
the private quota and what is still missing is in the need. `EvictorServed` follows.
`UsedMemoryCorrect` proves that the used bytes are the sum of the live objects (`UsedIsLive`), also
between the steps of a requester; a release therefore never takes more than there is, so no
subtraction wraps (`NeverWraps`), and used and private bytes stay within the quota (`QuotaKept`).

**DiskSpaceManager.** `DiskInvariant` proves `Inv`, which is the types, the three properties of the run and that
`owned` is finite: together they are inductive. That a freed block lands in a space that exists and
whose bit is clear comes from `BlocksPartition` and from arithmetic about whole and partial spaces
(`SpaceOfIs`, `SpaceStart`, `SpaceInRange`); that the list stays complete comes from what
`pop_front` and `push_back` do to it (`PopFrontProperties`, `PushBackProperties`); `_used_bytes` is
natural, so never wraps, because of `UsedCountsBlocks`. `TypeCorrect`, `BlocksCorrect`,
`FreeListCorrect` and `UsedCorrect` follow, for any number of threads, any directories and any size
of a space. `StarCache` relies on `BlocksCorrect`: it takes a slot to be free or to have one owner.

**DiskStore.** `ShapeKept` proves what is where: the files have the sizes of `BlockFileConfig`, blocks
have one owner and no owner has a block while it is about to get or give one back.
`BlocksWithinFiles` follows by arithmetic: the last slice of a block ends in its file, also in the
smaller file at the end, and slices of different blocks lie apart (`SlicesApart`). `ReadsAreRight`
(`OkReadIsLastWrite`) adds `NothingOld`, that an open directory has no slice of the time before, and
`ItemsRight`: a client's checksums are of its own data, and its slices hold that data unless a
transfer fell short, which it then knows (`hurt`, a history variable).

`RouterSmooth` bounds the drift of the router. That a directory never has more than the weights of all
together, as two directories would suggest, is false for three of different sizes: a small one can be
passed over while the other two take turns. What holds for every list of directories, whichever are disabled and enabled in between, is that *any set* of s of the n
directories lags behind the sum of its weights by at most s(n - s)m, m the largest weight
(`NoneTooLight`): when a turn chooses a directory of the set, the others gain, and the set can only
get lighter if its heaviest was at least as heavy as all outside, which bounds how light it is then.
The bound for single directories is not inductive: how light one can get depends on the sums of the
pairs, and so on. From this, and from the account of the weights that frees have handed in
(`WeightAccounted`), follow both bounds of `RouterStaysSmooth`; the upper one grows with every free,
since a free adds weight that no allocation took (`add_dir_weight` of a disabled directory).

**BlockLayout.** The properties of the run speak of reads and of the bytes in a disk block, the
inductive invariant `LayoutInv` of everything that is kept: a memory segment is `Right`, that is, it
starts at the edge of a slice, ends at one or at the end of its block, and holds the object's bytes
of that range; a slice refers to no segment that does not cover it (`Kept`); a disk block holds all
bytes up to the end of its block, each slice with its checksum (`Filed`). The properties are not
inductive alone: a promotion puts what a read took from the disk into memory and a flush writes it
back, so both sides have to be right; segments that follow each other from the start of a block to
its end make a whole disk block, and a flush of others only goes into a disk block that is whole
already (`FlushIsRight`). Every loop of the code is
a fold, and is taken a turn at a time with the fold lemmas of `ArithmeticTheorems`: the segments of
a memory block for a range are its parts in order, with holes exactly at slices without a segment
(`MemReadIs`), together with the disk block they make up the range or, if there is none, stop at the
first hole (`AssembleIs`), block after block (`ReadBlocksAre`). Widening the range to slices asks
for no byte in a slice that the range itself does not touch (`WidenedIs`, `SameSlice`), which is why
a read fails only if a byte of its range is missing, and what was read too much is trimmed again.
`LayoutTyped`, `LayoutWhole`, `LayoutReadExact` and `LayoutReadComplete` follow for every block,
slice, alignment and object size, with the hypothesis `MaxSize <= U32`: no offset in an object
exceeds 32 bits. The code does not ensure it, and `block_layout_32bit` shows what happens without.

**StarCache.** `ItemsAreHeld` proves the invariant about calls and items. Its half `CallInv` says that
the routines on a thread's stack call each other in one order (`Level`, from the calls of clients
down to the removal of an item), so that a routine is on the stack at most once and its locals are
its own, and which routines imply which locals. `ItemInv` says that the item a set is writing is
nobody else's, that the index maps a key to an item of that key, and `Leaving`, from which
`ReleasedLeaves` follows. `ReleasedIsLeaving` is not inductive alone: that a release finds the item
under the key it then removes needs the keys to match, and that the item of a set is not released
before it is in the index needs it to be the set's own.

The second part adds `SlotInv`: besides `DiskBlockWhole`, a disk block that an allocation handed
out is in the hands of one thread; a flush has either found its block filled or is alone with it and
has all slices to write; a read has a block filled with what it reads. The second of these is what
`DCHECK_EQ` asserts (`star_cache_impl.cpp:504`), so `DiskBlocksAreWhole` and `ReadsAreIntact` assume
`DcheckOn`; `partial_flush` shows the first to fail without it. The proofs have one lemma per
routine, and two frame lemmas for the many steps that only drop disk blocks or leave them alone.

What needs no DCHECK is `OwnInv`: whoever `Has` a disk block, an item or a thread between two steps,
has it for one block of one item (`OneOwner`), and one just allocated nobody has (`AllocatedIsFree`);
`BlocksHaveOneOwner` states it. On it rests `InsertedWhole` (`InsertedIsWhole`), for every build:
`WriteInv` says that the blocks of an item before the one its set is at are `Stored`, as a whole in
memory or in a disk block filled with its bytes, and that the set has not passed its end.
`InsertedIsWhole` speaks of one moment, the insertion, and `WriteInv` of all that leads to it: that
an eviction or flush in between leaves the item alone follows from `ItemInv`, since the item is not
in the index (`Foreign`), and that its bytes stay follows from `OwnInv`, since a flush of another
item cannot write one of its disk blocks.

**ParallelHashMap.** `ParInvariant` says where a thread holds which lock: at the labels inside a
critical section it is the owner or among the readers of the mutex of the table it works on, and in
calls on pairs of both; `TablesAreGuarded` (`OneWriter`) follows. `CallsTakeEffectAtOnce` proves the
refinement to `AtomicIndex`: the sub-tables glued together are the map, a step at a table is one
atomic step on the keys of that table, and all other steps are stutters. `AtomicInv` adds to
`ParInv` what makes the steps right: a sub-table holds the keys of its own number only
(`MapsArePieces`), what a thread found before it changes a key still holds when it does (`SeenRight`,
from the lock it keeps between the two), a comparison that goes on has found no difference
(`RepliesRight`), and a call that changes a pair of maps has two (`PairsDiffer`). A comparison of
maps goes through tables to which no key belongs as well, which is a step with an answer and no key;
the mapping therefore takes the answer to be given with the first key that was compared (`Told`).

**DBDHashMap.** `DBInvariant` says which copy may differ from the other in which phase of a
modification, and that a reader who still looks at the copy behind is one the writer has not waited
for. From it follows `CopiesImplementOneMap`: the change of the index in front is the moment a
modification takes effect, the load of the index that of a read, and all other steps are stutters.

**BlockingQueue, CacheTester.** `QueueInvariant` counts: there are as many threads about to notify or awake in
front of the lock as items (or places) that somebody waits for. `WakeupsArrive` (`NoLostWakeup`)
follows, and `QueueIsFifo`, the safety half of `ImplementsQueue`: the liveness half is
model-checked. For the load generator `TInv` says who holds which object's mutex (`ObjectsHeld`), so
that a writer or remover is alone with its object (`Excluded`), that the stores agree on each key of
a current directory but for the one such a worker is in the middle of (`StoresAgree`), and that what
the queue hands out are keys it was given (`WriterAsked`). `TesterChecksHold` (`ChecksHold`) and
`ExpiredStaysGone` (`ExpiredIsGone`) follow. Neither is inductive alone: that a comparison succeeds
after the hour has changed needs that nothing is stored ahead of the current directory
(`NothingAhead`) and that no worker is left in the directory that is cleaned up, which is what the
updater's sleep is for.

**Out of reach of the prover**: liveness (`DroppedIsFreed`, `CallsReturn`, the liveness half of
`ImplementsQueue`), and what recursive operators compute in loops: the tables and trees of
`RawHashSet` and `BTree`, so that `TablesAgree`, `TreesSound`, `ImplementsMaps` and `ImplementsOrder`
are model-checked only. Every other property of a passing run is a theorem. The type invariants of
`LRUContainer` and the space managers are theorems and not checked by runs.

## 6. Not modelled

* Collisions of cache ids; the hash functions themselves (murmur, the mixing in `phmap_utils.h`),
  which are arithmetic of 64 bits and beyond TLC's integers: hash values are constants.
* The preallocation of files, `writev` and `readv`, which nothing calls; the probabilities of the
  admission policy; the limit on concurrent writes, a heuristic that threads may exceed; the
  destructor and `options`.
* Hash maps: the policy of `node_hash_map`, dump and load, `extract`, copies and construction of the
  parallel maps, their `size` and iterators that outlive the lock. B-tree: node handles. Both:
  allocators and exceptions. Of the vendored headers `phmap_bits.h`, `phmap_config.h` and most of
  `phmap_base.h` are portability code without state.
* Load generator: command line, metrics, dumps, the creation of the stores. Counters of lookups and
  the status JSON; `get_usage`, which sums shards read at different moments.
* `set_ttl`, which does nothing, and the TTL argument of `set`, which is stored and not used.
* A second `init` in one process, and destruction of the cache while calls run.
* Data races in the C++ sense (unlocked reads of `shared_ptr` at `star_cache_impl.cpp:432` and
  `cache_item.h:117`): a read returns the old or the new value.

## 7. Plan

Done: the inventory; the abstract eviction policy and its implementations, a shard and all shards,
with proofs; both space managers, files and router, with proofs; the byte layout and the concurrent
cache, with proofs; the hash maps, the trees and the queue with their abstract specifications, three
of them with proofs; the load generator, with proofs.

What would add most next: that every id an eviction takes is processed (`star_cache_impl.cpp:661`),
and a bound on the blocks tracked by nothing.
