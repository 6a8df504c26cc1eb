---------------------------- MODULE CacheTester -----------------------------
(***************************************************************************)
(* The load generator (src/tools/starcache_tester.cpp): readers compare a  *)
(* local store, the reference, with the cache; objects they miss go        *)
(* through a blocking queue to a writer; a remover deletes; an updater     *)
(* moves on to a new directory and cleans up the old one.  A CHECK that    *)
(* fails ends the process.  The stores are what they promise: maps.  What  *)
(* is not modelled: the range of a read, which is the same for both.       *)
(***************************************************************************)
EXTENDS BlockingQueue, Functions

CONSTANTS Reader, Writer, Remover, Updater,
          Obj,               \* indexes of objects
          MutexOf,           \* index -> the object mutex it uses
          Data,
          MaxDir             \* bounds the hours that pass

ASSUME RoleAssumption == /\ Reader \cup {Writer} \subseteq QThread
                         /\ Writer \notin Reader /\ Remover \notin Reader \cup {Writer}
                         /\ Updater \notin Reader \cup {Writer, Remover}
ASSUME MaxDirAssumption == MaxDir \in Nat

Worker == Reader \cup {Writer, Remover, Updater}
Key == (0 .. MaxDir) \X Obj

ASSUME ItemAssumption == Item = Key

VARIABLES stage,                \* worker -> where it is in its loop
          job,               \* worker -> the key it works on
          base,              \* worker -> what the local store answered
          local, cached,     \* the contents of the stores
          holders,           \* object mutex -> [writer, readers]
          dir,               \* the current directory
          stopped

testerVars == <<stage, job, base, local, cached, holders, dir, stopped>>
queueVars == <<bounded, items, shut, at, call, result>>

NoObject == <<>>       \* ENOENT
Lookup(store, k) == IF k \in DOMAIN store THEN <<store[k]>> ELSE NoObject
WithoutKeys(store, ks) == Restrict(store, DOMAIN store \ ks)
Goes(t, where) == stage' = [stage EXCEPT ![t] = where]

\* The head of every loop: while (!_stopped).
Top(t, where) == stage[t] = "top" /\ Goes(t, IF stopped THEN "ended" ELSE where)

-----------------------------------------------------------------------------
(* Object mutexes *)

Mutex(t) == MutexOf[job[t][2]]

LockUnique(t) == /\ stage[t] = "lock"
                 /\ holders[Mutex(t)] = [writers |-> {}, readers |-> {}]
                 /\ holders' = [holders EXCEPT ![Mutex(t)].writers = {t}]
                 /\ Goes(t, "first")
                 /\ UNCHANGED <<job, base, local, cached, dir, stopped, queueVars>>

LockShared(t) == /\ stage[t] = "lock"
                 /\ holders[Mutex(t)].writers = {}
                 /\ holders' = [holders EXCEPT ![Mutex(t)].readers = @ \cup {t}]
                 /\ Goes(t, "first")
                 /\ UNCHANGED <<job, base, local, cached, dir, stopped, queueVars>>

\* Unlocks the object, which ends what the worker did to it.
Unlock(t) == /\ job' = [job EXCEPT ![t] = <<>>]
             /\ base' = [base EXCEPT ![t] = NoObject]
             /\ holders' = [holders EXCEPT ![Mutex(t)] = [writers |-> @.writers \ {t}, readers |-> @.readers \ {t}]]

\* Readers and the remover choose an object of the current directory.
Choose(t) == /\ Top(t, "lock")
             /\ IF stopped THEN UNCHANGED job ELSE \E o \in Obj : job' = [job EXCEPT ![t] = <<dir, o>>]
             /\ UNCHANGED <<base, local, cached, holders, dir, stopped, queueVars>>

-----------------------------------------------------------------------------
(* write_store *)

AskForKey == /\ Top(Writer, "get")
             /\ IF stopped THEN UNCHANGED queueVars ELSE Call(Writer, <<"get">>)
             /\ UNCHANGED <<job, base, local, cached, holders, dir, stopped>>

BadGotKey == /\ stage[Writer] = "get"
             /\ at[Writer] = "out"
             /\ IF result[Writer][1] THEN Goes(Writer, "lock") /\ job' = [job EXCEPT ![Writer] = result[Writer][2]]
                                     ELSE Goes(Writer, "top") /\ UNCHANGED job
             /\ UNCHANGED <<base, local, cached, holders, dir, stopped, queueVars>>

\* A key of an older directory is skipped.
GotKey == /\ stage[Writer] = "get"
          /\ at[Writer] = "out"
          /\ IF result[Writer][1] /\ result[Writer][2][1] = dir
             THEN Goes(Writer, "lock") /\ job' = [job EXCEPT ![Writer] = result[Writer][2]]
             ELSE Goes(Writer, "top") /\ UNCHANGED job
          /\ UNCHANGED <<base, local, cached, holders, dir, stopped, queueVars>>

Stored(store, t, v) == [k \in DOMAIN store \cup {job[t]} |-> IF k = job[t] THEN v ELSE store[k]]

SetLocal == /\ stage[Writer] = "first"
            /\ \E v \in Data : /\ base' = [base EXCEPT ![Writer] = <<v>>]
                               /\ local' = Stored(local, Writer, v)
            /\ Goes(Writer, "second")
            /\ UNCHANGED <<job, cached, holders, dir, stopped, queueVars>>

SetCached == /\ stage[Writer] = "second"
             /\ cached' = Stored(cached, Writer, base[Writer][1])
             /\ Unlock(Writer)
             /\ Goes(Writer, "top")
             /\ UNCHANGED <<local, dir, stopped, queueVars>>

-----------------------------------------------------------------------------
(* read_store *)

ReadLocal(t) == /\ stage[t] = "first"
                /\ base' = [base EXCEPT ![t] = Lookup(local, job[t])]
                /\ Goes(t, "second")
                /\ UNCHANGED <<job, local, cached, holders, dir, stopped, queueVars>>

\* The CHECKs on the result and on the data; a missing object is asked for.
ReadCached(t) == /\ stage[t] = "second"
                 /\ Unlock(t)
                 /\ CASE base[t] # Lookup(cached, job[t]) -> Goes(t, "aborted") /\ UNCHANGED queueVars
                      [] base[t] = Lookup(cached, job[t]) /\ base[t] = NoObject -> Goes(t, "put") /\ Call(t, <<"put", job[t]>>)
                      [] OTHER -> Goes(t, "top") /\ UNCHANGED queueVars
                 /\ UNCHANGED <<local, cached, dir, stopped>>

PutKey(t) == /\ stage[t] = "put"
             /\ at[t] = "out"
             /\ Goes(t, IF result[t] = <<TRUE>> THEN "top" ELSE "ended")
             /\ UNCHANGED <<job, base, local, cached, holders, dir, stopped, queueVars>>

-----------------------------------------------------------------------------
(* remove_store *)

BadRemoveLock == LockShared(Remover)

RemoveLock == LockUnique(Remover)

RemoveLocal == /\ stage[Remover] = "first"
               /\ base' = [base EXCEPT ![Remover] = Lookup(local, job[Remover])]
               /\ local' = WithoutKeys(local, {job[Remover]})
               /\ Goes(Remover, "second")
               /\ UNCHANGED <<job, cached, holders, dir, stopped, queueVars>>

\* The CHECK on the result: removed by both, or missing in both.
RemoveCached == /\ stage[Remover] = "second"
                /\ cached' = WithoutKeys(cached, {job[Remover]})
                /\ Unlock(Remover)
                /\ Goes(Remover, IF (base[Remover] = NoObject) = (job[Remover] \notin DOMAIN cached) THEN "top" ELSE "aborted")
                /\ UNCHANGED <<local, dir, stopped, queueVars>>

-----------------------------------------------------------------------------
(* update_context *)

\* The hour may have changed.
UpdateDir == /\ \/ Top(Updater, "count") /\ UNCHANGED dir
                \/ ~stopped /\ dir < MaxDir /\ dir' = dir + 1 /\ Top(Updater, "clean")
             /\ UNCHANGED <<job, base, local, cached, holders, stopped, queueVars>>

\* After the sleep of update_context_interval_s, in which every other worker
\* ended the turn of its loop in which it took a key of the old directory.
CleanOld == /\ stage[Updater] = "clean"
            /\ \A t \in Worker \ {Updater} : stage[t] \in {"lock", "first", "second"} => job[t][1] = dir
            /\ local' = WithoutKeys(local, {k \in DOMAIN local : k[1] = dir - 1})
            /\ Goes(Updater, "count")
            /\ UNCHANGED <<job, base, cached, holders, dir, stopped, queueVars>>

\* execution_time_s is over, or not yet.
CountDown == /\ stage[Updater] = "count"
             /\ stopped' \in {stopped, TRUE}
             /\ Goes(Updater, "top")
             /\ UNCHANGED <<job, base, local, cached, holders, dir, queueVars>>

-----------------------------------------------------------------------------
TInit == /\ QInit
         /\ stage = [t \in Worker |-> "top"]
         /\ job = [t \in Worker |-> <<>>]
         /\ base = [t \in Worker |-> NoObject]
         /\ local = <<>> /\ cached = <<>>
         /\ holders = [m \in {MutexOf[o] : o \in Obj} |-> [writers |-> {}, readers |-> {}]]
         /\ dir = 0 /\ stopped = FALSE

InQueue(t) == Step(t) /\ UNCHANGED testerVars

WriterStep == AskForKey \/ InQueue(Writer) \/ GotKey \/ LockUnique(Writer) \/ SetLocal \/ SetCached
ReaderStep(t) == Choose(t) \/ LockShared(t) \/ ReadLocal(t) \/ ReadCached(t) \/ InQueue(t) \/ PutKey(t)
RemoverStep == Choose(Remover) \/ RemoveLock \/ RemoveLocal \/ RemoveCached
UpdaterStep == UpdateDir \/ CleanOld \/ CountDown

TNext == \/ WriterStep \/ RemoverStep \/ UpdaterStep
         \/ \E t \in Reader : ReaderStep(t)
         \/ \E t \in QThread : SpuriousWakeup(t) /\ UNCHANGED testerVars

allVars == <<queueVars, testerVars>>

TSpec == TInit /\ [][TNext]_allVars

-----------------------------------------------------------------------------
(* Correctness *)

\* The CHECKs hold as long as the cache keeps every object: a worker never finds
\* the two stores at odds, since the object mutexes make a write, a removal and
\* a comparison of both stores one step for the others.
ChecksHold == \A t \in Worker : stage[t] # "aborted"

\* Objects are written into the current directory only, or into the one before
\* it until that has been cleaned up: no expired directory comes back.
ExpiredIsGone == \A k \in DOMAIN local : k[1] = dir \/ (k[1] = dir - 1 /\ stage[Updater] = "clean")
=============================================================================
