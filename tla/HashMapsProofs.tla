--------------------------- MODULE HashMapsProofs ---------------------------
(***************************************************************************)
(* Proofs about the maps that threads share.                               *)
(* ParallelHashMap, for every number of tables, maps and threads: whoever  *)
(* is at work in a table holds its mutex as the call needs it, also after  *)
(* std::lock has backed off, entries stay in the tables that their hashes  *)
(* select, and the tables of a map implement one map with atomic calls.    *)
(* DBDHashMap, for every set of threads, keys and values: two copies that  *)
(* readers and modifications see at different moments are one map.         *)
(***************************************************************************)
EXTENDS ParallelHashMap, DBDHashMap, TLAPS

-----------------------------------------------------------------------------
(***************************************************************************)
(* Tables and their mutexes.                                               *)
(***************************************************************************)
Mutex == [writer : AIThread \cup {Nothing}, readers : SUBSET AIThread]

\* t has taken the mutex of table i of map m.
Holds(t, m, i) == /\ i = table[t]
                  /\ \/ pc[t] \in {"in", "act", "step", "walk"} /\ m \in Both(t)
                     \/ pc[t] = "half" /\ m = front[t]

ParTypeOK == /\ guard \in [AIMap -> [Tables -> Mutex]]
             /\ pc \in [AIThread -> {"idle", "lock", "half", "in", "act", "step", "walk", "return"}]
             /\ request \in [AIThread -> Offered \cup {Nothing}]
             /\ table \in [AIThread -> Tables]
             /\ DOMAIN front = AIThread
             /\ \A t \in AIThread : pc[t] # "idle" => request[t] \in Offered /\ front[t] \in Both(t)
             /\ \A t \in AIThread : pc[t] = "half" => OfPair(t)

\* A mutex is held by the threads that hold it, by one of them for itself.
MutexesHeld == \A m \in AIMap, i \in Tables :
                 /\ \A t \in AIThread : /\ guard[m][i].writer = t <=> Holds(t, m, i) /\ ~Shared(t)
                                        /\ t \in guard[m][i].readers <=> Holds(t, m, i) /\ Shared(t)
                 /\ guard[m][i].writer # Nothing => guard[m][i].readers = {}

InTheirTables == /\ DOMAIN subs = AIMap
                 /\ \A m \in AIMap : DOMAIN subs[m] = Tables /\ \A i \in Tables : DOMAIN subs[m][i] \subseteq KeysOf(i)

\* A call on a key works in the table of the key.
OfKeyTable == \A t \in AIThread : pc[t] \notin {"idle", "return"} /\ OfKey(t) => table[t] = SubIdx[request[t].key]

ParInv == ParTypeOK /\ OfKeyTable /\ MutexesHeld /\ InTheirTables

LEMMA OfferedCalls ==
  ASSUME NEW r \in Offered
  PROVE  r.map \in AIMap /\ r.other \in AIMap /\ r.key \in AIKey
  BY OfferedAssumption

LEMMA BothMaps ==
  ASSUME NEW t \in AIThread, request[t] \in Offered
  PROVE  Both(t) \subseteq AIMap
  BY OfferedCalls DEF Both

\* Whoever reads shares the mutex with others who read, whoever changes has it alone.
LEMMA InvExcludes == ParInv => OneWriter
<1> SUFFICES ASSUME ParInv PROVE OneWriter
  OBVIOUS
<1>1. ASSUME NEW t \in AIThread, NEW u \in AIThread, AtWork(t), AtWork(u), t # u, table[t] = table[u], Both(t) \cap Both(u) # {}
      PROVE  Reads(t) /\ Reads(u)
  <2>1. PICK m \in Both(t) \cap Both(u) : TRUE
    BY <1>1
  <2>2. m \in AIMap /\ table[t] \in Tables
    BY <1>1, BothMaps DEF ParInv, ParTypeOK, AtWork
  <2>3. Holds(t, m, table[t]) /\ Holds(u, m, table[t])
    BY <1>1, <2>1 DEF Holds, AtWork
  <2>4. Shared(t) /\ Shared(u)
    BY <1>1, <2>2, <2>3, NothingAssumption DEF ParInv, MutexesHeld
  <2> QED BY <2>4 DEF Shared, Reads
<1>2. \A m \in AIMap, i \in Tables : DOMAIN subs[m][i] \subseteq KeysOf(i)
  BY DEF ParInv, InTheirTables
<1> QED BY <1>1, <1>2 DEF OneWriter

LEMMA ParInitInv == ParInit => ParInv
<1> SUFFICES ASSUME ParInit PROVE ParInv
  OBVIOUS
<1>1. ParTypeOK
  BY TablesAssumption DEF ParInit, ParTypeOK, Unlocked, Mutex, Tables
<1>2. MutexesHeld
  BY NothingAssumption DEF ParInit, MutexesHeld, Holds, Unlocked
<1>3. InTheirTables
  BY DEF ParInit, InTheirTables, Split
<1>4. OfKeyTable
  BY DEF ParInit, OfKeyTable
<1> QED BY <1>1, <1>2, <1>3, <1>4 DEF ParInv

-----------------------------------------------------------------------------
LEMMA BeginInv == ASSUME ParInv, NEW t \in AIThread, NEW r \in Offered, Begin(t, r) PROVE ParInv'
<1>1. ParTypeOK'
  <2>1. (IF r.call \in KeyCall THEN SubIdx[r.key] ELSE 0) \in Tables
    BY TablesAssumption, OfferedCalls DEF Tables
  <2> QED BY <2>1 DEF ParInv, ParTypeOK, Begin, Both, OfPair
<1>2. MutexesHeld'
  BY DEF ParInv, ParTypeOK, MutexesHeld, Begin, Holds, Shared, Both, OfPair
<1>3. InTheirTables'
  BY DEF ParInv, InTheirTables, Begin
<1>4. OfKeyTable'
  BY DEF ParInv, ParTypeOK, OfKeyTable, OfKey, Begin
<1> QED BY <1>1, <1>2, <1>3, <1>4 DEF ParInv

\* Steps that take and drop no mutex and leave the tables alone.
LEMMA InsideInv ==
  ASSUME ParInv, NEW t \in AIThread, Search(t) \/ StepOn(t) \/ Walk(t) \/ Return(t)
  PROVE  ParInv'
<1>1. ParTypeOK'
  BY DEF ParInv, ParTypeOK, Search, StepOn, Walk, Return, Both, OfPair
<1>2. MutexesHeld'
  BY DEF ParInv, ParTypeOK, MutexesHeld, Search, StepOn, Walk, Return, Holds, Shared, Both, OfPair
<1>3. InTheirTables'
  BY DEF ParInv, InTheirTables, Search, StepOn, Walk, Return
<1>4. OfKeyTable'
  BY DEF ParInv, ParTypeOK, OfKeyTable, OfKey, Search, StepOn, Walk, Return
<1> QED BY <1>1, <1>2, <1>3, <1>4 DEF ParInv

\* The steps of t leave what the others hold as it is.
LEMMA OthersHold ==
  ASSUME NEW t \in AIThread, NEW u \in AIThread, NEW m, NEW i,
         pc'[u] = pc[u], request'[u] = request[u], table'[u] = table[u], front'[u] = front[u]
  PROVE  (Holds(u, m, i)' <=> Holds(u, m, i)) /\ (Shared(u)' <=> Shared(u))
  BY DEF Holds, Shared, Both, OfPair

LEMMA TakingKeeps ==
  ASSUME ParInv, NEW t \in AIThread, NEW x \in AIMap, NEW j \in Tables,
         Grantable(x, j, Shared(t)), guard' = [guard EXCEPT ![x][j] = Taken(@, t, Shared(t))],
         \A u \in AIThread \ {t} : \A m, i : (Holds(u, m, i)' <=> Holds(u, m, i)) /\ (Shared(u)' <=> Shared(u)),
         \A m, i : Holds(t, m, i)' <=> Holds(t, m, i) \/ (m = x /\ i = j),
         Shared(t)' <=> Shared(t)
  PROVE  MutexesHeld'
<1> SUFFICES ASSUME NEW m \in AIMap, NEW i \in Tables
             PROVE  /\ \A u \in AIThread : /\ guard'[m][i].writer = u <=> Holds(u, m, i)' /\ ~Shared(u)'
                                           /\ u \in guard'[m][i].readers <=> Holds(u, m, i)' /\ Shared(u)'
                    /\ guard'[m][i].writer # Nothing => guard'[m][i].readers = {}
  BY DEF MutexesHeld
<1>1. guard[m][i] \in Mutex
  BY DEF ParInv, ParTypeOK
<1>2. /\ \A u \in AIThread : /\ guard[m][i].writer = u <=> Holds(u, m, i) /\ ~Shared(u)
                             /\ u \in guard[m][i].readers <=> Holds(u, m, i) /\ Shared(u)
      /\ guard[m][i].writer # Nothing => guard[m][i].readers = {}
  BY DEF ParInv, MutexesHeld
<1>3. guard'[m][i] = IF m = x /\ i = j THEN Taken(guard[m][i], t, Shared(t)) ELSE guard[m][i]
  BY DEF ParInv, ParTypeOK
<1>4. CASE m # x \/ i # j
  BY <1>2, <1>3, <1>4
<1>5. CASE m = x /\ i = j /\ Shared(t)
  <2>1. guard[m][i].writer = Nothing
    BY <1>5 DEF Grantable
  <2>2. guard'[m][i].writer = Nothing /\ guard'[m][i].readers = guard[m][i].readers \cup {t}
    BY <1>1, <1>3, <1>5, <2>1 DEF Taken, Mutex
  <2> QED BY <1>2, <1>5, <2>1, <2>2, NothingAssumption
<1>6. CASE m = x /\ i = j /\ ~Shared(t)
  <2>1. guard[m][i].writer = Nothing /\ guard[m][i].readers = {}
    BY <1>6 DEF Grantable
  <2>2. guard'[m][i].writer = t /\ guard'[m][i].readers = {}
    BY <1>1, <1>3, <1>6, <2>1 DEF Taken, Mutex
  <2> QED BY <1>2, <1>6, <2>1, <2>2, NothingAssumption
<1> QED BY <1>4, <1>5, <1>6

\* t drops whatever it holds.
LEMMA DroppingKeeps ==
  ASSUME ParInv, NEW t \in AIThread,
         \A m \in AIMap, i \in Tables : guard'[m][i] = IF Holds(t, m, i) THEN Dropped(guard[m][i], t) ELSE guard[m][i],
         \A u \in AIThread \ {t} : \A m, i : (Holds(u, m, i)' <=> Holds(u, m, i)) /\ (Shared(u)' <=> Shared(u)),
         \A m, i : ~Holds(t, m, i)'
  PROVE  MutexesHeld'
<1> SUFFICES ASSUME NEW m \in AIMap, NEW i \in Tables
             PROVE  /\ \A u \in AIThread : /\ guard'[m][i].writer = u <=> Holds(u, m, i)' /\ ~Shared(u)'
                                           /\ u \in guard'[m][i].readers <=> Holds(u, m, i)' /\ Shared(u)'
                    /\ guard'[m][i].writer # Nothing => guard'[m][i].readers = {}
  BY DEF MutexesHeld
<1>1. guard[m][i] \in Mutex
  BY DEF ParInv, ParTypeOK
<1>2. /\ \A u \in AIThread : /\ guard[m][i].writer = u <=> Holds(u, m, i) /\ ~Shared(u)
                             /\ u \in guard[m][i].readers <=> Holds(u, m, i) /\ Shared(u)
      /\ guard[m][i].writer # Nothing => guard[m][i].readers = {}
  BY DEF ParInv, MutexesHeld
<1>3. CASE ~Holds(t, m, i)
  BY <1>2, <1>3
<1>4. CASE Holds(t, m, i) /\ Shared(t)
  <2>1. guard[m][i].writer # t
    BY <1>2, <1>4
  <2>2. guard'[m][i].writer = guard[m][i].writer /\ guard'[m][i].readers = guard[m][i].readers \ {t}
    BY <1>1, <1>4, <2>1 DEF Dropped, Mutex
  <2> QED BY <1>2, <1>4, <2>1, <2>2
<1>5. CASE Holds(t, m, i) /\ ~Shared(t)
  <2>1. guard[m][i].writer = t /\ guard[m][i].readers = {}
    BY <1>2, <1>5, NothingAssumption
  <2>2. guard'[m][i].writer = Nothing /\ guard'[m][i].readers = {}
    BY <1>1, <1>5, <2>1 DEF Dropped, Mutex
  <2> QED BY <1>2, <1>5, <2>1, <2>2, NothingAssumption
<1> QED BY <1>3, <1>4, <1>5

LEMMA LockInv == ASSUME ParInv, NEW t \in AIThread, Lock(t) PROVE ParInv'
<1>1. front[t] \in AIMap /\ front[t] \in Both(t) /\ table[t] \in Tables /\ request[t] \in Offered
  BY BothMaps DEF ParInv, ParTypeOK, Lock
<1>2. guard[front[t]][table[t]] \in Mutex
  BY <1>1 DEF ParInv, ParTypeOK
<1>3. Taken(guard[front[t]][table[t]], t, Shared(t)) \in Mutex
  BY <1>2 DEF Taken, Mutex
<1>4. ParTypeOK'
  BY <1>1, <1>3 DEF ParInv, ParTypeOK, Lock, Both, OfPair
<1>5. \A u \in AIThread \ {t} : \A m, i : (Holds(u, m, i)' <=> Holds(u, m, i)) /\ (Shared(u)' <=> Shared(u))
  <2> TAKE u \in AIThread \ {t}
  <2> QED BY OthersHold DEF ParInv, ParTypeOK, Lock
<1>6. /\ \A m, i : Holds(t, m, i)' <=> Holds(t, m, i) \/ (m = front[t] /\ i = table[t])
      /\ Shared(t)' <=> Shared(t)
  BY <1>1 DEF ParInv, ParTypeOK, Lock, Holds, Shared, Both, OfPair
<1>7. MutexesHeld'
  BY <1>1, <1>5, <1>6, TakingKeeps DEF Lock
<1>8. InTheirTables'
  BY DEF ParInv, InTheirTables, Lock
<1>9. OfKeyTable'
  BY DEF ParInv, ParTypeOK, OfKeyTable, OfKey, Lock
<1> QED BY <1>4, <1>7, <1>8, <1>9 DEF ParInv

LEMMA LockSecondInv == ASSUME ParInv, NEW t \in AIThread, LockSecond(t) PROVE ParInv'
<1>1. front[t] \in Both(t) /\ Behind(t) \in AIMap /\ table[t] \in Tables /\ request[t] \in Offered /\ OfPair(t)
  BY OfferedCalls DEF ParInv, ParTypeOK, LockSecond, Behind
<1>2. guard[Behind(t)][table[t]] \in Mutex
  BY <1>1 DEF ParInv, ParTypeOK
<1>3. Taken(guard[Behind(t)][table[t]], t, Shared(t)) \in Mutex
  BY <1>2 DEF Taken, Mutex
<1>4. ParTypeOK'
  BY <1>1, <1>3 DEF ParInv, ParTypeOK, LockSecond, Both, OfPair
<1>5. \A u \in AIThread \ {t} : \A m, i : (Holds(u, m, i)' <=> Holds(u, m, i)) /\ (Shared(u)' <=> Shared(u))
  <2> TAKE u \in AIThread \ {t}
  <2> QED BY OthersHold DEF ParInv, ParTypeOK, LockSecond
<1>6. Both(t) = {front[t], Behind(t)}
  BY <1>1 DEF Both, Behind
<1>7. /\ \A m, i : Holds(t, m, i)' <=> Holds(t, m, i) \/ (m = Behind(t) /\ i = table[t])
      /\ Shared(t)' <=> Shared(t)
  <2>1. pc[t] = "half" /\ pc'[t] = "in" /\ table'[t] = table[t] /\ request'[t] = request[t]
    BY DEF ParInv, ParTypeOK, LockSecond
  <2>2. Both(t)' = Both(t) /\ (Shared(t)' <=> Shared(t))
    BY <2>1 DEF Both, OfPair, Shared
  <2> QED BY <1>6, <2>1, <2>2 DEF Holds
<1>8. MutexesHeld'
  BY <1>1, <1>5, <1>7, TakingKeeps DEF LockSecond
<1>9. InTheirTables'
  BY DEF ParInv, InTheirTables, LockSecond
<1>10. OfKeyTable'
  BY DEF ParInv, ParTypeOK, OfKeyTable, OfKey, LockSecond
<1> QED BY <1>4, <1>8, <1>9, <1>10 DEF ParInv

LEMMA BackOffInv == ASSUME ParInv, NEW t \in AIThread, BackOff(t) PROVE ParInv'
<1>1. front[t] \in AIMap /\ table[t] \in Tables /\ request[t] \in Offered
  BY BothMaps DEF ParInv, ParTypeOK, BackOff
<1>2. guard[front[t]][table[t]] \in Mutex
  BY <1>1 DEF ParInv, ParTypeOK
<1>3. Dropped(guard[front[t]][table[t]], t) \in Mutex
  BY <1>2 DEF Dropped, Mutex
<1>4. PICK m \in Both(t) : front' = [front EXCEPT ![t] = m]
  BY DEF BackOff
<1>5. ParTypeOK'
  BY <1>1, <1>3, <1>4 DEF ParInv, ParTypeOK, BackOff, Both, OfPair
<1>6. \A u \in AIThread \ {t} : \A n, i : (Holds(u, n, i)' <=> Holds(u, n, i)) /\ (Shared(u)' <=> Shared(u))
  <2> TAKE u \in AIThread \ {t}
  <2> QED BY <1>4, OthersHold DEF ParInv, ParTypeOK, BackOff
<1>7. /\ \A n, i : Holds(t, n, i) <=> n = front[t] /\ i = table[t]
      /\ \A n, i : ~Holds(t, n, i)'
  BY DEF ParInv, ParTypeOK, BackOff, Holds
<1>8. \A n \in AIMap, i \in Tables : guard'[n][i] = IF n = front[t] /\ i = table[t] THEN Dropped(guard[n][i], t) ELSE guard[n][i]
  BY <1>1 DEF ParInv, ParTypeOK, BackOff
<1>9. \A n \in AIMap, i \in Tables : guard'[n][i] = IF Holds(t, n, i) THEN Dropped(guard[n][i], t) ELSE guard[n][i]
  BY <1>7, <1>8
<1>10. MutexesHeld'
  BY <1>6, <1>7, <1>9, DroppingKeeps
<1>11. InTheirTables'
  BY DEF ParInv, InTheirTables, BackOff
<1>12. OfKeyTable'
  BY DEF ParInv, ParTypeOK, OfKeyTable, OfKey, BackOff
<1> QED BY <1>5, <1>10, <1>11, <1>12 DEF ParInv

\* What a call makes of its tables has the keys that belong there.
LEMMA TablesAfterWork ==
  ASSUME ParInv, NEW t \in AIThread, AtWork(t)
  PROVE  /\ DOMAIN NewMine(t) \subseteq KeysOf(table[t])
         /\ DOMAIN NewTheirs(t) \subseteq KeysOf(table[t])
<1>1. request[t] \in Offered /\ request[t].map \in AIMap /\ request[t].other \in AIMap /\ table[t] \in Tables
  BY OfferedCalls DEF ParInv, ParTypeOK, AtWork
<1>2. DOMAIN Mine(t) \subseteq KeysOf(table[t]) /\ DOMAIN Theirs(t) \subseteq KeysOf(table[t])
  BY <1>1 DEF ParInv, InTheirTables, Mine, Theirs
<1>3. OfKey(t) => request[t].key \in KeysOf(table[t])
  BY <1>1, OfferedCalls DEF ParInv, OfKeyTable, AtWork, KeysOf
<1> USE DEF PutEntry, Join, DropKeys, KeepKeys, Restrict
<1>4. OfKey(t) => /\ DOMAIN Inserted(t, Mine(t)) \subseteq KeysOf(table[t])
                  /\ DOMAIN Updated(t, Mine(t)) \subseteq KeysOf(table[t])
                  /\ DOMAIN Modified(t, Mine(t)) \subseteq KeysOf(table[t])
                  /\ DOMAIN Erased(t, Mine(t)) \subseteq KeysOf(table[t])
  BY <1>2, <1>3 DEF Inserted, Updated, Modified, Erased
<1>5. /\ DOMAIN Cleared(Mine(t)) \subseteq KeysOf(table[t])
      /\ DOMAIN Merged(Mine(t), Theirs(t)) \subseteq KeysOf(table[t])
      /\ DOMAIN NotMerged(Mine(t), Theirs(t)) \subseteq KeysOf(table[t])
  BY <1>2 DEF Cleared, Merged, NotMerged
<1>6. DOMAIN NewMine(t) \subseteq KeysOf(table[t])
  BY <1>2, <1>4, <1>5, Zenon DEF NewMine, OfKey, KeyCall
<1>7. DOMAIN NewTheirs(t) \subseteq KeysOf(table[t])
  BY <1>2, <1>5, Zenon DEF NewTheirs
<1> QED BY <1>6, <1>7

LEMMA WorkInv == ASSUME ParInv, NEW t \in AIThread, AtWork(t), Work(t) PROVE ParInv'
<1>1. /\ Both(t) \subseteq AIMap /\ table[t] \in Tables /\ request[t] \in Offered /\ request[t].map \in Both(t)
      /\ request'[t] = request[t] /\ front'[t] = request[t].map /\ pc'[t] \in {"lock", "return"}
  BY BothMaps DEF ParInv, ParTypeOK, Work, AtWork, Both
<1>2. \A m \in AIMap, i \in Tables : Dropped(guard[m][i], t) \in Mutex
  BY DEF ParInv, ParTypeOK, Dropped, Mutex
<1>3. \A m \in AIMap, i \in Tables : guard'[m][i] = IF m \in Both(t) /\ i = table[t] THEN Dropped(guard[m][i], t) ELSE guard[m][i]
  BY <1>1 DEF ParInv, ParTypeOK, Work
<1>4. guard' \in [AIMap -> [Tables -> Mutex]]
  BY <1>1, <1>2 DEF ParInv, ParTypeOK, Work
<1>5. table' \in [AIThread -> Tables]
  <2>1. NumTables \in Nat \ {0} /\ table[t] \in 0 .. NumTables - 1
    BY <1>1, TablesAssumption DEF Tables
  <2>2. (IF AtLast(t) THEN table[t] ELSE table[t] + 1) \in 0 .. NumTables - 1
    BY <2>1 DEF AtLast
  <2>3. table' = [table EXCEPT ![t] = IF AtLast(t) THEN @ ELSE @ + 1]
    BY DEF Work
  <2> QED BY <2>2, <2>3 DEF ParInv, ParTypeOK, Tables
<1>6. ParTypeOK'
  BY <1>1, <1>4, <1>5 DEF ParInv, ParTypeOK, Work, Both, OfPair
<1>7. \A u \in AIThread \ {t} : \A m, i : (Holds(u, m, i)' <=> Holds(u, m, i)) /\ (Shared(u)' <=> Shared(u))
  <2> TAKE u \in AIThread \ {t}
  <2> QED BY OthersHold DEF ParInv, ParTypeOK, Work
<1>8. /\ \A m, i : Holds(t, m, i) <=> m \in Both(t) /\ i = table[t]
      /\ \A m, i : ~Holds(t, m, i)'
  BY <1>1 DEF Holds, AtWork
<1>9. \A m \in AIMap, i \in Tables : guard'[m][i] = IF Holds(t, m, i) THEN Dropped(guard[m][i], t) ELSE guard[m][i]
  BY <1>3, <1>8
<1>10. MutexesHeld'
  BY <1>7, <1>8, <1>9, DroppingKeeps
<1>11. InTheirTables'
  <2>1. subs' = [m \in AIMap |-> [subs[m] EXCEPT ![table[t]] = IF m = request[t].map THEN NewMine(t)
                                                              ELSE IF m = request[t].other THEN NewTheirs(t) ELSE @]]
    BY DEF Work
  <2>2. DOMAIN NewMine(t) \subseteq KeysOf(table[t]) /\ DOMAIN NewTheirs(t) \subseteq KeysOf(table[t])
    BY TablesAfterWork
  <2> QED BY <1>1, <2>1, <2>2 DEF ParInv, InTheirTables
<1>12. OfKeyTable'
  <2>1. OfKey(t) => pc'[t] = "return"
    BY DEF ParInv, ParTypeOK, Work, AtLast
  <2> QED BY <1>1, <2>1 DEF ParInv, ParTypeOK, OfKeyTable, OfKey, Work
<1> QED BY <1>6, <1>10, <1>11, <1>12 DEF ParInv

LEMMA ParNextInv == ParInv /\ [ParNext]_parVars => ParInv'
<1> SUFFICES ASSUME ParInv, [ParNext]_parVars PROVE ParInv'
  OBVIOUS
<1>1. ASSUME NEW t \in AIThread, Act(t) \/ EraseFound(t) PROVE ParInv'
  BY <1>1, WorkInv DEF Act, EraseFound, AtWork
<1>2. CASE UNCHANGED parVars
  BY <1>2 DEF parVars, ParInv, ParTypeOK, OfKeyTable, OfKey, OfPair, MutexesHeld, InTheirTables, Holds, Shared, Both
<1> QED BY <1>1, <1>2, BeginInv, LockInv, LockSecondInv, BackOffInv, InsideInv DEF ParNext

THEOREM ParInvariant == ParSpec => []ParInv
  BY ParInitInv, ParNextInv, PTL DEF ParSpec

\* ReadWriteLock and std::lock over pairs of tables (phmap.h) keep every table
\* to one thread that changes it or to threads that read, in whatever order
\* two maps are named, and no entry strays into a table of another hash.
THEOREM TablesAreGuarded == ParSpec => []OneWriter
  BY ParInvariant, InvExcludes, PTL

-----------------------------------------------------------------------------
(***************************************************************************)
(* The tables of a map put together.                                       *)
(***************************************************************************)
PartialMap == UNION {[D -> AIValue] : D \in SUBSET AIKey}

\* Tables of one map, and the map that they are together.
Pieces(s) == s \in [Tables -> PartialMap] /\ \A i \in Tables : DOMAIN s[i] \subseteq KeysOf(i)

Glued(s) == [k \in UNION {DOMAIN s[i] : i \in Tables} |-> s[SubIdx[k]][k]]

\* The map m whose keys of table i were replaced by those of p.
Patched(m, i, p) == [k \in (DOMAIN m \ KeysOf(i)) \cup DOMAIN p |-> IF k \in KeysOf(i) THEN p[k] ELSE m[k]]

LEMMA GluedIs ==
  ASSUME NEW s, Pieces(s)
  PROVE  /\ DOMAIN Glued(s) = {k \in AIKey : k \in DOMAIN s[SubIdx[k]]}
         /\ \A k \in DOMAIN Glued(s) : Glued(s)[k] = s[SubIdx[k]][k]
<1>1. ASSUME NEW i \in Tables, NEW k \in DOMAIN s[i] PROVE k \in AIKey /\ SubIdx[k] = i
  BY DEF Pieces, KeysOf
<1>2. \A k \in AIKey : SubIdx[k] \in Tables
  BY TablesAssumption
<1>3. UNION {DOMAIN s[i] : i \in Tables} = {k \in AIKey : k \in DOMAIN s[SubIdx[k]]}
  BY <1>1, <1>2
<1> QED BY <1>3 DEF Glued

LEMMA GluedHas ==
  ASSUME NEW s, Pieces(s), NEW i \in Tables, NEW k \in KeysOf(i)
  PROVE  /\ k \in DOMAIN Glued(s) <=> k \in DOMAIN s[i]
         /\ k \in DOMAIN s[i] => Glued(s)[k] = s[i][k]
<1>1. k \in AIKey /\ SubIdx[k] = i
  BY DEF KeysOf
<1> QED BY <1>1, GluedIs

LEMMA GluedReplaced ==
  ASSUME NEW s, Pieces(s), NEW i \in Tables, NEW p \in PartialMap, DOMAIN p \subseteq KeysOf(i)
  PROVE  /\ Pieces([s EXCEPT ![i] = p])
         /\ Glued([s EXCEPT ![i] = p]) = Patched(Glued(s), i, p)
<1> DEFINE z == [s EXCEPT ![i] = p]
<1>1. DOMAIN z = Tables /\ z[i] = p /\ \A j \in Tables \ {i} : z[j] = s[j]
  BY DEF Pieces
<1>2. Pieces(z)
  BY <1>1 DEF Pieces
<1> HIDE DEF z
<1>3. /\ DOMAIN Glued(z) = {k \in AIKey : k \in DOMAIN z[SubIdx[k]]}
      /\ \A k \in DOMAIN Glued(z) : Glued(z)[k] = z[SubIdx[k]][k]
  BY <1>2, GluedIs
<1>4. /\ DOMAIN Glued(s) = {k \in AIKey : k \in DOMAIN s[SubIdx[k]]}
      /\ \A k \in DOMAIN Glued(s) : Glued(s)[k] = s[SubIdx[k]][k]
  BY GluedIs
<1>5. \A k \in AIKey : SubIdx[k] \in Tables /\ (k \in KeysOf(i) <=> SubIdx[k] = i)
  BY TablesAssumption DEF KeysOf
<1>6. DOMAIN p \subseteq AIKey
  BY DEF KeysOf
<1>7. DOMAIN Glued(z) = (DOMAIN Glued(s) \ KeysOf(i)) \cup DOMAIN p
  BY <1>1, <1>3, <1>4, <1>5, <1>6
<1>8. ASSUME NEW k \in DOMAIN Glued(z) PROVE Glued(z)[k] = IF k \in KeysOf(i) THEN p[k] ELSE Glued(s)[k]
  BY <1>1, <1>3, <1>4, <1>5, <1>6, <1>7
<1>9. Glued(z) = [k \in DOMAIN Glued(z) |-> Glued(z)[k]]
  BY DEF Glued
<1>10. Glued(z) = Patched(Glued(s), i, p)
  BY <1>7, <1>8, <1>9 DEF Patched
<1> QED BY <1>2, <1>10 DEF z

LEMMA GluedIsMap ==
  ASSUME NEW s, Pieces(s)
  PROVE  Glued(s) \in PartialMap
<1>1. \A k \in DOMAIN Glued(s) : k \in AIKey /\ Glued(s)[k] \in AIValue
  <2> TAKE k \in DOMAIN Glued(s)
  <2>1. k \in AIKey /\ k \in DOMAIN s[SubIdx[k]] /\ Glued(s)[k] = s[SubIdx[k]][k] /\ SubIdx[k] \in Tables
    BY GluedIs, TablesAssumption
  <2>2. s[SubIdx[k]] \in PartialMap
    BY <2>1 DEF Pieces
  <2>3. PICK D \in SUBSET AIKey : s[SubIdx[k]] \in [D -> AIValue]
    BY <2>2 DEF PartialMap
  <2> QED BY <2>1, <2>3
<1>2. Glued(s) = [k \in DOMAIN Glued(s) |-> Glued(s)[k]]
  BY DEF Glued
<1>3. DOMAIN Glued(s) \in SUBSET AIKey /\ Glued(s) \in [DOMAIN Glued(s) -> AIValue]
  BY <1>1, <1>2
<1> QED BY <1>3 DEF PartialMap

\* What the calls do to a table is what they do to the keys of the map that are in it.
LEMMA PatchedWithItself ==
  ASSUME NEW s, Pieces(s), NEW i \in Tables
  PROVE  Patched(Glued(s), i, s[i]) = Glued(s)
<1>1. [s EXCEPT ![i] = s[i]] = s
  BY DEF Pieces
<1> QED BY <1>1, GluedReplaced DEF Pieces

LEMMA PatchedForOneKey ==
  ASSUME NEW s, Pieces(s), NEW i \in Tables, NEW k \in KeysOf(i), NEW v
  PROVE  /\ Patched(Glued(s), i, PutEntry(s[i], k, v)) = PutEntry(Glued(s), k, v)
         /\ Patched(Glued(s), i, DropKeys(s[i], {k})) = DropKeys(Glued(s), {k})
<1>1. \A j \in KeysOf(i) : /\ j \in DOMAIN Glued(s) <=> j \in DOMAIN s[i]
                           /\ j \in DOMAIN s[i] => Glued(s)[j] = s[i][j]
  BY GluedHas
<1>2. DOMAIN s[i] \subseteq KeysOf(i)
  BY DEF Pieces
<1> DEFINE g == Glued(s)
           p == s[i]
<1> HIDE DEF g, p
<1>3. /\ \A j \in KeysOf(i) : (j \in DOMAIN g <=> j \in DOMAIN p) /\ (j \in DOMAIN p => g[j] = p[j])
      /\ DOMAIN p \subseteq KeysOf(i)
  BY <1>1, <1>2 DEF g, p
<1>4. Patched(g, i, PutEntry(p, k, v)) = PutEntry(g, k, v)
  <2>1. (DOMAIN g \ KeysOf(i)) \cup (DOMAIN p \cup {k}) = DOMAIN g \cup {k}
    BY <1>3
  <2>2. Patched(g, i, PutEntry(p, k, v)) = [j \in DOMAIN g \cup {k} |-> IF j \in KeysOf(i) THEN (IF j = k THEN v ELSE p[j]) ELSE g[j]]
    BY <1>3, <2>1 DEF Patched, PutEntry
  <2> QED BY <1>3, <2>2 DEF PutEntry
<1>5. Patched(g, i, DropKeys(p, {k})) = DropKeys(g, {k})
  <2>1. (DOMAIN g \ KeysOf(i)) \cup (DOMAIN p \ {k}) = DOMAIN g \ {k}
    BY <1>3
  <2>2. Patched(g, i, DropKeys(p, {k})) = [j \in DOMAIN g \ {k} |-> IF j \in KeysOf(i) THEN p[j] ELSE g[j]]
    BY <1>3, <2>1 DEF Patched, DropKeys, Restrict
  <2> QED BY <1>3, <2>2 DEF DropKeys, Restrict
<1> QED BY <1>4, <1>5 DEF g, p

LEMMA PatchedForTable ==
  ASSUME NEW s, Pieces(s), NEW u, Pieces(u), NEW i \in Tables
  PROVE  LET ks == KeysOf(i)
         IN  /\ Patched(Glued(s), i, DropKeys(s[i], DOMAIN s[i])) = DropKeys(Glued(s), ks)
             /\ Patched(Glued(s), i, Join(s[i], u[i])) = Join(Glued(s), KeepKeys(Glued(u), ks))
             /\ Patched(Glued(u), i, KeepKeys(u[i], DOMAIN s[i])) = DropKeys(Glued(u), ks \ DOMAIN Glued(s))
             /\ Patched(Glued(s), i, u[i]) = Join(DropKeys(Glued(s), ks), KeepKeys(Glued(u), ks))
             /\ Patched(Glued(u), i, s[i]) = Join(DropKeys(Glued(u), ks), KeepKeys(Glued(s), ks))
             /\ KeepKeys(Glued(s), ks) = s[i]
<1> DEFINE ks == KeysOf(i)
           g == Glued(s)
           p == s[i]
           h == Glued(u)
           q == u[i]
<1> HIDE DEF g, p, h, q, ks
<1>1. /\ \A j \in ks : (j \in DOMAIN g <=> j \in DOMAIN p) /\ (j \in DOMAIN p => g[j] = p[j])
      /\ DOMAIN p \subseteq ks
  BY GluedHas DEF g, p, ks, Pieces
<1>2. /\ \A j \in ks : (j \in DOMAIN h <=> j \in DOMAIN q) /\ (j \in DOMAIN q => h[j] = q[j])
      /\ DOMAIN q \subseteq ks
  BY GluedHas DEF h, q, ks, Pieces
<1> DEFINE P(m, t) == [k \in (DOMAIN m \ ks) \cup DOMAIN t |-> IF k \in ks THEN t[k] ELSE m[k]]
<1>3. P(g, DropKeys(p, DOMAIN p)) = DropKeys(g, ks)
  BY <1>1 DEF DropKeys, Restrict
<1>4. P(g, Join(p, q)) = Join(g, KeepKeys(h, ks))
  <2>1. (DOMAIN g \ ks) \cup (DOMAIN p \cup DOMAIN q) = DOMAIN g \cup (DOMAIN h \cap ks)
    BY <1>1, <1>2
  <2>2. P(g, Join(p, q)) = [k \in DOMAIN g \cup (DOMAIN h \cap ks) |-> IF k \in ks THEN (IF k \in DOMAIN p THEN p[k] ELSE q[k]) ELSE g[k]]
    BY <1>1, <1>2, <2>1 DEF Join
  <2>3. Join(g, KeepKeys(h, ks)) = [k \in DOMAIN g \cup (DOMAIN h \cap ks) |-> IF k \in DOMAIN g THEN g[k] ELSE h[k]]
    BY DEF Join, KeepKeys, Restrict
  <2> QED BY <1>1, <1>2, <2>2, <2>3
<1>5. P(h, KeepKeys(q, DOMAIN p)) = DropKeys(h, ks \ DOMAIN g)
  <2>1. (DOMAIN h \ ks) \cup (DOMAIN q \cap DOMAIN p) = DOMAIN h \ (ks \ DOMAIN g)
    BY <1>1, <1>2
  <2>2. P(h, KeepKeys(q, DOMAIN p)) = [k \in DOMAIN h \ (ks \ DOMAIN g) |-> IF k \in ks THEN q[k] ELSE h[k]]
    BY <1>1, <1>2, <2>1 DEF KeepKeys, Restrict
  <2> QED BY <1>1, <1>2, <2>2 DEF DropKeys, Restrict
<1>6. P(g, q) = Join(DropKeys(g, ks), KeepKeys(h, ks))
  <2>1. (DOMAIN g \ ks) \cup DOMAIN q = (DOMAIN g \ ks) \cup (DOMAIN h \cap ks)
    BY <1>2
  <2>2. Join(DropKeys(g, ks), KeepKeys(h, ks)) = [k \in (DOMAIN g \ ks) \cup (DOMAIN h \cap ks) |-> IF k \in DOMAIN g \ ks THEN g[k] ELSE h[k]]
    BY DEF Join, DropKeys, KeepKeys, Restrict
  <2> QED BY <1>2, <2>1, <2>2
<1>7. KeepKeys(g, ks) = p
  <2>1. p = [k \in DOMAIN p |-> p[k]]
    <3>1. PICK D \in SUBSET AIKey : p \in [D -> AIValue]
      BY DEF Pieces, PartialMap, p
    <3> QED BY <3>1
  <2>2. DOMAIN g \cap ks = DOMAIN p
    BY <1>1
  <2> QED BY <1>1, <2>1, <2>2 DEF KeepKeys, Restrict
<1>8. P(h, p) = Join(DropKeys(h, ks), KeepKeys(g, ks))
  <2>1. (DOMAIN h \ ks) \cup DOMAIN p = (DOMAIN h \ ks) \cup (DOMAIN g \cap ks)
    BY <1>1
  <2>2. Join(DropKeys(h, ks), KeepKeys(g, ks)) = [k \in (DOMAIN h \ ks) \cup (DOMAIN g \cap ks) |-> IF k \in DOMAIN h \ ks THEN h[k] ELSE g[k]]
    BY DEF Join, DropKeys, KeepKeys, Restrict
  <2> QED BY <1>1, <2>1, <2>2
<1> QED BY <1>3, <1>4, <1>5, <1>6, <1>7, <1>8 DEF Patched, g, h, p, q, ks

-----------------------------------------------------------------------------
(* What a thread knows while it works. *)

FramesOK == DOMAIN reply = AIThread /\ DOMAIN seen = AIThread /\ seen \in [AIThread -> BOOLEAN]

MapsArePieces == DOMAIN subs = AIMap /\ \A m \in AIMap : Pieces(subs[m])

\* A thread between the search for its key and the change has a search that is still right.
SeenRight == \A t \in AIThread : pc[t] \in {"act", "step", "walk"} => OfKey(t) /\ (seen[t] <=> request[t].key \in DOMAIN Mine(t))

\* Tables that a comparison has left behind did not differ.
RepliesRight == \A t \in AIThread : pc[t] \notin {"idle", "return"} => reply[t] = IF request[t].call = "equal" /\ table[t] # 0 THEN <<TRUE>> ELSE <<>>

\* No thread changes a pair of tables that are one.
PairsDiffer == \A t \in AIThread : AtWork(t) /\ OfPair(t) /\ ~Shared(t) => request[t].map # request[t].other

AtomicInv == ParInv /\ FramesOK /\ MapsArePieces /\ SeenRight /\ RepliesRight /\ PairsDiffer

LEMMA PartialMapsClosed ==
  ASSUME NEW m \in PartialMap, NEW n \in PartialMap, NEW k \in AIKey, NEW v \in AIValue, NEW ks
  PROVE  /\ PutEntry(m, k, v) \in PartialMap
         /\ DropKeys(m, ks) \in PartialMap
         /\ KeepKeys(m, ks) \in PartialMap
         /\ Join(m, n) \in PartialMap
<1>1. PICK D \in SUBSET AIKey : m \in [D -> AIValue]
  BY DEF PartialMap
<1>2. PICK E \in SUBSET AIKey : n \in [E -> AIValue]
  BY DEF PartialMap
<1>3. PutEntry(m, k, v) \in [D \cup {k} -> AIValue]
  BY <1>1 DEF PutEntry
<1>4. DropKeys(m, ks) \in [D \ ks -> AIValue]
  BY <1>1 DEF DropKeys, Restrict
<1>5. KeepKeys(m, ks) \in [D \cap ks -> AIValue]
  BY <1>1 DEF KeepKeys, Restrict
<1>6. Join(m, n) \in [D \cup E -> AIValue]
  BY <1>1, <1>2 DEF Join
<1>7. /\ D \cup {k} \in SUBSET AIKey /\ D \ ks \in SUBSET AIKey
      /\ D \cap ks \in SUBSET AIKey /\ D \cup E \in SUBSET AIKey
  BY <1>1, <1>2
<1>8. PutEntry(m, k, v) \in PartialMap /\ DropKeys(m, ks) \in PartialMap
  BY <1>3, <1>4, <1>7 DEF PartialMap
<1>9. KeepKeys(m, ks) \in PartialMap /\ Join(m, n) \in PartialMap
  BY <1>5, <1>6, <1>7 DEF PartialMap
<1> QED BY <1>8, <1>9

LEMMA NewTablesAreMaps ==
  ASSUME ParInv, MapsArePieces, NEW t \in AIThread, AtWork(t)
  PROVE  NewMine(t) \in PartialMap /\ NewTheirs(t) \in PartialMap
<1>1. request[t] \in Offered /\ table[t] \in Tables
  BY DEF ParInv, ParTypeOK, AtWork
<1>2. request[t].map \in AIMap /\ request[t].other \in AIMap /\ request[t].key \in AIKey /\ request[t].value \in AIValue
  BY <1>1, OfferedAssumption
<1>3. Mine(t) \in PartialMap /\ Theirs(t) \in PartialMap
  BY <1>1, <1>2 DEF MapsArePieces, Pieces, Mine, Theirs
<1>4. /\ \A ks : DropKeys(Mine(t), ks) \in PartialMap /\ KeepKeys(Theirs(t), ks) \in PartialMap
      /\ PutEntry(Mine(t), request[t].key, request[t].value) \in PartialMap
      /\ Join(Mine(t), Theirs(t)) \in PartialMap
  BY <1>2, <1>3, PartialMapsClosed
<1>5. /\ Inserted(t, Mine(t)) \in PartialMap /\ Updated(t, Mine(t)) \in PartialMap /\ Modified(t, Mine(t)) \in PartialMap
      /\ Erased(t, Mine(t)) \in PartialMap /\ Cleared(Mine(t)) \in PartialMap
      /\ Merged(Mine(t), Theirs(t)) \in PartialMap /\ NotMerged(Mine(t), Theirs(t)) \in PartialMap
  BY <1>3, <1>4 DEF Inserted, Updated, Modified, Erased, Cleared, Merged, NotMerged
<1>6. NewMine(t) \in PartialMap
  BY <1>3, <1>5, Zenon DEF NewMine
<1>7. NewTheirs(t) \in PartialMap
  BY <1>3, <1>5, Zenon DEF NewTheirs
<1> QED BY <1>6, <1>7

\* The tables after a thread has worked on them, and the maps that they make up.
LEMMA TablesOfWork ==
  ASSUME ParInv, MapsArePieces, NEW t \in AIThread, AtWork(t), Work(t), NEW m \in AIMap
  PROVE  LET i == table[t]
             p == IF m = request[t].map THEN NewMine(t) ELSE IF m = request[t].other THEN NewTheirs(t) ELSE subs[m][i]
         IN  /\ subs'[m] = [subs[m] EXCEPT ![i] = p]
             /\ Pieces(subs'[m])
             /\ Glued(subs'[m]) = Patched(Glued(subs[m]), i, p)
<1> DEFINE i == table[t]
           p == IF m = request[t].map THEN NewMine(t) ELSE IF m = request[t].other THEN NewTheirs(t) ELSE subs[m][i]
<1>1. i \in Tables /\ Pieces(subs[m])
  BY DEF ParInv, ParTypeOK, MapsArePieces
<1>2. subs[m][i] \in PartialMap /\ DOMAIN subs[m][i] \subseteq KeysOf(i)
  BY <1>1 DEF Pieces
<1>3. p \in PartialMap /\ DOMAIN p \subseteq KeysOf(i)
  BY <1>2, NewTablesAreMaps, TablesAfterWork
<1>4. subs'[m] = [subs[m] EXCEPT ![i] = p]
  BY DEF Work
<1> HIDE DEF p, i
<1> QED BY <1>1, <1>3, <1>4, GluedReplaced DEF p, i

\* Readers leave the tables as they are.
LEMMA ReadersChangeNothing ==
  ASSUME ParInv, MapsArePieces, NEW t \in AIThread, AtWork(t), Work(t), Reads(t), NEW m \in AIMap
  PROVE  subs'[m] = subs[m]
<1>1. NewMine(t) = Mine(t) /\ NewTheirs(t) = Theirs(t)
  BY Zenon DEF NewMine, NewTheirs, Reads
<1>2. subs'[m] = [subs[m] EXCEPT ![table[t]] = subs[m][table[t]]]
  BY <1>1, TablesOfWork DEF Mine, Theirs
<1> QED BY <1>2 DEF MapsArePieces, Pieces

LEMMA AtomicInitInv == ParInit => AtomicInv
<1> SUFFICES ASSUME ParInit PROVE AtomicInv
  OBVIOUS
<1>1. PICK fill \in Filling : subs = [m \in AIMap |-> [i \in Tables |-> Split(fill[m], i)]]
  BY DEF ParInit
<1>2. ASSUME NEW m \in AIMap, NEW i \in Tables PROVE Split(fill[m], i) \in PartialMap /\ DOMAIN Split(fill[m], i) \subseteq KeysOf(i)
  <2>1. PICK D \in SUBSET AIKey : fill[m] \in [D -> AIValue]
    BY FillingAssumption
  <2>2. Split(fill[m], i) \in [D \cap KeysOf(i) -> AIValue]
    BY <2>1 DEF Split
  <2> QED BY <2>2 DEF PartialMap
<1>3. MapsArePieces
  BY <1>1, <1>2 DEF MapsArePieces, Pieces
<1> QED BY <1>3, ParInitInv DEF ParInit, AtomicInv, FramesOK, SeenRight, RepliesRight, PairsDiffer, AtWork

\* Steps that leave the tables alone.
LEMMA AtomicBegin == ASSUME AtomicInv, NEW t \in AIThread, NEW r \in Offered, Begin(t, r) PROVE AtomicInv'
<1> USE DEF Begin, AtomicInv
<1>1. ParInv' BY BeginInv
<1>2. FramesOK' BY DEF FramesOK
<1>3. MapsArePieces' BY DEF MapsArePieces
<1>4. SeenRight' BY DEF ParInv, ParTypeOK, SeenRight, OfKey, Mine
<1>5. RepliesRight'
  <2>1. r.call = "equal" => table'[t] = 0
    BY DEF ParInv, ParTypeOK, KeyCall
  <2> QED BY <2>1 DEF ParInv, ParTypeOK, FramesOK, RepliesRight
<1>6. PairsDiffer' BY DEF ParInv, ParTypeOK, PairsDiffer, AtWork, OfPair, Shared
<1> QED BY <1>1, <1>2, <1>3, <1>4, <1>5, <1>6

LEMMA AtomicInside ==
  ASSUME AtomicInv, NEW t \in AIThread, Lock(t) \/ BackOff(t) \/ Search(t) \/ StepOn(t) \/ Walk(t) \/ Return(t)
  PROVE  AtomicInv'
<1> USE DEF AtomicInv, Lock, BackOff, Search, StepOn, Walk, Return
<1>1. ParInv' BY LockInv, BackOffInv, InsideInv
<1>2. FramesOK'
  <2>1. CASE Search(t)
    <3>1. seen' = [seen EXCEPT ![t] = request[t].key \in DOMAIN Mine(t)]
      BY <2>1
    <3>2. (request[t].key \in DOMAIN Mine(t)) \in BOOLEAN
      OBVIOUS
    <3> HIDE DEF Mine
    <3> QED BY <2>1, <3>1, <3>2, Zenon DEF FramesOK
  <2>2. CASE ~Search(t) BY <2>2 DEF FramesOK
  <2> QED BY <2>1, <2>2
<1>3. MapsArePieces' BY DEF MapsArePieces
<1>4. SeenRight'
  <2>1. CASE Search(t) BY <2>1 DEF ParInv, ParTypeOK, FramesOK, SeenRight, OfKey, Mine
  <2>2. CASE ~Search(t)
    <3>1. UNCHANGED <<subs, request, table, seen>> \/ Return(t)
      BY <2>2
    <3>2. pc'[t] \in {"act", "step", "walk"} => pc[t] \in {"act", "step", "walk"} /\ ~Return(t)
      BY <2>2 DEF ParInv, ParTypeOK
    <3>3. \A u \in AIThread \ {t} : pc'[u] = pc[u] /\ request'[u] = request[u]
      BY DEF ParInv, ParTypeOK
    <3>4. UNCHANGED <<subs, table, seen>>
      BY <2>2
    <3> SUFFICES ASSUME NEW u \in AIThread, pc'[u] \in {"act", "step", "walk"}
                 PROVE  OfKey(u)' /\ (seen'[u] <=> request'[u].key \in DOMAIN Mine(u)')
      BY DEF SeenRight
    <3>5. pc[u] \in {"act", "step", "walk"} /\ request'[u] = request[u]
      BY <3>1, <3>2, <3>3
    <3> QED BY <3>4, <3>5 DEF SeenRight, OfKey, Mine
  <2> QED BY <2>1, <2>2
<1>5. RepliesRight' BY DEF ParInv, ParTypeOK, RepliesRight
<1>6. PairsDiffer' 
  <2>1. CASE Lock(t) BY <2>1 DEF ParInv, ParTypeOK, PairsDiffer, AtWork, OfPair, Shared
  <2>2. CASE ~Lock(t) BY <2>2 DEF ParInv, ParTypeOK, PairsDiffer, AtWork, OfPair, Shared
  <2> QED BY <2>1, <2>2
<1> QED BY <1>1, <1>2, <1>3, <1>4, <1>5, <1>6

\* A thread that holds the first mutex for itself does not get it as the second.
LEMMA AtomicLockSecond == ASSUME AtomicInv, NEW t \in AIThread, LockSecond(t) PROVE AtomicInv'
<1> USE DEF AtomicInv
<1>1. ParInv' BY LockSecondInv
<1>2. FramesOK' BY DEF FramesOK, LockSecond
<1>3. MapsArePieces' BY DEF MapsArePieces, LockSecond
<1>4. SeenRight' BY DEF ParInv, ParTypeOK, SeenRight, OfKey, Mine, LockSecond
<1>5. RepliesRight' BY DEF ParInv, ParTypeOK, RepliesRight, LockSecond
<1>6. ~Shared(t) => request[t].map # request[t].other
  <2> SUFFICES ASSUME ~Shared(t), request[t].map = request[t].other PROVE FALSE
    OBVIOUS
  <2>1. front[t] \in AIMap /\ front[t] \in Both(t) /\ table[t] \in Tables
    BY BothMaps DEF ParInv, ParTypeOK, LockSecond
  <2>2. Behind(t) = front[t]
    BY <2>1 DEF Both, Behind
  <2>3. Holds(t, front[t], table[t])
    BY DEF Holds, LockSecond
  <2>4. guard[front[t]][table[t]].writer = t
    BY <2>1, <2>3 DEF ParInv, MutexesHeld
  <2> QED BY <2>2, <2>4, NothingAssumption DEF LockSecond, Grantable
<1>7. PairsDiffer' BY <1>6 DEF ParInv, ParTypeOK, PairsDiffer, AtWork, OfPair, Shared, LockSecond
<1> QED BY <1>1, <1>2, <1>3, <1>4, <1>5, <1>7

LEMMA AtomicWork == ASSUME AtomicInv, NEW t \in AIThread, AtWork(t), Work(t) PROVE AtomicInv'
<1> USE DEF AtomicInv
<1>1. ParInv' BY WorkInv
<1>2. FramesOK' BY DEF FramesOK, Work
<1>3. MapsArePieces'
  <2>1. DOMAIN subs' = AIMap
    BY DEF Work
  <2> QED BY <2>1, TablesOfWork DEF MapsArePieces
<1>4. /\ \A u \in AIThread \ {t} : pc'[u] = pc[u] /\ table'[u] = table[u]
      /\ \A u \in AIThread : request'[u] = request[u] /\ seen'[u] = seen[u]
      /\ pc'[t] \in {"lock", "return"}
  BY DEF ParInv, ParTypeOK, Work
<1>5. SeenRight'
  <2> SUFFICES ASSUME NEW u \in AIThread, pc'[u] \in {"act", "step", "walk"}
               PROVE  OfKey(u)' /\ (seen'[u] <=> request'[u].key \in DOMAIN Mine(u)')
    BY DEF SeenRight
  <2>1. u # t /\ pc[u] \in {"act", "step", "walk"}
    BY <1>4
  <2>2. OfKey(u) /\ (seen[u] <=> request[u].key \in DOMAIN Mine(u))
    BY <2>1 DEF SeenRight
  <2>3. OfKey(u)' /\ seen'[u] = seen[u] /\ request'[u] = request[u] /\ table'[u] = table[u]
    BY <1>4, <2>1, <2>2 DEF OfKey
  <2>4. request[u].map \in AIMap /\ request[u] \in Offered /\ AtWork(u) /\ table[u] \in Tables
    BY <2>1, OfferedCalls DEF ParInv, ParTypeOK, AtWork
  <2>5. Mine(u)' = Mine(u)
    <3> DEFINE x == request[u].map
    <3>1. Mine(u)' = subs'[x][table[u]] /\ Mine(u) = subs[x][table[u]]
      BY <2>3 DEF Mine
    <3>2. CASE table[t] = table[u] /\ x \in Both(t)
      <4>1. Reads(t)
        BY <2>1, <2>4, <3>2, InvExcludes DEF OneWriter, Both
      <4> QED BY <2>4, <3>1, <4>1, ReadersChangeNothing
    <3>3. CASE ~(table[t] = table[u] /\ x \in Both(t))
      <4>1. subs'[x] = [subs[x] EXCEPT ![table[t]] = IF x = request[t].map THEN NewMine(t)
                                                    ELSE IF x = request[t].other THEN NewTheirs(t) ELSE subs[x][table[t]]]
        BY <2>4, TablesOfWork
      <4>2. CASE table[t] # table[u]
        BY <2>4, <3>1, <4>1, <4>2 DEF MapsArePieces, Pieces
      <4>3. CASE table[t] = table[u] /\ x \notin Both(t)
        <5>1. x # request[t].map /\ (x = request[t].other => ~OfPair(t))
          BY <4>3 DEF Both
        <5>2. ~OfPair(t) => NewTheirs(t) = Theirs(t)
          BY Zenon DEF NewTheirs, OfPair, PairCall
        <5>3. (IF x = request[t].map THEN NewMine(t) ELSE IF x = request[t].other THEN NewTheirs(t) ELSE subs[x][table[t]]) = subs[x][table[t]]
          BY <5>1, <5>2 DEF Theirs
        <5> QED BY <2>4, <3>1, <4>1, <4>3, <5>3 DEF MapsArePieces, Pieces
      <4> QED BY <3>3, <4>2, <4>3
    <3> QED BY <3>2, <3>3
  <2> QED BY <2>2, <2>3, <2>5
<1>6. RepliesRight'
  <2> SUFFICES ASSUME NEW u \in AIThread, pc'[u] \notin {"idle", "return"}
               PROVE  reply'[u] = IF request'[u].call = "equal" /\ table'[u] # 0 THEN <<TRUE>> ELSE <<>>
    BY DEF RepliesRight
  <2>1. CASE u # t
    BY <1>4, <2>1 DEF RepliesRight, Work, FramesOK
  <2>2. CASE u = t
    <3>1. ~AtLast(t) /\ reply'[t] = Reply(t) /\ table'[t] = table[t] + 1 /\ table[t] \in Nat
      BY <2>2, TablesAssumption DEF Work, ParInv, ParTypeOK, FramesOK, Tables
    <3>2. ~OfKey(t) /\ table'[t] # 0 /\ (request[t].call = "equal" => Mine(t) = Theirs(t))
      BY <3>1 DEF AtLast
    <3>3. Reply(t) = IF request[t].call = "equal" THEN <<TRUE>> ELSE <<>>
      <4>1. CASE request[t].call = "equal"
        <5>1. (Mine(t) = Theirs(t)) = TRUE
          BY <3>2, <4>1
        <5>2. Reply(t) = <<Mine(t) = Theirs(t)>>
          BY <4>1, Zenon DEF Reply
        <5> QED BY <4>1, <5>1, <5>2, Zenon
      <4>2. CASE request[t].call # "equal"
        BY <3>2, <4>2, Zenon DEF Reply, OfKey, KeyCall
      <4> QED BY <4>1, <4>2
    <3> QED BY <1>4, <2>2, <3>1, <3>2, <3>3
  <2> QED BY <2>1, <2>2
<1>7. PairsDiffer'
  BY <1>4 DEF PairsDiffer, AtWork, OfPair, Shared
<1> QED BY <1>1, <1>2, <1>3, <1>5, <1>6, <1>7

LEMMA AtomicNextInv == AtomicInv /\ [ParNext]_parVars => AtomicInv'
<1> SUFFICES ASSUME AtomicInv, [ParNext]_parVars PROVE AtomicInv'
  OBVIOUS
<1>1. ASSUME NEW t \in AIThread, Act(t) \/ EraseFound(t) PROVE AtomicInv'
  BY <1>1, AtomicWork DEF Act, EraseFound, AtWork
<1>2. CASE UNCHANGED parVars
  <2>1. ParInv'
    BY <1>2, ParNextInv DEF AtomicInv
  <2> QED BY <1>2, <2>1 DEF parVars, AtomicInv, FramesOK, MapsArePieces, SeenRight, RepliesRight, PairsDiffer, AtWork, OfKey, OfPair, Shared, Mine
<1> QED BY <1>1, <1>2, AtomicBegin, AtomicInside, AtomicLockSecond DEF ParNext

LEMMA AtomicInvariant == ParSpec => []AtomicInv
  BY AtomicInitInv, AtomicNextInv, PTL DEF ParSpec

-----------------------------------------------------------------------------
(* The calls on the parallel maps and on the maps as wholes. *)

Contents == [m \in AIMap |-> Whole(m)]
Callers == [t \in AIThread |-> CallOf(t)]

Concealed == Contents' = Contents /\ Callers' = Callers

LEMMA ContentsAre ==
  ASSUME NEW m \in AIMap
  PROVE  Contents[m] = Glued(subs[m]) /\ Contents'[m] = Glued(subs'[m])
  BY DEF Contents, Whole, Glued

\* A step of one thread is a step of its call.
LEMMA OneCallerMoves ==
  ASSUME NEW t \in AIThread, \A u \in AIThread \ {t} : CallOf(u)' = CallOf(u), NEW frame, CallOf(t)' = frame
  PROVE  Callers' = [Callers EXCEPT ![t] = frame]
  BY Zenon DEF Callers

LEMMA NoCallerMoves ==
  ASSUME \A u \in AIThread : CallOf(u)' = CallOf(u)
  PROVE  Callers' = Callers
  BY Zenon DEF Callers

LEMMA OtherCallsStay ==
  ASSUME NEW u \in AIThread, pc'[u] = pc[u], request'[u] = request[u], table'[u] = table[u], reply'[u] = reply[u]
  PROVE  CallOf(u)' = CallOf(u)
  BY DEF CallOf, Told, Left, OfKey

\* Before a call on a key has worked it has that key left; one on whole maps has all keys from its table on.
LEMMA LeftIs ==
  ASSUME NEW t \in AIThread, pc[t] \notin {"idle", "return"}
  PROVE  Left(t) = IF OfKey(t) THEN {request[t].key} ELSE UNION {KeysOf(i) : i \in table[t] .. NumTables - 1}
  BY DEF Left

LEMMA AllKeys == UNION {KeysOf(i) : i \in 0 .. NumTables - 1} = AIKey
  BY TablesAssumption DEF KeysOf, Tables

LEMMA BeginCalls ==
  ASSUME AtomicInv, NEW t \in AIThread, NEW r \in Offered, Begin(t, r)
  PROVE  Index!AICall(t, r) /\ Callers'[t].request = r /\ Callers'[t].call # "none"
<1> DEFINE frame == [call |-> r.call, request |-> r, answer |-> <<>>, left |-> IF r.call \in KeyCall THEN {r.key} ELSE AIKey]
<1>1. /\ pc'[t] = "lock" /\ request'[t] = r /\ reply'[t] = <<>>
      /\ r.call \notin KeyCall => table'[t] = 0
  BY DEF Begin, AtomicInv, ParInv, ParTypeOK, FramesOK
<1>2. UNION {KeysOf(i) : i \in 0 .. NumTables - 1} = AIKey
  BY AllKeys
<1>3. CallOf(t)' = frame
  BY <1>1, <1>2 DEF CallOf, Told, Left, OfKey
<1>4. \A u \in AIThread \ {t} : CallOf(u)' = CallOf(u)
  <2> TAKE u \in AIThread \ {t}
  <2> QED BY OtherCallsStay DEF Begin, AtomicInv, ParInv, ParTypeOK, FramesOK
<1>5. Callers' = [Callers EXCEPT ![t] = frame]
  BY <1>3, <1>4, OneCallerMoves
<1>6. Contents' = Contents
  BY DEF Contents, Whole, Begin
<1>7. Callers[t] = [call |-> "none"]
  BY DEF Callers, CallOf, Told, Left, OfKey, Begin
<1>8. /\ r \in Index!Request /\ r.call # "none"
      /\ r.call \in Index!KeyCall <=> r.call \in KeyCall
  BY OfferedAssumption DEF Index!Request, Index!KeyCall, Index!TableCall, Index!PairCall, KeyCall, TableCall, PairCall
<1>9. Callers'[t] = frame
  BY <1>5 DEF Callers
<1>10. Index!AICall(t, r)
  BY <1>5, <1>6, <1>7, <1>8 DEF Index!AICall, Index!AIIdle, Callers, Contents
<1> QED BY <1>8, <1>9, <1>10

\* Locks, searches and walks cannot be told apart.
LEMMA LockingConceals ==
  ASSUME AtomicInv, NEW t \in AIThread, Lock(t) \/ LockSecond(t) \/ BackOff(t) \/ Search(t) \/ StepOn(t) \/ Walk(t)
  PROVE  Concealed
<1> USE DEF Lock, LockSecond, BackOff, Search, StepOn, Walk
<1>1. /\ pc[t] \notin {"idle", "return"} /\ pc'[t] \notin {"idle", "return"}
      /\ request' = request /\ table' = table /\ reply' = reply /\ subs' = subs
      /\ \A u \in AIThread \ {t} : pc'[u] = pc[u]
  BY DEF AtomicInv, ParInv, ParTypeOK
<1>2. CallOf(t)' = CallOf(t)
  BY <1>1 DEF CallOf, Told, Left, OfKey
<1>3. \A u \in AIThread \ {t} : CallOf(u)' = CallOf(u)
  BY <1>1, OtherCallsStay
<1>4. Contents' = Contents
  BY <1>1 DEF Contents, Whole
<1> QED BY <1>2, <1>3, <1>4, NoCallerMoves DEF Concealed

LEMMA ReturnReturns == ASSUME AtomicInv, NEW t \in AIThread, Return(t) PROVE Index!AIReturn(t)
<1>1. CallOf(t)' = [call |-> "none"]
  BY DEF Return, AtomicInv, ParInv, ParTypeOK, CallOf, Told, Left, OfKey
<1>2. \A u \in AIThread \ {t} : CallOf(u)' = CallOf(u)
  <2> TAKE u \in AIThread \ {t}
  <2> QED BY OtherCallsStay DEF Return, AtomicInv, ParInv, ParTypeOK
<1>3. Callers' = [Callers EXCEPT ![t] = [call |-> "none"]]
  BY <1>1, <1>2, OneCallerMoves
<1>4. request[t] \in Offered
  BY DEF Return, AtomicInv, ParInv, ParTypeOK
<1>5. Callers[t].call # "none" /\ Callers[t].left = {}
  BY <1>4, OfferedAssumption DEF Callers, CallOf, Told, Left, OfKey, Return, KeyCall, TableCall, PairCall
<1>6. Contents' = Contents
  BY DEF Contents, Whole, Return
<1> QED BY <1>3, <1>5, <1>6 DEF Index!AIReturn, Index!AIIdle, Callers, Contents

-----------------------------------------------------------------------------
(* Work *)

\* The keys that a piece of work concerns.
Concerned(t) == IF OfKey(t) THEN {request[t].key} ELSE KeysOf(table[t])

\* t works now, and its call on a key has searched.
Working(t) == (pc[t] \in {"act", "walk"} \/ (pc[t] = "in" /\ ~OfKey(t))) /\ Work(t)

\* The maps before the work, and their parts in the locked tables.
LEMMA WorkedOn ==
  ASSUME AtomicInv, NEW t \in AIThread, Working(t)
  PROVE  /\ request[t] \in Offered /\ request[t].map \in AIMap /\ request[t].other \in AIMap
         /\ table[t] \in Tables
         /\ Pieces(subs[request[t].map]) /\ Pieces(subs[request[t].other])
         /\ Contents[request[t].map] = Glued(subs[request[t].map])
         /\ Contents[request[t].other] = Glued(subs[request[t].other])
         /\ AtWork(t)
         /\ OfKey(t) => /\ request[t].key \in KeysOf(table[t])
                        /\ seen[t] <=> request[t].key \in DOMAIN Mine(t)
                        /\ request[t].key \in DOMAIN Mine(t) <=> request[t].key \in DOMAIN Contents[request[t].map]
                        /\ request[t].key \in DOMAIN Mine(t) => Contents[request[t].map][request[t].key] = Mine(t)[request[t].key]
<1>1. request[t] \in Offered /\ table[t] \in Tables /\ AtWork(t)
  BY DEF Working, AtWork, AtomicInv, ParInv, ParTypeOK
<1>2. request[t].map \in AIMap /\ request[t].other \in AIMap /\ request[t].key \in AIKey
  BY <1>1, OfferedCalls
<1>3. Pieces(subs[request[t].map]) /\ Pieces(subs[request[t].other])
  BY <1>2 DEF AtomicInv, MapsArePieces
<1>4. Contents[request[t].map] = Glued(subs[request[t].map]) /\ Contents[request[t].other] = Glued(subs[request[t].other])
  BY <1>2, ContentsAre
<1>5. ASSUME OfKey(t) PROVE request[t].key \in KeysOf(table[t]) /\ (seen[t] <=> request[t].key \in DOMAIN Mine(t))
  BY <1>2, <1>5 DEF Working, AtomicInv, ParInv, OfKeyTable, SeenRight, KeysOf
<1>6. ASSUME OfKey(t)
      PROVE  /\ request[t].key \in DOMAIN Mine(t) <=> request[t].key \in DOMAIN Contents[request[t].map]
             /\ request[t].key \in DOMAIN Mine(t) => Contents[request[t].map][request[t].key] = Mine(t)[request[t].key]
  BY <1>1, <1>3, <1>4, <1>5, <1>6, GluedHas DEF Mine
<1> QED BY <1>1, <1>2, <1>3, <1>4, <1>5, <1>6

LEMMA ContentsPatched ==
  ASSUME AtomicInv, NEW t \in AIThread, Working(t), NEW m \in AIMap
  PROVE  Contents'[m] = IF m = request[t].map THEN Patched(Contents[m], table[t], NewMine(t))
                        ELSE IF m = request[t].other THEN Patched(Contents[m], table[t], NewTheirs(t)) ELSE Contents[m]
<1> DEFINE p == IF m = request[t].map THEN NewMine(t) ELSE IF m = request[t].other THEN NewTheirs(t) ELSE subs[m][table[t]]
<1>1. Glued(subs'[m]) = Patched(Glued(subs[m]), table[t], p)
  BY WorkedOn, TablesOfWork DEF Working, AtomicInv
<1>2. Patched(Glued(subs[m]), table[t], subs[m][table[t]]) = Glued(subs[m])
  BY WorkedOn, PatchedWithItself DEF AtomicInv, MapsArePieces
<1> QED BY <1>1, <1>2, ContentsAre

\* All calls but merge and swap leave the other map alone.
LEMMA OneMapChanges ==
  ASSUME AtomicInv, NEW t \in AIThread, Working(t), request[t].call \notin {"merge", "swap"}
  PROVE  Contents' = [Contents EXCEPT ![request[t].map] = Patched(Contents[request[t].map], table[t], NewMine(t))]
<1>1. NewTheirs(t) = subs[request[t].other][table[t]]
  BY Zenon DEF NewTheirs, Theirs
<1>2. Patched(Contents[request[t].other], table[t], NewTheirs(t)) = Contents[request[t].other]
  BY <1>1, WorkedOn, PatchedWithItself
<1>3. \A m \in AIMap : Contents'[m] = IF m = request[t].map THEN Patched(Contents[m], table[t], NewMine(t)) ELSE Contents[m]
  BY <1>2, ContentsPatched
<1>4. Contents' = [m \in AIMap |-> Contents'[m]] /\ Contents = [m \in AIMap |-> Contents[m]]
  BY DEF Contents
<1> QED BY <1>3, <1>4

\* What the abstract call does, on the contents of the maps.
LEMMA EffectIs ==
  ASSUME NEW r, NEW ks
  PROVE  Index!Effect(r, ks) =
    LET mine == Contents[r.map] theirs == Contents[r.other]
    IN  CASE r.call = "insert" -> [Contents EXCEPT ![r.map] = IF r.key \in DOMAIN mine THEN mine ELSE PutEntry(mine, r.key, r.value)]
          [] r.call \in {"update", "assign"} \/ (r.call = "modify" /\ r.key \in DOMAIN mine) -> [Contents EXCEPT ![r.map] = PutEntry(mine, r.key, r.value)]
          [] r.call \in {"erase", "erase_if", "clear"} -> [Contents EXCEPT ![r.map] = DropKeys(mine, ks)]
          [] r.call = "merge" -> [Contents EXCEPT ![r.map] = Join(mine, KeepKeys(theirs, ks)), ![r.other] = DropKeys(theirs, ks \ DOMAIN mine)]
          [] r.call = "swap" -> [Contents EXCEPT ![r.map] = Join(DropKeys(mine, ks), KeepKeys(theirs, ks)), ![r.other] = Join(DropKeys(theirs, ks), KeepKeys(mine, ks))]
          [] OTHER -> Contents
  BY DEF Index!Effect, Contents, Index!PutEntry, PutEntry, Index!DropKeys, DropKeys, Index!KeepKeys, KeepKeys,
         Index!Join, Join, Index!Restrict, Restrict

\* The work of t on its tables is what the call does to the keys in them.
LEMMA WorkTakesEffect ==
  ASSUME AtomicInv, NEW t \in AIThread, Working(t)
  PROVE  Contents' = Index!Effect(request[t], Concerned(t))
<1> DEFINE r == request[t]
           ks == Concerned(t)
           g == Contents[r.map]
           h == Contents[r.other]
           i == table[t]
           p == subs[r.map][i]
           q == subs[r.other][i]
<1>1. /\ r \in Offered /\ r.map \in AIMap /\ r.other \in AIMap /\ i \in Tables
      /\ Pieces(subs[r.map]) /\ Pieces(subs[r.other]) /\ AtWork(t)
      /\ g = Glued(subs[r.map]) /\ h = Glued(subs[r.other])
      /\ p = Mine(t) /\ q = Theirs(t)
  BY WorkedOn DEF Mine, Theirs
<1>2. r.call \in KeyCall =>
        /\ ks = {r.key} /\ r.key \in KeysOf(i)
        /\ seen[t] <=> r.key \in DOMAIN g
  BY WorkedOn DEF OfKey, Concerned
<1>3. r.call \notin KeyCall => ks = KeysOf(i)
  BY DEF OfKey, Concerned
<1>4. r.call \notin {"merge", "swap"} => Contents' = [Contents EXCEPT ![r.map] = Patched(g, i, NewMine(t))]
  BY OneMapChanges
<1>5. Patched(g, i, p) = g
  BY <1>1, PatchedWithItself
<1>6. Contents = [Contents EXCEPT ![r.map] = g]
  BY DEF Contents
<1>7. ASSUME r.call \in KeyCall
      PROVE  /\ Patched(g, i, PutEntry(p, r.key, r.value)) = PutEntry(g, r.key, r.value)
             /\ Patched(g, i, DropKeys(p, {r.key})) = DropKeys(g, {r.key})
  BY <1>1, <1>2, <1>7, PatchedForOneKey
<1>8. /\ Patched(g, i, DropKeys(p, DOMAIN p)) = DropKeys(g, KeysOf(i))
      /\ Patched(g, i, Join(p, q)) = Join(g, KeepKeys(h, KeysOf(i)))
      /\ Patched(h, i, KeepKeys(q, DOMAIN p)) = DropKeys(h, KeysOf(i) \ DOMAIN g)
      /\ Patched(g, i, q) = Join(DropKeys(g, KeysOf(i)), KeepKeys(h, KeysOf(i)))
      /\ Patched(h, i, p) = Join(DropKeys(h, KeysOf(i)), KeepKeys(g, KeysOf(i)))
  <2> DEFINE a == subs[r.map]
             b == subs[r.other]
  <2>1. Pieces(a) /\ Pieces(b) /\ i \in Tables /\ g = Glued(a) /\ h = Glued(b) /\ p = a[i] /\ q = b[i]
    BY <1>1
  <2> HIDE DEF g, h, p, q, i, a, b
  <2>2. /\ Patched(Glued(a), i, DropKeys(a[i], DOMAIN a[i])) = DropKeys(Glued(a), KeysOf(i))
        /\ Patched(Glued(a), i, Join(a[i], b[i])) = Join(Glued(a), KeepKeys(Glued(b), KeysOf(i)))
        /\ Patched(Glued(b), i, KeepKeys(b[i], DOMAIN a[i])) = DropKeys(Glued(b), KeysOf(i) \ DOMAIN Glued(a))
        /\ Patched(Glued(a), i, b[i]) = Join(DropKeys(Glued(a), KeysOf(i)), KeepKeys(Glued(b), KeysOf(i)))
        /\ Patched(Glued(b), i, a[i]) = Join(DropKeys(Glued(b), KeysOf(i)), KeepKeys(Glued(a), KeysOf(i)))
    BY <2>1, PatchedForTable
  <2>3. /\ Patched(g, i, DropKeys(p, DOMAIN p)) = DropKeys(g, KeysOf(i))
        /\ Patched(g, i, Join(p, q)) = Join(g, KeepKeys(h, KeysOf(i)))
    BY <2>1, <2>2
  <2>4. /\ Patched(h, i, KeepKeys(q, DOMAIN p)) = DropKeys(h, KeysOf(i) \ DOMAIN g)
        /\ Patched(g, i, q) = Join(DropKeys(g, KeysOf(i)), KeepKeys(h, KeysOf(i)))
    BY <2>1, <2>2
  <2>5. Patched(h, i, p) = Join(DropKeys(h, KeysOf(i)), KeepKeys(g, KeysOf(i)))
    BY <2>1, <2>2
  <2> QED BY <2>3, <2>4, <2>5
<1> HIDE DEF g, h, p, q, i
<1>9. CASE r.call = "insert"
  <2>1. Index!Effect(r, ks) = [Contents EXCEPT ![r.map] = IF r.key \in DOMAIN g THEN g ELSE PutEntry(g, r.key, r.value)]
    BY <1>9, Zenon, EffectIs DEF g
  <2>2. NewMine(t) = IF seen[t] THEN p ELSE PutEntry(p, r.key, r.value)
    BY <1>1, <1>9, Zenon DEF NewMine, Inserted
  <2>3. Patched(g, i, NewMine(t)) = IF r.key \in DOMAIN g THEN g ELSE PutEntry(g, r.key, r.value)
    BY <1>2, <1>5, <1>7, <1>9, <2>2 DEF KeyCall
  <2> QED BY <1>4, <1>9, <2>1, <2>3
<1>10. CASE r.call = "update"
  <2>1. Index!Effect(r, ks) = [Contents EXCEPT ![r.map] = PutEntry(g, r.key, r.value)]
    BY <1>10, Zenon, EffectIs DEF g
  <2>2. NewMine(t) = PutEntry(p, r.key, r.value)
    BY <1>1, <1>10, Zenon DEF NewMine, Updated
  <2> QED BY <1>4, <1>7, <1>10, <2>1, <2>2 DEF KeyCall
<1>11. CASE r.call = "modify" /\ r.key \in DOMAIN g
  <2>1. Index!Effect(r, ks) = [Contents EXCEPT ![r.map] = PutEntry(g, r.key, r.value)]
    BY <1>11, Zenon, EffectIs DEF g
  <2>2. NewMine(t) = PutEntry(p, r.key, r.value)
    BY <1>1, <1>2, <1>11 DEF NewMine, Modified, KeyCall
  <2> QED BY <1>4, <1>7, <1>11, <2>1, <2>2 DEF KeyCall
<1>12. CASE r.call = "modify" /\ r.key \notin DOMAIN g
  <2>1. Index!Effect(r, ks) = Contents
    BY <1>12, Zenon, EffectIs DEF g
  <2>2. NewMine(t) = p
    BY <1>1, <1>2, <1>12 DEF NewMine, Modified, KeyCall
  <2> QED BY <1>4, <1>5, <1>6, <1>12, <2>1, <2>2
<1>13. CASE r.call \in {"erase", "erase_if"}
  <2>1. Index!Effect(r, ks) = [Contents EXCEPT ![r.map] = DropKeys(g, {r.key})]
    BY <1>2, <1>13, EffectIs DEF g, KeyCall
  <2>2. NewMine(t) = IF seen[t] THEN DropKeys(p, {r.key}) ELSE p
    BY <1>1, <1>13 DEF NewMine, Erased
  <2>3. r.key \notin DOMAIN g => DropKeys(g, {r.key}) = g
    <3>1. g = [k \in DOMAIN g |-> g[k]]
      BY <1>1 DEF Glued
    <3> QED BY <3>1 DEF DropKeys, Restrict
  <2>4. Patched(g, i, NewMine(t)) = DropKeys(g, {r.key})
    BY <1>2, <1>5, <1>7, <1>13, <2>2, <2>3 DEF KeyCall
  <2> QED BY <1>4, <1>13, <2>1, <2>4
<1>14. CASE r.call = "clear"
  <2>1. Index!Effect(r, ks) = [Contents EXCEPT ![r.map] = DropKeys(g, ks)]
    BY <1>14, Zenon, EffectIs DEF g
  <2>2. NewMine(t) = DropKeys(p, DOMAIN p)
    BY <1>1, <1>14, Zenon DEF NewMine, Cleared
  <2> QED BY <1>3, <1>4, <1>8, <1>14, <2>1, <2>2 DEF KeyCall
<1>15. CASE r.call \in {"find", "rehash", "equal"}
  <2>1. Index!Effect(r, ks) = Contents
    BY <1>15, EffectIs DEF g
  <2>2. NewMine(t) = p
    BY <1>1, <1>15 DEF NewMine
  <2> QED BY <1>4, <1>5, <1>6, <1>15, <2>1, <2>2
<1>16. CASE r.call \in {"merge", "swap"}
  <2>1. r.map # r.other
    BY <1>1, <1>16 DEF AtomicInv, PairsDiffer, OfPair, PairCall, Shared
  <2>2. \A m \in AIMap : Contents'[m] = IF m = r.map THEN Patched(g, i, NewMine(t))
                                        ELSE IF m = r.other THEN Patched(h, i, NewTheirs(t)) ELSE Contents[m]
    BY <1>1, ContentsPatched DEF i, g, h
  <2>3. Contents' = [Contents EXCEPT ![r.map] = Patched(g, i, NewMine(t)), ![r.other] = Patched(h, i, NewTheirs(t))]
    <3>1. Contents' = [m \in AIMap |-> Contents'[m]] /\ Contents = [m \in AIMap |-> Contents[m]]
      BY DEF Contents
    <3> QED BY <1>1, <2>1, <2>2, <3>1
  <2>4. CASE r.call = "merge"
    <3>1. Index!Effect(r, ks) = [Contents EXCEPT ![r.map] = Join(g, KeepKeys(h, ks)), ![r.other] = DropKeys(h, ks \ DOMAIN g)]
      BY <2>4, Zenon, EffectIs DEF g, h
    <3>2. NewMine(t) = Join(p, q) /\ NewTheirs(t) = KeepKeys(q, DOMAIN p)
      BY <1>1, <2>4, Zenon DEF NewMine, NewTheirs, Merged, NotMerged
    <3> QED BY <1>3, <1>8, <2>3, <2>4, <3>1, <3>2 DEF KeyCall
  <2>5. CASE r.call = "swap"
    <3>1. Index!Effect(r, ks) = [Contents EXCEPT ![r.map] = Join(DropKeys(g, ks), KeepKeys(h, ks)), ![r.other] = Join(DropKeys(h, ks), KeepKeys(g, ks))]
      BY <2>5, Zenon, EffectIs DEF g, h
    <3>2. NewMine(t) = q /\ NewTheirs(t) = p
      BY <1>1, <2>5, Zenon DEF NewMine, NewTheirs
    <3> QED BY <1>3, <1>8, <2>3, <2>5, <3>1, <3>2 DEF KeyCall
  <2> QED BY <1>16, <2>4, <2>5
<1>17. r.call \in KeyCall \cup TableCall \cup PairCall
  BY <1>1, OfferedAssumption
<1> QED BY <1>9, <1>10, <1>11, <1>12, <1>13, <1>14, <1>15, <1>16, <1>17 DEF KeyCall, TableCall, PairCall

LEMMA AnswerIs ==
  ASSUME NEW r, NEW ks
  PROVE  Index!Answer(r, ks) =
    CASE r.call = "find" -> <<IF r.key \in DOMAIN Contents[r.map] THEN Contents[r.map][r.key] ELSE Nothing>>
      [] r.call \in {"insert", "update"} -> <<r.key \notin DOMAIN Contents[r.map]>>
      [] r.call \in {"modify", "erase", "erase_if"} -> <<r.key \in DOMAIN Contents[r.map]>>
      [] r.call = "list" -> <<DOMAIN Contents[r.map]>>
      [] r.call = "equal" -> <<KeepKeys(Contents[r.map], ks) = KeepKeys(Contents[r.other], ks)>>
      [] OTHER -> <<>>
  BY DEF Index!Answer, Contents, Index!KeepKeys, KeepKeys, Index!Restrict, Restrict

LEMMA WorkAnswers ==
  ASSUME AtomicInv, NEW t \in AIThread, Working(t)
  PROVE  Reply(t) = Index!Answer(request[t], Concerned(t))
<1> DEFINE r == request[t]
           ks == Concerned(t)
           g == Contents[r.map]
           h == Contents[r.other]
<1>1. /\ r \in Offered /\ table[t] \in Tables
      /\ Pieces(subs[r.map]) /\ Pieces(subs[r.other])
      /\ g = Glued(subs[r.map]) /\ h = Glued(subs[r.other])
  BY WorkedOn
<1>2. r.call \in KeyCall =>
        /\ seen[t] <=> r.key \in DOMAIN g
        /\ r.key \in DOMAIN g => g[r.key] = Mine(t)[r.key]
  BY WorkedOn DEF OfKey
<1>3. seen[t] \in BOOLEAN
  BY DEF AtomicInv, FramesOK
<1>4. CASE r.call = "find"
  <2> DEFINE value == IF r.key \in DOMAIN g THEN g[r.key] ELSE Nothing
             found == IF seen[t] THEN Mine(t)[r.key] ELSE Nothing
  <2>1. Index!Answer(r, ks) = <<value>>
    BY <1>4, Zenon, AnswerIs DEF g
  <2>2. Reply(t) = <<found>>
    BY <1>4, Zenon DEF Reply
  <2>3. value = found
    BY <1>2, <1>4 DEF KeyCall
  <2> HIDE DEF value, found
  <2> QED BY <2>1, <2>2, <2>3, Zenon
<1>5. CASE r.call \in {"insert", "update"}
  <2> DEFINE new == r.key \notin DOMAIN g
             unseen == ~seen[t]
  <2>1. Index!Answer(r, ks) = <<new>>
    BY <1>5, Zenon, AnswerIs DEF g
  <2>2. Reply(t) = <<unseen>>
    BY <1>5, Zenon DEF Reply
  <2>3. new = unseen
    BY <1>2, <1>3, <1>5 DEF KeyCall
  <2> HIDE DEF new, unseen
  <2> QED BY <2>1, <2>2, <2>3, Zenon
<1>6. CASE r.call \in {"modify", "erase", "erase_if"}
  <2>1. Index!Answer(r, ks) = <<r.key \in DOMAIN g>>
    BY <1>6, Zenon, AnswerIs DEF g
  <2>2. Reply(t) = <<seen[t]>>
    BY <1>6, Zenon DEF Reply
  <2>3. (r.key \in DOMAIN g) = seen[t]
    BY <1>2, <1>3, <1>6 DEF KeyCall
  <2> QED BY <2>1, <2>2, <2>3, Zenon
<1>7. CASE r.call = "equal"
  <2>1. Index!Answer(r, ks) = <<KeepKeys(g, ks) = KeepKeys(h, ks)>>
    BY <1>7, Zenon, AnswerIs DEF g, h
  <2>2. Reply(t) = <<Mine(t) = Theirs(t)>>
    BY <1>7, Zenon DEF Reply
  <2>3. ks = KeysOf(table[t])
    BY <1>7 DEF Concerned, OfKey, KeyCall
  <2>4. KeepKeys(g, ks) = Mine(t)
    BY <1>1, <2>3, PatchedForTable DEF Mine
  <2>5. KeepKeys(h, ks) = Theirs(t)
    BY <1>1, <2>3, PatchedForTable DEF Theirs
  <2> QED BY <2>1, <2>2, <2>4, <2>5
<1>8. CASE r.call \in TableCall \cup {"merge", "swap"}
  <2>1. Index!Answer(r, ks) = <<>>
    BY <1>8, AnswerIs DEF TableCall
  <2>2. Reply(t) = <<>>
    BY <1>8 DEF Reply, TableCall
  <2> QED BY <2>1, <2>2
<1>9. r.call \in KeyCall \cup TableCall \cup PairCall
  BY <1>1, OfferedAssumption
<1> QED BY <1>4, <1>5, <1>6, <1>7, <1>8, <1>9 DEF KeyCall, TableCall, PairCall

LEMMA KeysFrom ==
  ASSUME NEW i \in Nat
  PROVE  UNION {KeysOf(j) : j \in i .. NumTables - 1} = {k \in AIKey : SubIdx[k] >= i}
<1>1. \A k \in AIKey : SubIdx[k] \in 0 .. NumTables - 1
  BY TablesAssumption DEF Tables
<1>2. NumTables \in Nat
  BY TablesAssumption
<1>3. ASSUME NEW k \in AIKey PROVE (\E j \in i .. NumTables - 1 : k \in KeysOf(j)) <=> SubIdx[k] >= i
  BY <1>1, <1>2 DEF KeysOf
<1>4. \A j \in i .. NumTables - 1 : KeysOf(j) \subseteq AIKey
  BY DEF KeysOf
<1> QED BY <1>3, <1>4

\* The frame of a call after its work.
LEMMA CallAfterWork ==
  ASSUME AtomicInv, NEW t \in AIThread, Working(t)
  PROVE  /\ CallOf(t) = [call |-> request[t].call, request |-> request[t],
                         answer |-> IF Left(t) = AIKey THEN <<>> ELSE reply[t], left |-> Left(t)]
         /\ Left(t) = IF OfKey(t) THEN {request[t].key} ELSE {k \in AIKey : SubIdx[k] >= table[t]}
         /\ LET l == IF AtLast(t) THEN {} ELSE {k \in AIKey : SubIdx[k] >= table[t] + 1}
            IN  CallOf(t)' = [call |-> request[t].call, request |-> request[t],
                              answer |-> IF l = AIKey THEN <<>> ELSE Reply(t), left |-> l]
         /\ \A u \in AIThread \ {t} : CallOf(u)' = CallOf(u)
<1>1. /\ pc[t] \notin {"idle", "return"} /\ table[t] \in Nat
      /\ request'[t] = request[t] /\ reply'[t] = Reply(t)
      /\ pc'[t] = (IF AtLast(t) THEN "return" ELSE "lock")
      /\ ~AtLast(t) => table'[t] = table[t] + 1
      /\ OfKey(t) => AtLast(t)
  BY WorkedOn, TablesAssumption DEF Working, Work, AtLast, AtomicInv, ParInv, ParTypeOK, FramesOK, Tables
<1>2. CallOf(t) = [call |-> request[t].call, request |-> request[t],
                   answer |-> IF Left(t) = AIKey THEN <<>> ELSE reply[t], left |-> Left(t)]
  <2> DEFINE left == IF OfKey(t) THEN {request[t].key} ELSE UNION {KeysOf(i) : i \in table[t] .. NumTables - 1}
  <2>1. CallOf(t) = [call |-> request[t].call, request |-> request[t],
                     answer |-> IF left = AIKey THEN <<>> ELSE reply[t], left |-> left]
    BY <1>1 DEF CallOf, Told, Left, OfKey
  <2>2. Left(t) = left
    BY <1>1, LeftIs
  <2> HIDE DEF left
  <2> QED BY <2>1, <2>2
<1>3. Left(t) = IF OfKey(t) THEN {request[t].key} ELSE {k \in AIKey : SubIdx[k] >= table[t]}
  BY <1>1, LeftIs, KeysFrom
<1>4. ASSUME AtLast(t)
      PROVE  CallOf(t)' = [call |-> request[t].call, request |-> request[t],
                           answer |-> IF {} = AIKey THEN <<>> ELSE Reply(t), left |-> {}]
  BY <1>1, <1>4 DEF CallOf, Told, Left, OfKey
<1>5. ASSUME ~AtLast(t)
      PROVE  LET l == {k \in AIKey : SubIdx[k] >= table[t] + 1}
             IN  CallOf(t)' = [call |-> request[t].call, request |-> request[t],
                               answer |-> IF l = AIKey THEN <<>> ELSE Reply(t), left |-> l]
  <2>1. UNION {KeysOf(j) : j \in table[t] + 1 .. NumTables - 1} = {k \in AIKey : SubIdx[k] >= table[t] + 1}
    BY <1>1, KeysFrom
  <2>2. request[t].call \notin KeyCall
    BY <1>1, <1>5 DEF OfKey
  <2> QED BY <1>1, <1>5, <2>1, <2>2 DEF CallOf, Told, Left, OfKey
<1>6. \A u \in AIThread \ {t} : CallOf(u)' = CallOf(u)
  <2> TAKE u \in AIThread \ {t}
  <2> QED BY OtherCallsStay DEF Working, Work, AtomicInv, ParInv, ParTypeOK, FramesOK
<1> QED BY <1>2, <1>3, <1>4, <1>5, <1>6

\* Work in a table of some keys is the call on these keys.
LEMMA WorkApplies ==
  ASSUME AtomicInv, NEW t \in AIThread, Working(t), Concerned(t) # {}
  PROVE  \E ks \in SUBSET AIKey : Index!AIApply(t, ks)
<1> DEFINE r == request[t]
           ks == Concerned(t)
           left == Left(t)
           l == IF AtLast(t) THEN {} ELSE {k \in AIKey : SubIdx[k] >= table[t] + 1}
<1>1. /\ r \in Offered /\ table[t] \in 0 .. NumTables - 1 /\ NumTables \in Nat /\ r.key \in AIKey
      /\ \A k \in AIKey : SubIdx[k] \in 0 .. NumTables - 1
  BY WorkedOn, OfferedCalls, TablesAssumption DEF Tables
<1>2. left = IF OfKey(t) THEN {r.key} ELSE {k \in AIKey : SubIdx[k] >= table[t]}
  BY CallAfterWork
<1>3. ks = IF OfKey(t) THEN {r.key} ELSE {k \in AIKey : SubIdx[k] = table[t]}
  BY DEF Concerned, KeysOf
<1>4. Index!Answer(r, ks) = Reply(t)
  BY WorkAnswers
<1>5. Index!Ends(r, ks) <=> r.call = "equal" /\ Mine(t) # Theirs(t)
  <2>1. CASE r.call # "equal"
    BY <2>1 DEF Index!Ends
  <2>2. CASE r.call = "equal" /\ Mine(t) # Theirs(t)
    <3>1. (Mine(t) = Theirs(t)) = FALSE
      BY <2>2
    <3>2. Reply(t) = <<Mine(t) = Theirs(t)>>
      BY <2>2, Zenon DEF Reply
    <3>3. Index!Answer(r, ks) = <<FALSE>>
      BY <1>4, <3>1, <3>2, Zenon
    <3> QED BY <2>2, <3>3 DEF Index!Ends
  <2>3. CASE r.call = "equal" /\ Mine(t) = Theirs(t)
    <3>1. (Mine(t) = Theirs(t)) = TRUE
      BY <2>3
    <3>2. Reply(t) = <<Mine(t) = Theirs(t)>>
      BY <2>3, Zenon DEF Reply
    <3>3. Index!Answer(r, ks) = <<TRUE>>
      BY <1>4, <3>1, <3>2, Zenon
    <3>4. <<TRUE>> # <<FALSE>>
      OBVIOUS
    <3> QED BY <2>3, <3>3, <3>4 DEF Index!Ends
  <2> QED BY <2>1, <2>2, <2>3
<1>6. l = IF Index!Ends(r, ks) THEN {} ELSE left \ ks
  <2>1. CASE OfKey(t)
    BY <1>2, <1>3, <2>1 DEF AtLast
  <2>2. CASE r.call = "equal" /\ Mine(t) # Theirs(t)
    BY <1>5, <2>2 DEF AtLast
  <2>3. CASE ~OfKey(t) /\ ~(r.call = "equal" /\ Mine(t) # Theirs(t))
    <3>1. AtLast(t) <=> table[t] = NumTables - 1
      BY <2>3 DEF AtLast
    <3>2. left \ ks = {k \in AIKey : SubIdx[k] >= table[t] + 1}
      BY <1>1, <1>2, <1>3, <2>3
    <3>3. table[t] = NumTables - 1 => {k \in AIKey : SubIdx[k] >= table[t] + 1} = {}
      BY <1>1
    <3> QED BY <1>5, <2>3, <3>1, <3>2, <3>3
  <2> QED BY <2>1, <2>2, <2>3
<1>7. ks \subseteq AIKey /\ ks \subseteq left
  BY <1>1, <1>2, <1>3
<1>8. l # AIKey
  BY <1>6, <1>7
<1>9. /\ Callers[t] = CallOf(t) /\ CallOf(t).call = r.call /\ CallOf(t).request = r /\ CallOf(t).left = left
      /\ CallOf(t)' = [call |-> r.call, request |-> r, answer |-> IF l = AIKey THEN <<>> ELSE Reply(t), left |-> l]
      /\ \A u \in AIThread \ {t} : CallOf(u)' = CallOf(u)
  BY CallAfterWork DEF Callers
<1>10. r.call # "none"
  BY <1>1, OfferedAssumption DEF KeyCall, TableCall, PairCall
<1> DEFINE frame == [call |-> r.call, request |-> r, answer |-> Index!Answer(r, ks), left |-> IF Index!Ends(r, ks) THEN {} ELSE left \ ks]
<1>11. CallOf(t)' = frame
  BY <1>4, <1>6, <1>8, <1>9
<1>12. Callers' = [Callers EXCEPT ![t] = frame]
  BY <1>9, <1>11, OneCallerMoves
<1>13. Contents' = Index!Effect(r, ks)
  BY WorkTakesEffect
<1>14. Index!AIApply(t, ks)
  <2>1. Callers[t].call = r.call /\ Callers[t].request = r /\ Callers[t].left = left
    BY <1>9
  <2>2. Callers' = [Callers EXCEPT ![t] = [call |-> r.call, request |-> r, answer |-> Index!Answer(r, ks),
                                           left |-> IF Index!Ends(r, ks) THEN {} ELSE Callers[t].left \ ks]]
    BY <1>12, <2>1
  <2> HIDE DEF left, l
  <2> QED BY <1>7, <1>10, <1>13, <2>1, <2>2, Zenon DEF Index!AIApply, Callers, Contents
<1> QED BY <1>7, <1>14

\* Work in a table that no key selects cannot be seen.
LEMMA WorkConceals ==
  ASSUME AtomicInv, NEW t \in AIThread, Working(t), Concerned(t) = {}
  PROVE  Concealed
<1> DEFINE i == table[t]
           l == IF AtLast(t) THEN {} ELSE {k \in AIKey : SubIdx[k] >= i + 1}
<1>1. /\ ~OfKey(t) /\ KeysOf(i) = {} /\ request[t] \in Offered /\ i \in 0 .. NumTables - 1 /\ NumTables \in Nat
      /\ \A k \in AIKey : SubIdx[k] \in 0 .. NumTables - 1
      /\ request[t].key \in AIKey
  BY WorkedOn, OfferedCalls, TablesAssumption DEF Concerned, Tables
<1>2. Contents' = Contents
  <2>1. DOMAIN NewMine(t) = {} /\ DOMAIN NewTheirs(t) = {}
    BY <1>1, WorkedOn, TablesAfterWork DEF AtomicInv
  <2>2. ASSUME NEW m \in AIMap, NEW p, DOMAIN p = {} PROVE Patched(Contents[m], i, p) = Contents[m]
    <3>1. Contents[m] = [k \in DOMAIN Contents[m] |-> Contents[m][k]]
      BY ContentsAre DEF Glued
    <3> QED BY <1>1, <2>2, <3>1 DEF Patched
  <2>3. \A m \in AIMap : Contents'[m] = Contents[m]
    BY <2>1, <2>2, ContentsPatched
  <2>4. Contents' = [m \in AIMap |-> Contents'[m]] /\ Contents = [m \in AIMap |-> Contents[m]]
    BY DEF Contents
  <2> QED BY <2>3, <2>4
<1>3. Mine(t) = Theirs(t)
  <2>1. /\ Mine(t) \in PartialMap /\ DOMAIN Mine(t) = {}
        /\ Theirs(t) \in PartialMap /\ DOMAIN Theirs(t) = {}
    BY <1>1, WorkedOn DEF Mine, Theirs, Pieces
  <2>2. ASSUME NEW m \in PartialMap PROVE m = [k \in DOMAIN m |-> m[k]]
    BY DEF PartialMap
  <2> QED BY <2>1, <2>2
<1>4. Left(t) = {k \in AIKey : SubIdx[k] >= i}
  BY <1>1, CallAfterWork
<1>5. \A k \in AIKey : SubIdx[k] # i
  BY <1>1 DEF KeysOf
<1>6. l = Left(t)
  <2>1. AtLast(t) <=> i = NumTables - 1
    BY <1>1, <1>3 DEF AtLast
  <2>2. {k \in AIKey : SubIdx[k] >= i + 1} = {k \in AIKey : SubIdx[k] >= i}
    BY <1>1, <1>5
  <2>3. i = NumTables - 1 => {k \in AIKey : SubIdx[k] >= i + 1} = {}
    BY <1>1
  <2> QED BY <1>4, <2>1, <2>2, <2>3
<1>7. Left(t) # AIKey => i # 0
  BY <1>1, <1>4
<1>8. Reply(t) = IF request[t].call = "equal" THEN <<TRUE>> ELSE <<>>
  <2>1. CASE request[t].call = "equal"
    <3>1. (Mine(t) = Theirs(t)) = TRUE
      BY <1>3
    <3>2. Reply(t) = <<Mine(t) = Theirs(t)>>
      BY <2>1, Zenon DEF Reply
    <3> QED BY <2>1, <3>1, <3>2, Zenon
  <2>2. CASE request[t].call # "equal"
    BY <1>1, <2>2, Zenon DEF Reply, OfKey, KeyCall
  <2> QED BY <2>1, <2>2
<1>9. reply[t] = IF request[t].call = "equal" /\ i # 0 THEN <<TRUE>> ELSE <<>>
  BY DEF AtomicInv, RepliesRight, Working
<1>10. Left(t) # AIKey => Reply(t) = reply[t]
  BY <1>7, <1>8, <1>9
<1>11. CallOf(t)' = CallOf(t)
  <2>1. CallOf(t) = [call |-> request[t].call, request |-> request[t],
                     answer |-> IF Left(t) = AIKey THEN <<>> ELSE reply[t], left |-> Left(t)]
    BY CallAfterWork
  <2>2. CallOf(t)' = [call |-> request[t].call, request |-> request[t],
                      answer |-> IF l = AIKey THEN <<>> ELSE Reply(t), left |-> l]
    BY CallAfterWork
  <2> HIDE DEF l
  <2> QED BY <1>6, <1>10, <2>1, <2>2
<1>12. \A u \in AIThread : CallOf(u)' = CallOf(u)
  BY <1>11, CallAfterWork
<1> QED BY <1>2, <1>12, NoCallerMoves DEF Concealed

LEMMA IndexInit == AtomicInv /\ ParInit => Index!AIInit
<1> SUFFICES ASSUME AtomicInv, ParInit PROVE Index!AIInit
  OBVIOUS
<1>1. ASSUME NEW m \in AIMap PROVE DOMAIN Contents[m] \subseteq AIKey /\ \A k \in DOMAIN Contents[m] : Contents[m][k] \in AIValue
  <2>1. Contents[m] \in PartialMap
    BY ContentsAre, GluedIsMap DEF AtomicInv, MapsArePieces
  <2> QED BY <2>1 DEF PartialMap
<1>2. DOMAIN Contents = AIMap
  BY DEF Contents
<1>3. Callers = [t \in AIThread |-> [call |-> "none"]]
  BY DEF ParInit, Callers, CallOf, Told, Left, OfKey
<1> QED BY <1>1, <1>2, <1>3, Zenon DEF Index!AIInit, Index!AIIdle, Callers, Contents

LEMMA IndexNext == AtomicInv /\ [ParNext]_parVars => [Index!AINext]_<<Contents, Callers>>
<1> SUFFICES ASSUME AtomicInv, [ParNext]_parVars PROVE Index!AINext \/ Concealed
  BY DEF Concealed
<1>1. ASSUME NEW t \in AIThread, NEW r \in Offered, Begin(t, r) PROVE Index!AINext
  <2>1. Index!AICall(t, r) /\ Callers'[t].request = r /\ Callers'[t].call # "none"
    BY <1>1, BeginCalls
  <2> QED BY <2>1, Zenon DEF Index!AINext, Callers
<1>2. ASSUME NEW t \in AIThread, Act(t) \/ EraseFound(t) PROVE Index!AINext \/ Concealed
  <2>1. Working(t)
    BY <1>2 DEF Act, EraseFound, Working
  <2>2. CASE Concerned(t) = {}
    BY <2>1, <2>2, WorkConceals
  <2>3. CASE Concerned(t) # {}
    BY <2>1, <2>3, WorkApplies DEF Index!AINext
  <2> QED BY <2>2, <2>3
<1>3. ASSUME NEW t \in AIThread, Return(t) PROVE Index!AINext
  BY <1>3, ReturnReturns DEF Index!AINext
<1>4. ASSUME NEW t \in AIThread, Lock(t) \/ LockSecond(t) \/ BackOff(t) \/ Search(t) \/ StepOn(t) \/ Walk(t) PROVE Concealed
  BY <1>4, LockingConceals
<1>5. CASE UNCHANGED parVars
  <2>1. \A u \in AIThread : CallOf(u)' = CallOf(u)
    <3> TAKE u \in AIThread
    <3> QED BY <1>5, OtherCallsStay DEF parVars
  <2>2. Contents' = Contents
    BY <1>5 DEF parVars, Contents, Whole
  <2> QED BY <2>1, <2>2, NoCallerMoves DEF Concealed
<1> QED BY <1>1, <1>2, <1>3, <1>4, <1>5 DEF ParNext

\* The parallel maps (phmap.h) are one map each to their callers: a call on a
\* key takes effect between its start and its return, a call on whole maps
\* does so key by key, and answers are those of that moment, for any number of
\* tables and threads and any mix of calls.
THEOREM CallsTakeEffectAtOnce == ParSpec => CallsAreAtomic
<1>1. AtomicInv /\ ParInit => Index!AIInit
  BY IndexInit
<1>2. AtomicInv /\ [ParNext]_parVars => [Index!AINext]_<<[m \in AIMap |-> Whole(m)], [t \in AIThread |-> CallOf(t)]>>
  BY IndexNext DEF Contents, Callers
<1> QED BY <1>1, <1>2, AtomicInvariant, PTL DEF ParSpec, CallsAreAtomic, Index!AISpec

-----------------------------------------------------------------------------
(***************************************************************************)
(* Two copies.                                                             *)
(***************************************************************************)
Map == UNION {[D -> DBValue] : D \in SUBSET DBKey}

\* The call of t is one that looks, or one that changes.
Reader(t) == phase[t] \in {"read", "load", "look", "looked"}
Modifier(t) == phase[t] \in {"change", "flip", "wait", "unlock"}
Writer(t) == phase[t] = "modify" \/ Modifier(t)

DBTypeOK == /\ copies \in [0 .. 1 -> Map]
            /\ infront \in 0 .. 1
            /\ modifier \in DBThread \cup {None}
            /\ phase \in [DBThread -> {"idle", "read", "load", "look", "looked", "modify", "change", "flip", "wait", "unlock"}]
            /\ asked \in [DBThread -> DBRequest \cup {None}]
            /\ copy \in [DBThread -> 0 .. 1]
            /\ awaited \in [DBThread -> SUBSET DBThread]
            /\ DOMAIN told = DBThread
            /\ DOMAIN made = DBThread

Calling == \A t \in DBThread : /\ Reader(t) => asked[t] \in DBRequest /\ OnlyReads(asked[t])
                               /\ Writer(t) => asked[t] \in DBRequest /\ ~OnlyReads(asked[t])

OneModifier == \A t \in DBThread : Modifier(t) <=> modifier = t

\* How the two copies differ.
CopiesMatch == /\ (\A t \in DBThread : phase[t] \notin {"flip", "wait"}) => copies[1 - infront] = copies[infront]
               /\ \A t \in DBThread : phase[t] = "flip" => /\ Alters(copies[infront], asked[t])
                                                           /\ copies[1 - infront] = Altered(copies[infront], asked[t])
               /\ \A t \in DBThread : phase[t] = "wait" => copies[infront] = Altered(copies[1 - infront], asked[t])

\* Whoever looks at the copy behind is waited for.
LateReaders == \A u \in DBThread : phase[u] = "look" /\ copy[u] # infront => \E t \in DBThread : phase[t] = "wait" /\ u \in awaited[t]

DBInv == DBTypeOK /\ Calling /\ OneModifier /\ CopiesMatch /\ LateReaders

LEMMA AlteredIsMap ==
  ASSUME NEW m \in Map, NEW r \in DBRequest
  PROVE  Altered(m, r) \in Map
<1>1. PICK D \in SUBSET DBKey : m \in [D -> DBValue]
  BY DEF Map
<1>2. r.key \in DBKey /\ r.value \in DBValue
  BY RequestAssumption
<1>3. CASE r.call = "erase"
  <2>1. Altered(m, r) \in [D \ {r.key} -> DBValue]
    BY <1>1, <1>3 DEF Altered, DropKeys, Restrict
  <2> QED BY <2>1 DEF Map
<1>4. CASE r.call # "erase"
  <2>1. Altered(m, r) \in [D \cup {r.key} -> DBValue]
    BY <1>1, <1>2, <1>4 DEF Altered, PutEntry
  <2> QED BY <2>1, <1>2 DEF Map
<1> QED BY <1>3, <1>4

LEMMA DBInitInv == DBInit => DBInv
<1> SUFFICES ASSUME DBInit PROVE DBInv
  OBVIOUS
<1>1. PICK m \in DBStored : copies = [i \in 0 .. 1 |-> m]
  BY DEF DBInit
<1>2. m \in Map
  BY StoredAssumption DEF Map
<1>3. DBTypeOK
  BY <1>1, <1>2 DEF DBInit, DBTypeOK
<1>4. CopiesMatch
  BY <1>1 DEF DBInit, CopiesMatch
<1> QED BY <1>3, <1>4, ThreadAssumption DEF DBInit, DBInv, Calling, Reader, Writer, Modifier, OneModifier, LateReaders

-----------------------------------------------------------------------------
(* The invariant, action by action. *)

LEMMA AskInv == ASSUME DBInv, NEW t \in DBThread, NEW r \in DBRequest, Ask(t, r) PROVE DBInv'
<1> USE DEF DBInv, Ask
<1>1. DBTypeOK' BY DEF DBTypeOK
<1>2. Calling' BY DEF DBTypeOK, Calling, Reader, Writer, Modifier
<1>3. OneModifier' BY DEF DBTypeOK, OneModifier, Modifier
<1>4. CopiesMatch' BY DEF DBTypeOK, CopiesMatch
<1>5. LateReaders' BY DEF DBTypeOK, LateReaders
<1> QED BY <1>1, <1>2, <1>3, <1>4, <1>5

LEMMA ReadInv == ASSUME DBInv, NEW t \in DBThread, BeginRead(t) \/ LoadIndex(t) \/ Look(t) \/ EndRead(t) PROVE DBInv'
<1> USE DEF DBInv, BeginRead, LoadIndex, Look, EndRead
<1>1. DBTypeOK' BY DEF DBTypeOK
<1>2. Calling' BY DEF DBTypeOK, Calling, Reader, Writer, Modifier
<1>3. OneModifier' BY DEF DBTypeOK, OneModifier, Modifier
<1>4. CopiesMatch' BY DEF DBTypeOK, CopiesMatch
<1>5. LateReaders' BY DEF DBTypeOK, LateReaders
<1> QED BY <1>1, <1>2, <1>3, <1>4, <1>5

LEMMA DBLockInv == ASSUME DBInv, NEW t \in DBThread, LockModify(t) \/ NothingToChange(t) \/ EndModify(t) PROVE DBInv'
<1> USE DEF DBInv, LockModify, NothingToChange, EndModify
<1>1. DBTypeOK' BY DEF DBTypeOK
<1>2. Calling' BY DEF DBTypeOK, Calling, Reader, Writer, Modifier
<1>3. OneModifier'
  <2>1. CASE LockModify(t) BY <2>1, ThreadAssumption DEF DBTypeOK, OneModifier, Modifier
  <2>2. CASE NothingToChange(t) BY <2>2 DEF DBTypeOK, OneModifier, Modifier
  <2>3. CASE EndModify(t) BY <2>3, ThreadAssumption DEF DBTypeOK, OneModifier, Modifier
  <2> QED BY <2>1, <2>2, <2>3
<1>4. CopiesMatch' BY DEF DBTypeOK, CopiesMatch
<1>5. LateReaders' BY DEF DBTypeOK, LateReaders
<1> QED BY <1>1, <1>2, <1>3, <1>4, <1>5

\* No other thread has a phase in which it holds the mutex of Modify.
LEMMA Alone == ASSUME OneModifier, NEW t \in DBThread, Modifier(t), NEW u \in DBThread, u # t
               PROVE  phase[u] \notin {"change", "flip", "wait", "unlock"}
  BY DEF OneModifier, Modifier

LEMMA ChangeBehindInv == ASSUME DBInv, NEW t \in DBThread, ChangeBehind(t) PROVE DBInv'
<1> USE DEF DBInv, ChangeBehind
<1>1. \A u \in DBThread \ {t} : phase[u] \notin {"change", "flip", "wait", "unlock"}
  BY Alone DEF Modifier
<1>2. asked[t] \in DBRequest
  BY DEF Calling, Writer, Modifier
<1>3. copies[1 - infront] = copies[infront] /\ 1 - infront \in 0 .. 1 /\ 1 - infront # infront
  BY <1>1 DEF DBTypeOK, CopiesMatch
<1>4. Altered(copies[1 - infront], asked[t]) \in Map
  BY <1>2, <1>3, AlteredIsMap DEF DBTypeOK
<1>5. DBTypeOK' BY <1>4 DEF DBTypeOK
<1>6. Calling' BY DEF DBTypeOK, Calling, Reader, Writer, Modifier
<1>7. OneModifier' BY DEF DBTypeOK, OneModifier, Modifier
<1>8. CopiesMatch'
  <2>1. /\ copies'[infront] = copies[infront]
        /\ copies'[1 - infront] = Altered(copies[infront], asked[t])
    BY <1>3 DEF DBTypeOK
  <2> QED BY <1>1, <1>3, <2>1 DEF DBTypeOK, CopiesMatch
<1>9. LateReaders' BY DEF DBTypeOK, LateReaders
<1> QED BY <1>5, <1>6, <1>7, <1>8, <1>9

LEMMA FlipInv == ASSUME DBInv, NEW t \in DBThread, Flip(t) PROVE DBInv'
<1> USE DEF DBInv, Flip
<1>1. \A u \in DBThread \ {t} : phase[u] \notin {"change", "flip", "wait", "unlock"}
  BY Alone DEF Modifier
<1>2. DBTypeOK' BY DEF DBTypeOK, ToAwait
<1>3. Calling' BY DEF DBTypeOK, Calling, Reader, Writer, Modifier
<1>4. OneModifier' BY DEF DBTypeOK, OneModifier, Modifier
<1>5. CopiesMatch'
  <2>1. infront' = 1 - infront /\ 1 - infront' = infront
    BY DEF DBTypeOK
  <2> QED BY <1>1, <2>1 DEF DBTypeOK, CopiesMatch
<1>6. LateReaders' BY DEF DBTypeOK, LateReaders, ToAwait
<1> QED BY <1>2, <1>3, <1>4, <1>5, <1>6

LEMMA WaitInv == ASSUME DBInv, NEW t \in DBThread, NEW u \in DBThread, WaitReadDone(t, u) PROVE DBInv'
<1> USE DEF DBInv, WaitReadDone
<1>1. DBTypeOK' BY DEF DBTypeOK
<1>2. Calling' BY DEF DBTypeOK, Calling, Reader, Writer, Modifier
<1>3. OneModifier' BY DEF DBTypeOK, OneModifier, Modifier
<1>4. CopiesMatch' BY DEF DBTypeOK, CopiesMatch
<1>5. LateReaders' BY DEF DBTypeOK, LateReaders, Reading
<1> QED BY <1>1, <1>2, <1>3, <1>4, <1>5

LEMMA ChangeAgainInv == ASSUME DBInv, NEW t \in DBThread, ChangeAgain(t) PROVE DBInv'
<1> USE DEF DBInv, ChangeAgain
<1>1. \A u \in DBThread \ {t} : phase[u] \notin {"change", "flip", "wait", "unlock"}
  BY Alone DEF Modifier
<1>2. asked[t] \in DBRequest
  BY DEF Calling, Writer, Modifier
<1>3. 1 - infront \in 0 .. 1 /\ 1 - infront # infront
  BY DEF DBTypeOK
<1>4. Altered(copies[1 - infront], asked[t]) \in Map
  BY <1>2, <1>3, AlteredIsMap DEF DBTypeOK
<1>5. DBTypeOK' BY <1>4 DEF DBTypeOK
<1>6. Calling' BY DEF DBTypeOK, Calling, Reader, Writer, Modifier
<1>7. OneModifier' BY DEF DBTypeOK, OneModifier, Modifier
<1>8. CopiesMatch'
  <2>1. copies'[infront] = copies[infront] /\ copies'[1 - infront] = copies[infront]
    BY <1>3 DEF DBTypeOK, CopiesMatch
  <2> QED BY <1>1, <2>1 DEF DBTypeOK, CopiesMatch
<1>9. LateReaders' BY <1>1 DEF DBTypeOK, LateReaders
<1> QED BY <1>5, <1>6, <1>7, <1>8, <1>9

LEMMA DBNextInv == DBInv /\ [DBNext]_dbVars => DBInv'
<1> SUFFICES ASSUME DBInv, [DBNext]_dbVars PROVE DBInv'
  OBVIOUS
<1>1. CASE UNCHANGED dbVars
  BY <1>1 DEF dbVars, DBInv, DBTypeOK, Calling, Reader, Writer, Modifier, OneModifier, CopiesMatch, LateReaders
<1>2. CASE DBNext
  BY <1>2, AskInv, ReadInv, DBLockInv, ChangeBehindInv, FlipInv, WaitInv, ChangeAgainInv DEF DBNext
<1> QED BY <1>1, <1>2

\* The copies differ only while one thread modifies them, and readers that are
\* late look at what they have loaded.
THEOREM DBInvariant == DBSpec => []DBInv
  BY DBInitInv, DBNextInv, PTL DEF DBSpec

-----------------------------------------------------------------------------
(* The refinement: what AtomicIndex sees of the two copies and the calls. *)

Has == [m \in {"d"} |-> copies[infront]]
Doing == [t \in DBThread |-> DoingOf(t)]

LEMMA OneCallMoves ==
  ASSUME NEW t \in DBThread, \A u \in DBThread \ {t} : DoingOf(u)' = DoingOf(u)
  PROVE  Doing' = [Doing EXCEPT ![t] = DoingOf(t)']
  BY DEF Doing

LEMMA NoCallMoves ==
  ASSUME \A u \in DBThread : DoingOf(u)' = DoingOf(u)
  PROVE  Doing' = Doing
  BY DEF Doing

\* What the calls see stays as it is while the copy in front does, and nobody looks at the other.
LEMMA OthersStay ==
  ASSUME NEW u \in DBThread, phase'[u] = phase[u], asked'[u] = asked[u], told'[u] = told[u], copy'[u] = copy[u],
         phase[u] = "look" => copies'[copy[u]] = copies[copy[u]]
  PROVE  DoingOf(u)' = DoingOf(u)
<1>1. CASE phase[u] = "look"
  BY <1>1 DEF DoingOf, Effective, AnswerOf
<1>2. CASE phase[u] # "look"
  BY <1>2 DEF DoingOf, Effective, AnswerOf
<1> QED BY <1>1, <1>2

LEMMA AskImplements ==
  ASSUME DBInv, NEW t \in DBThread, NEW r \in DBRequest, Ask(t, r)
  PROVE  /\ OneMap!AICall(t, r)
         /\ Doing'[t] = [call |-> r.call, request |-> r, answer |-> <<>>, left |-> IF r.call = "list" THEN DBKey ELSE {r.key}]
<1> DEFINE frame == [call |-> r.call, request |-> r, answer |-> <<>>, left |-> IF r.call = "list" THEN DBKey ELSE {r.key}]
<1>1. phase'[t] \in {"read", "modify"} /\ asked'[t] = r /\ told'[t] = <<>>
  BY DEF Ask, DBInv, DBTypeOK
<1>2. DoingOf(t)' = frame
  BY <1>1 DEF DoingOf, Effective, AnswerOf
<1>3. \A u \in DBThread \ {t} : DoingOf(u)' = DoingOf(u)
  <2> TAKE u \in DBThread \ {t}
  <2> QED BY OthersStay DEF Ask, DBInv, DBTypeOK
<1>4. Doing' = [Doing EXCEPT ![t] = frame]
  BY <1>2, <1>3, OneCallMoves
<1>5. Doing[t] = [call |-> "none"]
  BY DEF Doing, DoingOf, Effective, AnswerOf, Ask
<1>6. /\ r \in OneMap!Request
      /\ r.call \in OneMap!KeyCall <=> r.call # "list"
  BY RequestAssumption DEF OneMap!Request, OneMap!KeyCall, OneMap!TableCall, OneMap!PairCall
<1>7. Has' = Has
  BY DEF Has, Ask
<1>8. Doing'[t] = frame
  BY <1>4 DEF Doing
<1>9. OneMap!AICall(t, r)
  BY <1>4, <1>5, <1>6, <1>7 DEF OneMap!AICall, OneMap!AIIdle, Doing, Has
<1> QED BY <1>8, <1>9

\* Neither what is in front changes, nor any call as it is seen.
Unseen == Has' = Has /\ Doing' = Doing

\* The call of t takes the effect and the answer that the abstract one has, on the keys it has left.
Applies(t) == /\ Has' = OneMap!Effect(asked[t], DoingOf(t).left)
              /\ Doing' = [Doing EXCEPT ![t] = [call |-> asked[t].call, request |-> asked[t],
                                                answer |-> OneMap!Answer(asked[t], DoingOf(t).left), left |-> {}]]

LEMMA LoadApplies == ASSUME DBInv, NEW t \in DBThread, LoadIndex(t) PROVE Applies(t)
<1> DEFINE r == asked[t]
           ks == DoingOf(t).left
<1>1. /\ phase'[t] = "look" /\ copy'[t] = infront /\ asked'[t] = r /\ told'[t] = told[t] /\ copies' = copies
      /\ r \in DBRequest /\ r.call \in {"find", "list"} /\ r.map = "d"
  BY RequestAssumption DEF LoadIndex, DBInv, DBTypeOK, Calling, Reader, OnlyReads
<1>2. OneMap!Answer(r, ks) = FoundIn(copies[infront], r)
  BY <1>1 DEF OneMap!Answer, FoundIn
<1>3. DoingOf(t)' = [call |-> r.call, request |-> r, answer |-> FoundIn(copies[infront], r), left |-> {}]
  BY <1>1 DEF DoingOf, Effective, AnswerOf
<1>4. \A u \in DBThread \ {t} : DoingOf(u)' = DoingOf(u)
  <2> TAKE u \in DBThread \ {t}
  <2> QED BY OthersStay DEF LoadIndex, DBInv, DBTypeOK
<1>5. Doing' = [Doing EXCEPT ![t] = [call |-> r.call, request |-> r, answer |-> OneMap!Answer(r, ks), left |-> {}]]
  BY <1>2, <1>3, <1>4, OneCallMoves
<1>6. OneMap!Effect(r, ks) = Has
  BY <1>1 DEF OneMap!Effect, Has
<1>7. Has' = Has
  BY DEF Has, LoadIndex
<1> QED BY <1>5, <1>6, <1>7 DEF Applies

LEMMA BeginReadUnseen == ASSUME DBInv, NEW t \in DBThread, BeginRead(t) PROVE Unseen
<1>1. DoingOf(t)' = DoingOf(t)
  BY DEF BeginRead, DBInv, DBTypeOK, DoingOf, Effective, AnswerOf
<1>2. \A u \in DBThread \ {t} : DoingOf(u)' = DoingOf(u)
  <2> TAKE u \in DBThread \ {t}
  <2> QED BY OthersStay DEF BeginRead, DBInv, DBTypeOK
<1> QED BY <1>1, <1>2, NoCallMoves DEF Unseen, Has, BeginRead

\* What the reader takes away is what the copy had when it loaded the index.
LEMMA LookUnseen == ASSUME DBInv, NEW t \in DBThread, Look(t) PROVE Unseen
<1>1. told'[t] = FoundIn(copies[copy[t]], asked[t])
  BY DEF Look, DBInv, DBTypeOK
<1>2. DoingOf(t)' = DoingOf(t)
  BY <1>1 DEF Look, DBInv, DBTypeOK, DoingOf, Effective, AnswerOf
<1>3. \A u \in DBThread \ {t} : DoingOf(u)' = DoingOf(u)
  <2> TAKE u \in DBThread \ {t}
  <2> QED BY OthersStay DEF Look, DBInv, DBTypeOK
<1> QED BY <1>2, <1>3, NoCallMoves DEF Unseen, Has, Look

LEMMA EndImplements == ASSUME DBInv, NEW t \in DBThread, EndRead(t) \/ EndModify(t) PROVE OneMap!AIReturn(t)
<1> USE DEF EndRead, EndModify
<1>1. DoingOf(t)' = [call |-> "none"]
  BY DEF DBInv, DBTypeOK, DoingOf, Effective, AnswerOf
<1>2. \A u \in DBThread \ {t} : DoingOf(u)' = DoingOf(u)
  <2> TAKE u \in DBThread \ {t}
  <2> QED BY OthersStay DEF DBInv, DBTypeOK
<1>3. Doing[t].call # "none" /\ Doing[t].left = {}
  BY RequestAssumption DEF Doing, DBInv, Calling, Reader, Writer, Modifier, DoingOf, Effective, AnswerOf
<1>4. Has' = Has
  BY DEF Has
<1> QED BY <1>1, <1>2, <1>3, <1>4, OneCallMoves DEF OneMap!AIReturn, OneMap!AIIdle, Doing, Has

LEMMA LockUnseen == ASSUME DBInv, NEW t \in DBThread, LockModify(t) PROVE Unseen
<1>1. DoingOf(t)' = DoingOf(t)
  BY DEF LockModify, DBInv, DBTypeOK, DoingOf, Effective, AnswerOf
<1>2. \A u \in DBThread \ {t} : DoingOf(u)' = DoingOf(u)
  <2> TAKE u \in DBThread \ {t}
  <2> QED BY OthersStay DEF LockModify, DBInv, DBTypeOK
<1> QED BY <1>1, <1>2, NoCallMoves DEF Unseen, Has, LockModify

LEMMA WaitUnseen == ASSUME DBInv, NEW t \in DBThread, NEW w \in DBThread, WaitReadDone(t, w) PROVE Unseen
<1>1. \A u \in DBThread : DoingOf(u)' = DoingOf(u)
  <2> TAKE u \in DBThread
  <2> QED BY OthersStay DEF WaitReadDone
<1> QED BY <1>1, NoCallMoves DEF Unseen, Has, WaitReadDone

\* Nobody looks at the copy behind: no thread waits, or the one that does waits for nobody.
LEMMA ChangeUnseen == ASSUME DBInv, NEW t \in DBThread, ChangeBehind(t) \/ ChangeAgain(t) PROVE Unseen
<1> USE DEF ChangeBehind, ChangeAgain
<1>1. \A u \in DBThread \ {t} : phase[u] # "wait"
  BY Alone DEF Modifier, DBInv
<1>2. \A u \in DBThread : phase[u] = "look" => copy[u] = infront
  BY <1>1 DEF DBInv, LateReaders
<1>3. copies'[infront] = copies[infront]
  BY DEF DBInv, DBTypeOK
<1>4. DoingOf(t)' = DoingOf(t)
  <2>1. CASE ChangeBehind(t) BY <2>1 DEF DBInv, DBTypeOK, DoingOf, Effective, AnswerOf
  <2>2. CASE ChangeAgain(t) BY <2>2 DEF DBInv, DBTypeOK, DoingOf, Effective, AnswerOf
  <2> QED BY <2>1, <2>2
<1>5. \A u \in DBThread \ {t} : DoingOf(u)' = DoingOf(u)
  <2> TAKE u \in DBThread \ {t}
  <2> QED BY <1>2, <1>3, OthersStay DEF DBInv, DBTypeOK
<1> QED BY <1>3, <1>4, <1>5, NoCallMoves DEF Unseen, Has

\* The effects of the three modifications on the one map.
LEMMA EffectOfOne ==
  ASSUME NEW r \in DBRequest, r.map = "d"
  PROVE  LET m == copies[infront]
         IN  /\ r.call = "insert" /\ r.key \notin DOMAIN m => OneMap!Effect(r, {r.key}) = [Has EXCEPT !["d"] = PutEntry(m, r.key, r.value)]
             /\ r.call = "insert" /\ r.key \in DOMAIN m => OneMap!Effect(r, {r.key}) = [Has EXCEPT !["d"] = m]
             /\ r.call = "assign" => OneMap!Effect(r, {r.key}) = [Has EXCEPT !["d"] = PutEntry(m, r.key, r.value)]
             /\ r.call = "erase" => OneMap!Effect(r, {r.key}) = [Has EXCEPT !["d"] = DropKeys(m, {r.key})]
<1> DEFINE m == copies[infront]
<1>1. Has["d"] = m
  BY DEF Has
<1>2. OneMap!PutEntry(m, r.key, r.value) = PutEntry(m, r.key, r.value)
  BY DEF OneMap!PutEntry, PutEntry
<1>3. OneMap!DropKeys(m, {r.key}) = DropKeys(m, {r.key})
  BY DEF OneMap!DropKeys, DropKeys, OneMap!Restrict, Restrict
<1>4. ASSUME r.call = "insert", r.key \notin DOMAIN m
      PROVE  OneMap!Effect(r, {r.key}) = [Has EXCEPT !["d"] = PutEntry(m, r.key, r.value)]
  BY <1>1, <1>2, <1>4, Zenon DEF OneMap!Effect, Has
<1>5. ASSUME r.call = "insert", r.key \in DOMAIN m
      PROVE  OneMap!Effect(r, {r.key}) = [Has EXCEPT !["d"] = m]
  BY <1>1, <1>5, Zenon DEF OneMap!Effect, Has
<1>6. ASSUME r.call = "assign"
      PROVE  OneMap!Effect(r, {r.key}) = [Has EXCEPT !["d"] = PutEntry(m, r.key, r.value)]
  BY <1>1, <1>2, <1>6, Zenon DEF OneMap!Effect, Has
<1>7. ASSUME r.call = "erase"
      PROVE  OneMap!Effect(r, {r.key}) = [Has EXCEPT !["d"] = DropKeys(m, {r.key})]
  BY <1>1, <1>3, <1>7, Zenon DEF OneMap!Effect, Has
<1> QED BY <1>4, <1>5, <1>6, <1>7

LEMMA FlipApplies == ASSUME DBInv, NEW t \in DBThread, Flip(t) PROVE Applies(t)
<1> DEFINE r == asked[t]
           m == copies[infront]
<1>1. /\ r \in DBRequest /\ r.map = "d" /\ ~OnlyReads(r) /\ r.call \in {"insert", "assign", "erase"}
      /\ Alters(m, r) /\ copies[1 - infront] = Altered(m, r)
  BY RequestAssumption DEF Flip, DBInv, CopiesMatch, Calling, Writer, Modifier, OnlyReads
<1>2. /\ phase'[t] = "wait" /\ asked'[t] = r /\ told'[t] = ToldOf(r, TRUE)
  BY DEF Flip, DBInv, DBTypeOK
<1>3. DoingOf(t).left = {r.key}
  BY <1>1 DEF Flip, DoingOf, Effective, AnswerOf, OnlyReads
<1>4. DoingOf(t)' = [call |-> r.call, request |-> r, answer |-> ToldOf(r, TRUE), left |-> {}]
  BY <1>2 DEF DoingOf, Effective, AnswerOf
<1>5. \A u \in DBThread \ {t} : DoingOf(u)' = DoingOf(u)
  <2> TAKE u \in DBThread \ {t}
  <2> QED BY OthersStay DEF Flip, DBInv, DBTypeOK
<1>6. Has["d"] = m /\ Has' = [Has EXCEPT !["d"] = Altered(m, r)]
  BY <1>1 DEF Has, Flip
<1>7. CASE r.call = "insert"
  <2>1. r.key \notin DOMAIN m /\ Altered(m, r) = PutEntry(m, r.key, r.value) /\ ToldOf(r, TRUE) = <<TRUE>>
    BY <1>1, <1>7 DEF Alters, Altered, ToldOf
  <2>2. OneMap!Effect(r, {r.key}) = [Has EXCEPT !["d"] = PutEntry(m, r.key, r.value)]
    BY <1>1, <1>7, <2>1, EffectOfOne
  <2>3. OneMap!Answer(r, {r.key}) = <<r.key \notin DOMAIN m>>
    BY <1>1, <1>6, <1>7 DEF OneMap!Answer, Has
  <2> QED BY <1>3, <1>4, <1>5, <1>6, <2>1, <2>2, <2>3, OneCallMoves DEF Applies
<1>8. CASE r.call = "assign"
  <2>1. Altered(m, r) = PutEntry(m, r.key, r.value) /\ ToldOf(r, TRUE) = <<>>
    BY <1>8 DEF Altered, ToldOf
  <2>2. OneMap!Effect(r, {r.key}) = [Has EXCEPT !["d"] = PutEntry(m, r.key, r.value)]
    BY <1>1, <1>8, EffectOfOne
  <2>3. OneMap!Answer(r, {r.key}) = <<>>
    BY <1>8 DEF OneMap!Answer
  <2> QED BY <1>3, <1>4, <1>5, <1>6, <2>1, <2>2, <2>3, OneCallMoves DEF Applies
<1>9. CASE r.call = "erase"
  <2>1. r.key \in DOMAIN m /\ Altered(m, r) = DropKeys(m, {r.key}) /\ ToldOf(r, TRUE) = <<TRUE>>
    BY <1>1, <1>9 DEF Alters, Altered, ToldOf
  <2>2. OneMap!Effect(r, {r.key}) = [Has EXCEPT !["d"] = DropKeys(m, {r.key})]
    BY <1>1, <1>9, EffectOfOne
  <2>3. OneMap!Answer(r, {r.key}) = <<r.key \in DOMAIN m>>
    BY <1>1, <1>6, <1>9 DEF OneMap!Answer, Has
  <2> QED BY <1>3, <1>4, <1>5, <1>6, <2>1, <2>2, <2>3, OneCallMoves DEF Applies
<1> QED BY <1>1, <1>7, <1>8, <1>9

LEMMA NothingApplies == ASSUME DBInv, NEW t \in DBThread, NothingToChange(t) PROVE Applies(t)
<1> DEFINE r == asked[t]
           m == copies[infront]
<1>1. \A u \in DBThread \ {t} : phase[u] \notin {"change", "flip", "wait", "unlock"}
  BY Alone DEF DBInv, Modifier, NothingToChange
<1>2. /\ r \in DBRequest /\ r.map = "d" /\ ~OnlyReads(r) /\ r.call \in {"insert", "assign", "erase"}
      /\ ~Alters(m, r)
  BY <1>1, RequestAssumption DEF NothingToChange, DBInv, CopiesMatch, Calling, Writer, Modifier, OnlyReads
<1>3. /\ phase'[t] = "unlock" /\ asked'[t] = r /\ told'[t] = <<FALSE>>
      /\ (r.call = "insert" /\ r.key \in DOMAIN m) \/ (r.call = "erase" /\ r.key \notin DOMAIN m)
  BY <1>2 DEF NothingToChange, DBInv, DBTypeOK, ToldOf, Alters
<1>4. DoingOf(t).left = {r.key}
  BY <1>2 DEF NothingToChange, DoingOf, Effective, AnswerOf, OnlyReads
<1>5. DoingOf(t)' = [call |-> r.call, request |-> r, answer |-> <<FALSE>>, left |-> {}]
  BY <1>3 DEF DoingOf, Effective, AnswerOf
<1>6. \A u \in DBThread \ {t} : DoingOf(u)' = DoingOf(u)
  <2> TAKE u \in DBThread \ {t}
  <2> QED BY OthersStay DEF NothingToChange, DBInv, DBTypeOK
<1>7. Has["d"] = m /\ Has' = Has /\ Has = [Has EXCEPT !["d"] = m]
  BY DEF Has, NothingToChange
<1>8. CASE r.call = "insert" /\ r.key \in DOMAIN m
  <2>1. OneMap!Effect(r, {r.key}) = Has
    BY <1>2, <1>7, <1>8, EffectOfOne
  <2>2. OneMap!Answer(r, {r.key}) = <<r.key \notin DOMAIN m>>
    BY <1>2, <1>8 DEF OneMap!Answer, Has
  <2> QED BY <1>4, <1>5, <1>6, <1>7, <1>8, <2>1, <2>2, OneCallMoves DEF Applies
<1>9. CASE r.call = "erase" /\ r.key \notin DOMAIN m
  <2>1. DropKeys(m, {r.key}) = m
    <3>1. PICK D \in SUBSET DBKey : m \in [D -> DBValue]
      BY DEF DBInv, DBTypeOK, Map
    <3>2. DOMAIN m \ {r.key} = DOMAIN m
      BY <1>9
    <3>3. m = [k \in DOMAIN m |-> m[k]]
      BY <3>1
    <3> QED BY <3>2, <3>3 DEF DropKeys, Restrict
  <2>2. OneMap!Effect(r, {r.key}) = Has
    BY <1>2, <1>7, <1>9, <2>1, EffectOfOne
  <2>3. OneMap!Answer(r, {r.key}) = <<r.key \in DOMAIN m>>
    BY <1>2, <1>9 DEF OneMap!Answer, Has
  <2>4. (r.key \in DOMAIN m) = FALSE
    BY <1>9
  <2>5. OneMap!Answer(r, {r.key}) = <<FALSE>>
    BY <2>3, <2>4, Zenon
  <2> QED BY <1>4, <1>5, <1>6, <1>7, <2>2, <2>5, OneCallMoves DEF Applies
<1> QED BY <1>3, <1>8, <1>9

\* Such a step is AIApply of AtomicIndex, on all keys that the call has left.
LEMMA AppliesImplements ==
  ASSUME DBInv, NEW t \in DBThread, phase[t] \in {"load", "flip", "change"}, Applies(t)
  PROVE  \E ks \in SUBSET DBKey : OneMap!AIApply(t, ks)
<1> DEFINE r == asked[t]
           ks == DoingOf(t).left
<1>1. r \in DBRequest /\ r.call # "none" /\ r.call # "equal" /\ r.key \in DBKey
  BY RequestAssumption DEF DBInv, Calling, Reader, Writer, Modifier
<1>2. Doing[t] = [call |-> r.call, request |-> r, answer |-> AnswerOf(t), left |-> IF r.call = "list" THEN DBKey ELSE {r.key}]
  BY DEF Doing, DoingOf, Effective, AnswerOf
<1>3. ks = Doing[t].left /\ ks # {} /\ ks \in SUBSET DBKey
  BY <1>1, <1>2 DEF Doing
<1>4. ~OneMap!Ends(r, ks)
  BY <1>1 DEF OneMap!Ends
<1>5. OneMap!AIApply(t, ks)
  <2>1. Doing[t].call = r.call /\ Doing[t].request = r /\ Doing[t].left \ ks = {}
    BY <1>2, <1>3
  <2>2. Has' = OneMap!Effect(r, ks)
    BY DEF Applies
  <2>3. Doing' = [Doing EXCEPT ![t] = [call |-> r.call, request |-> r, answer |-> OneMap!Answer(r, ks),
                                       left |-> IF OneMap!Ends(r, ks) THEN {} ELSE Doing[t].left \ ks]]
    BY <1>4, <2>1 DEF Applies
  <2> QED BY <1>1, <1>3, <2>1, <2>2, <2>3, Zenon DEF OneMap!AIApply, Doing, Has
<1> QED BY <1>3, <1>5

-----------------------------------------------------------------------------
LEMMA OneMapInit == DBInit => OneMap!AIInit
<1> SUFFICES ASSUME DBInit PROVE OneMap!AIInit
  OBVIOUS
<1>1. PICK m \in DBStored : copies = [i \in 0 .. 1 |-> m]
  BY DEF DBInit
<1>2. infront = 0 /\ copies[infront] = m
  BY <1>1 DEF DBInit
<1>3. Doing = [t \in DBThread |-> [call |-> "none"]]
  BY DEF DBInit, Doing, DoingOf, Effective, AnswerOf
<1> QED BY <1>2, <1>3, StoredAssumption DEF OneMap!AIInit, OneMap!AIIdle, Doing

LEMMA OneMapNext == DBInv /\ [DBNext]_dbVars => [OneMap!AINext]_<<Has, Doing>>
<1> SUFFICES ASSUME DBInv, [DBNext]_dbVars PROVE OneMap!AINext \/ Unseen
  BY DEF Unseen
<1>1. ASSUME NEW t \in DBThread, NEW r \in DBRequest, Ask(t, r) PROVE OneMap!AINext
  <2>1. /\ OneMap!AICall(t, r)
        /\ Doing'[t] = [call |-> r.call, request |-> r, answer |-> <<>>, left |-> IF r.call = "list" THEN DBKey ELSE {r.key}]
    BY <1>1, AskImplements
  <2>2. Doing'[t].request = r /\ Doing'[t].call = r.call
    BY <2>1
  <2>3. r.call # "none"
    BY RequestAssumption
  <2> QED BY <2>1, <2>2, <2>3, Zenon DEF OneMap!AINext, Doing
<1>2. ASSUME NEW t \in DBThread, LoadIndex(t) \/ NothingToChange(t) \/ Flip(t) PROVE OneMap!AINext
  <2>1. Applies(t)
    BY <1>2, LoadApplies, NothingApplies, FlipApplies
  <2>2. phase[t] \in {"load", "flip", "change"}
    BY <1>2 DEF LoadIndex, NothingToChange, Flip
  <2> QED BY <2>1, <2>2, AppliesImplements DEF OneMap!AINext
<1>3. ASSUME NEW t \in DBThread, EndRead(t) \/ EndModify(t) PROVE OneMap!AINext
  BY <1>3, EndImplements DEF OneMap!AINext
<1>4. ASSUME NEW t \in DBThread, \/ BeginRead(t) \/ Look(t) \/ LockModify(t) \/ ChangeBehind(t) \/ ChangeAgain(t)
                                 \/ \E u \in DBThread : WaitReadDone(t, u)
      PROVE  Unseen
  BY <1>4, BeginReadUnseen, LookUnseen, LockUnseen, ChangeUnseen, WaitUnseen
<1>5. CASE UNCHANGED dbVars
  <2>1. \A u \in DBThread : DoingOf(u)' = DoingOf(u)
    <3> TAKE u \in DBThread
    <3> QED BY <1>5, OthersStay DEF dbVars
  <2> QED BY <1>5, <2>1, NoCallMoves DEF Unseen, Has, dbVars
<1> QED BY <1>1, <1>2, <1>3, <1>4, <1>5 DEF DBNext

\* The map in two copies (dbd_hash_map.h) is one map to its callers: whatever
\* the order in which readers load the index and a modification changes the
\* copies, each call takes effect at one moment between its start and its end.
THEOREM CopiesImplementOneMap == DBSpec => CopiesAreOne
<1>1. DBInit => OneMap!AIInit
  BY OneMapInit
<1>2. DBInv /\ [DBNext]_dbVars => [OneMap!AINext]_<<[m \in {"d"} |-> copies[infront]], [t \in DBThread |-> DoingOf(t)]>>
  BY OneMapNext DEF Has, Doing
<1> QED BY <1>1, <1>2, DBInvariant, PTL DEF DBSpec, CopiesAreOne, OneMap!AISpec
=============================================================================
