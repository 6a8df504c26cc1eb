------------------------ MODULE LoadGeneratorProofs -------------------------
(***************************************************************************)
(* No wakeup of the blocking queues is lost, for every number of threads,  *)
(* every capacity and every set of items; and each step under the mutex is *)
(* one of the queue that AbstractQueue describes.  The stores of the load  *)
(* generator agree wherever it compares them, for every number of readers. *)
(***************************************************************************)
EXTENDS CacheTester, FiniteSetTheorems, TLAPS

QCall == {<<"get">>} \cup {<<"put", v>> : v \in Item}

QTypeOK == /\ bounded \in BOOLEAN
           /\ shut \in BOOLEAN
           /\ items \in Seq(Item)
           /\ at \in [QThread -> {"out", "in", "not_empty", "not_full", "notify"}]
           /\ call \in [QThread -> {<<>>} \cup QCall]
           /\ DOMAIN result = QThread

\* A thread outside has no call to make, and one that waits does so for its call.
Frames == \A t \in QThread : /\ at[t] \in {"out", "notify"} <=> call[t] = <<>>
                             /\ at[t] = "not_empty" => call[t] = <<"get">>
                             /\ at[t] = "not_full" => bounded /\ call[t] # <<>> /\ call[t][1] = "put"

QInv == QTypeOK /\ Frames /\ NoLostWakeup

-----------------------------------------------------------------------------
(* Counting threads *)

LEMMA Counted ==
  ASSUME NEW S \in SUBSET QThread
  PROVE  IsFiniteSet(S) /\ Cardinality(S) \in Nat
  BY QThreadAssumption, FS_Subset, FS_CardinalityType

LEMMA Fewer ==
  ASSUME NEW T \in SUBSET QThread, NEW S \in SUBSET T
  PROVE  Cardinality(S) <= Cardinality(T)
  BY Counted, FS_Subset

LEMMA OneMore ==
  ASSUME NEW S \in SUBSET QThread, NEW T \in SUBSET QThread, NEW x \in QThread \ S, S \cup {x} \subseteq T
  PROVE  Cardinality(S) + 1 <= Cardinality(T)
<1>1. IsFiniteSet(S) /\ Cardinality(S \cup {x}) = Cardinality(S) + 1
  BY Counted, FS_AddElement
<1>2. Cardinality(S \cup {x}) <= Cardinality(T)
  BY Fewer
<1> QED BY <1>1, <1>2

LEMMA OneLess ==
  ASSUME NEW S \in SUBSET QThread, NEW T \in SUBSET QThread, NEW x, S \ {x} \subseteq T
  PROVE  Cardinality(S) - 1 <= Cardinality(T)
<1>1. Cardinality(S) - 1 <= Cardinality(S \ {x})
  BY Counted, FS_RemoveElement
<1>2. Cardinality(S \ {x}) <= Cardinality(T)
  BY Fewer
<1> QED BY <1>1, <1>2, Counted

LEMMA Groups ==
  /\ Awake("get") \in SUBSET QThread /\ Awake("put") \in SUBSET QThread /\ Notifying \in SUBSET QThread
  /\ Cardinality(Awake("get")) \in Nat /\ Cardinality(Awake("put")) \in Nat /\ Cardinality(Notifying) \in Nat
  /\ Awake("get")' \in SUBSET QThread /\ Awake("put")' \in SUBSET QThread /\ Notifying' \in SUBSET QThread
  /\ Cardinality(Awake("get")') \in Nat /\ Cardinality(Awake("put")') \in Nat /\ Cardinality(Notifying') \in Nat
<1>1. Awake("get") \in SUBSET QThread /\ Awake("put") \in SUBSET QThread /\ Notifying \in SUBSET QThread
  BY DEF Awake, Called, Notifying
<1>2. Awake("get")' \in SUBSET QThread /\ Awake("put")' \in SUBSET QThread /\ Notifying' \in SUBSET QThread
  BY DEF Awake, Called, Notifying
<1> QED BY <1>1, <1>2, Counted

LEMMA CallKinds ==
  ASSUME NEW c \in QCall
  PROVE  c # <<>> /\ c[1] \in {"get", "put"}
  BY DEF QCall

-----------------------------------------------------------------------------
LEMMA QInitInv == QInit => QInv
<1> SUFFICES ASSUME QInit PROVE QInv
  OBVIOUS
<1>1. QTypeOK
  <2>1. items \in Seq(Item)
    BY DEF QInit
  <2>2. bounded \in BOOLEAN /\ shut \in BOOLEAN
    BY Zenon DEF QInit
  <2>3. /\ at \in [QThread -> {"out", "in", "not_empty", "not_full", "notify"}]
        /\ call \in [QThread -> {<<>>} \cup QCall]
        /\ DOMAIN result = QThread
    BY DEF QInit
  <2> QED BY <2>1, <2>2, <2>3, Zenon DEF QTypeOK
<1>2. Frames
  BY DEF QInit, Frames
<1>3. NotEmpty = {} /\ NotFull = {}
  BY DEF QInit, NotEmpty, NotFull
<1> QED BY <1>1, <1>2, <1>3 DEF QInit, QInv, NoLostWakeup

\* TryGet is done outside, BlockingGet within its call.
LEMMA TakeInv ==
  ASSUME QInv, NEW t \in QThread, at[t] = "out" \/ Called(t, "get"), TakeItem(t), UNCHANGED <<bounded, shut>>
  PROVE  QInv'
<1> DEFINE G == Awake("get")
           P == Awake("put")
<1>1. items \in Seq(Item) /\ items' = Tail(items) /\ items # <<>>
  BY DEF QInv, QTypeOK, TakeItem
<1>2. items' \in Seq(Item) /\ Len(items') = Len(items) - 1 /\ Len(items) \in Nat
  BY <1>1
<1>3. QTypeOK'
  BY <1>2 DEF QInv, QTypeOK, TakeItem, NotifyOne, Returns, NotFull
<1>4. Frames'
  BY DEF QInv, QTypeOK, Frames, TakeItem, NotifyOne, Returns, NotFull, Called
<1>5. NotEmpty' = NotEmpty /\ Notifying' = Notifying /\ NotFull' \subseteq NotFull
  BY DEF QInv, QTypeOK, TakeItem, NotifyOne, NotFull, NotEmpty, Notifying, Called
<1>6. G \ {t} \subseteq G'
  BY DEF QInv, QTypeOK, TakeItem, NotifyOne, Returns, NotFull, Awake, Called
<1>7. Cardinality(G) - 1 <= Cardinality(G')
  BY <1>6, OneLess, Groups
<1>8. ASSUME NotFull' # {} PROVE Cardinality(P) + 1 <= Cardinality(P')
  <2>1. PICK s \in NotFull : at' = [at EXCEPT ![s] = "in", ![t] = "out"]
    BY <1>5, <1>8 DEF TakeItem, NotifyOne
  <2>2. s \in QThread \ P /\ P \cup {s} \subseteq P'
    BY <2>1 DEF QInv, QTypeOK, Frames, TakeItem, Returns, NotFull, Awake, Called
  <2> QED BY <2>2, OneMore, Groups
<1>9. NoLostWakeup'
  BY <1>2, <1>5, <1>7, <1>8, Groups, CapacityAssumption DEF QInv, NoLostWakeup
<1> QED BY <1>3, <1>4, <1>9 DEF QInv

LEMMA AddInv ==
  ASSUME QInv, NEW t \in QThread, NEW v \in Item, (at[t] = "out" /\ bounded) \/ Called(t, "put"), AddItem(t, v), UNCHANGED <<bounded, shut>>
  PROVE  QInv'
<1> DEFINE G == Awake("get")
           P == Awake("put")
           N == Notifying
<1>1. items' \in Seq(Item) /\ Len(items') = Len(items) + 1 /\ Len(items) \in Nat
  BY DEF QInv, QTypeOK, AddItem
<1>2. QTypeOK'
  BY <1>1 DEF QInv, QTypeOK, AddItem, NotifyOne, Returns, NotEmpty
<1>3. Frames'
  BY DEF QInv, QTypeOK, Frames, AddItem, NotifyOne, Returns, NotEmpty, Called
<1>4. NotEmpty' \subseteq NotEmpty /\ NotFull' = NotFull
  BY DEF QInv, QTypeOK, AddItem, NotifyOne, NotFull, NotEmpty, Called
<1>5. ~shut'
  BY DEF AddItem
<1>6. P \ {t} \subseteq P' /\ N \subseteq N' /\ G \subseteq G'
  <2>1. N \subseteq N' /\ P \ {t} \subseteq P'
    BY DEF QInv, QTypeOK, AddItem, NotifyOne, Returns, NotEmpty, Awake, Called, Notifying
  <2>2. t \notin G
    BY DEF Awake, Called
  <2>3. G \subseteq G'
    BY <2>2 DEF QInv, QTypeOK, AddItem, NotifyOne, Returns, NotEmpty, Awake, Called
  <2> QED BY <2>1, <2>3
<1>7. Cardinality(P) - 1 <= Cardinality(P') /\ Cardinality(G) <= Cardinality(G') /\ Cardinality(N) <= Cardinality(N')
  BY <1>6, OneLess, Fewer, Groups
<1>8. ASSUME NotEmpty' # {}, bounded PROVE Cardinality(G) + 1 <= Cardinality(G')
  <2>1. PICK s \in NotEmpty : at' = [at EXCEPT ![s] = "in", ![t] = "out"]
    BY <1>4, <1>8 DEF AddItem, NotifyOne
  <2>2. s \in QThread \ G /\ G \cup {s} \subseteq G'
    BY <1>6, <2>1 DEF QInv, QTypeOK, Frames, AddItem, Returns, NotEmpty, Awake, Called
  <2> QED BY <2>2, OneMore, Groups
<1>9. ASSUME ~bounded PROVE Cardinality(N) + 1 <= Cardinality(N') /\ NotFull' = {}
  <2>1. t \in QThread \ N /\ N \cup {t} \subseteq N'
    BY <1>9 DEF QInv, QTypeOK, AddItem, Notifying, Called
  <2>2. NotFull = {}
    BY <1>9 DEF QInv, Frames, NotFull
  <2> QED BY <1>4, <2>1, <2>2, OneMore, Groups
<1>10. NotEmpty' # {} => Len(items') <= Cardinality(G') + Cardinality(N')
  BY <1>1, <1>4, <1>7, <1>8, <1>9, Groups DEF QInv, NoLostWakeup
<1>11. NotFull' # {} => Capacity - Len(items') <= Cardinality(P')
  BY <1>1, <1>4, <1>7, Groups, CapacityAssumption DEF QInv, NoLostWakeup
<1>12. NoLostWakeup'
  BY <1>5, <1>10, <1>11 DEF NoLostWakeup
<1> QED BY <1>2, <1>3, <1>12 DEF QInv

\* A call that returns without an effect: a get of an empty queue, a put of a
\* queue that is shut down, or either from outside.
LEMMA RefusedInv ==
  ASSUME QInv, NEW t \in QThread, at[t] = "out" \/ (Called(t, "get") /\ items = <<>>) \/ (Called(t, "put") /\ shut),
         Refused(t), UNCHANGED <<bounded, shut>>
  PROVE  QInv'
<1> DEFINE G == Awake("get")
           P == Awake("put")
<1>1. items' = items /\ items \in Seq(Item) /\ Len(items) \in Nat
  BY DEF QInv, QTypeOK, Refused
<1>2. QTypeOK'
  BY <1>1 DEF QInv, QTypeOK, Refused, Returns
<1>3. Frames'
  BY DEF QInv, QTypeOK, Frames, Refused, Returns
<1>4. NotEmpty' = NotEmpty /\ NotFull' = NotFull /\ Notifying' = Notifying
  BY DEF QInv, QTypeOK, Refused, NotFull, NotEmpty, Notifying, Called
<1>5. NotEmpty' # {} => Len(items') <= Cardinality(G') + Cardinality(Notifying')
  <2>1. CASE items = <<>>
    BY <1>1, <2>1, Groups
  <2>2. CASE items # <<>> /\ ~shut
    <3>1. G \subseteq G'
      BY <2>2 DEF QInv, QTypeOK, Refused, Returns, Awake, Called
    <3>2. Cardinality(G) <= Cardinality(G')
      BY <3>1, Fewer, Groups
    <3> QED BY <1>1, <1>4, <3>2, Groups DEF QInv, NoLostWakeup
  <2>3. CASE shut
    BY <1>4, <2>3 DEF QInv, NoLostWakeup
  <2> QED BY <2>1, <2>2, <2>3
<1>6. NotFull' # {} => Capacity - Len(items') <= Cardinality(P')
  <2>1. CASE ~shut
    <3>1. P \subseteq P'
      BY <2>1 DEF QInv, QTypeOK, Refused, Returns, Awake, Called
    <3>2. Cardinality(P) <= Cardinality(P')
      BY <3>1, Fewer, Groups
    <3> QED BY <1>1, <1>4, <3>2, Groups, CapacityAssumption DEF QInv, NoLostWakeup
  <2>2. CASE shut
    BY <1>4, <2>2 DEF QInv, NoLostWakeup
  <2> QED BY <2>1, <2>2
<1>7. NoLostWakeup'
  BY <1>4, <1>5, <1>6 DEF QInv, NoLostWakeup
<1> QED BY <1>2, <1>3, <1>7 DEF QInv

LEMMA SleepInv ==
  ASSUME QInv, NEW t \in QThread, NEW cv \in {"not_empty", "not_full"}, ~shut,
         \/ Called(t, "get") /\ items = <<>> /\ cv = "not_empty"
         \/ Called(t, "put") /\ bounded /\ Len(items) >= Capacity /\ cv = "not_full",
         Sleeps(t, cv), UNCHANGED <<bounded, shut>>
  PROVE  QInv'
<1> DEFINE G == Awake("get")
           P == Awake("put")
<1>1. items' = items /\ items \in Seq(Item) /\ Len(items) \in Nat
  BY DEF QInv, QTypeOK, Sleeps
<1>2. QTypeOK'
  BY <1>1 DEF QInv, QTypeOK, Sleeps
<1>3. Frames'
  <2>1. call[t] \in {<<>>} \cup QCall /\ call[t] # <<>>
    BY DEF QInv, QTypeOK, Frames, Called
  <2>2. Called(t, "get") => call[t] = <<"get">>
    BY <2>1 DEF Called, QCall
  <2> QED BY <2>1, <2>2 DEF QInv, QTypeOK, Frames, Sleeps, Called
<1>4. CASE Called(t, "get") /\ items = <<>> /\ cv = "not_empty"
  <2>1. NotFull' = NotFull /\ P \subseteq P'
    BY <1>4 DEF QInv, QTypeOK, Sleeps, NotFull, Awake, Called
  <2>2. Cardinality(P) <= Cardinality(P')
    BY <2>1, Fewer, Groups
  <2> QED BY <1>1, <1>2, <1>3, <1>4, <2>1, <2>2, Groups, CapacityAssumption DEF QInv, NoLostWakeup
<1>5. CASE Called(t, "put") /\ bounded /\ Len(items) >= Capacity /\ cv = "not_full"
  <2>1. NotEmpty' = NotEmpty /\ Notifying' = Notifying /\ G \subseteq G'
    BY <1>5 DEF QInv, QTypeOK, Sleeps, NotEmpty, Notifying, Awake, Called
  <2>2. Cardinality(G) <= Cardinality(G')
    BY <2>1, Fewer, Groups
  <2> QED BY <1>1, <1>2, <1>3, <1>5, <2>1, <2>2, Groups, CapacityAssumption DEF QInv, NoLostWakeup
<1> QED BY <1>4, <1>5

\* Threads that come in or wake up only add to those who are awake.
LEMMA EnterInv ==
  ASSUME QInv, NEW t \in QThread,
         SpuriousWakeup(t) \/ \E c \in QCall : Call(t, c)
  PROVE  QInv'
<1> DEFINE G == Awake("get")
           P == Awake("put")
<1>1. items' = items /\ shut' = shut /\ items \in Seq(Item) /\ Len(items) \in Nat
  BY DEF QInv, QTypeOK, SpuriousWakeup, Call
<1>2. QTypeOK'
  BY <1>1 DEF QInv, QTypeOK, SpuriousWakeup, Call
<1>3. Frames'
  <2>1. CASE SpuriousWakeup(t)
    BY <2>1 DEF QInv, QTypeOK, Frames, SpuriousWakeup
  <2>2. ASSUME NEW c \in QCall, Call(t, c) PROVE Frames'
    BY <2>2, CallKinds DEF QInv, QTypeOK, Frames, Call
  <2> QED BY <2>1, <2>2
<1>4. NotEmpty' \subseteq NotEmpty /\ NotFull' \subseteq NotFull /\ Notifying' = Notifying /\ G \subseteq G' /\ P \subseteq P'
  BY DEF QInv, QTypeOK, SpuriousWakeup, Call, NotEmpty, NotFull, Notifying, Awake, Called
<1>5. Cardinality(G) <= Cardinality(G') /\ Cardinality(P) <= Cardinality(P')
  BY <1>4, Fewer, Groups
<1> QED BY <1>1, <1>2, <1>3, <1>4, <1>5, Groups, CapacityAssumption DEF QInv, NoLostWakeup

LEMMA NotifyInv == ASSUME QInv, NEW t \in QThread, Notify(t) PROVE QInv'
<1> DEFINE G == Awake("get")
           P == Awake("put")
           N == Notifying
<1>1. items' = items /\ shut' = shut /\ items \in Seq(Item) /\ Len(items) \in Nat
  BY DEF QInv, QTypeOK, Notify
<1>2. QTypeOK'
  BY <1>1 DEF QInv, QTypeOK, Notify, NotifyOne, NotEmpty
<1>3. Frames'
  BY DEF QInv, QTypeOK, Frames, Notify, NotifyOne, NotEmpty
<1>4. NotEmpty' \subseteq NotEmpty /\ NotFull' = NotFull /\ P \subseteq P' /\ N \ {t} \subseteq N'
  BY DEF QInv, QTypeOK, Notify, NotifyOne, NotEmpty, NotFull, Notifying, Awake, Called
<1>5. Cardinality(P) <= Cardinality(P') /\ Cardinality(N) - 1 <= Cardinality(N')
  BY <1>4, Fewer, OneLess, Groups
<1>6. ASSUME NotEmpty' # {} PROVE Cardinality(G) + 1 <= Cardinality(G')
  <2>1. PICK s \in NotEmpty : at' = [at EXCEPT ![s] = "in", ![t] = "out"]
    BY <1>4, <1>6 DEF Notify, NotifyOne
  <2>2. s \in QThread \ G /\ G \cup {s} \subseteq G'
    BY <2>1 DEF QInv, QTypeOK, Frames, Notify, NotEmpty, Awake, Called
  <2> QED BY <2>2, OneMore, Groups
<1> QED BY <1>1, <1>2, <1>3, <1>4, <1>5, <1>6, Groups, CapacityAssumption DEF QInv, NoLostWakeup

LEMMA ShutdownInv == ASSUME QInv, Shutdown PROVE QInv'
<1>1. QTypeOK'
  <2>1. shut' \in BOOLEAN
    BY Zenon DEF Shutdown
  <2> QED BY <2>1 DEF QInv, QTypeOK, Shutdown
<1>2. Frames'
  BY DEF QInv, QTypeOK, Frames, Shutdown
<1>3. NotEmpty' = {} /\ NotFull' = {}
  BY DEF QInv, QTypeOK, Shutdown, NotEmpty, NotFull
<1> QED BY <1>1, <1>2, <1>3 DEF QInv, NoLostWakeup

LEMMA ClearInv == ASSUME QInv, ClearItems PROVE QInv'
<1>1. QTypeOK'
  BY DEF QInv, QTypeOK, ClearItems
<1>2. Frames'
  BY DEF QInv, Frames, ClearItems
<1>3. NotEmpty' = NotEmpty /\ NotFull' = {} /\ shut' = shut /\ Len(items') = 0
  BY DEF QInv, Frames, ClearItems, NotEmpty, NotFull
<1> QED BY <1>1, <1>2, <1>3, Groups DEF QInv, NoLostWakeup

LEMMA QNextInv == QInv /\ [QNext]_qVars => QInv'
<1> SUFFICES ASSUME QInv, [QNext]_qVars PROVE QInv'
  OBVIOUS
<1>1. ASSUME NEW t \in QThread, BlockingGet(t) PROVE QInv'
  BY <1>1, TakeInv, RefusedInv, SleepInv DEF BlockingGet
<1>2. ASSUME NEW t \in QThread, BlockingPut(t) PROVE QInv'
  <2>1. call[t] \in QCall /\ call[t][1] = "put"
    BY <1>2 DEF BlockingPut, Called, QInv, QTypeOK, Frames
  <2>2. call[t][2] \in Item
    BY <2>1 DEF QCall
  <2> QED BY <1>2, <2>2, AddInv, RefusedInv, SleepInv DEF BlockingPut
<1>3. ASSUME NEW t \in QThread, TryGet(t) PROVE QInv'
  BY <1>3, TakeInv, RefusedInv DEF TryGet
<1>4. ASSUME NEW t \in QThread, TryPut(t) PROVE QInv'
  BY <1>4, AddInv, RefusedInv DEF TryPut
<1>5. CASE UNCHANGED qVars
  BY <1>5 DEF qVars, QInv, QTypeOK, Frames, NoLostWakeup, NotEmpty, NotFull, Awake, Called, Notifying
<1> QED BY <1>1, <1>2, <1>3, <1>4, <1>5, EnterInv, NotifyInv, ShutdownInv, ClearInv DEF QNext, Step, QCall

THEOREM QueueInvariant == QSpec => []QInv
  BY QInitInv, QNextInv, PTL DEF QSpec

\* notify_one after each item and each room made (blocking_queue.hpp), together
\* with the waits that look again, loses no wakeup: nobody sleeps while there
\* is more to be had than threads awake to take it, or after a shutdown.
THEOREM WakeupsArrive == QSpec => []NoLostWakeup
<1>1. QInv => NoLostWakeup
  BY DEF QInv
<1> QED BY <1>1, QueueInvariant, PTL

-----------------------------------------------------------------------------
(* The steps under the mutex are the steps of the abstract queue. *)

LEMMA QueueInit == QInit => Queue!AQInit
  BY Zenon DEF QInit, Queue!AQInit

LEMMA QueueNext == QInv /\ [QNext]_qVars => [Queue!AQNext]_<<bounded, items, shut, call, result>>
<1> SUFFICES ASSUME QInv, [QNext]_qVars
             PROVE  Queue!AQNext \/ UNCHANGED <<bounded, items, shut, call, result>>
  OBVIOUS
<1> USE DEF Queue!AQDone, Queue!AQAdd, Queue!AQTake, Queue!Full
<1>1. ASSUME NEW t \in QThread, NEW c \in QCall, Call(t, c) PROVE Queue!AQNext
  <2>1. call[t] = <<>> /\ call'[t] = c
    BY <1>1 DEF QInv, QTypeOK, Frames, Call
  <2>2. Queue!AQCall(t)
    BY <1>1, <2>1 DEF Call, Queue!AQCall, QCall
  <2> QED BY <1>1, <2>2 DEF Queue!AQNext, Call
<1>2. ASSUME NEW t \in QThread, BlockingGet(t)
      PROVE  Queue!AQNext \/ UNCHANGED <<bounded, items, shut, call, result>>
  <2>1. call[t] \in QCall /\ call[t][1] = "get"
    BY <1>2 DEF BlockingGet, Called, QInv, QTypeOK, Frames
  <2>2. call[t] = <<"get">>
    BY <2>1 DEF QCall
  <2>3. CASE Sleeps(t, "not_empty")
    BY <1>2, <2>3 DEF Sleeps, BlockingGet
  <2>4. CASE TakeItem(t) \/ (items = <<>> /\ shut /\ Refused(t))
    <3>1. Queue!AQGet(t)
      BY <1>2, <2>2, <2>4 DEF BlockingGet, TakeItem, Refused, Returns, Queue!AQGet
    <3> QED BY <1>2, <3>1 DEF Queue!AQNext, BlockingGet
  <2> QED BY <1>2, <2>3, <2>4 DEF BlockingGet
<1>3. ASSUME NEW t \in QThread, BlockingPut(t)
      PROVE  Queue!AQNext \/ UNCHANGED <<bounded, items, shut, call, result>>
  <2>1. call[t] # <<>> /\ call[t][1] = "put"
    BY <1>3 DEF BlockingPut, Called, QInv, QTypeOK, Frames
  <2>2. CASE Sleeps(t, "not_full")
    BY <1>3, <2>2 DEF Sleeps, BlockingPut
  <2>3. CASE AddItem(t, call[t][2])
    <3>1. ~Queue!Full
      BY <2>3, CapacityAssumption DEF AddItem, Bound, QInv, QTypeOK
    <3>2. Queue!AQPut(t)
      BY <1>3, <2>1, <2>3, <3>1 DEF BlockingPut, AddItem, Returns, Queue!AQPut
    <3> QED BY <1>3, <3>2 DEF Queue!AQNext, BlockingPut
  <2>4. CASE shut /\ Refused(t)
    <3>1. Queue!AQPut(t)
      BY <1>3, <2>1, <2>4 DEF BlockingPut, Refused, Returns, Queue!AQPut
    <3> QED BY <1>3, <3>1 DEF Queue!AQNext, BlockingPut
  <2> QED BY <1>3, <2>2, <2>3, <2>4 DEF BlockingPut
<1>4. ASSUME NEW t \in QThread, TryGet(t) \/ TryPut(t) PROVE Queue!AQNext
  <2>1. call[t] = <<>>
    BY <1>4 DEF TryGet, TryPut, QInv, QTypeOK, Frames
  <2>2. CASE TryGet(t)
    <3>1. Queue!AQTry(t)
      BY <2>1, <2>2 DEF TryGet, TakeItem, Refused, Returns, Queue!AQTry
    <3> QED BY <2>2, <3>1 DEF Queue!AQNext, TryGet
  <2>3. CASE TryPut(t)
    <3>1. ASSUME NEW v \in Item, AddItem(t, v) PROVE Queue!AQTry(t)
      <4>1. ~Queue!Full
        BY <3>1, CapacityAssumption DEF AddItem, Bound, QInv, QTypeOK
      <4> QED BY <2>1, <2>3, <3>1, <4>1 DEF TryPut, AddItem, Returns, Queue!AQTry
    <3>2. ASSUME shut \/ Len(items) >= Capacity, Refused(t) PROVE Queue!AQTry(t)
      BY <2>1, <2>3, <3>2 DEF TryPut, Refused, Returns, Queue!AQTry
    <3> QED BY <2>3, <3>1, <3>2 DEF Queue!AQNext, TryPut
  <2> QED BY <1>4, <2>2, <2>3
<1>5. ASSUME NEW t \in QThread, Notify(t) \/ SpuriousWakeup(t)
      PROVE  UNCHANGED <<bounded, items, shut, call, result>>
  BY <1>5 DEF Notify, SpuriousWakeup
<1>6. CASE Shutdown \/ ClearItems
  BY <1>6 DEF Shutdown, ClearItems, Queue!AQEmpty, Queue!AQNext
<1>7. CASE UNCHANGED qVars
  BY <1>7 DEF qVars
<1> QED BY <1>1, <1>2, <1>3, <1>4, <1>5, <1>6, <1>7 DEF QNext, Step, QCall

\* The safety half of ImplementsQueue: items leave in the order they came,
\* and every call returns what it did at one moment.
THEOREM QueueIsFifo == QSpec => Queue!AQInit /\ [][Queue!AQNext]_<<bounded, items, shut, call, result>>
  BY QueueInit, QueueNext, QueueInvariant, PTL DEF QSpec
-----------------------------------------------------------------------------
(***************************************************************************)
(* The load generator.                                                     *)
(***************************************************************************)

\* A worker that has locked the mutex of its object.
AtStores(t) == stage[t] \in {"first", "second"}
AtObject(t) == stage[t] \in {"lock", "first", "second"}

ObjMutex == {MutexOf[o] : o \in Obj}
Changers == {Writer, Remover}

\* The keys that workers may still work on.
Current(k) == k[1] = dir \/ (k[1] = dir - 1 /\ stage[Updater] = "clean")

TTypeOK == /\ DOMAIN stage = Worker /\ DOMAIN job = Worker /\ DOMAIN base = Worker
           /\ \A t \in Reader : stage[t] \in {"top", "lock", "first", "second", "put", "ended"}
           /\ stage[Writer] \in {"top", "get", "lock", "first", "second", "ended"}
           /\ stage[Remover] \in {"top", "lock", "first", "second", "ended"}
           /\ stage[Updater] \in {"top", "count", "clean", "ended"}
           /\ holders \in [ObjMutex -> [writers : SUBSET Changers, readers : SUBSET Reader]]
           /\ dir \in 0 .. MaxDir
           /\ DOMAIN local \subseteq Key /\ DOMAIN cached \subseteq Key

JobsAreCurrent == \A t \in Reader \cup Changers : AtObject(t) => job[t] \in Key /\ Current(job[t])

ReadersAt(m) == {t \in Reader : AtStores(t) /\ Mutex(t) = m}
ChangersAt(m) == {t \in Changers : AtStores(t) /\ Mutex(t) = m}

\* Readers share the mutex of an object, a worker that changes objects has it alone.
ObjectsHeld ==
  \A m \in ObjMutex : /\ holders[m].readers = ReadersAt(m)
                      /\ holders[m].writers = ChangersAt(m)
                      /\ holders[m].writers # {} => holders[m].readers = {}
                      /\ holders[m].writers # Changers

\* The stores agree on a current key, unless somebody has changed one of them only.
StoresAgree ==
  \A k \in Key : Current(k) =>
    CASE stage[Writer] = "second" /\ job[Writer] = k   -> k \in DOMAIN local /\ base[Writer] = <<local[k]>>
      [] stage[Remover] = "second" /\ job[Remover] = k -> k \notin DOMAIN local /\ base[Remover] = Lookup(cached, k)
      [] OTHER                                         -> Lookup(local, k) = Lookup(cached, k)

\* What a reader has read is still there.
ReadersKnow == \A t \in Reader : stage[t] = "second" => base[t] = Lookup(local, job[t])

NothingAhead == \A k \in DOMAIN local \cup DOMAIN cached : k[1] <= dir

\* What the queue has answered the writer.
WriterAsked == stage[Writer] = "get" => /\ call[Writer] \in {<<>>, <<"get">>}
                                        /\ call[Writer] = <<>> => result[Writer] \in {<<FALSE>>} \cup {<<TRUE, k>> : k \in Key}

TInv == QInv /\ TTypeOK /\ JobsAreCurrent /\ ObjectsHeld /\ StoresAgree /\ ReadersKnow /\ NothingAhead /\ ExpiredIsGone /\ WriterAsked

LEMMA WorkerKinds ==
  /\ Worker = Reader \cup Changers \cup {Updater}
  /\ Writer \notin Reader /\ Remover \notin Reader /\ Writer # Remover
  /\ Updater \notin Reader /\ Updater \notin Changers
  /\ Reader \subseteq QThread /\ Writer \in QThread
  BY RoleAssumption DEF Worker, Changers

LEMMA TInitInv == TInit => TInv
<1> SUFFICES ASSUME TInit PROVE TInv
  OBVIOUS
<1> USE WorkerKinds DEF TInit
<1>1. QInv BY QInitInv
<1>2. TTypeOK
  <2>1. stage[Writer] = "top" /\ stage[Remover] = "top" /\ stage[Updater] = "top" /\ \A t \in Reader : stage[t] = "top"
    BY DEF Changers
  <2>2. holders \in [ObjMutex -> [writers : SUBSET Changers, readers : SUBSET Reader]]
    BY DEF ObjMutex
  <2>3. DOMAIN local = {} /\ DOMAIN cached = {}
    OBVIOUS
  <2> QED BY <2>1, <2>2, <2>3, MaxDirAssumption DEF TTypeOK
<1>3. JobsAreCurrent BY DEF JobsAreCurrent, AtObject
<1>4. ObjectsHeld
  <2>1. \A t \in Worker : ~AtStores(t)
    BY DEF AtStores
  <2>2. \A m \in ObjMutex : holders[m].readers = {} /\ holders[m].writers = {}
    BY DEF ObjMutex
  <2>3. Changers # {}
    BY DEF Changers
  <2> QED BY <2>1, <2>2, <2>3 DEF ObjectsHeld, ReadersAt, ChangersAt
<1>5. StoresAgree
  <2>1. stage[Writer] = "top" /\ stage[Remover] = "top"
    BY DEF Changers
  <2> QED BY <2>1 DEF StoresAgree, Lookup
<1>6. ReadersKnow BY DEF ReadersKnow
<1>7. NothingAhead /\ ExpiredIsGone BY DEF NothingAhead, ExpiredIsGone
<1>8. WriterAsked BY DEF WriterAsked, Changers
<1> QED BY <1>1, <1>2, <1>3, <1>4, <1>5, <1>6, <1>7, <1>8 DEF TInv

\* The steps of the queue that a step of the load generator makes.
LEMMA QueueOfTester ==
  ASSUME TInv, [TNext]_allVars
  PROVE  QInv'
<1>1. ASSUME NEW t \in Reader, ReadCached(t) PROVE [QNext]_qVars
  <2>1. job[t] \in Item
    BY <1>1, ItemAssumption DEF TInv, JobsAreCurrent, AtObject, ReadCached
  <2>2. Call(t, <<"put", job[t]>>) => QNext
    BY <2>1, WorkerKinds DEF QNext
  <2> QED BY <1>1, <2>2 DEF ReadCached, queueVars, qVars
<1>2. CASE AskForKey
  <2>1. Call(Writer, <<"get">>) => QNext
    BY WorkerKinds DEF QNext
  <2> QED BY <1>2, <2>1, QNextInv DEF AskForKey, queueVars, qVars, TInv
<1>3. ASSUME NEW t \in QThread, InQueue(t) \/ SpuriousWakeup(t) PROVE QNext
  BY <1>3 DEF InQueue, QNext
<1>4. CASE GotKey \/ LockUnique(Writer) \/ SetLocal \/ SetCached \/ RemoverStep \/ UpdaterStep \/ UNCHANGED allVars
  <2>1. UNCHANGED qVars
    BY <1>4 DEF GotKey, LockUnique, SetLocal, SetCached, RemoverStep, Choose, RemoveLock, RemoveLocal, RemoveCached,
                UpdaterStep, UpdateDir, CleanOld, CountDown, allVars, queueVars, qVars
  <2> QED BY <2>1, QNextInv DEF TInv
<1>5. ASSUME NEW t \in Reader, Choose(t) \/ LockShared(t) \/ ReadLocal(t) \/ PutKey(t) PROVE UNCHANGED qVars
  BY <1>5 DEF Choose, LockShared, ReadLocal, PutKey, queueVars, qVars
<1> QED BY <1>1, <1>2, <1>3, <1>4, <1>5, QNextInv, WorkerKinds DEF TNext, WriterStep, ReaderStep, TInv

\* Whoever works on an object knows its key and its mutex.
LEMMA ObjectOf ==
  ASSUME TInv, NEW t \in Reader \cup Changers, AtObject(t)
  PROVE  job[t] \in Key /\ Current(job[t]) /\ Mutex(t) \in ObjMutex
  BY DEF TInv, JobsAreCurrent, Key, Mutex, ObjMutex

\* A worker that changes an object is the only one at it.
LEMMA Excluded ==
  ASSUME TInv, NEW t \in Reader \cup Changers, AtStores(t), NEW u \in Changers, AtStores(u), u # t
  PROVE  job[u] # job[t]
<1> SUFFICES ASSUME job[u] = job[t] PROVE FALSE
  OBVIOUS
<1>1. Mutex(t) \in ObjMutex /\ Mutex(u) = Mutex(t)
  BY ObjectOf DEF AtStores, AtObject, Mutex
<1>2. u \in holders[Mutex(t)].writers /\ t \in holders[Mutex(t)].readers \cup holders[Mutex(t)].writers
  BY <1>1, WorkerKinds DEF TInv, ObjectsHeld, ReadersAt, ChangersAt
<1>3. CASE t \in Reader
  BY <1>1, <1>2, <1>3, WorkerKinds DEF TInv, ObjectsHeld, ReadersAt, ChangersAt
<1>4. CASE t \in Changers
  <2>1. {t, u} = Changers /\ t \in holders[Mutex(t)].writers
    BY <1>1, <1>2, <1>4, WorkerKinds DEF Changers, TInv, ObjectsHeld, ReadersAt
  <2>2. holders[Mutex(t)].writers \subseteq Changers /\ holders[Mutex(t)].writers # Changers
    BY <1>1 DEF TInv, ObjectsHeld, ChangersAt
  <2> QED BY <1>2, <2>1, <2>2
<1> QED BY <1>3, <1>4

LEMMA HeldStays ==
  ASSUME TInv, holders' = holders,
         \A t \in Reader \cup Changers : (AtStores(t)' <=> AtStores(t)) /\ (AtStores(t) => job'[t] = job[t])
  PROVE  ObjectsHeld'
<1>1. \A m \in ObjMutex : ReadersAt(m)' = ReadersAt(m) /\ ChangersAt(m)' = ChangersAt(m)
  BY DEF ReadersAt, ChangersAt, Mutex
<1> QED BY <1>1 DEF TInv, ObjectsHeld

LEMMA HeldDropped ==
  ASSUME TInv, NEW t \in Reader \cup Changers, AtStores(t), Unlock(t),
         ~AtStores(t)', \A u \in (Reader \cup Changers) \ {t} : AtStores(u)' <=> AtStores(u)
  PROVE  ObjectsHeld' /\ holders' \in [ObjMutex -> [writers : SUBSET Changers, readers : SUBSET Reader]]
<1>1. Mutex(t) \in ObjMutex
  BY ObjectOf DEF AtStores, AtObject
<1>2. \A m \in ObjMutex : ReadersAt(m)' = ReadersAt(m) \ {t} /\ ChangersAt(m)' = ChangersAt(m) \ {t}
  <2>1. \A u \in (Reader \cup Changers) \ {t} : job'[u] = job[u]
    BY DEF Unlock, TInv, TTypeOK
  <2> QED BY <2>1 DEF ReadersAt, ChangersAt, Mutex
<1>3. \A m \in ObjMutex : /\ holders'[m].readers = holders[m].readers \ {t}
                          /\ holders'[m].writers = holders[m].writers \ {t}
  <2> TAKE m \in ObjMutex
  <2>1. t \in holders[m].readers \cup holders[m].writers => m = Mutex(t)
    BY DEF TInv, ObjectsHeld, ReadersAt, ChangersAt
  <2> QED BY <1>1, <2>1 DEF Unlock, TInv, TTypeOK
<1>4. holders' \in [ObjMutex -> [writers : SUBSET Changers, readers : SUBSET Reader]]
  BY <1>1 DEF Unlock, TInv, TTypeOK
<1>5. \A m \in ObjMutex : ChangersAt(m) \subseteq Changers /\ holders[m].writers = ChangersAt(m)
  BY DEF ChangersAt, TInv, ObjectsHeld
<1>6. ASSUME NEW m \in ObjMutex
      PROVE  /\ holders'[m].readers = ReadersAt(m)' /\ holders'[m].writers = ChangersAt(m)'
             /\ holders'[m].writers # {} => holders'[m].readers = {}
             /\ holders'[m].writers # Changers
  <2>1. holders[m].readers = ReadersAt(m) /\ (holders[m].writers # {} => holders[m].readers = {}) /\ holders[m].writers # Changers
    BY DEF TInv, ObjectsHeld
  <2> DEFINE w == holders[m].writers
             r == holders[m].readers
  <2>2. /\ holders'[m].readers = r \ {t} /\ holders'[m].writers = w \ {t}
        /\ ReadersAt(m)' = r \ {t} /\ ChangersAt(m)' = w \ {t} /\ w \subseteq Changers
    BY <1>2, <1>3, <1>5, <2>1
  <2> HIDE DEF w, r
  <2>3. w # Changers /\ (w # {} => r = {})
    BY <2>1 DEF w, r
  <2>4. w \ {t} # Changers
    BY <2>2, <2>3
  <2> QED BY <2>2, <2>3, <2>4
<1> QED BY <1>4, <1>6 DEF ObjectsHeld

LEMMA HeldTaken ==
  ASSUME TInv, NEW t \in Reader \cup Changers,
         (t \in Changers /\ LockUnique(t)) \/ (t \in Reader /\ LockShared(t))
  PROVE  ObjectsHeld' /\ holders' \in [ObjMutex -> [writers : SUBSET Changers, readers : SUBSET Reader]]
<1> DEFINE x == Mutex(t)
<1>1. x \in ObjMutex /\ ~AtStores(t) /\ AtStores(t)' /\ job' = job
  BY ObjectOf, WorkerKinds DEF AtStores, AtObject, LockUnique, LockShared, Goes, TInv, TTypeOK
<1>2. \A u \in (Reader \cup Changers) \ {t} : AtStores(u)' <=> AtStores(u)
  BY WorkerKinds DEF AtStores, LockUnique, LockShared, Goes, TInv, TTypeOK
<1>3. ASSUME NEW m \in ObjMutex
      PROVE  /\ ReadersAt(m)' = IF t \in Reader /\ m = x THEN ReadersAt(m) \cup {t} ELSE ReadersAt(m)
             /\ ChangersAt(m)' = IF t \in Changers /\ m = x THEN ChangersAt(m) \cup {t} ELSE ChangersAt(m)
  <2>1. \A u \in Reader \cup Changers : Mutex(u)' = Mutex(u)
    BY <1>1 DEF Mutex
  <2> QED BY <1>1, <1>2, <2>1 DEF ReadersAt, ChangersAt
<1> HIDE DEF x
<1>4. CASE t \in Changers /\ LockUnique(t)
  <2>1. holders' = [holders EXCEPT ![x].writers = {t}] /\ holders[x].writers = {} /\ holders[x].readers = {}
    BY <1>4 DEF LockUnique, x
  <2>2. \A m \in ObjMutex : holders'[m].readers = holders[m].readers /\ holders'[m].writers = IF m = x THEN {t} ELSE holders[m].writers
    BY <1>1, <2>1 DEF TInv, TTypeOK
  <2>3. t \notin Reader /\ {t} # Changers
    BY <1>4, WorkerKinds DEF Changers
  <2>4. ObjectsHeld'
    BY <1>3, <1>4, <2>1, <2>2, <2>3 DEF TInv, ObjectsHeld
  <2> QED BY <1>1, <1>4, <2>1, <2>4 DEF TInv, TTypeOK
<1>5. CASE t \in Reader /\ LockShared(t)
  <2>1. holders' = [holders EXCEPT ![x].readers = @ \cup {t}] /\ holders[x].writers = {}
    BY <1>5 DEF LockShared, x
  <2>2. \A m \in ObjMutex : holders'[m].writers = holders[m].writers /\ holders'[m].readers = IF m = x THEN holders[m].readers \cup {t} ELSE holders[m].readers
    BY <1>1, <2>1 DEF TInv, TTypeOK
  <2>3. t \notin Changers
    BY <1>5, WorkerKinds DEF Changers
  <2>4. ObjectsHeld'
    BY <1>3, <1>5, <2>1, <2>2, <2>3 DEF TInv, ObjectsHeld
  <2> QED BY <1>1, <1>5, <2>1, <2>4 DEF TInv, TTypeOK
<1> QED BY <1>4, <1>5

LEMMA AgreeStays ==
  ASSUME TInv, UNCHANGED <<local, cached, base, dir>>, stage'[Updater] = "clean" <=> stage[Updater] = "clean",
         \A t \in Changers : (stage'[t] = "second" <=> stage[t] = "second") /\ (stage[t] = "second" => job'[t] = job[t])
  PROVE  StoresAgree'
<1>1. \A k : Current(k)' <=> Current(k)
  BY DEF Current
<1>2. Writer \in Changers /\ Remover \in Changers
  BY DEF Changers
<1> QED BY <1>1, <1>2 DEF TInv, StoresAgree, Lookup

\* Steps that touch neither stores nor mutexes: a worker chooses what to do next.
LEMMA ChooseInv == ASSUME TInv, NEW t \in Reader \cup {Remover}, Choose(t) PROVE TInv'
<1> USE WorkerKinds DEF Choose, Top, Goes
<1>1. QInv' BY QueueOfTester DEF TNext, ReaderStep, RemoverStep, TInv
<1>2. /\ stage[t] = "top" /\ stage'[t] \in {"ended", "lock"} /\ \A u \in Worker \ {t} : stage'[u] = stage[u] /\ job'[u] = job[u]
      /\ stage'[t] = "lock" => \E o \in Obj : job'[t] = <<dir, o>>
      /\ DOMAIN stage' = Worker /\ DOMAIN job' = Worker
      /\ UNCHANGED <<base, local, cached, holders, dir, stopped, queueVars>>
  <2>1. t \in Worker /\ DOMAIN stage = Worker /\ DOMAIN job = Worker
    BY DEF TInv, TTypeOK, Changers
  <2>2. stage[t] = "top" /\ UNCHANGED <<base, local, cached, holders, dir, stopped, queueVars>>
    OBVIOUS
  <2>3. CASE stopped
    BY <2>1, <2>2, <2>3
  <2>4. CASE ~stopped
    <3>1. PICK o \in Obj : job' = [job EXCEPT ![t] = <<dir, o>>]
      BY <2>4
    <3>2. stage' = [stage EXCEPT ![t] = "lock"]
      BY <2>4
    <3> QED BY <2>1, <2>2, <3>1, <3>2
  <2> QED BY <2>3, <2>4
<1> HIDE DEF Choose
<1>3. TTypeOK'
  <2>1. \A u \in Reader : stage'[u] \in {"top", "lock", "first", "second", "put", "ended"}
    BY <1>2 DEF TInv, TTypeOK
  <2>2. /\ stage'[Writer] \in {"top", "get", "lock", "first", "second", "ended"}
        /\ stage'[Remover] \in {"top", "lock", "first", "second", "ended"}
        /\ stage'[Updater] \in {"top", "count", "clean", "ended"}
    BY <1>2 DEF TInv, TTypeOK, Changers
  <2> QED BY <1>2, <2>1, <2>2 DEF TInv, TTypeOK
<1>4. JobsAreCurrent'
  <2>1. dir \in 0 .. MaxDir
    BY DEF TInv, TTypeOK
  <2>2. stage'[t] = "lock" => job'[t] \in Key /\ job'[t][1] = dir
    BY <1>2, <2>1 DEF Key
  <2>3. \A u \in (Reader \cup Changers) \ {t} : stage'[u] = stage[u] /\ job'[u] = job[u]
    BY <1>2
  <2>4. dir' = dir /\ stage'[Updater] = stage[Updater] /\ stage'[t] \in {"ended", "lock"}
    BY <1>2 DEF Changers
  <2> QED BY <2>2, <2>3, <2>4 DEF TInv, JobsAreCurrent, AtObject, Current
<1>5. ObjectsHeld'
  <2>1. \A u \in Reader \cup Changers : (AtStores(u)' <=> AtStores(u)) /\ (AtStores(u) => job'[u] = job[u])
    BY <1>2 DEF AtStores
  <2> QED BY <1>2, <2>1, HeldStays
<1>6. StoresAgree'
  <2>1. \A u \in Changers : (stage'[u] = "second" <=> stage[u] = "second") /\ (stage[u] = "second" => job'[u] = job[u])
    BY <1>2
  <2>2. stage'[Updater] = stage[Updater]
    BY <1>2 DEF Changers
  <2> QED BY <1>2, <2>1, <2>2, AgreeStays
<1>7. ReadersKnow' BY <1>2 DEF TInv, ReadersKnow, Lookup
<1>8. NothingAhead' /\ ExpiredIsGone' BY <1>2 DEF TInv, NothingAhead, ExpiredIsGone, Changers
<1>9. WriterAsked' BY <1>2 DEF TInv, WriterAsked, queueVars, Changers
<1> QED BY <1>1, <1>3, <1>4, <1>5, <1>6, <1>7, <1>8, <1>9 DEF TInv

\* The writer asks the queue for a key and takes it over.
LEMMA WriterKeyInv == ASSUME TInv, AskForKey \/ GotKey PROVE TInv'
<1> USE WorkerKinds DEF Top, Goes
<1>1. QInv' BY QueueOfTester DEF TNext, WriterStep
<1>2. /\ ~AtStores(Writer) /\ ~AtStores(Writer)' /\ Writer \in Worker
      /\ \A u \in Worker \ {Writer} : stage'[u] = stage[u] /\ job'[u] = job[u]
      /\ DOMAIN stage' = Worker /\ DOMAIN job' = Worker /\ stage'[Writer] \in {"top", "ended", "get", "lock"}
      /\ UNCHANGED <<base, local, cached, holders, dir, stopped>>
  BY DEF AskForKey, GotKey, AtStores, TInv, TTypeOK, Changers
<1>3. TTypeOK' BY <1>2 DEF TInv, TTypeOK, Changers
<1>4. JobsAreCurrent'
  <2>1. ASSUME stage'[Writer] = "lock" PROVE job'[Writer] \in Key /\ job'[Writer][1] = dir
    <3>1. GotKey /\ result[Writer][1] /\ result[Writer][2][1] = dir /\ job'[Writer] = result[Writer][2]
      BY <1>2, <2>1 DEF AskForKey, GotKey, TInv, TTypeOK
    <3>2. call[Writer] = <<>>
      BY <3>1 DEF GotKey, TInv, QInv, Frames
    <3>3. result[Writer] \in {<<FALSE>>} \cup {<<TRUE, k>> : k \in Key}
      BY <3>1, <3>2 DEF GotKey, TInv, WriterAsked
    <3>4. <<FALSE>>[1] = FALSE
      OBVIOUS
    <3>5. PICK k \in Key : result[Writer] = <<TRUE, k>>
      BY <3>1, <3>3, <3>4
    <3>6. result[Writer][2] = k
      BY <3>5
    <3> QED BY <3>1, <3>5, <3>6
  <2> QED BY <1>2, <2>1 DEF TInv, TTypeOK, JobsAreCurrent, AtObject, AtStores, Current, Changers
<1>5. ObjectsHeld'
  <2>1. \A u \in Reader \cup Changers : (AtStores(u)' <=> AtStores(u)) /\ (AtStores(u) => job'[u] = job[u])
    BY <1>2 DEF AtStores
  <2> QED BY <1>2, <2>1, HeldStays
<1>6. StoresAgree'
  <2>1. \A u \in Changers : (stage'[u] = "second" <=> stage[u] = "second") /\ (stage[u] = "second" => job'[u] = job[u])
    BY <1>2 DEF AtStores
  <2>2. stage'[Updater] = stage[Updater]
    BY <1>2 DEF Changers
  <2> QED BY <1>2, <2>1, <2>2, AgreeStays
<1>7. ReadersKnow' BY <1>2 DEF TInv, ReadersKnow, Lookup
<1>8. NothingAhead' /\ ExpiredIsGone' BY <1>2 DEF TInv, NothingAhead, ExpiredIsGone, Changers
<1>9. WriterAsked'
  <2>1. CASE AskForKey
    <3>1. stage'[Writer] = "get" => Call(Writer, <<"get">>)
      BY <1>2, <2>1 DEF AskForKey, TInv, TTypeOK
    <3>2. stage'[Writer] = "get" => call'[Writer] = <<"get">>
      BY <3>1 DEF Call, TInv, QInv, QTypeOK
    <3>3. <<"get">> # <<>>
      OBVIOUS
    <3> QED BY <3>2, <3>3 DEF WriterAsked
  <2>2. CASE GotKey
    BY <1>2, <2>2 DEF GotKey, WriterAsked, TInv, TTypeOK
  <2> QED BY <2>1, <2>2
<1> QED BY <1>1, <1>3, <1>4, <1>5, <1>6, <1>7, <1>8, <1>9 DEF TInv

\* Steps within the queue.
LEMMA InQueueInv == ASSUME TInv, NEW t \in QThread, InQueue(t) \/ (SpuriousWakeup(t) /\ UNCHANGED testerVars) PROVE TInv'
<1>1. QInv'
  <2>1. QNext
    BY DEF InQueue, QNext
  <2> QED BY <2>1, QNextInv DEF TInv
<1>2. UNCHANGED testerVars
  BY DEF InQueue
<1>3. TTypeOK' /\ JobsAreCurrent' /\ ReadersKnow' /\ NothingAhead' /\ ExpiredIsGone'
  BY <1>2 DEF testerVars, TInv, TTypeOK, JobsAreCurrent, AtObject, Current, ReadersKnow, Lookup, NothingAhead, ExpiredIsGone
<1>4. ObjectsHeld' /\ StoresAgree'
  BY <1>2, HeldStays, AgreeStays DEF testerVars, AtStores
<1>5. WriterAsked'
  <2> SUFFICES ASSUME stage[Writer] = "get" PROVE WriterAsked'
    BY <1>2 DEF testerVars, WriterAsked
  <2>1. CASE SpuriousWakeup(t)
    BY <1>2, <2>1 DEF SpuriousWakeup, testerVars, TInv, WriterAsked
  <2>2. CASE InQueue(t) /\ t # Writer
    BY <1>2, <2>2, WorkerKinds DEF InQueue, Step, BlockingGet, BlockingPut, Notify, TakeItem, AddItem, Refused, Sleeps, Returns,
                                   testerVars, TInv, WriterAsked, QInv, QTypeOK
  <2>3. CASE InQueue(t) /\ t = Writer /\ at[t] = "in"
    <3>1. call[t] = <<"get">>
      BY <2>3 DEF TInv, WriterAsked, QInv, Frames
    <3>2. BlockingGet(t)
      BY <2>3, <3>1 DEF InQueue, Step, BlockingPut, Called, Notify
    <3>3. ASSUME items # <<>> PROVE Head(items) \in Key
      BY <3>3, ItemAssumption DEF TInv, QInv, QTypeOK
    <3>4. call'[t] = call[t] \/ result'[t] = <<FALSE>> \/ \E k \in Key : result'[t] = <<TRUE, k>>
      BY <3>2, <3>3 DEF BlockingGet, TakeItem, Refused, Sleeps, Returns, TInv, QInv, QTypeOK
    <3>5. call'[t] \in {<<>>, <<"get">>}
      BY <3>1, <3>2 DEF BlockingGet, TakeItem, Refused, Sleeps, Returns, TInv, QInv, QTypeOK
    <3>6. <<"get">> # <<>>
      OBVIOUS
    <3>7. call'[t] = <<>> => result'[t] \in {<<FALSE>>} \cup {<<TRUE, k>> : k \in Key}
      BY <3>1, <3>4, <3>6
    <3> QED BY <2>3, <3>5, <3>7 DEF WriterAsked
  <2>4. CASE InQueue(t) /\ t = Writer /\ at[t] # "in"
    <3>1. call' = call /\ result' = result
      BY <2>4 DEF InQueue, Step, BlockingGet, BlockingPut, Called, Notify
    <3> QED BY <1>2, <3>1 DEF testerVars, TInv, WriterAsked
  <2> QED BY <2>1, <2>2, <2>3, <2>4
<1> QED BY <1>1, <1>3, <1>4, <1>5 DEF TInv

LEMMA PutKeyInv == ASSUME TInv, NEW t \in Reader, PutKey(t) PROVE TInv'
<1> USE WorkerKinds DEF Goes
<1>1. QInv' BY QueueOfTester DEF TNext, ReaderStep
<1>2. /\ stage[t] = "put" /\ stage'[t] \in {"ended", "top"} /\ \A u \in Worker \ {t} : stage'[u] = stage[u]
      /\ DOMAIN stage' = Worker
      /\ UNCHANGED <<job, base, local, cached, holders, dir, stopped, queueVars>>
  BY DEF PutKey, TInv, TTypeOK
<1>3. TTypeOK' BY <1>2 DEF TInv, TTypeOK, Changers
<1>4. JobsAreCurrent' BY <1>2 DEF TInv, TTypeOK, JobsAreCurrent, AtObject, Current, Changers
<1>5. ObjectsHeld' BY <1>2, HeldStays DEF AtStores
<1>6. StoresAgree' BY <1>2, AgreeStays DEF Changers
<1>7. ReadersKnow' BY <1>2 DEF TInv, ReadersKnow, Lookup
<1>8. NothingAhead' /\ ExpiredIsGone' BY <1>2 DEF TInv, NothingAhead, ExpiredIsGone, Changers
<1>9. WriterAsked' BY <1>2 DEF TInv, WriterAsked, queueVars, Changers
<1> QED BY <1>1, <1>3, <1>4, <1>5, <1>6, <1>7, <1>8, <1>9 DEF TInv

LEMMA LockObjectInv ==
  ASSUME TInv, NEW t \in Reader \cup Changers,
         (t \in Changers /\ LockUnique(t)) \/ (t \in Reader /\ LockShared(t))
  PROVE  TInv'
<1> USE WorkerKinds DEF Goes
<1>1. QInv' BY QueueOfTester DEF TNext, ReaderStep, WriterStep, RemoverStep, RemoveLock, Changers
<1>2. /\ stage[t] = "lock" /\ stage'[t] = "first" /\ \A u \in Worker \ {t} : stage'[u] = stage[u]
      /\ DOMAIN stage' = Worker /\ t \in Worker
      /\ UNCHANGED <<job, base, local, cached, dir, stopped, queueVars>>
  BY DEF LockUnique, LockShared, TInv, TTypeOK
<1>3. ObjectsHeld' /\ holders' \in [ObjMutex -> [writers : SUBSET Changers, readers : SUBSET Reader]]
  BY HeldTaken
<1>4. TTypeOK' BY <1>2, <1>3 DEF TInv, TTypeOK, Changers
<1>5. JobsAreCurrent' BY <1>2 DEF TInv, TTypeOK, JobsAreCurrent, AtObject, Current
<1>6. StoresAgree' BY <1>2, AgreeStays DEF Changers
<1>7. ReadersKnow' BY <1>2 DEF TInv, ReadersKnow, Lookup
<1>8. NothingAhead' /\ ExpiredIsGone' BY <1>2 DEF TInv, NothingAhead, ExpiredIsGone, Changers
<1>9. WriterAsked' BY <1>2 DEF TInv, WriterAsked, queueVars, Changers
<1> QED BY <1>1, <1>3, <1>4, <1>5, <1>6, <1>7, <1>8, <1>9 DEF TInv


\* What a store answers after objects have been removed.
LEMMA LookupRemoved ==
  ASSUME NEW store, NEW ks
  PROVE  /\ DOMAIN WithoutKeys(store, ks) = DOMAIN store \ ks
         /\ \A k : k \notin ks => Lookup(WithoutKeys(store, ks), k) = Lookup(store, k)
         /\ \A k : k \in ks => Lookup(WithoutKeys(store, ks), k) = NoObject
         /\ \A k \in DOMAIN store : k \notin ks => WithoutKeys(store, ks)[k] = store[k]
<1>1. DOMAIN WithoutKeys(store, ks) = DOMAIN store \ ks
  BY DEF WithoutKeys, Restrict
<1>2. \A k \in DOMAIN store \ ks : WithoutKeys(store, ks)[k] = store[k]
  BY DEF WithoutKeys, Restrict
<1> QED BY <1>1, <1>2 DEF Lookup

\* StoresAgree at one key, in its three cases.
LEMMA AgreeAt ==
  ASSUME TInv, NEW k \in Key, Current(k)
  PROVE  /\ stage[Writer] = "second" /\ job[Writer] = k => k \in DOMAIN local /\ base[Writer] = <<local[k]>>
         /\ stage[Remover] = "second" /\ job[Remover] = k => k \notin DOMAIN local /\ base[Remover] = Lookup(cached, k)
         /\ ~(stage[Writer] = "second" /\ job[Writer] = k) /\ ~(stage[Remover] = "second" /\ job[Remover] = k)
            => Lookup(local, k) = Lookup(cached, k)
<1>1. ~(stage[Writer] = "second" /\ job[Writer] = k /\ stage[Remover] = "second" /\ job[Remover] = k)
  BY Excluded, WorkerKinds DEF Changers, AtStores
<1> QED BY <1>1 DEF TInv, StoresAgree

\* The stores agree on the object of a worker at its first step.
LEMMA AgreeAtFirst ==
  ASSUME TInv, NEW t \in Reader \cup Changers, stage[t] = "first" \/ (t \in Reader /\ stage[t] = "second")
  PROVE  Lookup(local, job[t]) = Lookup(cached, job[t])
<1>1. job[t] \in Key /\ Current(job[t]) /\ AtStores(t)
  BY ObjectOf DEF AtObject, AtStores
<1>2. \A u \in Changers : stage[u] = "second" => job[u] # job[t]
  <2> SUFFICES ASSUME NEW u \in Changers, stage[u] = "second" PROVE job[u] # job[t]
    OBVIOUS
  <2>1. u # t /\ AtStores(u)
    BY WorkerKinds DEF AtStores, Changers
  <2> QED BY <1>1, <2>1, Excluded
<1> QED BY <1>1, <1>2, AgreeAt DEF Changers

LEMMA SetLocalInv == ASSUME TInv, SetLocal PROVE TInv'
<1> USE WorkerKinds
<1>1. QInv' BY QueueOfTester DEF TNext, WriterStep
<1> DEFINE j == job[Writer]
<1>2. /\ stage[Writer] = "first" /\ stage'[Writer] = "second" /\ \A u \in Worker \ {Writer} : stage'[u] = stage[u] /\ base'[u] = base[u]
      /\ DOMAIN stage' = Worker /\ DOMAIN base' = Worker /\ Writer \in Worker /\ Writer \in Changers
      /\ UNCHANGED <<job, cached, holders, dir, stopped, queueVars>>
  BY DEF SetLocal, Goes, TInv, TTypeOK, Changers
<1>3. j \in Key /\ Current(j) /\ AtStores(Writer)
  BY <1>2, ObjectOf DEF AtObject, AtStores
<1>4. PICK v \in Data : base'[Writer] = <<v>> /\ local' = Stored(local, Writer, v)
  BY <1>2 DEF SetLocal, TInv, TTypeOK
<1>5. /\ DOMAIN local' = DOMAIN local \cup {j} /\ base'[Writer] = <<local'[j]>>
      /\ \A k : k # j => Lookup(local', k) = Lookup(local, k)
      /\ \A k \in DOMAIN local : k # j => local'[k] = local[k]
  <2> DEFINE s == Stored(local, Writer, v)
  <2>1. /\ DOMAIN s = DOMAIN local \cup {j} /\ s[j] = v
        /\ \A k : k # j => Lookup(s, k) = Lookup(local, k)
        /\ \A k \in DOMAIN local : k # j => s[k] = local[k]
    BY DEF Stored, Lookup
  <2>2. local' = s /\ \A k : Lookup(local', k) = Lookup(s, k)
    BY <1>4 DEF Lookup
  <2> QED BY <1>4, <2>1, <2>2
<1>6. \A t \in Reader \cup Changers : t # Writer /\ AtStores(t) => job[t] # j
  BY <1>2, <1>3, Excluded
<1>7. \A k : Current(k)' <=> Current(k)
  BY <1>2 DEF Current
<1> HIDE DEF j
<1>8. TTypeOK'
  <2>1. \A u \in Reader : stage'[u] \in {"top", "lock", "first", "second", "put", "ended"}
    BY <1>2 DEF TInv, TTypeOK
  <2>2. /\ stage'[Remover] \in {"top", "lock", "first", "second", "ended"}
        /\ stage'[Updater] \in {"top", "count", "clean", "ended"}
    BY <1>2 DEF TInv, TTypeOK, Changers
  <2>3. DOMAIN local' \subseteq Key
    BY <1>3, <1>5 DEF TInv, TTypeOK
  <2> QED BY <1>2, <2>1, <2>2, <2>3 DEF TInv, TTypeOK
<1>9. JobsAreCurrent' BY <1>2, <1>7 DEF TInv, JobsAreCurrent, AtObject
<1>10. ObjectsHeld' BY <1>2, HeldStays DEF AtStores
<1>11. StoresAgree'
  <2> SUFFICES ASSUME NEW k \in Key, Current(k)
               PROVE  CASE stage'[Writer] = "second" /\ job[Writer] = k   -> k \in DOMAIN local' /\ base'[Writer] = <<local'[k]>>
                        [] stage'[Remover] = "second" /\ job[Remover] = k -> k \notin DOMAIN local' /\ base'[Remover] = Lookup(cached, k)
                        [] OTHER                                          -> Lookup(local', k) = Lookup(cached, k)
    BY <1>2, <1>7 DEF StoresAgree, Lookup
  <2>1. stage'[Remover] = stage[Remover] /\ base'[Remover] = base[Remover] /\ Remover \in Changers /\ Remover # Writer
    BY <1>2 DEF Changers
  <2>2. CASE k = j
    <3>1. ~(stage'[Remover] = "second" /\ job[Remover] = k)
      BY <1>6, <2>1, <2>2 DEF AtStores
    <3> QED BY <1>2, <1>5, <2>2, <3>1 DEF j
  <2>3. CASE k # j
    <3>1. job[Writer] # k /\ Lookup(local', k) = Lookup(local, k) /\ (k \in DOMAIN local' <=> k \in DOMAIN local)
      BY <1>5, <2>3 DEF j
    <3> QED BY <2>1, <3>1, AgreeAt
  <2> QED BY <2>2, <2>3
<1>12. ReadersKnow'
  <2> SUFFICES ASSUME NEW t \in Reader, stage'[t] = "second" PROVE base'[t] = Lookup(local', job'[t])
    BY DEF ReadersKnow, Lookup
  <2>1. stage[t] = "second" /\ base'[t] = base[t] /\ job'[t] = job[t]
    BY <1>2
  <2> QED BY <1>5, <1>6, <2>1 DEF TInv, ReadersKnow, AtStores
<1>13. NothingAhead' /\ ExpiredIsGone'
  <2>1. j[1] <= dir
    BY <1>3 DEF Current, Key, TInv, TTypeOK
  <2>2. \A k : Current(k) <=> (k[1] = dir \/ (k[1] = dir - 1 /\ stage[Updater] = "clean"))
    BY DEF Current
  <2>3. stage'[Updater] = stage[Updater]
    BY <1>2 DEF Changers
  <2> QED BY <1>2, <1>3, <1>5, <2>1, <2>2, <2>3 DEF TInv, NothingAhead, ExpiredIsGone
<1>14. WriterAsked' BY <1>2 DEF WriterAsked
<1> QED BY <1>1, <1>8, <1>9, <1>10, <1>11, <1>12, <1>13, <1>14 DEF TInv

LEMMA SetCachedInv == ASSUME TInv, SetCached PROVE TInv'
<1> USE WorkerKinds
<1>1. QInv' BY QueueOfTester DEF TNext, WriterStep
<1> DEFINE j == job[Writer]
<1>2. /\ stage[Writer] = "second" /\ stage'[Writer] = "top"
      /\ \A u \in Worker \ {Writer} : stage'[u] = stage[u] /\ base'[u] = base[u] /\ job'[u] = job[u]
      /\ DOMAIN stage' = Worker /\ DOMAIN base' = Worker /\ DOMAIN job' = Worker /\ Writer \in Worker /\ Writer \in Changers
      /\ UNCHANGED <<local, dir, stopped, queueVars>> /\ Unlock(Writer)
  BY DEF SetCached, Unlock, Goes, TInv, TTypeOK, Changers
<1>3. j \in Key /\ Current(j) /\ AtStores(Writer)
  BY <1>2, ObjectOf DEF AtObject, AtStores
<1>4. j \in DOMAIN local /\ base[Writer] = <<local[j]>>
  BY <1>2, <1>3, AgreeAt
<1>5. /\ DOMAIN cached' = DOMAIN cached \cup {j} /\ cached'[j] = local[j]
      /\ \A k : k # j => Lookup(cached', k) = Lookup(cached, k)
  <2> DEFINE s == Stored(cached, Writer, base[Writer][1])
  <2>1. /\ DOMAIN s = DOMAIN cached \cup {j} /\ s[j] = base[Writer][1]
        /\ \A k : k # j => Lookup(s, k) = Lookup(cached, k)
    BY DEF Stored, Lookup
  <2>2. cached' = s /\ \A k : Lookup(cached', k) = Lookup(s, k)
    BY DEF SetCached, Lookup
  <2> HIDE DEF s
  <2> QED BY <1>4, <2>1, <2>2
<1>6. \A k : Current(k)' <=> Current(k)
  BY <1>2 DEF Current, Changers
<1> HIDE DEF j
<1>7. ObjectsHeld' /\ holders' \in [ObjMutex -> [writers : SUBSET Changers, readers : SUBSET Reader]]
  <2>1. ~AtStores(Writer)' /\ \A u \in (Reader \cup Changers) \ {Writer} : AtStores(u)' <=> AtStores(u)
    BY <1>2 DEF AtStores
  <2> QED BY <1>2, <1>3, <2>1, HeldDropped
<1>8. TTypeOK'
  <2>1. \A u \in Reader : stage'[u] \in {"top", "lock", "first", "second", "put", "ended"}
    BY <1>2 DEF TInv, TTypeOK
  <2>2. /\ stage'[Remover] \in {"top", "lock", "first", "second", "ended"}
        /\ stage'[Updater] \in {"top", "count", "clean", "ended"}
    BY <1>2 DEF TInv, TTypeOK, Changers
  <2>3. DOMAIN cached' \subseteq Key
    BY <1>3, <1>5 DEF TInv, TTypeOK
  <2> QED BY <1>2, <1>7, <2>1, <2>2, <2>3 DEF TInv, TTypeOK
<1>9. JobsAreCurrent' BY <1>2, <1>6 DEF TInv, JobsAreCurrent, AtObject
<1>10. StoresAgree'
  <2> SUFFICES ASSUME NEW k \in Key, Current(k)
               PROVE  CASE stage'[Writer] = "second" /\ job'[Writer] = k   -> k \in DOMAIN local' /\ base'[Writer] = <<local'[k]>>
                        [] stage'[Remover] = "second" /\ job'[Remover] = k -> k \notin DOMAIN local /\ base'[Remover] = Lookup(cached', k)
                        [] OTHER                                           -> Lookup(local, k) = Lookup(cached', k)
    BY <1>2, <1>6 DEF StoresAgree, Lookup
  <2>1. /\ stage'[Remover] = stage[Remover] /\ base'[Remover] = base[Remover] /\ job'[Remover] = job[Remover]
        /\ Remover \in Changers /\ Remover # Writer /\ stage'[Writer] # "second"
    BY <1>2 DEF Changers
  <2>2. CASE k = j
    <3>1. ~(stage[Remover] = "second" /\ job[Remover] = k)
      BY <1>2, <1>3, <2>1, <2>2, Excluded DEF AtStores, j
    <3>2. Lookup(local, k) = Lookup(cached', k)
      BY <1>4, <1>5, <2>2 DEF Lookup
    <3> QED BY <2>1, <3>1, <3>2
  <2>3. CASE k # j
    <3>1. job[Writer] # k /\ Lookup(cached', k) = Lookup(cached, k)
      BY <1>5, <2>3 DEF j
    <3> QED BY <2>1, <3>1, AgreeAt
  <2> QED BY <2>2, <2>3
<1>11. ReadersKnow' BY <1>2 DEF TInv, ReadersKnow, Lookup
<1>12. NothingAhead' /\ ExpiredIsGone'
  <2>1. j[1] <= dir
    BY <1>3 DEF Current, Key, TInv, TTypeOK
  <2>2. stage'[Updater] = stage[Updater]
    BY <1>2 DEF Changers
  <2> QED BY <1>2, <1>5, <2>1, <2>2 DEF TInv, NothingAhead, ExpiredIsGone
<1>13. WriterAsked' BY <1>2 DEF WriterAsked
<1> QED BY <1>1, <1>7, <1>8, <1>9, <1>10, <1>11, <1>12, <1>13 DEF TInv

LEMMA ReadLocalInv == ASSUME TInv, NEW t \in Reader, ReadLocal(t) PROVE TInv'
<1> USE WorkerKinds
<1>1. QInv' BY QueueOfTester DEF TNext, ReaderStep
<1>2. /\ stage[t] = "first" /\ stage'[t] = "second" /\ base'[t] = Lookup(local, job[t])
      /\ \A u \in Worker \ {t} : stage'[u] = stage[u] /\ base'[u] = base[u]
      /\ DOMAIN stage' = Worker /\ DOMAIN base' = Worker /\ t \in Worker
      /\ UNCHANGED <<job, local, cached, holders, dir, stopped, queueVars>>
  BY DEF ReadLocal, Goes, TInv, TTypeOK
<1>3. \A u \in Changers \cup {Updater} : stage'[u] = stage[u] /\ base'[u] = base[u]
  BY <1>2 DEF Changers
<1>4. TTypeOK' BY <1>2 DEF TInv, TTypeOK, Changers
<1>5. JobsAreCurrent' BY <1>2, <1>3 DEF TInv, JobsAreCurrent, AtObject, Current
<1>6. ObjectsHeld' BY <1>2, HeldStays DEF AtStores
<1>7. StoresAgree'
  <2>1. \A k : Current(k)' <=> Current(k)
    BY <1>2, <1>3 DEF Current
  <2>2. Writer \in Changers /\ Remover \in Changers
    BY DEF Changers
  <2> QED BY <1>2, <1>3, <2>1, <2>2 DEF TInv, StoresAgree, Lookup
<1>8. ReadersKnow' BY <1>2 DEF TInv, ReadersKnow, Lookup
<1>9. NothingAhead' /\ ExpiredIsGone' BY <1>2, <1>3 DEF TInv, NothingAhead, ExpiredIsGone
<1>10. WriterAsked' BY <1>2, <1>3 DEF TInv, WriterAsked, queueVars, Changers
<1> QED BY <1>1, <1>4, <1>5, <1>6, <1>7, <1>8, <1>9, <1>10 DEF TInv

\* The comparison of a reader: both stores answer the same.
LEMMA ReadCachedInv == ASSUME TInv, NEW t \in Reader, ReadCached(t) PROVE TInv'
<1> USE WorkerKinds
<1>1. QInv' BY QueueOfTester DEF TNext, ReaderStep
<1>2. base[t] = Lookup(cached, job[t])
  <2>1. stage[t] = "second"
    BY DEF ReadCached
  <2>2. base[t] = Lookup(local, job[t])
    BY <2>1 DEF TInv, ReadersKnow
  <2> QED BY <2>1, <2>2, AgreeAtFirst
<1>3. stage[t] = "second" /\ Unlock(t) /\ UNCHANGED <<local, cached, dir, stopped>> /\ t \in Worker
  BY DEF ReadCached
<1>4. \/ Goes(t, "put") /\ Call(t, <<"put", job[t]>>)
      \/ Goes(t, "top") /\ UNCHANGED queueVars
  BY <1>2 DEF ReadCached
<1>5. /\ stage'[t] \in {"put", "top"}
      /\ \A u \in Worker \ {t} : stage'[u] = stage[u] /\ base'[u] = base[u] /\ job'[u] = job[u]
      /\ DOMAIN stage' = Worker /\ DOMAIN base' = Worker /\ DOMAIN job' = Worker
  BY <1>3, <1>4 DEF Goes, Unlock, TInv, TTypeOK
<1>6. \A u \in Changers \cup {Updater} : stage'[u] = stage[u] /\ base'[u] = base[u] /\ job'[u] = job[u]
  BY <1>5 DEF Changers
<1>7. ObjectsHeld' /\ holders' \in [ObjMutex -> [writers : SUBSET Changers, readers : SUBSET Reader]]
  <2>1. AtStores(t) /\ ~AtStores(t)' /\ \A u \in (Reader \cup Changers) \ {t} : AtStores(u)' <=> AtStores(u)
    BY <1>3, <1>5 DEF AtStores
  <2> QED BY <1>3, <2>1, HeldDropped
<1>8. TTypeOK' BY <1>3, <1>5, <1>6, <1>7 DEF TInv, TTypeOK, Changers
<1>9. JobsAreCurrent'
  <2>1. ~AtObject(t)' /\ \A u \in (Reader \cup Changers) \ {t} : (AtObject(u)' <=> AtObject(u)) /\ job'[u] = job[u]
    BY <1>5 DEF AtObject
  <2>2. \A k : Current(k)' <=> Current(k)
    BY <1>3, <1>6 DEF Current
  <2> QED BY <2>1, <2>2 DEF TInv, JobsAreCurrent
<1>10. StoresAgree'
  <2>1. \A k : Current(k)' <=> Current(k)
    BY <1>3, <1>6 DEF Current
  <2>2. Writer \in Changers /\ Remover \in Changers
    BY DEF Changers
  <2> QED BY <1>3, <1>6, <2>1, <2>2 DEF TInv, StoresAgree, Lookup
<1>11. ReadersKnow' BY <1>3, <1>5 DEF TInv, ReadersKnow, Lookup
<1>12. NothingAhead' /\ ExpiredIsGone' BY <1>3, <1>6 DEF TInv, NothingAhead, ExpiredIsGone
<1>13. WriterAsked'
  <2>1. call'[Writer] = call[Writer] /\ result'[Writer] = result[Writer]
    BY <1>4 DEF Call, queueVars, TInv, QInv, QTypeOK
  <2> QED BY <1>6, <2>1 DEF TInv, WriterAsked, Changers
<1> QED BY <1>1, <1>7, <1>8, <1>9, <1>10, <1>11, <1>12, <1>13 DEF TInv

LEMMA RemoveLocalInv == ASSUME TInv, RemoveLocal PROVE TInv'
<1> USE WorkerKinds
<1>1. QInv' BY QueueOfTester DEF TNext, RemoverStep
<1> DEFINE j == job[Remover]
<1>2. /\ stage[Remover] = "first" /\ stage'[Remover] = "second" /\ base'[Remover] = Lookup(local, j)
      /\ \A u \in Worker \ {Remover} : stage'[u] = stage[u] /\ base'[u] = base[u]
      /\ DOMAIN stage' = Worker /\ DOMAIN base' = Worker /\ Remover \in Worker /\ Remover \in Changers
      /\ UNCHANGED <<job, cached, holders, dir, stopped, queueVars>>
  BY DEF RemoveLocal, Goes, TInv, TTypeOK, Changers
<1>3. j \in Key /\ Current(j) /\ AtStores(Remover)
  BY <1>2, ObjectOf DEF AtObject, AtStores
<1>4. base'[Remover] = Lookup(cached, j)
  BY <1>2, AgreeAtFirst
<1>5. /\ DOMAIN local' = DOMAIN local \ {j}
      /\ \A k : k # j => Lookup(local', k) = Lookup(local, k)
      /\ \A k \in DOMAIN local : k # j => local'[k] = local[k]
  BY DEF RemoveLocal, WithoutKeys, Restrict, Lookup
<1>6. \A t \in Reader \cup Changers : t # Remover /\ AtStores(t) => job[t] # j
  BY <1>2, <1>3, Excluded
<1>7. \A k : Current(k)' <=> Current(k)
  BY <1>2 DEF Current
<1> HIDE DEF j
<1>8. TTypeOK' BY <1>2, <1>5 DEF TInv, TTypeOK, Changers
<1>9. JobsAreCurrent' BY <1>2, <1>7 DEF TInv, JobsAreCurrent, AtObject
<1>10. ObjectsHeld' BY <1>2, HeldStays DEF AtStores
<1>11. StoresAgree'
  <2> SUFFICES ASSUME NEW k \in Key, Current(k)
               PROVE  CASE stage'[Writer] = "second" /\ job[Writer] = k   -> k \in DOMAIN local' /\ base'[Writer] = <<local'[k]>>
                        [] stage'[Remover] = "second" /\ job[Remover] = k -> k \notin DOMAIN local' /\ base'[Remover] = Lookup(cached, k)
                        [] OTHER                                          -> Lookup(local', k) = Lookup(cached, k)
    BY <1>2, <1>7 DEF StoresAgree, Lookup
  <2>1. stage'[Writer] = stage[Writer] /\ base'[Writer] = base[Writer] /\ Writer \in Changers
    BY <1>2 DEF Changers
  <2>2. CASE k = j
    <3>1. ~(stage'[Writer] = "second" /\ job[Writer] = k)
      BY <1>6, <2>1, <2>2 DEF AtStores
    <3> QED BY <1>2, <1>4, <1>5, <2>2, <3>1 DEF j
  <2>3. CASE k # j
    <3>1. job[Remover] # k /\ Lookup(local', k) = Lookup(local, k) /\ (k \in DOMAIN local' <=> k \in DOMAIN local)
          /\ (k \in DOMAIN local => local'[k] = local[k])
      BY <1>5, <2>3 DEF j
    <3> QED BY <2>1, <3>1, AgreeAt
  <2> QED BY <2>2, <2>3
<1>12. ReadersKnow'
  <2> SUFFICES ASSUME NEW t \in Reader, stage'[t] = "second" PROVE base'[t] = Lookup(local', job'[t])
    BY DEF ReadersKnow, Lookup
  <2>1. stage[t] = "second" /\ base'[t] = base[t] /\ job'[t] = job[t]
    BY <1>2
  <2> QED BY <1>5, <1>6, <2>1 DEF TInv, ReadersKnow, AtStores
<1>13. NothingAhead' /\ ExpiredIsGone'
  <2>1. stage'[Updater] = stage[Updater]
    BY <1>2 DEF Changers
  <2> QED BY <1>2, <1>5, <2>1 DEF TInv, NothingAhead, ExpiredIsGone
<1>14. WriterAsked' BY <1>2 DEF TInv, WriterAsked, queueVars, Changers
<1> QED BY <1>1, <1>8, <1>9, <1>10, <1>11, <1>12, <1>13, <1>14 DEF TInv

\* The comparison of the remover: both stores had the object, or neither.
LEMMA RemoveCachedInv == ASSUME TInv, RemoveCached PROVE TInv'
<1> USE WorkerKinds
<1>1. QInv' BY QueueOfTester DEF TNext, RemoverStep
<1> DEFINE j == job[Remover]
<1>2. stage[Remover] = "second" /\ Unlock(Remover) /\ UNCHANGED <<local, dir, stopped, queueVars>> /\ Remover \in Changers
  BY DEF RemoveCached, Changers
<1>3. j \in Key /\ Current(j) /\ AtStores(Remover)
  BY <1>2, ObjectOf DEF AtObject, AtStores
<1>4. j \notin DOMAIN local /\ base[Remover] = Lookup(cached, j)
  BY <1>2, <1>3, AgreeAt
<1>5. Goes(Remover, "top")
  <2>1. (base[Remover] = NoObject) <=> (j \notin DOMAIN cached)
    BY <1>4 DEF Lookup, NoObject
  <2> QED BY <2>1 DEF RemoveCached
<1>6. /\ stage'[Remover] = "top"
      /\ \A u \in Worker \ {Remover} : stage'[u] = stage[u] /\ base'[u] = base[u] /\ job'[u] = job[u]
      /\ DOMAIN stage' = Worker /\ DOMAIN base' = Worker /\ DOMAIN job' = Worker /\ Remover \in Worker
  BY <1>2, <1>5 DEF Unlock, Goes, TInv, TTypeOK
<1>7. /\ DOMAIN cached' = DOMAIN cached \ {j} /\ Lookup(cached', j) = NoObject
      /\ \A k : k # j => Lookup(cached', k) = Lookup(cached, k)
  BY DEF RemoveCached, WithoutKeys, Restrict, Lookup
<1>8. \A k : Current(k)' <=> Current(k)
  BY <1>2, <1>6 DEF Current, Changers
<1> HIDE DEF j
<1>9. ObjectsHeld' /\ holders' \in [ObjMutex -> [writers : SUBSET Changers, readers : SUBSET Reader]]
  <2>1. ~AtStores(Remover)' /\ \A u \in (Reader \cup Changers) \ {Remover} : AtStores(u)' <=> AtStores(u)
    BY <1>6 DEF AtStores
  <2> QED BY <1>2, <1>3, <2>1, HeldDropped
<1>10. TTypeOK' BY <1>2, <1>6, <1>7, <1>9 DEF TInv, TTypeOK, Changers
<1>11. JobsAreCurrent' BY <1>2, <1>6, <1>8 DEF TInv, JobsAreCurrent, AtObject
<1>12. StoresAgree'
  <2> SUFFICES ASSUME NEW k \in Key, Current(k)
               PROVE  CASE stage'[Writer] = "second" /\ job'[Writer] = k   -> k \in DOMAIN local /\ base'[Writer] = <<local[k]>>
                        [] stage'[Remover] = "second" /\ job'[Remover] = k -> k \notin DOMAIN local /\ base'[Remover] = Lookup(cached', k)
                        [] OTHER                                           -> Lookup(local, k) = Lookup(cached', k)
    BY <1>2, <1>8 DEF StoresAgree, Lookup
  <2>1. /\ stage'[Writer] = stage[Writer] /\ base'[Writer] = base[Writer] /\ job'[Writer] = job[Writer]
        /\ Writer \in Changers /\ stage'[Remover] # "second"
    BY <1>6 DEF Changers
  <2>2. CASE k = j
    <3>1. ~(stage[Writer] = "second" /\ job[Writer] = k)
      BY <1>2, <1>3, <2>1, <2>2, Excluded DEF AtStores, j
    <3>2. Lookup(local, k) = Lookup(cached', k)
      BY <1>4, <1>7, <2>2 DEF Lookup
    <3> QED BY <2>1, <3>1, <3>2
  <2>3. CASE k # j
    <3>1. job[Remover] # k /\ Lookup(cached', k) = Lookup(cached, k)
      BY <1>7, <2>3 DEF j
    <3> QED BY <2>1, <3>1, AgreeAt
  <2> QED BY <2>2, <2>3
<1>13. ReadersKnow' BY <1>2, <1>6 DEF TInv, ReadersKnow, Lookup
<1>14. NothingAhead' /\ ExpiredIsGone'
  <2>1. stage'[Updater] = stage[Updater]
    BY <1>6 DEF Changers
  <2> QED BY <1>2, <1>7, <2>1 DEF TInv, NothingAhead, ExpiredIsGone
<1>15. WriterAsked' BY <1>2, <1>6 DEF TInv, WriterAsked, queueVars, Changers
<1> QED BY <1>1, <1>9, <1>10, <1>11, <1>12, <1>13, <1>14, <1>15 DEF TInv

\* The hour changes: nothing of the new directory is stored yet, and the one
\* before stays current until it has been cleaned up.
LEMMA UpdateDirInv == ASSUME TInv, UpdateDir PROVE TInv'
<1> USE WorkerKinds
<1>1. QInv' BY QueueOfTester DEF TNext, UpdaterStep
<1>2. /\ stage[Updater] = "top" /\ \A u \in Worker \ {Updater} : stage'[u] = stage[u]
      /\ DOMAIN stage' = Worker /\ Updater \in Worker
      /\ UNCHANGED <<job, base, local, cached, holders, stopped, queueVars>>
      /\ \/ stage'[Updater] \in {"count", "ended"} /\ dir' = dir
         \/ stage'[Updater] \in {"clean", "ended"} /\ dir' = dir + 1 /\ dir < MaxDir /\ ~stopped /\ Goes(Updater, "clean")
  BY DEF UpdateDir, Top, Goes, TInv, TTypeOK
<1>3. dir \in 0 .. MaxDir /\ MaxDir \in Nat
  BY MaxDirAssumption DEF TInv, TTypeOK
<1>4. \A u \in Reader \cup Changers : stage'[u] = stage[u]
  BY <1>2
<1>5. TTypeOK'
  <2>1. dir' \in 0 .. MaxDir
    BY <1>2, <1>3
  <2> QED BY <1>2, <1>4, <2>1 DEF TInv, TTypeOK, Changers
<1>6. dir' = dir + 1 => stage'[Updater] = "clean"
  BY <1>2, <1>3 DEF Goes, TInv, TTypeOK
<1>7. \A k \in Key : /\ Current(k) <=> k[1] = dir
                     /\ Current(k)' <=> k[1] = dir \/ (dir' = dir + 1 /\ k[1] = dir + 1)
  BY <1>2, <1>3, <1>6 DEF Current, Key
<1>8. JobsAreCurrent' BY <1>2, <1>4, <1>7 DEF TInv, JobsAreCurrent, AtObject
<1>9. ObjectsHeld' BY <1>2, <1>4, HeldStays DEF AtStores
<1>10. StoresAgree'
  <2> SUFFICES ASSUME NEW k \in Key, Current(k)'
               PROVE  CASE stage[Writer] = "second" /\ job[Writer] = k   -> k \in DOMAIN local /\ base[Writer] = <<local[k]>>
                        [] stage[Remover] = "second" /\ job[Remover] = k -> k \notin DOMAIN local /\ base[Remover] = Lookup(cached, k)
                        [] OTHER                                         -> Lookup(local, k) = Lookup(cached, k)
    BY <1>2, <1>4 DEF StoresAgree, Lookup, Changers
  <2>1. CASE k[1] = dir
    BY <1>7, <2>1, AgreeAt
  <2>2. CASE k[1] = dir + 1
    <3>1. k \notin DOMAIN local /\ k \notin DOMAIN cached
      BY <1>3, <2>2 DEF TInv, NothingAhead
    <3>2. \A t \in Changers : stage[t] = "second" => job[t] # k
      BY <1>3, <1>7, <2>2 DEF TInv, JobsAreCurrent, AtObject
    <3> QED BY <3>1, <3>2 DEF Lookup, Changers
  <2> QED BY <1>7, <2>1, <2>2
<1>11. ReadersKnow' BY <1>2, <1>4 DEF TInv, ReadersKnow, Lookup
<1>12. NothingAhead'
  <2>1. \A k \in DOMAIN local \cup DOMAIN cached : k[1] \in Int /\ k[1] <= dir
    BY DEF TInv, NothingAhead, TTypeOK, Key
  <2> QED BY <1>2, <1>3, <2>1 DEF NothingAhead
<1>13. ExpiredIsGone'
  <2>1. \A k \in DOMAIN local : k[1] = dir
    BY <1>2 DEF TInv, ExpiredIsGone
  <2> QED BY <1>2, <1>3, <1>6, <2>1 DEF ExpiredIsGone
<1>14. WriterAsked' BY <1>2, <1>4 DEF TInv, WriterAsked, queueVars, Changers
<1> QED BY <1>1, <1>5, <1>8, <1>9, <1>10, <1>11, <1>12, <1>13, <1>14 DEF TInv

\* The clean-up: no worker is at an object of the directory that goes.
LEMMA CleanOldInv == ASSUME TInv, CleanOld PROVE TInv'
<1> USE WorkerKinds
<1>1. QInv' BY QueueOfTester DEF TNext, UpdaterStep
<1>2. /\ stage[Updater] = "clean" /\ stage'[Updater] = "count" /\ \A u \in Worker \ {Updater} : stage'[u] = stage[u]
      /\ DOMAIN stage' = Worker /\ Updater \in Worker
      /\ UNCHANGED <<job, base, cached, holders, dir, stopped, queueVars>>
  BY DEF CleanOld, Goes, TInv, TTypeOK
<1>3. \A u \in Reader \cup Changers : stage'[u] = stage[u] /\ (AtObject(u) => job[u][1] = dir)
  BY <1>2 DEF CleanOld, AtObject
<1>4. dir \in Int /\ \A k \in DOMAIN local : k[1] \in Int
  BY DEF TInv, TTypeOK, Key
<1>5. /\ DOMAIN local' = {k \in DOMAIN local : k[1] # dir - 1}
      /\ \A k \in DOMAIN local' : local'[k] = local[k]
  <2> DEFINE old == {k \in DOMAIN local : k[1] = dir - 1}
  <2>1. local' = [k \in DOMAIN local \ old |-> local[k]]
    BY DEF CleanOld, WithoutKeys, Restrict
  <2> QED BY <2>1
<1>6. \A k : k[1] = dir => Lookup(local', k) = Lookup(local, k) /\ (k \in DOMAIN local => k \in DOMAIN local' /\ local'[k] = local[k])
  BY <1>4, <1>5 DEF Lookup
<1>7. \A k : Current(k)' => k[1] = dir /\ Current(k)
  BY <1>2 DEF Current
<1>8. TTypeOK' BY <1>2, <1>3, <1>5 DEF TInv, TTypeOK, Changers
<1>9. JobsAreCurrent' BY <1>2, <1>3 DEF TInv, JobsAreCurrent, AtObject, Current
<1>10. ObjectsHeld' BY <1>2, <1>3, HeldStays DEF AtStores
<1>11. StoresAgree'
  <2> SUFFICES ASSUME NEW k \in Key, Current(k)'
               PROVE  CASE stage[Writer] = "second" /\ job[Writer] = k   -> k \in DOMAIN local' /\ base[Writer] = <<local'[k]>>
                        [] stage[Remover] = "second" /\ job[Remover] = k -> k \notin DOMAIN local' /\ base[Remover] = Lookup(cached, k)
                        [] OTHER                                         -> Lookup(local', k) = Lookup(cached, k)
    BY <1>2, <1>3 DEF StoresAgree, Lookup, Changers
  <2>1. /\ Current(k) /\ Lookup(local', k) = Lookup(local, k)
        /\ k \in DOMAIN local => k \in DOMAIN local' /\ local'[k] = local[k]
    BY <1>6, <1>7
  <2>2. k \notin DOMAIN local => k \notin DOMAIN local'
    BY <1>5
  <2> QED BY <2>1, <2>2, AgreeAt
<1>12. ReadersKnow'
  <2> SUFFICES ASSUME NEW t \in Reader, stage'[t] = "second" PROVE base'[t] = Lookup(local', job'[t])
    BY DEF ReadersKnow, Lookup
  <2>1. stage[t] = "second" /\ base'[t] = base[t] /\ job'[t] = job[t] /\ job[t][1] = dir
    BY <1>2, <1>3 DEF AtObject
  <2> QED BY <1>6, <2>1 DEF TInv, ReadersKnow
<1>13. NothingAhead' /\ ExpiredIsGone'
  BY <1>2, <1>5 DEF TInv, NothingAhead, ExpiredIsGone
<1>14. WriterAsked' BY <1>2, <1>3 DEF TInv, WriterAsked, queueVars, Changers
<1> QED BY <1>1, <1>8, <1>9, <1>10, <1>11, <1>12, <1>13, <1>14 DEF TInv

LEMMA CountDownInv == ASSUME TInv, CountDown PROVE TInv'
<1> USE WorkerKinds
<1>1. QInv' BY QueueOfTester DEF TNext, UpdaterStep
<1>2. /\ stage[Updater] = "count" /\ stage'[Updater] = "top" /\ \A u \in Worker \ {Updater} : stage'[u] = stage[u]
      /\ DOMAIN stage' = Worker /\ Updater \in Worker
      /\ UNCHANGED <<job, base, local, cached, holders, dir, queueVars>>
  BY DEF CountDown, Goes, TInv, TTypeOK
<1>3. \A u \in Reader \cup Changers : stage'[u] = stage[u]
  BY <1>2
<1>4. TTypeOK' BY <1>2, <1>3 DEF TInv, TTypeOK, Changers
<1>5. JobsAreCurrent' BY <1>2, <1>3 DEF TInv, JobsAreCurrent, AtObject, Current
<1>6. ObjectsHeld' BY <1>2, <1>3, HeldStays DEF AtStores
<1>7. StoresAgree' BY <1>2, <1>3, AgreeStays DEF Changers
<1>8. ReadersKnow' BY <1>2, <1>3 DEF TInv, ReadersKnow, Lookup
<1>9. NothingAhead' /\ ExpiredIsGone' BY <1>2 DEF TInv, NothingAhead, ExpiredIsGone
<1>10. WriterAsked' BY <1>2, <1>3 DEF TInv, WriterAsked, queueVars, Changers
<1> QED BY <1>1, <1>4, <1>5, <1>6, <1>7, <1>8, <1>9, <1>10 DEF TInv

LEMMA TNextInv == ASSUME TInv, [TNext]_allVars PROVE TInv'
<1>1. CASE WriterStep
  <2>1. Writer \in Changers /\ Writer \in QThread
    BY WorkerKinds DEF Changers
  <2> QED BY <1>1, <2>1, WriterKeyInv, InQueueInv, LockObjectInv, SetLocalInv, SetCachedInv DEF WriterStep
<1>2. CASE RemoverStep
  <2>1. Remover \in Changers
    BY DEF Changers
  <2> QED BY <1>2, <2>1, ChooseInv, LockObjectInv, RemoveLocalInv, RemoveCachedInv DEF RemoverStep, RemoveLock
<1>3. CASE UpdaterStep
  BY <1>3, UpdateDirInv, CleanOldInv, CountDownInv DEF UpdaterStep
<1>4. ASSUME NEW t \in Reader, ReaderStep(t) PROVE TInv'
  BY <1>4, WorkerKinds, ChooseInv, LockObjectInv, ReadLocalInv, ReadCachedInv, InQueueInv, PutKeyInv DEF ReaderStep
<1>5. ASSUME NEW t \in QThread, SpuriousWakeup(t), UNCHANGED testerVars PROVE TInv'
  BY <1>5, InQueueInv
<1>6. CASE UNCHANGED allVars
  <2>1. QInv'
    BY QueueOfTester
  <2>2. UNCHANGED <<stage, job, base, local, cached, holders, dir, stopped>> /\ UNCHANGED queueVars
    BY <1>6 DEF allVars, testerVars
  <2> HIDE DEF testerVars
  <2>3. ObjectsHeld' /\ StoresAgree'
    BY <2>2, HeldStays, AgreeStays DEF AtStores
  <2>4. TTypeOK' /\ JobsAreCurrent' /\ ReadersKnow' /\ NothingAhead' /\ ExpiredIsGone' /\ WriterAsked'
    BY <2>2 DEF TInv, TTypeOK, JobsAreCurrent, AtObject, Current, ReadersKnow, Lookup, NothingAhead, ExpiredIsGone, WriterAsked, queueVars
  <2> QED BY <2>1, <2>3, <2>4 DEF TInv
<1> QED BY <1>1, <1>2, <1>3, <1>4, <1>5, <1>6 DEF TNext

LEMMA TesterInvariant == TSpec => []TInv
<1> QED BY TInitInv, TNextInv, PTL DEF TSpec

\* No CHECK of the load generator fails as long as the cache keeps every object
\* (starcache_tester.cpp): the object mutexes make what a worker does to the two
\* stores one step for all others.
THEOREM TesterChecksHold == TSpec => []ChecksHold
<1>1. TInv => ChecksHold
  BY WorkerKinds DEF TInv, TTypeOK, ChecksHold, Changers
<1> QED BY <1>1, TesterInvariant, PTL

\* No object of an expired directory is stored again after its clean-up
\* (update_context): a writer drops a key of an older directory.
THEOREM ExpiredStaysGone == TSpec => []ExpiredIsGone
<1>1. TInv => ExpiredIsGone
  BY DEF TInv
<1> QED BY <1>1, TesterInvariant, PTL
=============================================================================
