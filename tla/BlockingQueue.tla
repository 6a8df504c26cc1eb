--------------------------- MODULE BlockingQueue ----------------------------
(***************************************************************************)
(* The blocking queues of src/utils/blocking_queue.hpp: a deque under a    *)
(* mutex, with a condition variable for the threads that wait for an item  *)
(* and, in the bounded queue, one for those that wait for room.  A stretch *)
(* of code under the mutex is one step; a wait ends the step, gives up the *)
(* mutex and starts over when it is woken, for a reason or for none.       *)
(***************************************************************************)
EXTENDS Integers, Sequences, FiniteSets

CONSTANTS QThread, Item, Capacity,
          Backlog        \* bounds the unbounded queue

ASSUME CapacityAssumption == Capacity \in Nat \ {0}
ASSUME QThreadAssumption == IsFiniteSet(QThread)

VARIABLES bounded,       \* which of the two classes this queue is of; it never changes
          items, shut,
          at,            \* thread -> "out", or within a call: "in" (before the lock), waiting, or about to notify
          call,          \* thread -> the call it makes, <<>> when it has done it
          result         \* thread -> what its last call returned, <<>> until then

qVars == <<bounded, items, shut, at, call, result>>

NotEmpty == {t \in QThread : at[t] = "not_empty"}     \* the threads that wait on _not_empty
NotFull == {t \in QThread : at[t] = "not_full"}
Bound == IF bounded THEN Capacity ELSE Backlog

BadNotifyOne(sleepers, t, where) == at' = [at EXCEPT ![t] = where]

\* notify_one after thread t came to where: wakes one of the sleepers, if there is one.
NotifyOne(sleepers, t, where) == \/ sleepers = {} /\ at' = [at EXCEPT ![t] = where]
                                 \/ \E s \in sleepers : at' = [at EXCEPT ![s] = "in", ![t] = where]

Called(t, c) == at[t] = "in" /\ call[t][1] = c

Returns(t, r) == call' = [call EXCEPT ![t] = <<>>] /\ result' = [result EXCEPT ![t] = r]

Call(t, c) == /\ at[t] = "out"
              /\ at' = [at EXCEPT ![t] = "in"]
              /\ call' = [call EXCEPT ![t] = c]
              /\ result' = [result EXCEPT ![t] = <<>>]
              /\ UNCHANGED <<bounded, items, shut>>

\* Takes the first item; only the bounded queue has threads that wait for room.
TakeItem(t) == /\ items # <<>>
               /\ items' = Tail(items)
               /\ NotifyOne(NotFull, t, "out")
               /\ Returns(t, <<TRUE, Head(items)>>)

\* Adds an item. The unbounded queue notifies after it dropped the mutex.
AddItem(t, v) == /\ ~shut
                 /\ Len(items) < Bound
                 /\ items' = Append(items, v)
                 /\ IF bounded THEN NotifyOne(NotEmpty, t, "out") ELSE at' = [at EXCEPT ![t] = "notify"]
                 /\ Returns(t, <<TRUE>>)

Refused(t) == at' = [at EXCEPT ![t] = "out"] /\ Returns(t, <<FALSE>>) /\ UNCHANGED items

Sleeps(t, cv) == at' = [at EXCEPT ![t] = cv] /\ UNCHANGED <<items, call, result>>

BlockingGet(t) == /\ Called(t, "get")
                  /\ \/ TakeItem(t)
                     \/ items = <<>> /\ shut /\ Refused(t)
                     \/ items = <<>> /\ ~shut /\ Sleeps(t, "not_empty")
                  /\ UNCHANGED <<bounded, shut>>

\* blocking_put, and put of the unbounded queue, which never waits.
BlockingPut(t) == /\ Called(t, "put")
                  /\ \/ AddItem(t, call[t][2])
                     \/ shut /\ Refused(t)
                     \/ bounded /\ ~shut /\ Len(items) >= Capacity /\ Sleeps(t, "not_full")
                  /\ UNCHANGED <<bounded, shut>>

Notify(t) == at[t] = "notify" /\ NotifyOne(NotEmpty, t, "out") /\ UNCHANGED <<bounded, items, shut, call, result>>

TryGet(t) == /\ at[t] = "out"
             /\ TakeItem(t) \/ (items = <<>> /\ Refused(t))
             /\ UNCHANGED <<bounded, shut>>

TryPut(t) == /\ at[t] = "out"
             /\ bounded
             /\ (\E v \in Item : AddItem(t, v)) \/ ((shut \/ Len(items) >= Capacity) /\ Refused(t))
             /\ UNCHANGED <<bounded, shut>>

ClearItems == ~bounded /\ items' = <<>> /\ UNCHANGED <<bounded, shut, at, call, result>>

BadShutdown == ~shut /\ shut' = TRUE /\ UNCHANGED <<bounded, items, at, call, result>>

\* Also what the destructor does.
Shutdown == /\ ~shut
            /\ shut' = TRUE
            /\ at' = [t \in QThread |-> IF at[t] \in {"not_empty", "not_full"} THEN "in" ELSE at[t]]
            /\ UNCHANGED <<bounded, items, call, result>>

SpuriousWakeup(t) == at[t] \in {"not_empty", "not_full"} /\ at' = [at EXCEPT ![t] = "in"] /\ UNCHANGED <<bounded, items, shut, call, result>>

QInit == /\ bounded \in BOOLEAN
         /\ items = <<>> /\ shut = FALSE
         /\ at = [t \in QThread |-> "out"]
         /\ call = [t \in QThread |-> <<>>]
         /\ result = [t \in QThread |-> <<>>]

Step(t) == BlockingGet(t) \/ BlockingPut(t) \/ Notify(t)

QNext == \/ \E t \in QThread : \/ \E c \in {<<"get">>} \cup {<<"put", v>> : v \in Item} : Call(t, c)
                               \/ Step(t) \/ TryGet(t) \/ TryPut(t) \/ SpuriousWakeup(t)
         \/ Shutdown \/ ClearItems

\* A thread within a call gets the mutex in the end.
QSpec == QInit /\ [][QNext]_qVars /\ \A t \in QThread : WF_qVars(Step(t))

-----------------------------------------------------------------------------
(* Correctness *)

Awake(c) == {t \in QThread : Called(t, c)}
Notifying == {t \in QThread : at[t] = "notify"}

\* No wakeup is lost: as long as somebody sleeps on a condition variable, as
\* many threads are awake (or about to be woken) as there are items for them,
\* or room. Nobody sleeps once the queue is shut down.
NoLostWakeup ==
  /\ NotEmpty # {} => Len(items) <= Cardinality(Awake("get")) + Cardinality(Notifying)
  /\ NotFull # {} => Capacity - Len(items) <= Cardinality(Awake("put"))
  /\ shut => NotEmpty \cup NotFull = {}

Queue == INSTANCE AbstractQueue WITH AQThread <- QThread, AQItem <- Item, AQRoom <- Capacity, limited <- bounded, fifo <- items, closed <- shut, returned <- result, waits <- call

\* Seen from outside the calls are those of a first-in-first-out queue that
\* take effect at one moment, and a shutdown ends every wait.
ImplementsQueue == Queue!AQSpec
=============================================================================
