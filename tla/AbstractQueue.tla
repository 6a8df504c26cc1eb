--------------------------- MODULE AbstractQueue ----------------------------
(***************************************************************************)
(* What the threads rely on that share a blocking queue: items leave in    *)
(* the order they came, every call takes effect at one moment and returns  *)
(* what it did then, a put waits for room and a get for an item, and       *)
(* neither waits for long once the queue is shut down.                     *)
(***************************************************************************)
EXTENDS Integers, Sequences

CONSTANTS AQThread, AQItem, AQRoom

VARIABLES limited,       \* whether AQRoom bounds it; it never changes
          fifo, closed,
          waits,         \* thread -> the call that has not taken effect, <<>> if there is none
          returned       \* thread -> what its last call returned, <<>> until then

Full == limited /\ Len(fifo) >= AQRoom

AQDone(t, result) == waits' = [waits EXCEPT ![t] = <<>>] /\ returned' = [returned EXCEPT ![t] = result]

AQCall(t) == /\ waits[t] = <<>>
             /\ waits'[t] \in {<<"get">>} \cup {<<"put", v>> : v \in AQItem}
             /\ waits' = [waits EXCEPT ![t] = waits'[t]]
             /\ returned' = [returned EXCEPT ![t] = <<>>]
             /\ UNCHANGED <<fifo, closed>>

AQAdd(v) == ~closed /\ ~Full /\ fifo' = Append(fifo, v)

AQTake == fifo # <<>> /\ fifo' = Tail(fifo)

AQPut(t) == /\ waits[t] # <<>>
            /\ waits[t][1] = "put"
            /\ \/ AQAdd(waits[t][2]) /\ AQDone(t, <<TRUE>>)
               \/ closed /\ AQDone(t, <<FALSE>>) /\ UNCHANGED fifo
            /\ UNCHANGED closed

AQGet(t) == /\ waits[t] = <<"get">>
            /\ \/ AQTake /\ AQDone(t, <<TRUE, Head(fifo)>>)
               \/ fifo = <<>> /\ closed /\ AQDone(t, <<FALSE>>) /\ UNCHANGED fifo
            /\ UNCHANGED closed

\* Calls that do not wait.
AQTry(t) == /\ waits[t] = <<>>
            /\ \/ \E v \in AQItem : AQAdd(v) /\ AQDone(t, <<TRUE>>)
               \/ AQTake /\ AQDone(t, <<TRUE, Head(fifo)>>)
               \/ (closed \/ Full \/ fifo = <<>>) /\ AQDone(t, <<FALSE>>) /\ UNCHANGED fifo
            /\ UNCHANGED closed

AQEmpty == \/ fifo' = <<>> /\ UNCHANGED <<closed, waits, returned>>
           \/ closed' = TRUE /\ UNCHANGED <<fifo, waits, returned>>

AQInit == limited \in BOOLEAN /\ fifo = <<>> /\ closed = FALSE /\ waits = [t \in AQThread |-> <<>>] /\ returned = [t \in AQThread |-> <<>>]

AQNext == /\ AQEmpty \/ \E t \in AQThread : AQCall(t) \/ AQPut(t) \/ AQGet(t) \/ AQTry(t)
          /\ UNCHANGED limited

AQSpec == /\ AQInit /\ [][AQNext]_<<limited, fifo, closed, waits, returned>>
          /\ \A t \in AQThread : (closed /\ waits[t] # <<>>) ~> (waits[t] = <<>>)
=============================================================================
