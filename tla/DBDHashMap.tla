----------------------------- MODULE DBDHashMap -----------------------------
(***************************************************************************)
(* A map in two copies (src/utils/dbd_hash_map.h): readers look at the one *)
(* in front while a modification changes the other one, puts it in front,  *)
(* and changes the first copy when nobody looks at it any more.  The       *)
(* copies are a butil::DoublyBufferedData, which is external: a reader     *)
(* holds a mutex of its own from before it loads the index of the copy in  *)
(* front until its ScopedPtr goes, and Modify takes each of these mutexes  *)
(* once between its two changes.                                           *)
(***************************************************************************)
EXTENDS Integers, FiniteSets, PartialMaps

CONSTANTS DBThread, DBKey, DBValue,
          DBRequest,     \* the requests that are made
          DBStored,      \* contents at the start
          MaxDBRequests, \* requests per thread
          None           \* no value, no thread

ASSUME RequestAssumption ==
  DBRequest \subseteq [call : {"insert", "assign", "erase", "find", "list"}, map : {"d"}, other : {"d"}, key : DBKey, value : DBValue]
ASSUME StoredAssumption == \A m \in DBStored : /\ m = [k \in DOMAIN m |-> m[k]]
                                               /\ DOMAIN m \subseteq DBKey
                                               /\ \A k \in DOMAIN m : m[k] \in DBValue
ASSUME ThreadAssumption == None \notin DBThread

VARIABLES copies,        \* 0 .. 1 -> (key -> value)
          infront,       \* the index of the copy for the readers
          modifier,      \* the holder of the mutex of Modify
          phase, asked, copy, awaited, told,  \* thread -> the frame of its call
          made           \* thread -> the requests it made

dbVars == <<copies, infront, modifier, phase, asked, copy, awaited, told, made>>

OnlyReads(r) == r.call \in {"find", "list"}

Ask(t, r) == /\ phase[t] = "idle"
             /\ made[t] < MaxDBRequests
             /\ made' = [made EXCEPT ![t] = @ + 1]
             /\ asked' = [asked EXCEPT ![t] = r]
             /\ phase' = [phase EXCEPT ![t] = IF OnlyReads(r) THEN "read" ELSE "modify"]
             /\ told' = [told EXCEPT ![t] = <<>>]
             /\ UNCHANGED <<copies, infront, modifier, copy, awaited>>

-----------------------------------------------------------------------------
(* Read *)

\* The thread has its mutex while it is in one of these phases.
Reading(t) == phase[t] \in {"load", "look", "looked"}

BeginRead(t) == /\ phase[t] = "read"
                /\ phase' = [phase EXCEPT ![t] = "load"]
                /\ UNCHANGED <<copies, infront, modifier, asked, copy, awaited, told, made>>

LoadIndex(t) == /\ phase[t] = "load"
                /\ copy' = [copy EXCEPT ![t] = infront]
                /\ phase' = [phase EXCEPT ![t] = "look"]
                /\ UNCHANGED <<copies, infront, modifier, asked, awaited, told, made>>

\* What get and list find in the copy m.
FoundIn(m, r) == IF r.call = "list" THEN <<DOMAIN m>> ELSE <<IF r.key \in DOMAIN m THEN m[r.key] ELSE None>>

Look(t) == /\ phase[t] = "look"
           /\ told' = [told EXCEPT ![t] = FoundIn(copies[copy[t]], asked[t])]
           /\ phase' = [phase EXCEPT ![t] = "looked"]
           /\ UNCHANGED <<copies, infront, modifier, asked, copy, awaited, made>>

\* The ScopedPtr goes; get returns the value, list the keys.
EndRead(t) == /\ phase[t] = "looked"
              /\ phase' = [phase EXCEPT ![t] = "idle"]
              /\ UNCHANGED <<copies, infront, modifier, asked, copy, awaited, told, made>>

-----------------------------------------------------------------------------
(* Modify *)

\* add, remove and update: whether the functions change the copy m, and to what.
Alters(m, r) == r.call = "assign" \/ (r.call = "insert" <=> r.key \notin DOMAIN m)
Altered(m, r) == IF r.call = "erase" THEN DropKeys(m, {r.key}) ELSE PutEntry(m, r.key, r.value)

ToldOf(r, altered) == IF r.call = "assign" THEN <<>> ELSE <<altered>>

LockModify(t) == /\ phase[t] = "modify"
                 /\ modifier = None
                 /\ modifier' = t
                 /\ phase' = [phase EXCEPT ![t] = "change"]
                 /\ UNCHANGED <<copies, infront, asked, copy, awaited, told, made>>

\* The copy behind is changed, without anybody looking.
ChangeBehind(t) == /\ phase[t] = "change"
                   /\ Alters(copies[1 - infront], asked[t])
                   /\ copies' = [copies EXCEPT ![1 - infront] = Altered(@, asked[t])]
                   /\ phase' = [phase EXCEPT ![t] = "flip"]
                   /\ UNCHANGED <<infront, modifier, asked, copy, awaited, told, made>>

\* The function returned 0: Modify goes no further.
NothingToChange(t) == /\ phase[t] = "change"
                      /\ ~Alters(copies[1 - infront], asked[t])
                      /\ told' = [told EXCEPT ![t] = ToldOf(asked[t], FALSE)]
                      /\ phase' = [phase EXCEPT ![t] = "unlock"]
                      /\ UNCHANGED <<copies, infront, modifier, asked, copy, awaited, made>>

\* Threads that have read before each have a mutex to be taken.
BadToAwait == {}

ToAwait == DBThread

Flip(t) == /\ phase[t] = "flip"
           /\ infront' = 1 - infront
           /\ awaited' = [awaited EXCEPT ![t] = ToAwait]
           /\ told' = [told EXCEPT ![t] = ToldOf(asked[t], TRUE)]
           /\ phase' = [phase EXCEPT ![t] = "wait"]
           /\ UNCHANGED <<copies, modifier, asked, copy, made>>

WaitReadDone(t, u) == /\ phase[t] = "wait"
                      /\ u \in awaited[t]
                      /\ ~Reading(u)
                      /\ awaited' = [awaited EXCEPT ![t] = @ \ {u}]
                      /\ UNCHANGED <<copies, infront, modifier, phase, asked, copy, told, made>>

ChangeAgain(t) == /\ phase[t] = "wait"
                  /\ awaited[t] = {}
                  /\ copies' = [copies EXCEPT ![1 - infront] = Altered(@, asked[t])]
                  /\ phase' = [phase EXCEPT ![t] = "unlock"]
                  /\ UNCHANGED <<infront, modifier, asked, copy, awaited, told, made>>

EndModify(t) == /\ phase[t] = "unlock"
                /\ modifier' = None
                /\ phase' = [phase EXCEPT ![t] = "idle"]
                /\ UNCHANGED <<copies, infront, asked, copy, awaited, told, made>>

-----------------------------------------------------------------------------
DBInit == /\ \E m \in DBStored : copies = [i \in 0 .. 1 |-> m]
          /\ infront = 0
          /\ modifier = None
          /\ phase = [t \in DBThread |-> "idle"]
          /\ asked = [t \in DBThread |-> None]
          /\ copy = [t \in DBThread |-> 0]
          /\ awaited = [t \in DBThread |-> {}]
          /\ told = [t \in DBThread |-> <<>>]
          /\ made = [t \in DBThread |-> 0]

DBNext == \E t \in DBThread : \/ \E r \in DBRequest : Ask(t, r)
                              \/ BeginRead(t) \/ LoadIndex(t) \/ Look(t) \/ EndRead(t)
                              \/ LockModify(t) \/ ChangeBehind(t) \/ NothingToChange(t) \/ Flip(t)
                              \/ \E u \in DBThread : WaitReadDone(t, u)
                              \/ ChangeAgain(t) \/ EndModify(t)

DBSpec == DBInit /\ [][DBNext]_dbVars

-----------------------------------------------------------------------------
(* Correctness *)

\* A call has taken effect when its copy is in front, or when it has loaded the
\* index, with the answer that it will find in that copy.
Effective(t) == phase[t] \in {"look", "looked", "wait", "unlock"}
AnswerOf(t) == IF phase[t] = "look" THEN FoundIn(copies[copy[t]], asked[t]) ELSE told[t]

DoingOf(t) == IF phase[t] = "idle" THEN [call |-> "none"]
              ELSE [call |-> asked[t].call, request |-> asked[t], answer |-> AnswerOf(t),
                    left |-> IF Effective(t) THEN {} ELSE IF asked[t].call = "list" THEN DBKey ELSE {asked[t].key}]

OneMap == INSTANCE AtomicIndex WITH AIThread <- DBThread, AIKey <- DBKey, AIValue <- DBValue, AIMap <- {"d"}, Nothing <- None,
                                    has <- [m \in {"d"} |-> copies[infront]], doing <- [t \in DBThread |-> DoingOf(t)]

\* The two copies are one map, whatever the order in which readers load the
\* index and modifications put the other copy in front and change the first:
\* every call takes effect at one moment, and what a reader looks at does not
\* change under it.
CopiesAreOne == OneMap!AISpec
=============================================================================
