-------------------------- MODULE MCSpaceManagers --------------------------
(***************************************************************************)
(* Small instances of both space managers, which know nothing of each      *)
(* other.  Memory: the quota holds two or three objects, so that requests  *)
(* of both sizes are refused, evict and compete.  Disk: one directory with *)
(* a whole space and a partial one, one that is full after a single block. *)
(***************************************************************************)
EXTENDS DiskSpaceManager, MemSpaceManager, TLC

CONSTANTS d1, d2

VARIABLE part              \* "memory" or "disk"; it never changes

Blocks3and1 == d1 :> 3 @@ d2 :> 1

\* Threads and the cells for objects are interchangeable.
Symmetry == Permutations(Thread) \cup Permutations(Object)

ManagersInit == Init /\ MemInit /\ part \in {"memory", "disk"}

\* The counter that grows with every refusal has reached its bound.
Finished == /\ part = "memory" /\ \E t \in Requester : phase[t] = "alloc" /\ need + want[t] > MaxNeed
            /\ UNCHANGED <<vars, memVars>>

ManagersNext == /\ UNCHANGED part
                /\ \/ part = "memory" /\ MemNext /\ UNCHANGED vars
                   \/ part = "disk" /\ Next /\ UNCHANGED memVars
                   \/ Finished

ManagersSpec == ManagersInit /\ [][ManagersNext]_<<part, vars, memVars>>
=============================================================================
