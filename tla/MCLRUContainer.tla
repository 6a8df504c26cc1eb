--------------------------- MODULE MCLRUContainer ---------------------------
(***************************************************************************)
(* One shard, or two shards behind one eviction policy.                    *)
(* One shard: two keys, three cells and three handles let an entry be held *)
(* twice, replaced or erased while held, and freed late; two sizes make an *)
(* eviction take one entry or several.                                     *)
(* Two shards: the first one is one entry short of growing its table, with *)
(* chains of several keys; keys 2 and 3 have the same hash value.          *)
(***************************************************************************)
EXTENDS LRUContainer, ShardedLRUContainer, TLC

VARIABLE part            \* which of the two; it never changes

HashValues == 1 :> 0 @@ 2 :> 4 @@ 3 :> 4 @@ 4 :> 2 @@ 5 :> 8 @@ 6 :> 1
Contents == {<<>>, <<1, 2, 6, 4, 5>>}

\* The keys were added one after the other.
AddedTo(c, k) == LET e == CHOOSE x \in Cell : c.cells[x].mem = "free"
                 IN  ReleaseEntry(InsertEntry(c, e, k, 1, TRUE), e)

MCInit == /\ Init /\ ThreadsIdle
          /\ \E ks \in Contents : container = FoldLeft(AddedTo, EmptyContainer, ks)
          /\ part \in {"shard", "shards"}
          /\ part = "shard" => container = EmptyContainer
          /\ part = "shards" => key = [e \in Entry |-> CHOOSE k \in Key : TRUE]

\* The calls were all made.
Finished == /\ part = "shards" /\ \A t \in User : users[t] = Idle /\ uses[t] = MaxUses
            /\ UNCHANGED <<vars, shardVars>>

MCNext == /\ UNCHANGED part
          /\ \/ part = "shard" /\ Next /\ UNCHANGED shardVars
             \/ part = "shards" /\ ShardedNext /\ UNCHANGED vars
             \/ Finished

MCSpec == /\ MCInit /\ [][MCNext]_<<vars, shardVars, part>>
          /\ \A h \in Handle : WF_vars(Release(h) /\ UNCHANGED <<shardVars, part>>)
          /\ \A e \in Entry : WF_vars(Free(e) /\ UNCHANGED <<shardVars, part>>)
=============================================================================
