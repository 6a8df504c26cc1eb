---------------------------- MODULE AbstractMaps ----------------------------
(***************************************************************************)
(* What a client of two hash maps relies on: each is a function from the   *)
(* keys it has to their values, whatever the tables look like inside.  An  *)
(* entry that was extracted from a map is in `held`, outside both.  `told` *)
(* is the last call and what it returned.                                  *)
(***************************************************************************)
EXTENDS TLC, SequencesExt

CONSTANTS AMKey, AMValue,
          Nobody              \* no entry

VARIABLES maps, held, told

AMSide == {"a", "b"}
AMOther(x) == CHOOSE y \in AMSide : y # x

Has(x, k) == k \in DOMAIN maps[x]
Without(m, ks) == Restrict(m, DOMAIN m \ ks)

\* The map wins, or the entry.
Under(m, e) == m @@ (e.key :> e.value)
Over(m, e) == (e.key :> e.value) @@ m

Tells(call, ret) == told'[1] = call /\ told' = <<call, ret>> /\ UNCHANGED <<maps, held>>

Becomes(x, m, call, ret) == /\ told'[1] = call
                            /\ told' = <<call, ret>>
                            /\ maps' = [maps EXCEPT ![x] = m]
                            /\ UNCHANGED held

AMFind(x, k) == Tells("find", IF Has(x, k) THEN maps[x][k] ELSE Nobody)

AMCompare == Tells("compare", maps["a"] = maps["b"])

AMInsert(x, e) == Becomes(x, Under(maps[x], e), "insert", ~Has(x, e.key))

AMAssign(x, e) == Becomes(x, Over(maps[x], e), "assign", ~Has(x, e.key))

AMInsertAll(x, es) == Becomes(x, FoldLeft(Under, maps[x], es), "insert_all", es)

\* A call that threw has changed nothing, growing and squashing are not visible.
AMInvisible == Tells("throw", Nobody) \/ Tells("rehash", Nobody)

AMErase(x, k) == Becomes(x, Without(maps[x], {k}), "erase", Has(x, k))

\* Which entries lie between two iterators is up to the table.
AMEraseRange(x) == /\ told'[1] = "erase_range"
                   /\ told'[2] \subseteq DOMAIN maps[x]
                   /\ Becomes(x, Without(maps[x], told'[2]), "erase_range", told'[2])

AMClear(x) == Becomes(x, <<>>, "clear", Nobody)

AMCopy(x) == Becomes(x, maps[AMOther(x)], "copy", Nobody)

Moves(new, call) == told' = <<call, Nobody>> /\ maps' = new /\ UNCHANGED held

AMMerge(x) == Moves([maps EXCEPT ![x] = @ @@ maps[AMOther(x)], ![AMOther(x)] = Restrict(@, DOMAIN @ \cap DOMAIN maps[x])], "merge")

AMSwap == Moves([x \in AMSide |-> maps[AMOther(x)]], "swap")

AMMove(x) == Moves([maps EXCEPT ![x] = maps[AMOther(x)], ![AMOther(x)] = <<>>], "move")

AMExtract(x, k) == /\ held = Nobody /\ Has(x, k)
                   /\ held' = [key |-> k, value |-> maps[x][k]]
                   /\ maps' = [maps EXCEPT ![x] = Without(@, {k})]
                   /\ told' = <<"extract", Nobody>>

\* The caller keeps a node whose key is in the map already.
AMInsertNode(x) == /\ held # Nobody
                   /\ held' = IF Has(x, held.key) THEN held ELSE Nobody
                   /\ maps' = [maps EXCEPT ![x] = Under(@, held)]
                   /\ told' = <<"insert_node", Nobody>>

AMInit == /\ DOMAIN maps = AMSide
          /\ \A x \in AMSide : DOMAIN maps[x] \subseteq AMKey /\ \A k \in DOMAIN maps[x] : maps[x][k] \in AMValue
          /\ held = Nobody
          /\ told = <<"new", Nobody>>

AMNext == \/ AMCompare \/ AMInvisible \/ AMSwap
          \/ \E x \in AMSide : \/ AMEraseRange(x) \/ AMClear(x) \/ AMCopy(x) \/ AMMerge(x) \/ AMMove(x) \/ AMInsertNode(x)
                               \/ \E k \in AMKey : \/ AMFind(x, k) \/ AMErase(x, k) \/ AMExtract(x, k)
                                                   \/ \E v \in AMValue : \/ AMInsert(x, [key |-> k, value |-> v])
                                                                         \/ AMAssign(x, [key |-> k, value |-> v])
                               \/ told'[1] = "insert_all" /\ AMInsertAll(x, told'[2])

AMSpec == AMInit /\ [][AMNext]_<<maps, held, told>>
=============================================================================
