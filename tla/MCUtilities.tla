---------------------------- MODULE MCUtilities -----------------------------
(***************************************************************************)
(* Two hash maps in the hands of one thread, two parallel hash maps of two *)
(* tables each under two threads, a map in two copies under two threads,   *)
(* two ordered containers, a queue under three threads that make any       *)
(* calls, or the load generator with a queue of its own.                   *)
(***************************************************************************)
EXTENDS FlatHashMap, ParallelHashMap, DBDHashMap, OrderedContainers, CacheTester

VARIABLE part              \* which of these; it never changes

-----------------------------------------------------------------------------
(* Flat maps: position and tag of the live keys, then of fillers *)

HashAt(pos, tag) == pos * 128 + tag
Hashes == [k \in 1 .. 21 |-> CASE k = 1 -> HashAt(0, 1)
                               [] k = 2 -> HashAt(7, 0)
                               [] k \in 3 .. 13 -> HashAt(0, 1 + (k % 2))
                               [] k = 21 -> HashAt(8, 1)
                               [] OTHER -> HashAt(k - 6, 1)]

Filled(t, ks) == EmplaceAll(t, [i \in DOMAIN ks |-> [key |-> ks[i], value |-> 1]])
Fill(width, ks) == Filled(EmptyTable(width), ks)
Thinned(t, ks) == FoldFunction(LAMBDA k, u : EraseKey(u, k), t, ks)

Pair(t, u) == [x \in {"a", "b"} |-> IF x = "a" THEN t ELSE u]
Starts == {Pair(EmptyTable(8), EmptyTable(8)),
           Pair(EmptyTable(16), Fill(16, <<4, 5, 14>>)),
           Pair(Fill(8, <<5, 6, 7, 8, 9, 10, 11, 12, 4>>), Fill(8, <<4, 6, 8, 14, 15, 16>>)),
           Pair(Thinned(Filled(Reserve(EmptyTable(8), 14), <<14, 15, 16, 17, 18, 19, 20, 21, 4, 5, 6, 7, 8, 9>>), <<15, 17, 18, 19, 6, 7, 8>>), Fill(8, <<4>>))}
Ranges == {<<[key |-> 1, value |-> 1], [key |-> 2, value |-> 1]>>}

-----------------------------------------------------------------------------
(* Parallel maps: keys 1 and 2 share a table, their hashes differ in bytes that cancel out *)

ParHashes == 1 :> 0 @@ 2 :> 2 ^ 8 + 2 ^ 16 @@ 3 :> 2 ^ 24

R(c, m, o, k, v) == [call |-> c, map |-> m, other |-> o, key |-> k, value |-> v]

Requests == [call : {"insert", "update", "modify"}, map : {"a"}, other : {"a"}, key : {1, 3}, value : {8}]
            \cup [call : {"find", "erase", "erase_if"}, map : {"a"}, other : {"a"}, key : {1, 3}, value : {7}]
            \cup [call : {"clear", "rehash"}, map : {"a"}, other : {"a"}, key : {1}, value : {7}]
            \cup {R(c, m, IF m = "a" THEN "b" ELSE "a", 1, 7) : c \in {"merge", "swap", "equal"}, m \in {"a", "b"}}

Fillings == {"a" :> (1 :> 7 @@ 2 :> 7) @@ "b" :> (1 :> 8 @@ 3 :> 7), "a" :> (1 :> 7 @@ 3 :> 8) @@ "b" :> (1 :> 7 @@ 3 :> 8)}

-----------------------------------------------------------------------------
(* The map in two copies: one key, there or not *)

CopyRequests == [call : {"insert", "assign"}, map : {"d"}, other : {"d"}, key : {1}, value : {8}]
                \cup [call : {"find", "erase", "list"}, map : {"d"}, other : {"d"}, key : {1}, value : {7}]
CopyStarts == {<<>>, 1 :> 7}

-----------------------------------------------------------------------------
(* Ordered containers of each kind: trees of three levels and of small      *)
(* nodes, one with repeated keys, an empty one beside another, two empty.  *)

TheEntry(k, g) == [key |-> k, tag |-> g]
EntryRow(from, to, stride) == [i \in 1 .. (to - from) \div stride + 1 |-> TheEntry(from + stride * (i - 1), 0)]
AllEntries == {TheEntry(k, g) : k \in 0 .. 50, g \in {0, 1}}
NewEntries == {TheEntry(0, 1), TheEntry(6, 1)}
NewRanges == {<<TheEntry(3, 1), TheEntry(50, 1)>>}
ErasedSets == {{4, 6, 8, 10, 12}}

Made(s, ks) == [inserted |-> s, erased |-> ks]
Trees(values, multi, exact, linear, a, b) == [kind |-> [values |-> values, multi |-> multi, exact |-> exact, linear |-> linear],
                                              made |-> [x \in {"a", "b"} |-> IF x = "a" THEN a ELSE b]]

TreeStarts == {Trees(3, FALSE, FALSE, TRUE, Made(EntryRow(1, 19, 1), {2, 3, 4, 8, 9, 10, 11, 12, 14, 15, 18, 19}), Made(EntryRow(1, 5, 1), {})),
               Trees(3, TRUE, FALSE, FALSE, Made(EntryRow(2, 12, 2) \o EntryRow(4, 8, 2), {}), Made(EntryRow(1, 3, 1) \o EntryRow(2, 3, 1), {})),
               Trees(4, FALSE, TRUE, FALSE, Made(<<>>, {}), Made(EntryRow(1, 13, 1), {2, 3, 4, 6, 12})),
               Trees(3, FALSE, FALSE, TRUE, Made(<<>>, {}), Made(<<>>, {}))}

-----------------------------------------------------------------------------
(* The load generator. Both indexes use one mutex, as 0 & (3 - 1) and       *)
(* 1 & (3 - 1) do.                                                          *)

Mutexes == 0 :> 0 @@ 1 :> 0
Keys == Key

-----------------------------------------------------------------------------
\* The parts that are not looked at start in one state and stay there.
Init == /\ MapInit /\ ParInit /\ DBInit /\ TreeInit /\ TInit
        /\ part \in {"flat", "parallel", "copies", "order", "queue", "tester"}
        /\ part # "flat" => tables = Pair(EmptyTable(8), EmptyTable(8))
        /\ part # "parallel" => (\E fill \in Fillings : DOMAIN fill["b"] = {1, 3} /\ DOMAIN fill["a"] = {1, 2} /\ \A m \in AIMap : Whole(m) = fill[m])
        /\ part # "copies" => copies[0] = <<>>
        /\ part # "order" => trees["a"].size + trees["b"].size = 0
        /\ part # "queue" => bounded

\* The calls were all made.
Finished == /\ CASE part = "flat" -> calls = MaxCalls
                 [] part = "parallel" -> \A t \in AIThread : pc[t] = "idle" /\ requests[t] = MaxRequests
                 [] part = "copies" -> \A t \in DBThread : phase[t] = "idle" /\ made[t] = MaxDBRequests
                 [] part = "order" -> steps = MaxSteps
                 [] part = "tester" -> \A t \in Worker : stage[t] = "ended"
                 [] OTHER -> FALSE
            /\ UNCHANGED <<mapVars, parVars, dbVars, treeVars, allVars>>

Next == /\ UNCHANGED part
        /\ \/ part = "flat" /\ MapNext /\ UNCHANGED <<parVars, dbVars, treeVars, allVars>>
           \/ part = "parallel" /\ ParNext /\ UNCHANGED <<mapVars, dbVars, treeVars, allVars>>
           \/ part = "copies" /\ DBNext /\ UNCHANGED <<mapVars, parVars, treeVars, allVars>>
           \/ part = "order" /\ TreeNext /\ UNCHANGED <<mapVars, parVars, dbVars, allVars>>
           \/ part = "queue" /\ QNext /\ UNCHANGED <<mapVars, parVars, dbVars, treeVars, testerVars>>
           \/ part = "tester" /\ TNext /\ UNCHANGED <<mapVars, parVars, dbVars, treeVars>>
           \/ Finished

QueueStep(t) == part = "queue" /\ Step(t) /\ UNCHANGED <<part, mapVars, parVars, dbVars, treeVars, testerVars>>

MCSpec == /\ Init /\ [][Next]_<<part, mapVars, parVars, dbVars, treeVars, allVars>>
          /\ \A t \in QThread : WF_qVars(QueueStep(t))
=============================================================================
