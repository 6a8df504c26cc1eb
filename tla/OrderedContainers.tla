------------------------- MODULE OrderedContainers -------------------------
(***************************************************************************)
(* Two btree_sets, maps, multisets or multimaps in the hands of one        *)
(* thread: every sequence of calls of their interface                      *)
(* (src/utils/phmap/btree.h, btree_container and the classes derived from  *)
(* it).  Keys are compared alike in both.                                  *)
(***************************************************************************)
EXTENDS BTree

CONSTANTS TreeEntry,     \* all entries there are
          OrderedEntry,  \* those that calls are made with
          StartWith,     \* a kind of tree, and for each side what was inserted and which keys were erased since
          OrderedRange,  \* sequences of entries to insert
          KeySets,       \* arguments of erase_if
          MaxSteps       \* calls from the start on

VARIABLES trees,         \* side -> tree
          returned,      \* the last call and what it returned
          steps          \* how many there were

treeVars == <<trees, returned, steps>>

Where == {"a", "b"}
OtherTree(x) == CHOOSE y \in Where : y # x

RECURSIVE WalkTree(_, _)
WalkTree(t, it) == IF IsEnd(t, it) THEN <<it>> ELSE <<it>> \o WalkTree(t, Increment(t, it))

\* Iterators from begin() to end(), and the place of one among them.
Places(t) == WalkTree(t, BeginOf(t))
PlaceOf(t, it) == CHOOSE i \in DOMAIN Places(t) : Places(t)[i] = it

Comes(call, ret) == returned' = <<call, ret>>

Now(x, t) == trees' = [trees EXCEPT ![x] = t]

\* The tree and the place of the iterator that a call has come back with.
Gives(x, call, r) == Now(x, r.tree) /\ Comes(call, PlaceOf(r.tree, r.at))

InsertValue(x, v) == Gives(x, "insert", Insert(trees[x], v))

InsertWithHint(x, i, v) == Gives(x, "hint", InsertHint(trees[x], Places(trees[x])[i], v))

InsertValues(x, vs) == Now(x, InsertIterator(trees[x], vs)) /\ Comes("insert_all", vs)

EraseIterator(x, i) == Gives(x, "erase", EraseIter(trees[x], Places(trees[x])[i]))

EraseIterators(x, i, j) == Gives(x, "erase", EraseSpan(trees[x], Places(trees[x])[i], Places(trees[x])[j]))

EraseValues(x, k) == Now(x, EraseKeyIn(trees[x], k)) /\ Comes("erase_key", CountKey(trees[x], k))

ErasedIf(t, ks) == EraseIfFrom(t, BeginOf(t), ks)

EraseIf(x, ks) == Now(x, ErasedIf(trees[x], ks)) /\ Comes("erase_if", ks)

ClearContainer(x) == Now(x, ClearTree(trees[x])) /\ Comes("clear", 0)

CopyContainer(x) == Now(x, CopyTree(trees[OtherTree(x)])) /\ Comes("copy", 0)

\* The cleared tree and the other change places.
MoveContainer(x) == /\ trees' = [trees EXCEPT ![x] = trees[OtherTree(x)], ![OtherTree(x)] = ClearTree(trees[x])]
                    /\ Comes("move", 0)

SwapContainers == trees' = [x \in Where |-> trees[OtherTree(x)]] /\ Comes("swap", 0)

MergeContainer(x) == LET p == MergeTrees(trees[x], trees[OtherTree(x)])
                     IN  trees' = [y \in Where |-> IF y = x THEN p.dst ELSE p.src] /\ Comes("merge", 0)

Built(kind, made) == ErasedIf(InsertIterator(EmptyTree(kind), made.inserted), made.erased)

TreeInit == /\ \E start \in StartWith : trees = [x \in Where |-> Built(start.kind, start.made[x])]
            /\ returned = <<"new", 0>>
            /\ steps = 0

OnPlace(x) == LET end == Len(Places(trees[x]))
              IN  \/ \E i \in 1 .. end - 1 : EraseIterator(x, i)
                  \/ \E i, j \in 1 .. end : i <= j /\ EraseIterators(x, i, j)
                  \/ \E i \in 1 .. end, v \in OrderedEntry : InsertWithHint(x, i, v)

OnContainer(x) == \/ \E v \in OrderedEntry : InsertValue(x, v) \/ EraseValues(x, v.key)
                  \/ \E vs \in OrderedRange : InsertValues(x, vs)
                  \/ \E ks \in KeySets : EraseIf(x, ks)
                  \/ ClearContainer(x) \/ CopyContainer(x) \/ MoveContainer(x) \/ MergeContainer(x)

TreeNext == /\ steps < MaxSteps
            /\ steps' = steps + 1
            /\ \/ SwapContainers
               \/ OnPlace("a") \/ OnContainer("a")

TreeSpec == TreeInit /\ [][TreeNext]_treeVars

-----------------------------------------------------------------------------
(* Correctness *)

RECURSIVE InOrder(_, _), Depths(_, _)

\* The entries from left to right, read off the nodes.
InOrder(t, n) == LET x == t.nodes[n]
                 IN  IF Leaf(t, n) THEN x.vals
                     ELSE FoldLeft(LAMBDA s, i : s \o (IF i = 1 THEN <<>> ELSE <<x.vals[i - 1]>>) \o InOrder(t, x.kids[i]), <<>>, [i \in DOMAIN x.kids |-> i])

Depths(t, n) == IF Leaf(t, n) THEN {0} ELSE {d + 1 : d \in UNION {Depths(t, c) : c \in ToSet(t.nodes[n].kids)}}

Row(t) == InOrder(t, t.root)

\* btree::verify and more: every node hangs where it believes to hang, none is
\* empty or too full, none is lost, all leaves are equally deep, and the
\* leftmost and the rightmost leaf are known.
Sound(t) ==
  /\ t.size = Len(Row(t))
  /\ DOMAIN t.nodes = Below(t, t.root) \cup {EmptyNode}
  /\ Cardinality(Depths(t, t.root)) = 1
  /\ Leftmost(t) = FirstLeaf(t, t.root) /\ t.rightmost = LastLeaf(t, t.root)
  /\ \A n \in DOMAIN t.nodes \ {EmptyNode} :
        /\ CountOf(t, n) \in 1 .. MaxCount(t, n)
        /\ n # t.root => MaxCount(t, n) = kNodeValues(t)
        /\ ~Leaf(t, n) => /\ Len(t.nodes[n].kids) = CountOf(t, n) + 1
                          /\ \A i \in 0 .. CountOf(t, n) : Parent(t, Child(t, n, i)) = n /\ Position(t, Child(t, n, i)) = i

\* Iterators go through the entries in order, in both directions, and lookups
\* end where the order says.
WalksRight(t) ==
  LET walk == Places(t) row == Row(t)
      Smaller(k) == Cardinality({i \in DOMAIN row : row[i].key < k})
      Equal(k) == Cardinality({i \in DOMAIN row : row[i].key = k})
  IN  /\ [i \in DOMAIN row |-> ValueOf(t, walk[i])] = row /\ Len(walk) = Len(row) + 1
      /\ \A i \in DOMAIN row : Decrement(t, walk[i + 1]) = walk[i]
      /\ \A k \in {v.key : v \in OrderedEntry} :
            /\ LowerBound(t, k) = walk[Smaller(k) + 1]
            /\ UpperBound(t, k) = walk[Smaller(k) + Equal(k) + 1]
            /\ CountKey(t, k) = Equal(k)
            /\ IF Equal(k) = 0 THEN FindIn(t, k) = EndOf(t) ELSE KeyOf(t, FindIn(t, k)) = k

\* The parents, positions and counts that every split, merge and shift of
\* nodes updates one by one stay right under every sequence of calls.
TreesSound == \A x \in Where : Sound(trees[x]) /\ WalksRight(trees[x])

Order == INSTANCE AbstractOrder WITH AOEntry <- TreeEntry, repeats <- trees["a"].kind.multi,
                                     rows <- [x \in Where |-> Row(trees[x])], said <- returned

\* The trees implement ordered rows: whatever was split, merged or shifted
\* before, every call leaves the entries in the order of their keys, equal
\* keys in the order of their arrival, and the iterator that an insertion or a
\* deletion returns leads to the entry it should although nodes came and went.
ImplementsOrder == Order!AOSpec
=============================================================================
