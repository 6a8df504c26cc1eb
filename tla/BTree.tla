------------------------------- MODULE BTree -------------------------------
(***************************************************************************)
(* The B-tree of the hash map library (src/utils/phmap/btree.h): a tree is *)
(* a record, every member function an operator from trees to trees.        *)
(*                                                                         *)
(* A node knows its parent and its position among the parent's children,   *)
(* which iterators climb by.  The parent of the root is the leftmost leaf, *)
(* the rightmost leaf is kept beside the root.  An entry is inserted into  *)
(* a leaf; a full node gives entries to a sibling or is split; a node that *)
(* became small is merged with a sibling or gets entries from it, unless   *)
(* it lost the entry at its edge, which happens in rows.                   *)
(***************************************************************************)
EXTENDS Integers, SequencesExt

kInternalNodeMaxCount == 0

EmptyNode == 0
Null == [node |-> -1, position |-> 0]
Iter(n, i) == [node |-> n, position |-> i]

\* kind: the values a node holds at most, whether keys may repeat, whether keys
\* are compared three ways, and whether a node is searched linearly.
EmptyTree(kind) == [kind |-> kind, root |-> EmptyNode, rightmost |-> EmptyNode, size |-> 0,
                    nodes |-> [n \in {EmptyNode} |-> [parent |-> EmptyNode, position |-> 0, max |-> kInternalNodeMaxCount + 1, vals |-> <<>>, kids |-> <<>>]]]

kNodeValues(t) == t.kind.values
kMinNodeValues(t) == kNodeValues(t) \div 2

Leaf(t, n) == t.nodes[n].max # kInternalNodeMaxCount
MaxCount(t, n) == IF Leaf(t, n) THEN t.nodes[n].max ELSE kNodeValues(t)
CountOf(t, n) == Len(t.nodes[n].vals)
Parent(t, n) == t.nodes[n].parent
Position(t, n) == t.nodes[n].position
IsRoot(t, n) == Leaf(t, Parent(t, n))
Child(t, n, i) == t.nodes[n].kids[i + 1]
ValueOf(t, it) == t.nodes[it.node].vals[it.position + 1]
KeyOf(t, it) == ValueOf(t, it).key

Leftmost(t) == Parent(t, t.root)
BeginOf(t) == Iter(Leftmost(t), 0)
EndOf(t) == Iter(t.rightmost, CountOf(t, t.rightmost))

-----------------------------------------------------------------------------
(* Searching a node: signs are how its keys compare with the key, -1 for    *)
(* those before it.                                                         *)

Sign(a, b) == IF a < b THEN -1 ELSE IF a = b THEN 0 ELSE 1

LinearSearch(signs, exact) ==
  LET s == SelectInSeq(signs, LAMBDA c : c >= 0)
  IN  IF s = 0 THEN [value |-> Len(signs), eq |-> FALSE] ELSE [value |-> s - 1, eq |-> exact /\ signs[s] = 0]

RECURSIVE BinarySearch(_, _, _, _, _, _)
BinarySearch(signs, exact, multi, s, e, eq) ==
  LET mid == (s + e) \div 2
      c == signs[mid + 1]
  IN  CASE s = e -> [value |-> s, eq |-> eq]
        [] s # e /\ c < 0 -> BinarySearch(signs, exact, multi, mid + 1, e, eq)
        [] s # e /\ c = 0 /\ exact /\ ~multi -> [value |-> mid, eq |-> TRUE]
        [] OTHER -> BinarySearch(signs, exact, multi, s, mid, eq \/ (exact /\ c = 0))

SearchNode(t, signs, exact) == IF t.kind.linear THEN LinearSearch(signs, exact)
                           ELSE BinarySearch(signs, exact, t.kind.multi, 0, Len(signs), FALSE)

LowerBoundIn(t, n, k) == SearchNode(t, [i \in DOMAIN t.nodes[n].vals |-> Sign(t.nodes[n].vals[i].key, k)], t.kind.exact)

\* upper_bound_adapter: equal keys count as smaller, and comparison is two-way.
UpperBoundIn(t, n, k) == SearchNode(t, [i \in DOMAIN t.nodes[n].vals |-> IF t.nodes[n].vals[i].key <= k THEN -1 ELSE 1], FALSE)

-----------------------------------------------------------------------------
(* Iterators *)

RECURSIVE FirstLeaf(_, _), LastLeaf(_, _), ClimbRight(_, _), ClimbLeft(_, _), InternalLast(_, _)

FirstLeaf(t, n) == IF Leaf(t, n) THEN n ELSE FirstLeaf(t, Child(t, n, 0))
LastLeaf(t, n) == IF Leaf(t, n) THEN n ELSE LastLeaf(t, Child(t, n, CountOf(t, n)))

ClimbRight(t, it) == IF it.position = CountOf(t, it.node) /\ ~IsRoot(t, it.node)
                     THEN ClimbRight(t, Iter(Parent(t, it.node), Position(t, it.node))) ELSE it

ClimbLeft(t, it) == IF it.position < 0 /\ ~IsRoot(t, it.node)
                    THEN ClimbLeft(t, Iter(Parent(t, it.node), Position(t, it.node) - 1)) ELSE it

Increment(t, it) ==
  LET next == Iter(it.node, it.position + 1)
      up == ClimbRight(t, next)
  IN  CASE ~Leaf(t, it.node) -> Iter(FirstLeaf(t, Child(t, it.node, it.position + 1)), 0)
        [] Leaf(t, it.node) /\ up.position = CountOf(t, up.node) -> next
        [] OTHER -> up

Decrement(t, it) ==
  LET prev == Iter(it.node, it.position - 1)
      up == ClimbLeft(t, prev)
      last == LastLeaf(t, Child(t, it.node, it.position))
  IN  CASE ~Leaf(t, it.node) -> Iter(last, CountOf(t, last) - 1)
        [] Leaf(t, it.node) /\ up.position < 0 -> prev
        [] OTHER -> up

\* Up to a valid place, or Null behind the last entry.
InternalLast(t, it) == CASE it.position < CountOf(t, it.node) -> it
                         [] it.position = CountOf(t, it.node) /\ Leaf(t, Parent(t, it.node)) -> Null
                         [] OTHER -> InternalLast(t, Iter(Parent(t, it.node), Position(t, it.node)))

InternalEnd(t, it) == IF it = Null THEN EndOf(t) ELSE it

-----------------------------------------------------------------------------
(* Lookups *)

RECURSIVE LocateFrom(_, _, _), LowerFrom(_, _, _), UpperFrom(_, _, _), Distance(_, _, _)

LocateFrom(t, n, k) == LET r == LowerBoundIn(t, n, k)
                       IN  IF r.eq \/ Leaf(t, n) THEN [at |-> Iter(n, r.value), eq |-> r.eq] ELSE LocateFrom(t, Child(t, n, r.value), k)

LowerFrom(t, n, k) == LET i == LowerBoundIn(t, n, k).value
                      IN  IF Leaf(t, n) THEN Iter(n, i) ELSE LowerFrom(t, Child(t, n, i), k)

UpperFrom(t, n, k) == LET i == UpperBoundIn(t, n, k).value
                      IN  IF Leaf(t, n) THEN Iter(n, i) ELSE UpperFrom(t, Child(t, n, i), k)

InternalLocate(t, k) == LocateFrom(t, t.root, k)
InternalLowerBound(t, k) == InternalLast(t, LowerFrom(t, t.root, k))
InternalUpperBound(t, k) == InternalLast(t, UpperFrom(t, t.root, k))

InternalFind(t, k) ==
  LET r == InternalLocate(t, k)
      last == InternalLast(t, r.at)
  IN  CASE t.kind.exact -> IF r.eq THEN r.at ELSE Null
        [] OTHER -> IF last # Null /\ KeyOf(t, last) <= k THEN last ELSE Null

FindIn(t, k) == InternalEnd(t, InternalFind(t, k))
LowerBound(t, k) == InternalEnd(t, InternalLowerBound(t, k))
UpperBound(t, k) == InternalEnd(t, InternalUpperBound(t, k))

Distance(t, from, to) == IF from = to THEN 0 ELSE 1 + Distance(t, Increment(t, from), to)

CountKey(t, k) == IF t.kind.multi THEN Distance(t, LowerBound(t, k), UpperBound(t, k))
                  ELSE IF InternalFind(t, k) = Null THEN 0 ELSE 1

-----------------------------------------------------------------------------
(* Nodes *)

\* A leaf has no children to take part of.
UpTo(s, n) == SubSeq(s, 1, Min({n, Len(s)}))

\* init_child and set_child for the children of n from position i on.
Adopt(t, n, i) ==
  LET moved == {Child(t, n, j) : j \in i .. Len(t.nodes[n].kids) - 1}
      place(c) == (CHOOSE j \in i .. Len(t.nodes[n].kids) - 1 : Child(t, n, j) = c)
  IN  [t EXCEPT !.nodes = [c \in DOMAIN @ |-> IF c \in moved THEN [@[c] EXCEPT !.parent = n, !.position = place(c)] ELSE @[c]]]

Fresh(t) == CHOOSE n \in 1 .. Cardinality(DOMAIN t.nodes) : n \notin DOMAIN t.nodes

\* The node of Fresh(t) is there.
NewNode(t, parent, max) == [t EXCEPT !.nodes = [n \in DOMAIN @ \cup {Fresh(t)} |->
                               IF n \in DOMAIN @ THEN @[n] ELSE [parent |-> parent, position |-> 0, max |-> max, vals |-> <<>>, kids |-> <<>>]]]

DeleteNodes(t, ns) == [t EXCEPT !.nodes = Restrict(@, DOMAIN @ \ ns)]

NewLeafRootNode(t, max) == [NewNode(t, Fresh(t), max) EXCEPT !.root = Fresh(t), !.rightmost = Fresh(t)]

EmplaceValue(t, it, v) == [t EXCEPT !.nodes[it.node].vals = InsertAt(@, it.position + 1, v)]

RemoveValues(t, it, count) == [t EXCEPT !.nodes[it.node].vals = SubSeq(@, 1, it.position) \o SubSeq(@, it.position + count + 1, Len(@))]

\* A row of values goes over the delimiter in the parent into the left sibling.
RebalanceRightToLeft(t, left, m, right) ==
  LET l == t.nodes[left] r == t.nodes[right]
      u == [t EXCEPT !.nodes[left].vals = l.vals \o <<ValueOf(t, Iter(l.parent, l.position))>> \o SubSeq(r.vals, 1, m - 1),
                     !.nodes[l.parent].vals[l.position + 1] = r.vals[m],
                     !.nodes[right].vals = SubSeq(r.vals, m + 1, Len(r.vals)),
                     !.nodes[left].kids = l.kids \o UpTo(r.kids, m),
                     !.nodes[right].kids = SubSeq(r.kids, m + 1, Len(r.kids))]
  IN  IF Leaf(t, left) THEN u ELSE Adopt(Adopt(u, left, Len(l.vals) + 1), right, 0)

RebalanceLeftToRight(t, left, m, right) ==
  LET l == t.nodes[left] r == t.nodes[right] stay == Len(l.vals) - m
      u == [t EXCEPT !.nodes[right].vals = SubSeq(l.vals, stay + 2, Len(l.vals)) \o <<ValueOf(t, Iter(l.parent, l.position))>> \o r.vals,
                     !.nodes[l.parent].vals[l.position + 1] = l.vals[stay + 1],
                     !.nodes[left].vals = SubSeq(l.vals, 1, stay),
                     !.nodes[right].kids = SubSeq(l.kids, stay + 2, Len(l.kids)) \o r.kids,
                     !.nodes[left].kids = UpTo(l.kids, stay + 1)]
  IN  IF Leaf(t, left) THEN u ELSE Adopt(u, right, 0)

\* How many values go to the new right sibling: few when values come in
\* ascending or in descending order.
BadSplitCount(t, i) == CASE i = 0 -> kNodeValues(t) - 1
                       [] i = kNodeValues(t) -> 0
                       [] OTHER -> kNodeValues(t) \div 2 + 1

SplitCount(t, i) == CASE i = 0 -> kNodeValues(t) - 1
                      [] i = kNodeValues(t) -> 0
                      [] OTHER -> kNodeValues(t) \div 2

\* The delimiter, the last value that stays left, goes to the parent.
SplitFull(t, n, i, dest) ==
  LET x == t.nodes[n]
      stay == Len(x.vals) - SplitCount(t, i) - 1
      u == [t EXCEPT !.nodes[dest].vals = SubSeq(x.vals, stay + 2, Len(x.vals)),
                     !.nodes[dest].kids = SubSeq(x.kids, stay + 2, Len(x.kids)),
                     !.nodes[n].vals = SubSeq(x.vals, 1, stay),
                     !.nodes[n].kids = UpTo(x.kids, stay + 1),
                     !.nodes[x.parent].vals = InsertAt(@, x.position + 1, x.vals[stay + 1]),
                     !.nodes[x.parent].kids = InsertAt(@, x.position + 2, dest)]
  IN  Adopt(Adopt(u, x.parent, x.position + 1), dest, 0)

\* merge and merge_nodes: the right node is gone.
MergeNodes(t, left, right) ==
  LET l == t.nodes[left] r == t.nodes[right]
      u == [t EXCEPT !.nodes[left].vals = l.vals \o <<ValueOf(t, Iter(l.parent, l.position))>> \o r.vals,
                     !.nodes[left].kids = l.kids \o r.kids,
                     !.nodes[l.parent].vals = RemoveAt(@, l.position + 1),
                     !.nodes[l.parent].kids = RemoveAt(@, l.position + 2),
                     !.rightmost = IF @ = right THEN left ELSE @]
  IN  DeleteNodes(Adopt(Adopt(u, left, Len(l.vals) + 1), l.parent, l.position + 1), {right})

-----------------------------------------------------------------------------
(* Insertion. A tree and the iterator to what was inserted come back.       *)

Result(t, it) == [tree |-> t, at |-> it]

Beside(t, n, d) == Child(t, Parent(t, n), Position(t, n) + d)
HasLeft(t, n) == n # t.root /\ Position(t, n) > 0
HasRight(t, n) == n # t.root /\ Position(t, n) < CountOf(t, Parent(t, n))

\* Half of the room in the sibling, or all if the value goes to the far end.
MovedTo(t, sibling, far) == LET room == kNodeValues(t) - CountOf(t, sibling)
                            IN  IF far \/ room = 1 THEN room ELSE room \div 2

ToLeft(t, it) == MovedTo(t, Beside(t, it.node, -1), it.position = kNodeValues(t))
ToRight(t, it) == MovedTo(t, Beside(t, it.node, 1), it.position = 0)

\* m values go to a sibling of c, unless that leaves the place in a full one.
Helps(t, c, m, stays) == c < kNodeValues(t) /\ (stays \/ c + m < kNodeValues(t))

LeftHelps(t, it) == /\ HasLeft(t, it.node)
                    /\ Helps(t, CountOf(t, Beside(t, it.node, -1)), ToLeft(t, it), it.position >= ToLeft(t, it))

RightHelps(t, it) == /\ HasRight(t, it.node)
                     /\ Helps(t, CountOf(t, Beside(t, it.node, 1)), ToRight(t, it), it.position <= kNodeValues(t) - ToRight(t, it))

\* The place to insert at, i behind the first value that is left, or among
\* those that went; and the place after values went to the right.
GivenLeft(t, n, i, left) == Result(t, IF i < 0 THEN Iter(left, i + CountOf(t, left) + 1) ELSE Iter(n, i))
GivenRight(t, it, right) == Result(t, IF it.position > CountOf(t, it.node) THEN Iter(right, it.position - CountOf(t, it.node) - 1) ELSE it)

GiveLeft(t, it, m, left) == GivenLeft(RebalanceRightToLeft(t, left, m, it.node), it.node, it.position - m, left)
GiveRight(t, it, m, right) == GivenRight(RebalanceLeftToRight(t, it.node, m, right), it, right)

NewRoot(t, n) == [NewNode(t, Leftmost(t), kInternalNodeMaxCount) EXCEPT !.root = n, !.nodes[n].kids = <<t.root>>]

\* The root becomes the only child of a new root.
RaiseRoot(t) == Adopt(NewRoot(t, Fresh(t)), Fresh(t), 0)

SplitInto(t, it, dest) ==
  GivenRight([SplitFull(NewNode(t, Parent(t, it.node), t.nodes[it.node].max), it.node, it.position, dest) EXCEPT !.rightmost = IF @ = it.node THEN dest ELSE @],
             it, dest)

SplitNode(t, it) == SplitInto(t, it, Fresh(t))

RECURSIVE RebalanceOrSplit(_, _)

\* There is room for a delimiter in the parent.
RoomAbove(t, n) ==
  CASE n = t.root -> RaiseRoot(t)
    [] n # t.root /\ CountOf(t, Parent(t, n)) = kNodeValues(t) -> RebalanceOrSplit(t, Iter(Parent(t, n), Position(t, n))).tree
    [] OTHER -> t

RebalanceOrSplit(t, it) == IF LeftHelps(t, it) THEN GiveLeft(t, it, ToLeft(t, it), Beside(t, it.node, -1))
                           ELSE IF RightHelps(t, it) THEN GiveRight(t, it, ToRight(t, it), Beside(t, it.node, 1))
                           ELSE SplitNode(RoomAbove(t, it.node), it)

\* A root leaf that is full but small is replaced by one of twice its size.
MovedRoot(t, from) == DeleteNodes([t EXCEPT !.nodes[t.root].vals = t.nodes[from].vals], {from})
GrowRoot(t) == MovedRoot(NewLeafRootNode(t, Min({kNodeValues(t), 2 * MaxCount(t, t.root)})), t.root)

MakeRoom(t, it) == CASE CountOf(t, it.node) < MaxCount(t, it.node) -> Result(t, it)
                     [] CountOf(t, it.node) = MaxCount(t, it.node) /\ MaxCount(t, it.node) < kNodeValues(t) -> Result(GrowRoot(t), Iter(Fresh(t), it.position))
                     [] OTHER -> RebalanceOrSplit(t, it)

Placed(r, v) == Result([EmplaceValue(r.tree, r.at, v) EXCEPT !.size = @ + 1], r.at)

Past(it) == Iter(it.node, it.position + 1)

\* Before an entry of an inner node means behind the one before it, in a leaf.
InternalEmplace(t, it, v) == Placed(MakeRoom(t, IF Leaf(t, it.node) THEN it ELSE Past(Decrement(t, it))), v)

\* The first entry gets a root with room for one.
Rooted(t) == IF t.size = 0 THEN NewLeafRootNode(t, 1) ELSE t

IsEnd(t, it) == it = EndOf(t)

\* May key a come right before key b?
Fits(t, a, b) == a < b \/ (t.kind.multi /\ a = b)

\* Where the hint, or what follows it, lets the key go, or Null.
Hinted(t, hint, next, k) ==
  IF IsEnd(t, hint) \/ Fits(t, k, KeyOf(t, hint))
  THEN IF hint = BeginOf(t) \/ Fits(t, KeyOf(t, Decrement(t, hint)), k) THEN hint ELSE Null
  ELSE IF IsEnd(t, next) \/ Fits(t, k, KeyOf(t, next)) THEN next ELSE Null

PlaceHinted(t, hint, k) == IF t.size = 0 THEN Null ELSE Hinted(t, hint, Increment(t, hint), k)

PlaceSearched(t, k) == IF t.kind.multi THEN UpperBound(t, k) ELSE InternalLocate(t, k).at

InsertUnhinted(t, v) == IF ~t.kind.multi /\ InternalFind(t, v.key) # Null THEN Result(t, InternalFind(t, v.key))
                        ELSE InternalEmplace(t, PlaceSearched(t, v.key), v)

\* insert_unique, insert_multi
Insert(t, v) == InsertUnhinted(Rooted(t), v)

\* insert_hint_unique, insert_hint_multi
InsertAtHint(t, place, v) == IF place = Null THEN Insert(t, v) ELSE InternalEmplace(t, place, v)
InsertHint(t, hint, v) == IF ~t.kind.multi /\ ~IsEnd(t, hint) /\ KeyOf(t, hint) = v.key THEN Result(t, hint)
                          ELSE InsertAtHint(t, PlaceHinted(t, hint, v.key), v)

InsertIterator(t, vs) == FoldLeft(LAMBDA u, v : InsertHint(u, EndOf(u), v).tree, t, vs)

-----------------------------------------------------------------------------
(* Deletion. The iterator that comes back leads to the entry behind.        *)

\* What the code asks before it merges, and before it takes from a sibling.
Merges(t, n, sibling) == 1 + CountOf(t, sibling) + CountOf(t, n) <= kNodeValues(t)

\* Nothing is taken by a node that lost the value at its other edge.
Takes(t, n, sibling, edge) == CountOf(t, sibling) > kMinNodeValues(t) /\ (CountOf(t, n) = 0 \/ ~edge)

TakenFrom(t, sibling, n) == Min({(CountOf(t, sibling) - CountOf(t, n)) \div 2, CountOf(t, sibling) - 1})

Outcome(t, at, merged) == [tree |-> t, at |-> at, merged |-> merged]

WithSiblings(t, it, n, left, right) ==
  IF HasLeft(t, n) /\ Merges(t, n, left) THEN Outcome(MergeNodes(t, left, n), Iter(left, it.position + 1 + CountOf(t, left)), TRUE)
  ELSE IF HasRight(t, n) /\ Merges(t, n, right) THEN Outcome(MergeNodes(t, n, right), it, TRUE)
  ELSE IF HasRight(t, n) /\ Takes(t, n, right, it.position = 0) THEN Outcome(RebalanceRightToLeft(t, n, TakenFrom(t, right, n), right), it, FALSE)
  ELSE IF HasLeft(t, n) /\ Takes(t, n, left, it.position = CountOf(t, n))
       THEN Outcome(RebalanceLeftToRight(t, left, TakenFrom(t, left, n), n), Iter(n, it.position + TakenFrom(t, left, n)), FALSE)
  ELSE Outcome(t, it, FALSE)

TryMergeOrRebalance(t, it) == WithSiblings(t, it, it.node, Beside(t, it.node, -1), Beside(t, it.node, 1))

\* A root without values: its only child takes its place, or the tree is empty.
TryShrink(t) ==
  CASE CountOf(t, t.root) > 0 -> t
    [] CountOf(t, t.root) = 0 /\ Leaf(t, t.root) -> DeleteNodes([t EXCEPT !.root = EmptyNode, !.rightmost = EmptyNode], {t.root})
    [] OTHER -> LET child == Child(t, t.root, 0) IN DeleteNodes([t EXCEPT !.nodes[child].parent = Leftmost(t), !.root = child], {t.root})

\* Off the end of a node.
Advanced(t, it) == Result(t, IF t.size > 0 /\ it.position = CountOf(t, it.node) THEN Increment(t, Iter(it.node, it.position - 1)) ELSE it)

RECURSIVE WalkUp(_, _, _, _)

\* res follows the first node only: what is merged further up are inner nodes.
Onward(o, res) == IF ~o.merged THEN Advanced(o.tree, res)
                  ELSE WalkUp(o.tree, Iter(Parent(o.tree, o.at.node), Position(o.tree, o.at.node)), res, FALSE)

FirstOnward(o, res, first) == Onward(o, IF first THEN o.at ELSE res)

\* Iter the root: the end of an empty tree, or res.
AtRoot(t, res) == Advanced(t, IF t.size = 0 THEN EndOf(t) ELSE res)

WalkUp(t, it, res, first) == IF it.node = t.root THEN AtRoot(TryShrink(t), res)
                             ELSE IF CountOf(t, it.node) >= kMinNodeValues(t) THEN Advanced(t, res)
                             ELSE FirstOnward(TryMergeOrRebalance(t, it), res, first)

RebalanceAfterDelete(t, it) == WalkUp(t, it, it, TRUE)

BadForward(r) == r

Forward(r) == Result(r.tree, Increment(r.tree, r.at))

EraseInLeaf(t, it, count) == RebalanceAfterDelete([RemoveValues(t, it, count) EXCEPT !.size = @ - count], it)

\* An entry of an inner node is replaced by the one before it, which is in a leaf.
EraseInner(t, it, prev) == Forward(EraseInLeaf([t EXCEPT !.nodes[it.node].vals[it.position + 1] = ValueOf(t, prev)], prev, 1))

EraseIter(t, it) == IF Leaf(t, it.node) THEN EraseInLeaf(t, it, 1) ELSE EraseInner(t, it, Decrement(t, it))

RECURSIVE Below(_, _), EraseMore(_, _, _), EraseIfFrom(_, _, _)

Below(t, n) == {n} \cup UNION {Below(t, c) : c \in ToSet(t.nodes[n].kids)}

\* Whole subtrees go with a row of values of an inner node.
Pruned(t, it, count) ==
  LET kids == t.nodes[it.node].kids
      gone == SubSeq(kids, it.position + 2, it.position + count + 1)
  IN  DeleteNodes(Adopt([t EXCEPT !.nodes[it.node].kids = SubSeq(kids, 1, it.position + 1) \o SubSeq(kids, it.position + count + 2, Len(kids))],
                        it.node, it.position + 1),
                  UNION {Below(t, c) : c \in ToSet(gone)})

\* count is the number of entries from one iterator to the other, values those of the node.
EraseSameNode(t, it, values, count) ==
  RebalanceAfterDelete([RemoveValues(IF Leaf(t, it.node) THEN t ELSE Pruned(t, it, values), it, values) EXCEPT !.size = @ - count], it)

ErasedSome(r, target) == EraseMore(r.tree, r.at, target)

EraseMore(t, it, target) ==
  IF t.size = target THEN Result(t, it)
  ELSE ErasedSome(IF Leaf(t, it.node) THEN EraseInLeaf(t, it, Min({t.size - target, CountOf(t, it.node) - it.position})) ELSE EraseIter(t, it),
                  target)

ClearTree(t) == EmptyTree(t.kind)

EraseEntries(t, from, to, count) ==
  CASE count = 0 -> Result(t, from)
    [] count > 0 /\ count = t.size -> Result(ClearTree(t), EndOf(ClearTree(t)))
    [] count > 0 /\ count < t.size /\ from.node = to.node -> EraseSameNode(t, from, to.position - from.position, count)
    [] OTHER -> EraseMore(t, from, t.size - count)

EraseSpan(t, from, to) == EraseEntries(t, from, to, Distance(t, from, to))

\* erase_unique, erase_multi
EraseUnique(t, it) == IF it = Null THEN t ELSE EraseIter(t, it).tree
EraseMulti(t, from, to) == IF from = Null THEN t ELSE EraseSpan(t, from, to).tree

EraseKeyIn(t, k) == IF t.kind.multi THEN EraseMulti(t, InternalLowerBound(t, k), UpperBound(t, k))
                    ELSE EraseUnique(t, InternalFind(t, k))

\* erase_if for the entries with a key in ks.
EraseIfNext(r, ks) == EraseIfFrom(r.tree, r.at, ks)

EraseIfFrom(t, it, ks) == IF IsEnd(t, it) THEN t
                          ELSE EraseIfNext(IF KeyOf(t, it) \in ks THEN EraseIter(t, it) ELSE Result(t, Increment(t, it)), ks)

-----------------------------------------------------------------------------
(* Whole trees *)

RECURSIVE ValuesFrom(_, _), MergeFrom(_, _, _)

ValuesFrom(t, it) == IF IsEnd(t, it) THEN <<>> ELSE <<ValueOf(t, it)>> \o ValuesFrom(t, Increment(t, it))

AppendValue(t, v) == InternalEmplace(t, EndOf(t), v).tree

\* copy_or_move_values_in_order: the values go to the end without comparing keys.
CopyTree(t) == FoldLeft(LAMBDA u, v : AppendValue(Rooted(u), v), EmptyTree(t.kind), ValuesFrom(t, BeginOf(t)))

\* The entries from it on: those whose key the other tree has stay where they are.
MergedOne(dst, src, it) == IF InternalFind(dst, KeyOf(src, it)) = Null
                           THEN [dst |-> Insert(dst, ValueOf(src, it)).tree, rest |-> EraseIter(src, it)]
                           ELSE [dst |-> dst, rest |-> Result(src, Increment(src, it))]

MergeNext(m) == MergeFrom(m.dst, m.rest.tree, m.rest.at)

MergeFrom(dst, src, it) == IF IsEnd(src, it) THEN [dst |-> dst, src |-> src] ELSE MergeNext(MergedOne(dst, src, it))

MergeTrees(t, src) == IF t.kind.multi THEN [dst |-> InsertIterator(t, ValuesFrom(src, BeginOf(src))), src |-> ClearTree(src)]
                      ELSE MergeFrom(t, src, BeginOf(src))
=============================================================================
