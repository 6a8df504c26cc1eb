-------------------------- MODULE StarCacheProofs ---------------------------
(***************************************************************************)
(* Proofs about StarCache for any number of threads, keys, items, disk     *)
(* blocks, blocks of an item and slices of a block: first calls and items, *)
(* then disk blocks and what a set writes.  What a disk block holds is     *)
(* proved of a build whose DCHECKs are on, since a run shows that a        *)
(* release build breaks it; whose a disk block is, and what the index      *)
(* takes, of every build.                                                  *)
(***************************************************************************)
EXTENDS StarCache, SequenceTheorems, TLAPS

-----------------------------------------------------------------------------
(* Routines call each other in one order only, from the calls of clients   *)
(* down to the removal of an item.                                         *)

SetLabel == {"set.item", "set.block", "set.mem", "set.disk"}
ReadLabel == {"read.block", "read.disk", "promote.check", "promote.set"}
PinLabel == {"pin.untrack", "unpin.track"}
CallLabel == SetLabel \cup ReadLabel \cup PinLabel
FlushLabel == {"flush.begin", "flush.decide", "flush.delete", "flush.empty", "flush.return",
               "flush.target", "flush.alloc", "flush.write", "flush.drop"}
EvictLabel == {"disk.evicted", "disk.empty"}
RemoveLabel == {"remove.index", "remove.block"}
Label == CallLabel \cup {"mem.alloc", "mem.evicted"} \cup FlushLabel \cup {"disk.alloc"} \cup EvictLabel \cup RemoveLabel

Level(l) == IF l \in CallLabel THEN 1 ELSE
            IF l = "mem.alloc" THEN 2 ELSE
            IF l = "mem.evicted" THEN 3 ELSE
            IF l \in FlushLabel THEN 4 ELSE
            IF l = "disk.alloc" THEN 5 ELSE
            IF l \in EvictLabel THEN 6 ELSE 7

Deepens(s) == /\ s \in Seq(Label)
              /\ \A m, n \in 1 .. Len(s) : m < n => Level(s[m]) < Level(s[n])

LabelsOf(s) == {s[n] : n \in 1 .. Len(s)}
Frames(t) == LabelsOf(stack[t])

Stacked == /\ DOMAIN stack = Thread
           /\ \A t \in Thread : Deepens(stack[t])

-----------------------------------------------------------------------------
(* What the variables hold.                                                *)

OpTyped(o) == /\ DOMAIN o = DOMAIN NoOp
              /\ o.count \in 0 .. MaxBlocks
              /\ \A p \in o.want : p[1] \in Block
              /\ o.slot \in Slot \cup {NoSlot}
FlushTyped(f) == DOMAIN f = DOMAIN NoFlush /\ f.slot \in Slot \cup {NoSlot}
CallTyped(c) == /\ DOMAIN c = DOMAIN NoDiskCall
                /\ c.slot \in Slot \cup {NoSlot}
                /\ c.evicted \subseteq Key

StoreTyped ==
  /\ index \in [Key -> Item \cup {NoItem}]
  /\ DOMAIN item = Item
  /\ \A i \in Item : DOMAIN item[i] = DOMAIN NullItem /\ item[i].count \in 0 .. MaxBlocks
  /\ disk \in [Item -> [Block -> Slot \cup {NoSlot}]]
  /\ DOMAIN content = Slot
LocalsTyped ==
  /\ DOMAIN op = Thread /\ \A t \in Thread : OpTyped(op[t])
  /\ DOMAIN flush = Thread /\ \A t \in Thread : FlushTyped(flush[t])
  /\ DOMAIN diskCall = Thread /\ \A t \in Thread : CallTyped(diskCall[t])
  /\ DOMAIN removal = Thread /\ \A t \in Thread : DOMAIN removal[t] = DOMAIN NoRemoval
EvTyped == DOMAIN diskEv = {"tracked", "holders"} /\ diskEv.tracked \subseteq Key

\* F: the frames of a thread; o, f: its locals op and flush.
OpFits(F, o) ==
  /\ F \cap CallLabel # {} => o.key \in Key /\ o.item \in Item
  /\ F \cap ReadLabel # {} => o.b \in Block
  /\ o.slot # NoSlot <=> "read.disk" \in F
FlushFits(F, f) ==
  /\ F \cap FlushLabel # {} => f.key \in Key /\ f.item \in Item /\ f.b \in Block
  /\ f.slot # NoSlot => "flush.write" \in F
  /\ DcheckOn /\ "flush.alloc" \in F => f.segs = Slice

LocalsFit == \A t \in Thread : OpFits(Frames(t), op[t]) /\ FlushFits(Frames(t), flush[t])

CallInv == Stacked /\ StoreTyped /\ LocalsTyped /\ EvTyped /\ LocalsFit

-----------------------------------------------------------------------------
(* Who has an item.                                                        *)

Indexed == {index[k] : k \in Key}
InSet(F) == F \cap SetLabel # {}
\* The CacheItem of the set has been constructed.
Made(F) == F \cap (SetLabel \ {"set.item"}) # {}

\* The item of a set that is not in the index yet is the set's own.
NewIsPrivate ==
  \A t \in Thread : InSet(Frames(t)) =>
    /\ op[t].item \notin Indexed
    /\ op[t].item \notin {flush[t].item, diskCall[t].item, removal[t].item}
    /\ \A u \in Thread \ {t} : op[t].item \notin Refs(u)
    /\ Made(Frames(t)) => item[op[t].item].key = op[t].key /\ ~item[op[t].item].released

KeysMatch ==
  /\ \A k \in Key : index[k] # NoItem => item[index[k]].key = k
  /\ \A t \in Thread : Frames(t) \cap FlushLabel # {} => item[flush[t].item].key = flush[t].key

Leaving == \A k \in Key : index[k] # NoItem /\ item[index[k]].released =>
                            \E t \in Thread : "remove.index" \in Frames(t) /\ removal[t].key = k

ItemInv == NewIsPrivate /\ KeysMatch /\ Leaving

-----------------------------------------------------------------------------
(* Stacks                                                                  *)

LEMMA Levels ==
  /\ \A l \in CallLabel : Level(l) = 1
  /\ Level("mem.alloc") = 2 /\ Level("mem.evicted") = 3
  /\ \A l \in FlushLabel : Level(l) = 4
  /\ Level("disk.alloc") = 5
  /\ \A l \in EvictLabel : Level(l) = 6
  /\ \A l \in RemoveLabel : Level(l) = 7
  /\ \A l \in Label : Level(l) \in 1 .. 7
  /\ {"mem.alloc", "mem.evicted", "disk.alloc"} \cup CallLabel \cup FlushLabel \cup EvictLabel \cup RemoveLabel \subseteq Label
BY DEF Level, Label, CallLabel, SetLabel, ReadLabel, PinLabel, FlushLabel, EvictLabel, RemoveLabel

\* The routine a thread is in is below those that called it.
LEMMA TopIsDeepest ==
  ASSUME NEW s, Deepens(s), s # <<>>
  PROVE  /\ Last(s) \in Label
         /\ Last(s) \in LabelsOf(s)
         /\ LabelsOf(s) \subseteq Label
         /\ \A x \in LabelsOf(s) : x = Last(s) \/ Level(x) < Level(Last(s))
BY DEF Deepens, LabelsOf, Last

LEMMA EmptyStack == Deepens(<<>>) /\ LabelsOf(<<>>) = {}
BY DEF Deepens, LabelsOf

LEMMA FrontIs ==
  ASSUME NEW s, Deepens(s), s # <<>>
  PROVE  /\ Front(s) \in Seq(Label)
         /\ Len(Front(s)) = Len(s) - 1
         /\ Len(s) \in Nat \ {0}
         /\ \A n \in 1 .. Len(s) - 1 : Front(s)[n] = s[n]
<1>1. s \in Seq(Label) /\ Len(s) \in Nat \ {0}
  BY EmptySeq DEF Deepens
<1>2. \A n \in 1 .. Len(s) - 1 : s[n] \in Label
  BY <1>1
<1> DEFINE k == Len(s) - 1
<1>3. k \in Nat /\ \A n \in 1 .. k : s[n] \in Label
  BY <1>1, <1>2
<1> HIDE DEF k
<1>4. /\ SubSeq(s, 1, k) \in Seq(Label)
      /\ Len(SubSeq(s, 1, k)) = k
      /\ \A n \in 1 .. k : SubSeq(s, 1, k)[n] = s[n]
  <2>1. /\ SubSeq(s, 1, k) \in Seq(Label)
        /\ Len(SubSeq(s, 1, k)) = IF 1 <= k THEN k - 1 + 1 ELSE 0
        /\ \A n \in 1 .. k - 1 + 1 : SubSeq(s, 1, k)[n] = s[1 + n - 1]
    BY <1>3, SubSeqProperties
  <2> QED BY <2>1, <1>3
<1> QED BY <1>1, <1>4 DEF Front, k

\* Return
LEMMA FrontDeepens ==
  ASSUME NEW s, Deepens(s), s # <<>>
  PROVE  Deepens(Front(s)) /\ LabelsOf(Front(s)) = LabelsOf(s) \ {Last(s)}
<1>1. Deepens(Front(s))
  <2>1. /\ s \in Seq(Label) /\ Len(s) \in Nat
        /\ \A n, m \in 1 .. Len(s) - 1 : n \in 1 .. Len(s) /\ m \in 1 .. Len(s)
    BY FrontIs DEF Deepens
  <2> QED BY <2>1, FrontIs DEF Deepens
<1>2. \A x : x \in LabelsOf(Front(s)) <=> \E n \in 1 .. Len(s) - 1 : x = s[n]
  BY FrontIs DEF LabelsOf
<1>3. \A x : x \in LabelsOf(s) <=> x = Last(s) \/ \E n \in 1 .. Len(s) - 1 : x = s[n]
  BY FrontIs DEF LabelsOf, Last
<1>4. \A n \in 1 .. Len(s) - 1 : s[n] # Last(s)
  <2> SUFFICES ASSUME NEW n \in 1 .. Len(s) - 1 PROVE s[n] # Last(s)
    OBVIOUS
  <2>1. Level(s[n]) < Level(s[Len(s)]) /\ s[n] \in Label /\ s[Len(s)] \in Label
    BY FrontIs DEF Deepens
  <2> QED BY <2>1, Levels DEF Last
<1> QED BY <1>1, <1>2, <1>3, <1>4

\* Goto
LEMMA ReplacedDeepens ==
  ASSUME NEW s, Deepens(s), s # <<>>, NEW l \in Label, Level(l) = Level(Last(s))
  PROVE  Deepens(Append(Front(s), l)) /\ LabelsOf(Append(Front(s), l)) = (LabelsOf(s) \ {Last(s)}) \cup {l}
<1> DEFINE u == Append(Front(s), l)
<1>1. /\ u \in Seq(Label) /\ Len(u) = Len(s) /\ u[Len(s)] = l
      /\ \A n \in 1 .. Len(s) - 1 : u[n] = s[n]
  BY FrontIs
<1> HIDE DEF u
<1>2. Deepens(u)
  BY <1>1, FrontIs DEF Deepens, Last
<1>3. \A x : x \in LabelsOf(u) <=> x = l \/ \E n \in 1 .. Len(s) - 1 : x = s[n]
  BY <1>1, FrontIs DEF LabelsOf
<1>4. \A x : x \in LabelsOf(Front(s)) <=> \E n \in 1 .. Len(s) - 1 : x = s[n]
  BY FrontIs DEF LabelsOf
<1> QED BY <1>2, <1>3, <1>4, FrontDeepens DEF u

\* Call
LEMMA ExtendedDeepens ==
  ASSUME NEW s, Deepens(s), s # <<>>, NEW l \in Label, Level(l) = Level(Last(s)), NEW r \in Label, Level(l) < Level(r)
  PROVE  /\ Deepens(Front(s) \o <<l, r>>)
         /\ LabelsOf(Front(s) \o <<l, r>>) = (LabelsOf(s) \ {Last(s)}) \cup {l, r}
<1> DEFINE u == Front(s) \o <<l, r>>
<1>1. /\ u \in Seq(Label) /\ Len(u) = Len(s) + 1 /\ u[Len(s)] = l /\ u[Len(s) + 1] = r
      /\ \A n \in 1 .. Len(s) - 1 : u[n] = s[n]
  BY FrontIs
<1> HIDE DEF u
<1>2. Deepens(u)
  <2> SUFFICES ASSUME NEW m \in 1 .. Len(u), NEW n \in 1 .. Len(u), m < n PROVE Level(u[m]) < Level(u[n])
    BY <1>1 DEF Deepens
  <2>1. \A k \in 1 .. Len(s) - 1 : Level(u[k]) < Level(l) /\ Level(u[k]) \in 1 .. 7
    BY <1>1, FrontIs, Levels, SMTT(60) DEF Deepens, Last
  <2>2. Level(l) \in 1 .. 7 /\ Level(r) \in 1 .. 7
    BY Levels
  <2>3. CASE n <= Len(s) - 1
    BY <2>3, <1>1, FrontIs DEF Deepens
  <2>4. CASE n = Len(s)
    BY <2>1, <2>4, <1>1, FrontIs, SMTT(60)
  <2>5. CASE n = Len(s) + 1
    <3>1. m = Len(s) \/ m \in 1 .. Len(s) - 1
      BY <2>5, FrontIs
    <3>2. CASE m = Len(s)
      BY <3>2, <2>5, <1>1, FrontIs
    <3>3. CASE m \in 1 .. Len(s) - 1
      <4>1. Level(u[m]) < Level(l) /\ Level(u[m]) \in 1 .. 7 /\ u[n] = r
        BY <3>3, <2>1, <2>5, <1>1
      <4> QED BY <4>1, <2>2
    <3> QED BY <3>1, <3>2, <3>3
  <2> QED BY <2>3, <2>4, <2>5, <1>1, FrontIs, SMTT(60)
<1>3. \A x : x \in LabelsOf(u) <=> x \in {l, r} \/ \E n \in 1 .. Len(s) - 1 : x = s[n]
  BY <1>1, FrontIs, SMTT(60) DEF LabelsOf
<1>4. \A x : x \in LabelsOf(Front(s)) <=> \E n \in 1 .. Len(s) - 1 : x = s[n]
  BY FrontIs DEF LabelsOf
<1> QED BY <1>2, <1>3, <1>4, FrontDeepens DEF u

-----------------------------------------------------------------------------
(* What a step does to the frames of its thread.                           *)

LEMMA TopFrame ==
  ASSUME Stacked, NEW t \in Thread, NEW l, At(t, l)
  PROVE  /\ l \in Frames(t) /\ l \in Label /\ Frames(t) \subseteq Label
         /\ \A x \in Frames(t) : x = l \/ Level(x) < Level(l)
         /\ Deepens(stack[t]) /\ stack[t] # <<>> /\ Last(stack[t]) = l
BY TopIsDeepest DEF Stacked, At, Frames

LEMMA TopAlone ==
  ASSUME Stacked, NEW t \in Thread, NEW l, At(t, l)
  PROVE  /\ l \in CallLabel => Frames(t) = {l}
         /\ l \in FlushLabel => Frames(t) \cap FlushLabel = {l}
         /\ l \in {"mem.alloc", "mem.evicted"} => Frames(t) \cap FlushLabel = {}
         /\ l \in EvictLabel => Frames(t) \cap EvictLabel = {l}
         /\ l \in RemoveLabel => Frames(t) \cap RemoveLabel = {l}
         /\ l \notin RemoveLabel => Frames(t) \cap RemoveLabel = {}
         /\ l \notin RemoveLabel \cup EvictLabel => Frames(t) \cap EvictLabel = {}
<1>1. l \in Frames(t) /\ l \in Label /\ \A x \in Frames(t) : x \in Label /\ (x = l \/ Level(x) < Level(l))
  BY TopFrame
<1>2. \A x \in Frames(t) : Level(x) \in 1 .. 7
  BY <1>1, Levels
<1>3. ASSUME NEW n, NEW L, \A x \in L : Level(x) = n, Level(l) <= n
      PROVE  Frames(t) \cap L \subseteq {l}
  BY <1>1, <1>2, <1>3
<1>4. l \in CallLabel => Frames(t) = {l}
  BY <1>1, <1>2, Levels
<1>5. l \in FlushLabel => Frames(t) \cap FlushLabel = {l}
  BY <1>1, <1>3, Levels
<1>6. l \in {"mem.alloc", "mem.evicted"} => Frames(t) \cap FlushLabel = {}
  BY <1>1, <1>3, Levels DEF FlushLabel
<1>7. l \in EvictLabel => Frames(t) \cap EvictLabel = {l}
  BY <1>1, <1>3, Levels
<1>8. Frames(t) \cap RemoveLabel \subseteq {l}
  BY <1>1, <1>2, <1>3, Levels
<1>9. l \notin RemoveLabel => Level(l) <= 6
  BY <1>1, Levels DEF Label
<1>10. l \notin RemoveLabel => Frames(t) \cap EvictLabel \subseteq {l}
  BY <1>3, <1>9, Levels
<1> QED BY <1>1, <1>4, <1>5, <1>6, <1>7, <1>8, <1>10

LEMMA OtherFrames ==
  ASSUME Stacked, NEW t \in Thread, NEW s, Deepens(s), stack' = [stack EXCEPT ![t] = s]
  PROVE  /\ Stacked'
         /\ Frames(t)' = LabelsOf(s)
         /\ \A u \in Thread \ {t} : Frames(u)' = Frames(u)
<1>1. stack'[t] = s /\ DOMAIN stack' = Thread /\ \A u \in Thread \ {t} : stack'[u] = stack[u]
  BY DEF Stacked
<1> QED BY <1>1 DEF Stacked, Frames

LEMMA GotoFrames ==
  ASSUME Stacked, NEW t \in Thread, NEW l, At(t, l), NEW m \in Label, Level(m) = Level(l), Goto(t, m)
  PROVE  /\ Stacked'
         /\ Frames(t)' = (Frames(t) \ {l}) \cup {m}
         /\ \A u \in Thread \ {t} : Frames(u)' = Frames(u)
<1>1. stack' = [stack EXCEPT ![t] = Append(Front(stack[t]), m)]
  BY DEF Goto
<1>2. Deepens(stack[t]) /\ stack[t] # <<>> /\ Last(stack[t]) = l
  BY TopFrame
<1>3. Deepens(Append(Front(stack[t]), m)) /\ LabelsOf(Append(Front(stack[t]), m)) = (Frames(t) \ {l}) \cup {m}
  BY <1>2, ReplacedDeepens DEF Frames
<1> QED BY <1>1, <1>3, OtherFrames

LEMMA CallFrames ==
  ASSUME Stacked, NEW t \in Thread, NEW l, At(t, l), NEW m \in Label, Level(m) = Level(l),
         NEW r \in Label, Level(m) < Level(r), Call(t, m, r)
  PROVE  /\ Stacked'
         /\ Frames(t)' = (Frames(t) \ {l}) \cup {m, r}
         /\ \A u \in Thread \ {t} : Frames(u)' = Frames(u)
<1>1. stack' = [stack EXCEPT ![t] = Front(stack[t]) \o <<m, r>>]
  BY DEF Call
<1>2. Deepens(stack[t]) /\ stack[t] # <<>> /\ Last(stack[t]) = l
  BY TopFrame
<1>3. Deepens(Front(stack[t]) \o <<m, r>>) /\ LabelsOf(Front(stack[t]) \o <<m, r>>) = (Frames(t) \ {l}) \cup {m, r}
  BY <1>2, ExtendedDeepens DEF Frames
<1> QED BY <1>1, <1>3, OtherFrames

LEMMA ReturnFrames ==
  ASSUME Stacked, NEW t \in Thread, NEW l, At(t, l), Return(t)
  PROVE  /\ Stacked'
         /\ Frames(t)' = Frames(t) \ {l}
         /\ \A u \in Thread \ {t} : Frames(u)' = Frames(u)
<1>1. stack' = [stack EXCEPT ![t] = Front(stack[t])]
  BY DEF Return
<1>2. Deepens(stack[t]) /\ stack[t] # <<>> /\ Last(stack[t]) = l
  BY TopFrame
<1>3. Deepens(Front(stack[t])) /\ LabelsOf(Front(stack[t])) = Frames(t) \ {l}
  BY <1>2, FrontDeepens DEF Frames
<1> QED BY <1>1, <1>3, OtherFrames

LEMMA SameFrames ==
  ASSUME Stacked, UNCHANGED stack
  PROVE  Stacked' /\ \A u \in Thread : Frames(u)' = Frames(u)
BY DEF Stacked, Frames

\* A thread that makes no call starts one.
LEMMA StartFrames ==
  ASSUME Stacked, NEW t \in Thread, stack[t] = <<>>, NEW s, Deepens(s), stack' = [stack EXCEPT ![t] = s]
  PROVE  /\ Stacked'
         /\ Frames(t) = {} /\ Frames(t)' = LabelsOf(s)
         /\ \A u \in Thread \ {t} : Frames(u)' = Frames(u)
BY OtherFrames, EmptyStack DEF Frames

-----------------------------------------------------------------------------
(* Types                                                                   *)

LEMMA Sizes == MaxBlocks \in Nat \ {0} /\ SliceCount \in Nat \ {0}
BY ConstantsAssumption

LEMMA Nulls == NoItem \notin Item /\ NoSlot \notin Slot
BY ConstantsAssumption

LEMMA NullsTyped == OpTyped(NoOp) /\ FlushTyped(NoFlush) /\ CallTyped(NoDiskCall)
<1>1. NoOp.count = 0 /\ NoOp.want = {} /\ NoOp.slot = NoSlot
  BY DEF NoOp
<1>2. OpTyped(NoOp)
  <2>1. 0 \in 0 .. MaxBlocks
    BY Sizes
  <2>2. \A p \in {} : p[1] \in Block
    OBVIOUS
  <2> QED BY <1>1, <2>1, <2>2 DEF OpTyped
<1>3. FlushTyped(NoFlush) /\ CallTyped(NoDiskCall)
  BY DEF FlushTyped, CallTyped, NoFlush, NoDiskCall
<1> QED BY <1>2, <1>3

LEMMA FieldNames ==
  /\ DOMAIN NoOp = {"key", "item", "count", "pinned", "b", "want", "slot", "held"}
  /\ DOMAIN NoFlush = {"key", "item", "b", "segs", "slot", "held", "pinned", "ok"}
  /\ DOMAIN NoDiskCall = {"slot", "tries", "evicted", "item"}
  /\ DOMAIN NoRemoval = {"key", "item", "b"}
  /\ DOMAIN NullItem = {"key", "count", "pinned", "released"}
BY DEF NoOp, NoFlush, NoDiskCall, NoRemoval, NullItem

\* A step changes the locals of its own thread.
LEMMA OpSet ==
  ASSUME LocalsTyped, NEW t \in Thread, NEW o, OpTyped(o), op' = [op EXCEPT ![t] = o]
  PROVE  /\ DOMAIN op' = Thread /\ (\A u \in Thread : OpTyped(op'[u]))
         /\ op'[t] = o /\ \A u \in Thread \ {t} : op'[u] = op[u]
BY DEF LocalsTyped

LEMMA FlushSet ==
  ASSUME LocalsTyped, NEW t \in Thread, NEW f, FlushTyped(f), flush' = [flush EXCEPT ![t] = f]
  PROVE  /\ DOMAIN flush' = Thread /\ (\A u \in Thread : FlushTyped(flush'[u]))
         /\ flush'[t] = f /\ \A u \in Thread \ {t} : flush'[u] = flush[u]
BY DEF LocalsTyped

LEMMA CallSet ==
  ASSUME LocalsTyped, NEW t \in Thread, NEW c, CallTyped(c), diskCall' = [diskCall EXCEPT ![t] = c]
  PROVE  /\ DOMAIN diskCall' = Thread /\ (\A u \in Thread : CallTyped(diskCall'[u]))
         /\ diskCall'[t] = c /\ \A u \in Thread \ {t} : diskCall'[u] = diskCall[u]
BY DEF LocalsTyped

LEMMA RemovalSet ==
  ASSUME LocalsTyped, NEW t \in Thread, NEW r, DOMAIN r = DOMAIN NoRemoval, removal' = [removal EXCEPT ![t] = r]
  PROVE  /\ DOMAIN removal' = Thread /\ (\A u \in Thread : DOMAIN removal'[u] = DOMAIN NoRemoval)
         /\ removal'[t] = r /\ \A u \in Thread \ {t} : removal'[u] = removal[u]
BY DEF LocalsTyped

LEMMA EvSet ==
  ASSUME EvTyped, NEW k \in Key, NEW t, NEW S
  PROVE  /\ diskEv' \in {diskEv, Track(diskEv, k), Untrack(diskEv, k), Touch(diskEv, t, k), Drop(diskEv, t), Evict(diskEv, S)} => EvTyped'
         /\ S \subseteq Evictable(diskEv) => S \subseteq Key
BY DEF EvTyped, Track, Untrack, Touch, Drop, Evict, Evictable

LEMMA DiskSet ==
  ASSUME StoreTyped, NEW i, NEW b, NEW d \in Slot \cup {NoSlot}, disk' = [disk EXCEPT ![i][b] = d]
  PROVE  disk' \in [Item -> [Block -> Slot \cup {NoSlot}]]
BY DEF StoreTyped

-----------------------------------------------------------------------------
(* The steps, by the routine they are in.                                  *)

\* Of the allocation loops, the eviction loops and the removal.
Inner(t) ==
  \/ MemAllocOk(t) \/ MemAllocEvicts(t) \/ MemAllocFails(t) \/ ProcessedMem(t)
  \/ DiskAllocOk(t) \/ DiskAllocEvicts(t) \/ DiskAllocFails(t)
  \/ ProcessEvictedDisk(t) \/ DiskEmpty(t) \/ ProcessedDisk(t)
  \/ RemoveIndex(t) \/ RemoveBlock(t) \/ RemoveDone(t)

Flushing(t) ==
  \/ ProcessEvictedMem(t)
  \/ FlushBegin(t) \/ FlushDecide(t) \/ FlushDelete(t) \/ FlushEmpty(t) \/ FlushReturn(t)
  \/ FlushTarget(t) \/ FlushAlloc(t) \/ FlushWrite(t) \/ FlushWriteFails(t) \/ FlushDrop(t)

Calling(t) ==
  \/ SetItem(t) \/ SetBlock(t) \/ SetMem(t) \/ SetDisk(t) \/ SetInsert(t)
  \/ ReadBlock(t) \/ ReadDisk(t) \/ PromoteCheck(t) \/ PromoteSet(t)
  \/ PinUntrack(t) \/ UnpinTrack(t)

LEMMA StepIs == \A t \in Thread : Step(t) <=> Inner(t) \/ Flushing(t) \/ Calling(t)
BY DEF Step, Inner, Flushing, Calling

OthersSame(t) == \A u \in Thread \ {t} : Frames(u)' = Frames(u)

OuterKept(t) == Frames(t)' \cap (CallLabel \cup FlushLabel) = Frames(t) \cap (CallLabel \cup FlushLabel)

LEMMA InnerFrames ==
  ASSUME Stacked, NEW t \in Thread, Inner(t)
  PROVE  Stacked' /\ OthersSame(t) /\ OuterKept(t)
<1>1. ASSUME NEW l \in Label \ (CallLabel \cup FlushLabel), At(t, l), Return(t) PROVE Stacked' /\ OthersSame(t) /\ OuterKept(t)
  BY <1>1, ReturnFrames DEF OthersSame, OuterKept
<1>2. ASSUME NEW l \in Label \ (CallLabel \cup FlushLabel), At(t, l), NEW m \in Label \ (CallLabel \cup FlushLabel), Level(l) = Level(m), Goto(t, m)
      PROVE Stacked' /\ OthersSame(t) /\ OuterKept(t)
  BY <1>2, GotoFrames DEF OthersSame, OuterKept
<1>3. ASSUME NEW l \in Label \ (CallLabel \cup FlushLabel), At(t, l), NEW m \in Label \ (CallLabel \cup FlushLabel), Level(l) = Level(m),
             NEW r \in Label \ (CallLabel \cup FlushLabel), Level(m) < Level(r), Call(t, m, r)
      PROVE Stacked' /\ OthersSame(t) /\ OuterKept(t)
  BY <1>3, CallFrames DEF OthersSame, OuterKept
<1>4. ASSUME UNCHANGED stack PROVE Stacked' /\ OthersSame(t) /\ OuterKept(t)
  BY <1>4, SameFrames DEF OthersSame, OuterKept
<1>5. {"mem.alloc", "mem.evicted", "disk.alloc", "disk.evicted", "disk.empty", "remove.index", "remove.block"} \subseteq Label \ (CallLabel \cup FlushLabel)
  BY DEF Label, CallLabel, SetLabel, ReadLabel, PinLabel, FlushLabel, EvictLabel, RemoveLabel
<1>6. /\ Level("mem.alloc") = 2 /\ Level("mem.evicted") = 3 /\ Level("disk.alloc") = 5
      /\ Level("disk.evicted") = 6 /\ Level("disk.empty") = 6 /\ Level("remove.index") = 7 /\ Level("remove.block") = 7
  BY Levels DEF EvictLabel, RemoveLabel
<1>7. CASE MemAllocOk(t) \/ MemAllocFails(t) \/ ProcessedMem(t) \/ DiskAllocOk(t) \/ DiskAllocFails(t) \/ ProcessedDisk(t) \/ RemoveDone(t)
  BY <1>1, <1>5, <1>7 DEF MemAllocOk, MemAllocFails, ProcessedMem, DiskAllocOk, DiskAllocFails, ProcessedDisk, RemoveDone
<1>8. CASE MemAllocEvicts(t) \/ DiskAllocEvicts(t)
  BY <1>3, <1>5, <1>6, <1>8 DEF MemAllocEvicts, DiskAllocEvicts
<1>9. CASE ProcessEvictedDisk(t)
  BY <1>2, <1>4, <1>5, <1>6, <1>9 DEF ProcessEvictedDisk
<1>10. CASE DiskEmpty(t)
  BY <1>2, <1>3, <1>5, <1>6, <1>10 DEF DiskEmpty, ReleaseIfEmpty
<1>11. CASE RemoveIndex(t) \/ RemoveBlock(t)
  BY <1>2, <1>4, <1>5, <1>6, <1>11 DEF RemoveIndex, RemoveBlock
<1> QED BY <1>7, <1>8, <1>9, <1>10, <1>11 DEF Inner

LEMMA InnerKeeps ==
  ASSUME NEW t \in Thread, Inner(t)
  PROVE  UNCHANGED <<op, flush, content>>
BY DEF Inner, MemAllocOk, MemAllocEvicts, MemAllocFails, ProcessedMem, DiskAllocOk, DiskAllocEvicts, DiskAllocFails,
       ProcessEvictedDisk, DiskEmpty, ProcessedDisk, RemoveIndex, RemoveBlock, RemoveDone, store, locals

\* What the steps write to diskCall and removal.
LEMMA CallWritten ==
  ASSUME NEW c, CallTyped(c)
  PROVE  /\ \A S \in SUBSET Key : CallTyped(Retry(c, S)) /\ Retry(c, S).slot = c.slot /\ Retry(c, S).item = c.item
         /\ \A S \in SUBSET Key : CallTyped([c EXCEPT !.evicted = S])
         /\ \A i, k : CallTyped([c EXCEPT !.evicted = @ \ {k}, !.item = i])
         /\ \A i : CallTyped([c EXCEPT !.item = i])
         /\ \A d \in Slot : CallTyped([NoDiskCall EXCEPT !.slot = d])
         /\ CallTyped(NoDiskCall)
BY NullsTyped, FieldNames DEF CallTyped, Retry

LEMMA InnerTyped ==
  ASSUME CallInv, NEW t \in Thread, Inner(t)
  PROVE  StoreTyped' /\ LocalsTyped' /\ EvTyped'
<1> USE DEF CallInv
<1>1. CASE MemAllocOk(t) \/ MemAllocEvicts(t) \/ MemAllocFails(t) \/ ProcessedMem(t) \/ ProcessedDisk(t)
  BY <1>1 DEF MemAllocOk, MemAllocEvicts, MemAllocFails, ProcessedMem, ProcessedDisk, store, locals, StoreTyped, LocalsTyped, EvTyped
<1>2. CASE DiskAllocOk(t)
  <2>1. PICK d \in FreeSlots : diskCall' = [diskCall EXCEPT ![t] = [NoDiskCall EXCEPT !.slot = d]]
    BY <1>2 DEF DiskAllocOk
  <2>2. CallTyped([NoDiskCall EXCEPT !.slot = d])
    BY CallWritten, NullsTyped DEF FreeSlots
  <2>3. DOMAIN diskCall' = Thread /\ \A u \in Thread : CallTyped(diskCall'[u])
    BY <2>1, <2>2, CallSet
  <2> QED BY <1>2, <2>3 DEF DiskAllocOk, store, StoreTyped, LocalsTyped, EvTyped
<1>3. CASE DiskAllocEvicts(t)
  <2>1. PICK S \in SUBSET Evictable(diskEv) : diskEv' = Evict(diskEv, S) /\ diskCall' = [diskCall EXCEPT ![t] = Retry(@, S)]
    BY <1>3 DEF DiskAllocEvicts
  <2>2. S \subseteq Key /\ EvTyped'
    BY <2>1 DEF EvTyped, Evict, Evictable
  <2>3. CallTyped(diskCall[t]) /\ CallTyped(Retry(diskCall[t], S))
    BY <2>2, CallWritten DEF LocalsTyped
  <2>4. DOMAIN diskCall' = Thread /\ \A u \in Thread : CallTyped(diskCall'[u])
    BY <2>1, <2>3, CallSet
  <2> QED BY <1>3, <2>2, <2>4 DEF DiskAllocEvicts, store, StoreTyped, LocalsTyped
<1>4. CASE DiskAllocFails(t)
  <2>1. DOMAIN diskCall' = Thread /\ \A u \in Thread : CallTyped(diskCall'[u])
    BY <1>4, NullsTyped, CallSet DEF DiskAllocFails
  <2> QED BY <1>4, <2>1 DEF DiskAllocFails, store, StoreTyped, LocalsTyped, EvTyped
<1>5. CASE ProcessEvictedDisk(t)
  <2>1. PICK k \in diskCall[t].evicted :
          \/ diskCall' = [diskCall EXCEPT ![t] = [diskCall[t] EXCEPT !.evicted = {}]] /\ disk' = disk
          \/ /\ disk' = [disk EXCEPT ![index[k]] = [b \in Block |-> NoSlot]]
             /\ diskCall' = [diskCall EXCEPT ![t] = [diskCall[t] EXCEPT !.evicted = @ \ {k}, !.item = index[k]]]
    BY <1>5, ZenonT(60) DEF ProcessEvictedDisk
  <2>2. CallTyped(diskCall[t])
    BY DEF LocalsTyped
  <2>3. DOMAIN diskCall' = Thread /\ \A u \in Thread : CallTyped(diskCall'[u])
    <3>1. CallTyped([diskCall[t] EXCEPT !.evicted = {}]) /\ CallTyped([diskCall[t] EXCEPT !.evicted = @ \ {k}, !.item = index[k]])
      BY <2>2, CallWritten
    <3> QED BY <2>1, <3>1, CallSet
  <2>4. disk' \in [Item -> [Block -> Slot \cup {NoSlot}]]
    BY <2>1 DEF StoreTyped
  <2> QED BY <1>5, <2>3, <2>4 DEF ProcessEvictedDisk, StoreTyped, LocalsTyped, EvTyped
<1>6. CASE DiskEmpty(t)
  <2>1. CallTyped([diskCall[t] EXCEPT !.item = NoItem])
    BY CallWritten DEF LocalsTyped
  <2>2. DOMAIN diskCall' = Thread /\ \A u \in Thread : CallTyped(diskCall'[u])
    BY <1>6, <2>1, CallSet DEF DiskEmpty
  <2>3. DOMAIN removal' = Thread /\ \A u \in Thread : DOMAIN removal'[u] = DOMAIN NoRemoval
    BY <1>6, FieldNames DEF DiskEmpty, ReleaseIfEmpty, LocalsTyped
  <2>4. DOMAIN item' = Item /\ \A i \in Item : DOMAIN item'[i] = DOMAIN NullItem /\ item'[i].count \in 0 .. MaxBlocks
    BY <1>6, FieldNames DEF DiskEmpty, ReleaseIfEmpty, StoreTyped
  <2> QED BY <1>6, <2>2, <2>3, <2>4 DEF DiskEmpty, StoreTyped, LocalsTyped, EvTyped
<1>7. CASE RemoveIndex(t)
  BY <1>7 DEF RemoveIndex, locals, StoreTyped, LocalsTyped, EvTyped
<1>8. CASE RemoveBlock(t)
  <2>1. disk' \in [Item -> [Block -> Slot \cup {NoSlot}]]
    BY <1>8, DiskSet DEF RemoveBlock
  <2>2. DOMAIN removal' = Thread /\ \A u \in Thread : DOMAIN removal'[u] = DOMAIN NoRemoval
    BY <1>8, FieldNames DEF RemoveBlock, LocalsTyped
  <2> QED BY <1>8, <2>1, <2>2 DEF RemoveBlock, StoreTyped, LocalsTyped, EvTyped
<1>9. CASE RemoveDone(t)
  <2>1. DOMAIN removal' = Thread /\ \A u \in Thread : DOMAIN removal'[u] = DOMAIN NoRemoval
    BY <1>9, FieldNames DEF RemoveDone, LocalsTyped
  <2>2. EvTyped'
    BY <1>9 DEF RemoveDone, EvTyped, Untrack
  <2> QED BY <1>9, <2>1, <2>2 DEF RemoveDone, store, StoreTyped, LocalsTyped
<1> QED BY <1>1, <1>2, <1>3, <1>4, <1>5, <1>6, <1>7, <1>8, <1>9 DEF Inner

LEMMA InnerCalls ==
  ASSUME CallInv, NEW t \in Thread, Inner(t)
  PROVE  CallInv'
<1>1. Stacked' /\ OthersSame(t) /\ OuterKept(t) /\ op' = op /\ flush' = flush
  BY InnerFrames, InnerKeeps DEF CallInv
<1>2. OpFits(Frames(t), op[t]) /\ FlushFits(Frames(t), flush[t])
  BY DEF CallInv, LocalsFit
<1>3. OpFits(Frames(t)', op'[t])
  BY <1>1, <1>2 DEF OpFits, OuterKept, CallLabel, ReadLabel
<1>4. FlushFits(Frames(t)', flush'[t])
  BY <1>1, <1>2 DEF FlushFits, OuterKept, FlushLabel
<1>5. LocalsFit'
  BY <1>1, <1>3, <1>4 DEF OthersSame, CallInv, LocalsFit
<1> QED BY <1>1, <1>5, InnerTyped DEF CallInv

-----------------------------------------------------------------------------
(* Steps of a flush.                                                       *)

CallsKept(t) == Frames(t)' \cap CallLabel = Frames(t) \cap CallLabel

FlushMoves(t, F) == Stacked' /\ OthersSame(t) /\ CallsKept(t) /\ Frames(t)' \cap FlushLabel = F

LEMMA FlushFrames ==
  ASSUME Stacked, NEW t \in Thread, NEW l \in FlushLabel, At(t, l)
  PROVE  /\ Return(t) => FlushMoves(t, {})
         /\ \A m \in FlushLabel : Goto(t, m) => FlushMoves(t, {m})
         /\ \A m \in FlushLabel : Call(t, m, "disk.alloc") \/ Call(t, m, "remove.index") => FlushMoves(t, {m})
<1>1. Frames(t) \cap FlushLabel = {l}
  BY TopAlone
<1>2. FlushLabel \cap CallLabel = {} /\ FlushLabel \subseteq Label /\ {"disk.alloc", "remove.index"} \subseteq Label \ (FlushLabel \cup CallLabel)
  BY DEF Label, FlushLabel, CallLabel, SetLabel, ReadLabel, PinLabel, RemoveLabel
<1>3. Level("disk.alloc") = 5 /\ Level("remove.index") = 7 /\ \A m \in FlushLabel : Level(m) = 4
  BY Levels DEF RemoveLabel
<1>4. Return(t) => FlushMoves(t, {})
  BY <1>1, <1>2, ReturnFrames DEF FlushMoves, OthersSame, CallsKept
<1>5. \A m \in FlushLabel : Goto(t, m) => FlushMoves(t, {m})
  BY <1>1, <1>2, <1>3, GotoFrames DEF FlushMoves, OthersSame, CallsKept
<1>6. ASSUME NEW m \in FlushLabel, NEW r \in {"disk.alloc", "remove.index"}, Call(t, m, r) PROVE FlushMoves(t, {m})
  <2>1. r \in Label /\ Level(m) = Level(l) /\ Level(m) < Level(r)
    BY <1>2, <1>3
  <2>2. Stacked' /\ OthersSame(t) /\ Frames(t)' = (Frames(t) \ {l}) \cup {m, r}
    BY <1>2, <1>6, <2>1, CallFrames DEF OthersSame
  <2> QED BY <1>1, <1>2, <2>2 DEF FlushMoves, CallsKept
<1> QED BY <1>4, <1>5, <1>6

\* What the steps write to flush.
LEMMA FlushWritten ==
  ASSUME NEW f, FlushTyped(f)
  PROVE  /\ \A k, i, b : FlushTyped([NoFlush EXCEPT !.key = k, !.item = i, !.b = b])
         /\ \A h : FlushTyped([f EXCEPT !.held = h])
         /\ \A s, p : FlushTyped([f EXCEPT !.segs = s, !.pinned = p])
         /\ \A d \in Slot \cup {NoSlot} : FlushTyped([f EXCEPT !.slot = d])
         /\ FlushTyped([f EXCEPT !.ok = TRUE, !.slot = NoSlot])
BY NullsTyped, FieldNames DEF FlushTyped

\* Its key, item and block.
Target(f) == <<f.key, f.item, f.b>>

LEMMA FlushKeepsTarget ==
  ASSUME NEW F, NEW G, NEW f, NEW g, FlushFits(F, f), F \cap FlushLabel # {}, NEW m \in FlushLabel, G \cap FlushLabel = {m},
         g.key = f.key, g.item = f.item, g.b = f.b, g.slot # NoSlot => m = "flush.write", DcheckOn /\ m = "flush.alloc" => g.segs = Slice
  PROVE  FlushFits(G, g)
BY DEF FlushFits, FlushLabel

LEMMA FlushEnds ==
  ASSUME NEW G, G \cap FlushLabel = {}
  PROVE  FlushFits(G, NoFlush)
BY DEF FlushFits, FlushLabel, NoFlush

LEMMA FlushStepKeeps ==
  ASSUME NEW t \in Thread, Flushing(t)
  PROVE  UNCHANGED <<op, index>>
BY DEF Flushing, ProcessEvictedMem, FlushBegin, FlushDecide, FlushDelete, FlushEmpty, FlushReturn, FlushTarget, FlushAlloc,
       FlushWrite, FlushWriteFails, FlushDrop, store, locals

\* A flush step is done when its frames and its flush are.
LEMMA FlushStep ==
  ASSUME CallInv, NEW t \in Thread, UNCHANGED op,
         Stacked', OthersSame(t), CallsKept(t), \A u \in Thread \ {t} : flush'[u] = flush[u],
         FlushFits(Frames(t)', flush'[t])
  PROVE  LocalsFit'
<1>1. OpFits(Frames(t)', op'[t])
  BY DEF CallInv, LocalsFit, OpFits, CallsKept, CallLabel, ReadLabel
<1> QED BY <1>1 DEF CallInv, LocalsFit, OthersSame

LEMMA ProcessEvictedMemCalls == ASSUME CallInv, NEW t \in Thread, ProcessEvictedMem(t) PROVE CallInv'
<1>1. CASE UNCHANGED <<stack, flush>>
  BY <1>1, SameFrames DEF ProcessEvictedMem, CallInv, StoreTyped, LocalsTyped, EvTyped, LocalsFit
<1>2. CASE ~UNCHANGED <<stack, flush>>
  <2>1. PICK k \in Key, b \in Block :
          /\ index[k] # NoItem
          /\ flush' = [flush EXCEPT ![t] = [NoFlush EXCEPT !.key = k, !.item = index[k], !.b = b]]
          /\ Call(t, "mem.evicted", "flush.begin")
    BY <1>2 DEF ProcessEvictedMem
  <2> DEFINE f == [NoFlush EXCEPT !.key = k, !.item = index[k], !.b = b]
  <2>2. FlushTyped(f) /\ f.key = k /\ f.item = index[k] /\ f.b = b /\ f.slot = NoSlot
    BY FlushWritten, NullsTyped DEF NoFlush
  <2>3. DOMAIN flush' = Thread /\ (\A u \in Thread : FlushTyped(flush'[u])) /\ flush'[t] = f /\ \A u \in Thread \ {t} : flush'[u] = flush[u]
    BY <2>1, <2>2, FlushSet DEF CallInv
  <2>4. Stacked' /\ OthersSame(t) /\ Frames(t)' = (Frames(t) \ {"mem.evicted"}) \cup {"mem.evicted", "flush.begin"}
    <3>1. Level("mem.evicted") = 3 /\ Level("flush.begin") = 4 /\ {"mem.evicted", "flush.begin"} \subseteq Label
      BY Levels DEF FlushLabel
    <3> QED BY <2>1, <3>1, CallFrames DEF CallInv, OthersSame, ProcessEvictedMem
  <2>5. Frames(t) \cap FlushLabel = {}
    BY TopAlone DEF CallInv, ProcessEvictedMem
  <2>6. CallsKept(t) /\ Frames(t)' \cap FlushLabel = {"flush.begin"}
    BY <2>4, <2>5 DEF CallsKept, FlushLabel, CallLabel, SetLabel, ReadLabel, PinLabel
  <2>7. index[k] \in Item
    BY <2>1 DEF CallInv, StoreTyped
  <2>8. FlushFits(Frames(t)', flush'[t])
    BY <2>2, <2>3, <2>6, <2>7 DEF FlushFits, FlushLabel
  <2>9. LocalsFit'
    BY <2>3, <2>4, <2>6, <2>8, FlushStep DEF ProcessEvictedMem
  <2> QED BY <2>3, <2>4, <2>9 DEF ProcessEvictedMem, CallInv, StoreTyped, LocalsTyped, EvTyped
<1> QED BY <1>1, <1>2

\* The flush of a thread that is in one.
LEMMA InFlush ==
  ASSUME CallInv, NEW t \in Thread, NEW l \in FlushLabel, At(t, l)
  PROVE  /\ flush[t].key \in Key /\ flush[t].item \in Item /\ flush[t].b \in Block
         /\ FlushTyped(flush[t])
         /\ FlushFits(Frames(t), flush[t]) /\ Frames(t) \cap FlushLabel = {l}
         /\ flush[t].slot # NoSlot => l = "flush.write"
         /\ DcheckOn /\ l = "flush.alloc" => flush[t].segs = Slice
<1>1. Frames(t) \cap FlushLabel = {l} /\ FlushFits(Frames(t), flush[t]) /\ FlushTyped(flush[t])
  BY TopAlone DEF CallInv, LocalsFit, LocalsTyped
<1> QED BY <1>1 DEF FlushFits, FlushLabel

\* What every step of a flush leaves: g is the new flush.
FlushDone(t, g) ==
  /\ Stacked' /\ OthersSame(t) /\ LocalsFit'
  /\ DOMAIN flush' = Thread /\ \A u \in Thread : FlushTyped(flush'[u])
  /\ flush'[t] = g /\ \A u \in Thread \ {t} : flush'[u] = flush[u]

LEMMA FlushGivesUp ==
  ASSUME CallInv, NEW t \in Thread, NEW l \in FlushLabel, At(t, l), EndFlush(t), UNCHANGED op
  PROVE  FlushDone(t, NoFlush) /\ FlushMoves(t, {})
<1>1. FlushMoves(t, {})
  BY FlushFrames DEF CallInv, EndFlush
<1>2. DOMAIN flush' = Thread /\ (\A u \in Thread : FlushTyped(flush'[u])) /\ flush'[t] = NoFlush /\ \A u \in Thread \ {t} : flush'[u] = flush[u]
  BY NullsTyped, FlushSet DEF CallInv, EndFlush
<1>3. LocalsFit'
  BY <1>1, <1>2, FlushEnds, FlushStep DEF FlushMoves
<1> QED BY <1>1, <1>2, <1>3 DEF FlushDone, FlushMoves

FlushPut(t, g) == /\ DOMAIN flush' = Thread /\ \A u \in Thread : FlushTyped(flush'[u])
                  /\ flush'[t] = g /\ \A u \in Thread \ {t} : flush'[u] = flush[u]

LEMMA FlushGoesOn ==
  ASSUME CallInv, NEW t \in Thread, NEW l \in FlushLabel, At(t, l), UNCHANGED op,
         NEW m \in FlushLabel, Goto(t, m) \/ Call(t, m, "disk.alloc") \/ Call(t, m, "remove.index"),
         NEW g, FlushPut(t, g), Target(g) = Target(flush[t]),
         g.slot # NoSlot => m = "flush.write", DcheckOn /\ m = "flush.alloc" => g.segs = Slice
  PROVE  FlushDone(t, g) /\ FlushMoves(t, {m})
<1>1. FlushMoves(t, {m})
  BY FlushFrames DEF CallInv
<1>2. flush'[t] = g /\ \A u \in Thread \ {t} : flush'[u] = flush[u]
  BY DEF FlushPut
<1>3. FlushFits(Frames(t)', g)
  BY <1>1, InFlush, FlushKeepsTarget DEF FlushMoves, Target
<1>4. LocalsFit'
  BY <1>1, <1>2, <1>3, FlushStep DEF FlushMoves
<1> QED BY <1>1, <1>4 DEF FlushDone, FlushMoves, FlushPut

LEMMA FlushSame == ASSUME CallInv, NEW t \in Thread, UNCHANGED flush PROVE FlushPut(t, flush[t])
BY DEF CallInv, LocalsTyped, FlushPut

LEMMA FlushPuts == ASSUME CallInv, NEW t \in Thread, NEW g, FlushTyped(g), flush' = [flush EXCEPT ![t] = g] PROVE FlushPut(t, g)
BY FlushSet DEF CallInv, FlushPut

LEMMA FlushBeginCalls == ASSUME CallInv, NEW t \in Thread, FlushBegin(t) PROVE CallInv'
<1> DEFINE f == flush[t]
           g == [f EXCEPT !.held = f.key \in diskEv.tracked]
<1>1. At(t, "flush.begin") /\ "flush.begin" \in FlushLabel /\ "flush.decide" \in FlushLabel
  BY DEF FlushBegin, FlushLabel
<1>2. f.key \in Key /\ FlushTyped(f) /\ f.slot = NoSlot
  BY <1>1, InFlush
<1>3. FlushTyped(g) /\ Target(g) = Target(f) /\ g.slot = NoSlot
  <2>1. \A h : FlushTyped([f EXCEPT !.held = h])
    BY <1>2, FlushWritten
  <2>2. \A h : Target([f EXCEPT !.held = h]) = Target(f) /\ [f EXCEPT !.held = h].slot = NoSlot
    BY <1>2, FieldNames DEF FlushTyped, Target
  <2> QED BY Zenon, <2>1, <2>2
<1>4. EvTyped'
  BY <1>2, EvSet DEF FlushBegin, CallInv
<1>5. FlushDone(t, NoFlush) \/ FlushDone(t, g)
  <2>1. CASE EndFlush(t)
    BY <1>1, <2>1, FlushGivesUp DEF FlushBegin
  <2>2. CASE flush' = [flush EXCEPT ![t] = g] /\ Goto(t, "flush.decide")
    <3>1. FlushPut(t, g)
      BY <1>3, <2>2, FlushPuts
    <3>2. UNCHANGED op
      BY DEF FlushBegin
    <3> HIDE DEF g
    <3> QED BY <1>1, <1>3, <2>2, <3>1, <3>2, FlushGoesOn
  <2> QED BY <2>1, <2>2 DEF FlushBegin
<1> QED BY <1>4, <1>5 DEF FlushDone, FlushBegin, CallInv, StoreTyped, LocalsTyped, store

LEMMA FlushDecideCalls == ASSUME CallInv, NEW t \in Thread, FlushDecide(t) PROVE CallInv'
<1> DEFINE f == flush[t]
           g == [f EXCEPT !.segs = mem[f.item][f.b].slices, !.pinned = item[f.item].pinned]
<1>1. At(t, "flush.decide") /\ "flush.decide" \in FlushLabel /\ {"flush.target", "flush.delete"} \subseteq FlushLabel
  BY DEF FlushDecide, FlushLabel
<1>2. f.key \in Key /\ FlushTyped(f) /\ f.slot = NoSlot
  BY <1>1, InFlush
<1>3. FlushTyped(g) /\ Target(g) = Target(f) /\ g.slot = NoSlot
  BY <1>2, FlushWritten, FieldNames DEF FlushTyped, Target
<1>4. EvTyped'
  BY <1>2, EvSet DEF FlushDecide, CallInv
<1>5. \/ EndFlush(t)
      \/ flush' = [flush EXCEPT ![t] = g] /\ Goto(t, "flush.target")
      \/ UNCHANGED flush /\ Goto(t, "flush.delete")
  BY DEF FlushDecide
<1>6. \E h : FlushDone(t, h)
  <2>1. UNCHANGED op
    BY DEF FlushDecide
  <2>2. CASE EndFlush(t)
    BY <1>1, <2>1, <2>2, FlushGivesUp
  <2>3. CASE flush' = [flush EXCEPT ![t] = g] /\ Goto(t, "flush.target")
    <3>1. FlushPut(t, g)
      BY <1>3, <2>3, FlushPuts
    <3> HIDE DEF g
    <3> QED BY <1>1, <1>3, <2>1, <2>3, <3>1, FlushGoesOn
  <2>4. CASE UNCHANGED flush /\ Goto(t, "flush.delete")
    BY <1>1, <1>2, <2>1, <2>4, FlushSame, FlushGoesOn
  <2> QED BY <1>5, <2>2, <2>3, <2>4
<1> QED BY <1>4, <1>6 DEF FlushDone, FlushDecide, CallInv, StoreTyped, LocalsTyped, store

LEMMA FlushDeleteCalls == ASSUME CallInv, NEW t \in Thread, FlushDelete(t) PROVE CallInv'
<1>1. At(t, "flush.delete") /\ "flush.delete" \in FlushLabel /\ "flush.empty" \in FlushLabel
  BY DEF FlushDelete, FlushLabel
<1>2. FlushDone(t, flush[t])
  BY <1>1, InFlush, FlushSame, FlushGoesOn DEF FlushDelete, locals
<1>3. disk' \in [Item -> [Block -> Slot \cup {NoSlot}]]
  BY DiskSet DEF FlushDelete, CallInv
<1> QED BY <1>2, <1>3 DEF FlushDone, FlushDelete, CallInv, StoreTyped, LocalsTyped, EvTyped, locals

LEMMA FlushEmptyCalls == ASSUME CallInv, NEW t \in Thread, FlushEmpty(t) PROVE CallInv'
<1>1. At(t, "flush.empty") /\ "flush.empty" \in FlushLabel /\ "flush.return" \in FlushLabel
  BY DEF FlushEmpty, FlushLabel
<1>2. FlushDone(t, flush[t])
  BY <1>1, InFlush, FlushSame, FlushGoesOn DEF FlushEmpty, ReleaseIfEmpty
<1>3. DOMAIN removal' = Thread /\ \A u \in Thread : DOMAIN removal'[u] = DOMAIN NoRemoval
  BY FieldNames DEF FlushEmpty, ReleaseIfEmpty, CallInv, LocalsTyped
<1>4. DOMAIN item' = Item /\ \A i \in Item : DOMAIN item'[i] = DOMAIN NullItem /\ item'[i].count \in 0 .. MaxBlocks
  BY FieldNames DEF FlushEmpty, ReleaseIfEmpty, CallInv, StoreTyped
<1> QED BY <1>2, <1>3, <1>4 DEF FlushDone, FlushEmpty, CallInv, StoreTyped, LocalsTyped, EvTyped

LEMMA FlushReturnCalls == ASSUME CallInv, NEW t \in Thread, FlushReturn(t) PROVE CallInv'
<1>1. At(t, "flush.return") /\ "flush.return" \in FlushLabel
  BY DEF FlushReturn, FlushLabel
<1>2. FlushDone(t, NoFlush)
  BY <1>1, FlushGivesUp DEF FlushReturn
<1>3. EvTyped'
  BY DEF FlushReturn, CallInv, EvTyped, Drop
<1> QED BY <1>2, <1>3 DEF FlushDone, FlushReturn, CallInv, StoreTyped, LocalsTyped, store

LEMMA FlushTargetCalls == ASSUME CallInv, NEW t \in Thread, FlushTarget(t) PROVE CallInv'
<1> DEFINE f == flush[t]
           d == disk[f.item][f.b]
           g == [f EXCEPT !.slot = d]
<1>1. At(t, "flush.target") /\ "flush.target" \in FlushLabel /\ {"flush.write", "flush.alloc"} \subseteq FlushLabel
  BY DEF FlushTarget, FlushLabel
<1>2. f.item \in Item /\ f.b \in Block /\ FlushTyped(f) /\ f.slot = NoSlot /\ d \in Slot \cup {NoSlot}
  BY <1>1, InFlush DEF CallInv, StoreTyped
<1>3. FlushTyped(g) /\ Target(g) = Target(f)
  BY <1>2, FlushWritten, FieldNames DEF FlushTyped, Target
<1>4. CASE flush' = [flush EXCEPT ![t] = g] /\ Goto(t, "flush.write") /\ UNCHANGED diskCall
  <2>1. FlushDone(t, g)
    <3>1. FlushPut(t, g) /\ UNCHANGED op
      BY <1>3, <1>4, FlushPuts DEF FlushTarget
    <3> HIDE DEF g
    <3> QED BY <1>1, <1>3, <1>4, <3>1, FlushGoesOn
  <2> QED BY <1>4, <2>1 DEF FlushDone, FlushTarget, CallInv, StoreTyped, LocalsTyped, EvTyped, store
<1>5. CASE UNCHANGED flush /\ Call(t, "flush.alloc", "disk.alloc") /\ (DcheckOn => f.segs = Slice) /\ diskCall' = [diskCall EXCEPT ![t] = NoDiskCall]
  <2>1. FlushDone(t, f)
    BY <1>1, <1>2, <1>5, FlushSame, FlushGoesOn DEF FlushTarget
  <2>2. DOMAIN diskCall' = Thread /\ \A u \in Thread : CallTyped(diskCall'[u])
    BY <1>5, NullsTyped, CallSet DEF CallInv
  <2> QED BY <2>1, <2>2 DEF FlushDone, FlushTarget, CallInv, StoreTyped, LocalsTyped, EvTyped, store
<1> QED BY <1>4, <1>5 DEF FlushTarget

LEMMA FlushAllocCalls == ASSUME CallInv, NEW t \in Thread, FlushAlloc(t) PROVE CallInv'
<1> DEFINE f == flush[t]
           d == diskCall[t].slot
           g == [f EXCEPT !.slot = d]
           m == IF d = NoSlot THEN "flush.drop" ELSE "flush.write"
<1>1. At(t, "flush.alloc") /\ "flush.alloc" \in FlushLabel /\ m \in FlushLabel
  BY DEF FlushAlloc, FlushLabel
<1>2. FlushTyped(f) /\ d \in Slot \cup {NoSlot}
  BY <1>1, InFlush DEF CallInv, LocalsTyped, CallTyped
<1>3. FlushTyped(g) /\ Target(g) = Target(f) /\ g.slot = d
  BY <1>2, FlushWritten, FieldNames DEF FlushTyped, Target
<1>4. FlushDone(t, g)
  <2>1. flush' = [flush EXCEPT ![t] = g] /\ Goto(t, m) /\ UNCHANGED op
    BY DEF FlushAlloc
  <2>2. (g.slot # NoSlot => m = "flush.write") /\ m # "flush.alloc"
    BY <1>3
  <2>3. FlushPut(t, g)
    BY <1>3, <2>1, FlushPuts
  <2> HIDE DEF m, g
  <2> QED BY <1>1, <1>3, <2>1, <2>2, <2>3, FlushGoesOn
<1>5. DOMAIN diskCall' = Thread /\ \A u \in Thread : CallTyped(diskCall'[u])
  BY NullsTyped, CallSet DEF CallInv, FlushAlloc
<1> QED BY <1>4, <1>5 DEF FlushDone, FlushAlloc, CallInv, StoreTyped, LocalsTyped, EvTyped, store

LEMMA FlushWriteCalls == ASSUME CallInv, NEW t \in Thread, FlushWrite(t) \/ FlushWriteFails(t) PROVE CallInv'
<1> DEFINE f == flush[t]
           g == [f EXCEPT !.ok = TRUE, !.slot = NoSlot]
           h == [f EXCEPT !.slot = NoSlot]
<1>1. At(t, "flush.write") /\ "flush.write" \in FlushLabel /\ "flush.drop" \in FlushLabel
  BY DEF FlushWrite, FlushWriteFails, FlushLabel
<1>2. FlushTyped(f) /\ f.slot \in Slot \cup {NoSlot}
  BY <1>1, InFlush DEF FlushTyped
<1>3. FlushTyped(g) /\ Target(g) = Target(f) /\ g.slot = NoSlot
  BY <1>2, FlushWritten, FieldNames DEF FlushTyped, Target
<1>4. FlushTyped(h) /\ Target(h) = Target(f) /\ h.slot = NoSlot
  BY <1>2, FlushWritten, FieldNames DEF FlushTyped, Target
<1>5. CASE FlushWrite(t)
  <2>1. FlushDone(t, g)
    <3>1. FlushPut(t, g) /\ UNCHANGED op /\ Goto(t, "flush.drop")
      BY <1>3, <1>5, FlushPuts DEF FlushWrite
    <3> HIDE DEF g
    <3> QED BY <1>1, <1>3, <3>1, FlushGoesOn
  <2>2. disk' \in [Item -> [Block -> Slot \cup {NoSlot}]]
    BY <1>2, <1>5, DiskSet DEF FlushWrite, CallInv
  <2>3. DOMAIN content' = Slot
    BY <1>5 DEF FlushWrite, CallInv, StoreTyped
  <2> QED BY <1>5, <2>1, <2>2, <2>3 DEF FlushDone, FlushWrite, CallInv, StoreTyped, LocalsTyped, EvTyped
<1>6. CASE FlushWriteFails(t)
  <2>1. FlushDone(t, h)
    <3>1. FlushPut(t, h) /\ UNCHANGED op /\ Goto(t, "flush.drop")
      BY <1>4, <1>6, FlushPuts DEF FlushWriteFails
    <3> HIDE DEF h
    <3> QED BY <1>1, <1>4, <3>1, FlushGoesOn
  <2> QED BY <1>6, <2>1 DEF FlushDone, FlushWriteFails, CallInv, StoreTyped, LocalsTyped, EvTyped, store
<1> QED BY <1>5, <1>6

LEMMA FlushDropCalls == ASSUME CallInv, NEW t \in Thread, FlushDrop(t) PROVE CallInv'
<1>1. At(t, "flush.drop") /\ "flush.drop" \in FlushLabel
  BY DEF FlushDrop, FlushLabel
<1>2. FlushDone(t, NoFlush)
  BY <1>1, FlushGivesUp DEF FlushDrop
<1>3. EvTyped'
  BY <1>1, InFlush, EvSet DEF FlushDrop, CallInv
<1> QED BY <1>2, <1>3 DEF FlushDone, FlushDrop, CallInv, StoreTyped, LocalsTyped

LEMMA FlushingCalls == ASSUME CallInv, NEW t \in Thread, Flushing(t) PROVE CallInv'
BY ProcessEvictedMemCalls, FlushBeginCalls, FlushDecideCalls, FlushDeleteCalls, FlushEmptyCalls, FlushReturnCalls,
   FlushTargetCalls, FlushAllocCalls, FlushWriteCalls, FlushDropCalls DEF Flushing

-----------------------------------------------------------------------------
(* Steps of the API call itself, and its start.                            *)

CallTo(t, F) == Stacked' /\ OthersSame(t) /\ Frames(t)' = F

OpPut(t, o) == /\ DOMAIN op' = Thread /\ \A u \in Thread : OpTyped(op'[u])
               /\ op'[t] = o /\ \A u \in Thread \ {t} : op'[u] = op[u]

LEMMA OpSame == ASSUME CallInv, NEW t \in Thread, UNCHANGED op PROVE OpPut(t, op[t])
BY DEF CallInv, LocalsTyped, OpPut

LEMMA OpPuts == ASSUME CallInv, NEW t \in Thread, NEW o, OpTyped(o), op' = [op EXCEPT ![t] = o] PROVE OpPut(t, o)
BY OpSet DEF CallInv, OpPut

LEMMA CallFramesTo ==
  ASSUME CallInv, NEW t \in Thread, NEW l \in CallLabel, At(t, l)
  PROVE  /\ Frames(t) = {l}
         /\ Return(t) => CallTo(t, {})
         /\ \A m \in CallLabel : Goto(t, m) => CallTo(t, {m})
         /\ \A m \in CallLabel : \A r \in {"mem.alloc", "disk.alloc"} : Call(t, m, r) => CallTo(t, {m, r})
<1>1. Frames(t) = {l}
  BY TopAlone DEF CallInv
<1>2. CallLabel \subseteq Label /\ {"mem.alloc", "disk.alloc"} \subseteq Label
  BY Levels
<1>3. Level("mem.alloc") = 2 /\ Level("disk.alloc") = 5 /\ \A m \in CallLabel : Level(m) = 1
  BY Levels
<1>4. Return(t) => CallTo(t, {})
  BY <1>1, ReturnFrames DEF CallTo, OthersSame, CallInv
<1>5. \A m \in CallLabel : Goto(t, m) => CallTo(t, {m})
  BY <1>1, <1>2, <1>3, GotoFrames DEF CallTo, OthersSame, CallInv
<1>6. ASSUME NEW m \in CallLabel, NEW r \in {"mem.alloc", "disk.alloc"}, Call(t, m, r) PROVE CallTo(t, {m, r})
  <2>1. r \in Label /\ Level(m) = Level(l) /\ Level(m) < Level(r) /\ m \in Label
    BY <1>2, <1>3
  <2>2. Stacked' /\ OthersSame(t) /\ Frames(t)' = (Frames(t) \ {l}) \cup {m, r}
    BY <1>6, <2>1, CallFrames DEF OthersSame, CallInv
  <2> QED BY <1>1, <2>2 DEF CallTo
<1> QED BY <1>1, <1>4, <1>5, <1>6

OpDone(t, F, o) == CallTo(t, F) /\ OpPut(t, o) /\ LocalsFit'

LEMMA OpStep ==
  ASSUME CallInv, NEW t \in Thread, NEW l \in CallLabel, Frames(t) \subseteq {l},
         NEW F, CallTo(t, F), F \cap FlushLabel = {}, NEW o, OpPut(t, o), OpFits(F, o), UNCHANGED flush
  PROVE  OpDone(t, F, o)
<1>1. FlushFits(Frames(t), flush[t])
  BY DEF CallInv, LocalsFit
<1>2. "flush.write" \notin Frames(t)
  BY DEF CallLabel, SetLabel, ReadLabel, PinLabel
<1>3. FlushFits(Frames(t)', flush'[t])
  BY <1>1, <1>2 DEF FlushFits, CallTo, FlushLabel
<1> QED BY <1>3 DEF OpDone, CallTo, OpPut, OthersSame, CallInv, LocalsFit

LEMMA CallFinishes ==
  ASSUME CallInv, NEW t \in Thread, NEW l \in CallLabel, At(t, l), Finish(t), UNCHANGED flush
  PROVE  OpDone(t, {}, NoOp)
<1>1. CallTo(t, {}) /\ Frames(t) = {l}
  BY CallFramesTo DEF Finish
<1>2. OpPut(t, NoOp)
  BY NullsTyped, OpPuts DEF Finish
<1>3. OpFits({}, NoOp)
  BY DEF OpFits, NoOp
<1> QED BY <1>1, <1>2, <1>3, OpStep

SameObject(o, p) == o.key = p.key /\ o.item = p.item

\* The locals of a call in progress.
LEMMA InCall ==
  ASSUME CallInv, NEW t \in Thread, NEW l \in CallLabel, At(t, l)
  PROVE  /\ op[t].key \in Key /\ op[t].item \in Item /\ OpTyped(op[t]) /\ Frames(t) = {l}
         /\ l \in ReadLabel => op[t].b \in Block
         /\ op[t].slot # NoSlot <=> l = "read.disk"
<1>1. Frames(t) = {l} /\ OpFits(Frames(t), op[t]) /\ OpTyped(op[t])
  BY TopAlone DEF CallInv, LocalsFit, LocalsTyped
<1> QED BY <1>1 DEF OpFits, CallLabel

LEMMA CallGoesOn ==
  ASSUME CallInv, NEW t \in Thread, NEW l \in CallLabel, At(t, l), NEW m \in CallLabel,
         NEW o, OpPut(t, o), SameObject(o, op[t]), m \in ReadLabel => o.b \in Block, o.slot # NoSlot <=> m = "read.disk", UNCHANGED flush
  PROVE  /\ CallTo(t, {m}) => OpDone(t, {m}, o)
         /\ \A r \in {"mem.alloc", "disk.alloc"} : CallTo(t, {m, r}) => OpDone(t, {m, r}, o)
<1>1. o.key \in Key /\ o.item \in Item
  BY InCall DEF SameObject
<1>2. \A F : F \cap CallLabel = {m} => OpFits(F, o)
  BY <1>1 DEF OpFits, CallLabel, ReadLabel
<1>3. {m} \cap FlushLabel = {} /\ \A r \in {"mem.alloc", "disk.alloc"} : {m, r} \cap FlushLabel = {} /\ {m, r} \cap CallLabel = {m}
  BY DEF FlushLabel, CallLabel, SetLabel, ReadLabel, PinLabel
<1>4. Frames(t) \subseteq {l}
  BY InCall
<1> QED BY <1>2, <1>3, <1>4, OpStep

\* A set that goes on has its object still.
SetGoesOn(t) == \/ Frames(t)' = {} /\ op'[t].item = NoItem
                \/ /\ Frames(t)' \cap CallLabel \subseteq SetLabel \ {"set.item"}
                   /\ SameObject(op'[t], op[t])

LEMMA SetDone ==
  ASSUME NEW t \in Thread, NEW m \in SetLabel \ {"set.item"}, NEW o, SameObject(o, op[t]),
         NEW r \in {"mem.alloc", "disk.alloc"}, OpDone(t, {m}, o) \/ OpDone(t, {m, r}, o) \/ OpDone(t, {}, NoOp)
  PROVE  SetGoesOn(t) /\ Stacked' /\ LocalsFit' /\ DOMAIN op' = Thread /\ (\A u \in Thread : OpTyped(op'[u]))
BY DEF OpDone, CallTo, OpPut, SetGoesOn, SetLabel, CallLabel, ReadLabel, PinLabel, NoOp

LEMMA SetItemCalls == ASSUME CallInv, NEW t \in Thread, SetItem(t) PROVE CallInv' /\ SetGoesOn(t)
<1>1. At(t, "set.item") /\ "set.item" \in CallLabel /\ "set.block" \in CallLabel /\ "set.block" \notin ReadLabel
  BY DEF SetItem, CallLabel, SetLabel, ReadLabel
<1>2. OpPut(t, op[t]) /\ op[t].slot = NoSlot /\ OpTyped(op[t])
  BY <1>1, InCall, OpSame DEF SetItem
<1>3. OpDone(t, {"set.block"}, op[t])
  BY <1>1, <1>2, CallFramesTo, CallGoesOn DEF SetItem, SameObject
<1>4. DOMAIN item' = Item /\ \A i \in Item : DOMAIN item'[i] = DOMAIN NullItem /\ item'[i].count \in 0 .. MaxBlocks
  BY <1>2, FieldNames DEF SetItem, CallInv, StoreTyped, OpTyped
<1>5. SetGoesOn(t) /\ Stacked' /\ LocalsFit'
  BY <1>3, SetDone DEF SameObject, SetLabel
<1> QED BY <1>4, <1>5 DEF SetItem, CallInv, StoreTyped, LocalsTyped, EvTyped

LEMMA SetBlockCalls == ASSUME CallInv, NEW t \in Thread, SetBlock(t) PROVE CallInv' /\ SetGoesOn(t)
<1>1. /\ At(t, "set.block") /\ "set.block" \in CallLabel /\ {"set.mem", "set.disk"} \subseteq CallLabel
      /\ {"set.mem", "set.disk"} \cap ReadLabel = {} /\ {"set.mem", "set.disk"} \subseteq SetLabel \ {"set.item"}
  BY DEF SetBlock, CallLabel, SetLabel, ReadLabel
<1>2. op[t].slot = NoSlot /\ UNCHANGED flush
  BY <1>1, InCall DEF SetBlock
<1>3. DOMAIN diskCall' = Thread /\ \A u \in Thread : CallTyped(diskCall'[u])
  <2>1. diskCall' = diskCall \/ diskCall' = [diskCall EXCEPT ![t] = NoDiskCall]
    BY DEF SetBlock
  <2> QED BY <2>1, NullsTyped, CallSet DEF CallInv, LocalsTyped
<1>4. SetGoesOn(t) /\ Stacked' /\ LocalsFit' /\ DOMAIN op' = Thread /\ (\A u \in Thread : OpTyped(op'[u]))
  <2>1. CASE Call(t, "set.mem", "mem.alloc") /\ UNCHANGED op
    <3>1. OpDone(t, {"set.mem", "mem.alloc"}, op[t])
      BY <1>1, <1>2, <2>1, OpSame, CallFramesTo, CallGoesOn DEF SameObject
    <3> QED BY <1>1, <3>1, SetDone DEF SameObject
  <2>2. CASE Call(t, "set.disk", "disk.alloc") /\ UNCHANGED op
    <3>1. OpDone(t, {"set.disk", "disk.alloc"}, op[t])
      BY <1>1, <1>2, <2>2, OpSame, CallFramesTo, CallGoesOn DEF SameObject
    <3> QED BY <1>1, <3>1, SetDone DEF SameObject
  <2>3. CASE Finish(t)
    <3>1. OpDone(t, {}, NoOp)
      BY <1>1, <1>2, <2>3, CallFinishes
    <3> QED BY <3>1 DEF OpDone, CallTo, OpPut, SetGoesOn, NoOp
  <2> QED BY <2>1, <2>2, <2>3 DEF SetBlock
<1> QED BY <1>2, <1>3, <1>4 DEF SetBlock, CallInv, StoreTyped, LocalsTyped, EvTyped, store

\* Set goes on with the next block.
NextWrite(t) == op' = [op EXCEPT ![t].b = @ + 1] /\ Goto(t, "set.block")

LEMMA NextWriteDone ==
  ASSUME CallInv, NEW t \in Thread, NEW l \in CallLabel \ {"read.disk"}, At(t, l), NextWrite(t) \/ Finish(t), UNCHANGED flush
  PROVE  SetGoesOn(t) /\ Stacked' /\ LocalsFit' /\ DOMAIN op' = Thread /\ (\A u \in Thread : OpTyped(op'[u]))
<1>1. CASE Finish(t)
  <2>1. OpDone(t, {}, NoOp)
    BY <1>1, CallFinishes
  <2> QED BY <2>1 DEF OpDone, CallTo, OpPut, SetGoesOn, NoOp
<1>2. CASE NextWrite(t)
  <2> DEFINE o == [op[t] EXCEPT !.b = @ + 1]
  <2>1. OpTyped(o) /\ SameObject(o, op[t]) /\ o.slot = NoSlot
    BY InCall, FieldNames DEF OpTyped, SameObject
  <2>2. op' = [op EXCEPT ![t] = o] /\ Goto(t, "set.block")
    BY <1>2 DEF NextWrite
  <2>3. OpPut(t, o)
    BY <2>1, <2>2, OpPuts
  <2>4. "set.block" \in CallLabel /\ "set.block" \notin ReadLabel /\ "set.block" \in SetLabel \ {"set.item"}
    BY DEF CallLabel, SetLabel, ReadLabel
  <2> HIDE DEF o
  <2>5. OpDone(t, {"set.block"}, o)
    BY <2>1, <2>2, <2>3, <2>4, CallFramesTo, CallGoesOn
  <2> QED BY <2>1, <2>4, <2>5, SetDone
<1> QED BY <1>1, <1>2

LEMMA SetMemCalls == ASSUME CallInv, NEW t \in Thread, SetMem(t) PROVE CallInv' /\ SetGoesOn(t)
<1>1. At(t, "set.mem") /\ "set.mem" \in CallLabel
  BY DEF SetMem, CallLabel, SetLabel
<1>2. SetGoesOn(t) /\ Stacked' /\ LocalsFit' /\ DOMAIN op' = Thread /\ (\A u \in Thread : OpTyped(op'[u]))
  BY <1>1, NextWriteDone DEF SetMem, NextWrite
<1> QED BY <1>2 DEF SetMem, CallInv, StoreTyped, LocalsTyped, EvTyped

LEMMA SetDiskCalls == ASSUME CallInv, NEW t \in Thread, SetDisk(t) PROVE CallInv' /\ SetGoesOn(t)
<1>1. At(t, "set.disk") /\ "set.disk" \in CallLabel
  BY DEF SetDisk, CallLabel, SetLabel
<1>2. SetGoesOn(t) /\ Stacked' /\ LocalsFit' /\ DOMAIN op' = Thread /\ (\A u \in Thread : OpTyped(op'[u]))
  BY <1>1, NextWriteDone DEF SetDisk, NextWrite
<1>3. DOMAIN diskCall' = Thread /\ \A u \in Thread : CallTyped(diskCall'[u])
  BY NullsTyped, CallSet DEF SetDisk, CallInv
<1>4. EvTyped'
  BY <1>1, InCall, EvSet DEF SetDisk, CallInv
<1>5. diskCall[t].slot \in Slot \cup {NoSlot}
  BY DEF CallInv, LocalsTyped, CallTyped
<1>6. disk' \in [Item -> [Block -> Slot \cup {NoSlot}]] /\ DOMAIN content' = Slot
  BY <1>5, DiskSet DEF SetDisk, CallInv, StoreTyped
<1> QED BY <1>2, <1>3, <1>4, <1>6 DEF SetDisk, CallInv, StoreTyped, LocalsTyped

LEMMA SetInsertCalls == ASSUME CallInv, NEW t \in Thread, SetInsert(t) PROVE CallInv' /\ Frames(t)' = {}
<1>1. At(t, "set.block") /\ "set.block" \in CallLabel
  BY DEF SetInsert, CallLabel, SetLabel
<1>2. OpDone(t, {}, NoOp)
  BY <1>1, CallFinishes DEF SetInsert
<1>3. index' \in [Key -> Item \cup {NoItem}]
  BY <1>1, InCall DEF SetInsert, CallInv, StoreTyped
<1> QED BY <1>2, <1>3 DEF OpDone, CallTo, OpPut, SetInsert, CallInv, StoreTyped, LocalsTyped, EvTyped

\* A read, pin or unpin that goes on: its object stays, and only a read
\* that enters its disk reads has a disk block.
NotSet(t) == \/ Frames(t)' = {} /\ op'[t].item = NoItem
             \/ Frames(t)' \cap CallLabel \subseteq ReadLabel \cup PinLabel /\ SameObject(op'[t], op[t])
OpTypedNext == DOMAIN op' = Thread /\ \A u \in Thread : OpTyped(op'[u])

LEMMA ReadDone ==
  ASSUME NEW t \in Thread, NEW m \in ReadLabel \cup PinLabel, NEW o, SameObject(o, op[t]),
         OpDone(t, {m}, o) \/ OpDone(t, {m, "mem.alloc"}, o) \/ OpDone(t, {}, NoOp)
  PROVE  NotSet(t) /\ Stacked' /\ LocalsFit' /\ OpTypedNext
BY DEF OpDone, CallTo, OpPut, NotSet, OpTypedNext, SetLabel, CallLabel, ReadLabel, PinLabel, NoOp

LEMMA FinishDone ==
  ASSUME CallInv, NEW t \in Thread, NEW l \in CallLabel, At(t, l), Finish(t), UNCHANGED flush
  PROVE  NotSet(t) /\ Stacked' /\ LocalsFit' /\ OpTypedNext /\ op'[t].slot = NoSlot
<1>1. OpDone(t, {}, NoOp)
  BY CallFinishes
<1> QED BY <1>1 DEF OpDone, CallTo, OpPut, NotSet, OpTypedNext, NoOp

LEMMA NextBlockDone ==
  ASSUME CallInv, NEW t \in Thread, NEW l \in ReadLabel, At(t, l), NextBlock(t), UNCHANGED flush
  PROVE  NotSet(t) /\ Stacked' /\ LocalsFit' /\ OpTypedNext /\ op'[t].slot = NoSlot
<1>1. l \in CallLabel
  BY DEF CallLabel
<1>2. CASE Finish(t)
  BY <1>1, <1>2, FinishDone
<1>3. CASE ~Finish(t)
  <2> DEFINE o == [op[t] EXCEPT !.b = @ + 1, !.slot = NoSlot, !.held = FALSE]
  <2>1. /\ \E p \in op[t].want : p[1] > op[t].b
        /\ op' = [op EXCEPT ![t] = o] /\ Goto(t, "read.block")
    BY <1>3 DEF NextBlock
  <2>2. OpTyped(op[t]) /\ op[t].b \in Block
    BY <1>1, InCall
  <2>3. OpTyped(o) /\ SameObject(o, op[t]) /\ o.slot = NoSlot /\ o.b = op[t].b + 1
    BY <2>2, FieldNames DEF OpTyped, SameObject
  <2>4. o.b \in Block
    BY <2>1, <2>2, <2>3, Sizes DEF OpTyped, Block
  <2>5. OpPut(t, o)
    BY <2>1, <2>3, OpPuts
  <2>6. "read.block" \in CallLabel /\ "read.block" \in ReadLabel \cup PinLabel
    BY DEF CallLabel, ReadLabel
  <2> HIDE DEF o
  <2>7. OpDone(t, {"read.block"}, o)
    BY <1>1, <2>1, <2>3, <2>4, <2>5, <2>6, CallFramesTo, CallGoesOn
  <2>8. op'[t].slot = NoSlot
    BY <2>3, <2>5 DEF OpPut
  <2> QED BY <2>3, <2>6, <2>7, <2>8, ReadDone
<1> QED BY <1>2, <1>3

LEMMA ReadBlockCalls ==
  ASSUME CallInv, NEW t \in Thread, ReadBlock(t)
  PROVE  /\ CallInv' /\ NotSet(t)
         /\ op'[t].slot \in {NoSlot, disk[op[t].item][op[t].b]}
         /\ op'[t].slot # NoSlot => op'[t].item = op[t].item /\ op'[t].b = op[t].b
<1> DEFINE o == op[t]
           d == disk[o.item][o.b]
           p == [o EXCEPT !.slot = d, !.want = @ \ ({o.b} \X mem[o.item][o.b].slices)]
<1>1. At(t, "read.block") /\ "read.block" \in ReadLabel /\ "read.disk" \in ReadLabel /\ ReadLabel \subseteq CallLabel
  BY DEF ReadBlock, ReadLabel, CallLabel
<1>2. OpTyped(o) /\ o.item \in Item /\ o.b \in Block
  BY <1>1, InCall
<1>3. CASE NextBlock(t) \/ Finish(t)
  <2>1. NotSet(t) /\ Stacked' /\ LocalsFit' /\ OpTypedNext /\ op'[t].slot = NoSlot
    BY <1>1, <1>3, NextBlockDone, FinishDone DEF ReadBlock
  <2> QED BY <2>1 DEF OpTypedNext, ReadBlock, CallInv, StoreTyped, LocalsTyped, EvTyped, store
<1>4. CASE d # NoSlot /\ op' = [op EXCEPT ![t] = p] /\ Goto(t, "read.disk")
  <2>1. d \in Slot
    BY <1>2, <1>4 DEF CallInv, StoreTyped
  <2>2. OpTyped(p) /\ SameObject(p, o) /\ p.slot = d /\ p.b = o.b
    BY <1>2, <2>1, FieldNames DEF OpTyped, SameObject
  <2>3. OpPut(t, p)
    BY <1>4, <2>2, OpPuts
  <2> HIDE DEF p
  <2>4. OpDone(t, {"read.disk"}, p)
    BY <1>1, <1>2, <1>4, <2>2, <2>3, CallFramesTo, CallGoesOn DEF ReadBlock
  <2>5. NotSet(t) /\ Stacked' /\ LocalsFit' /\ OpTypedNext
    BY <1>1, <2>2, <2>4, ReadDone
  <2>6. op'[t].slot = d /\ op'[t].item = o.item /\ op'[t].b = o.b
    BY <2>2, <2>3 DEF OpPut, SameObject
  <2> QED BY <2>5, <2>6 DEF OpTypedNext, ReadBlock, CallInv, StoreTyped, LocalsTyped, EvTyped, store
<1> QED BY <1>3, <1>4 DEF ReadBlock

LEMMA ReadDiskCalls == ASSUME CallInv, NEW t \in Thread, ReadDisk(t) PROVE CallInv' /\ NotSet(t) /\ op'[t].slot = NoSlot
<1> DEFINE o == op[t]
           p == [o EXCEPT !.slot = NoSlot, !.held = <<o.key, o.b>> \in memEv.tracked]
<1>1. At(t, "read.disk") /\ "read.disk" \in ReadLabel /\ "promote.check" \in ReadLabel /\ ReadLabel \subseteq CallLabel
  BY DEF ReadDisk, ReadLabel, CallLabel
<1>2. OpTyped(o) /\ o.b \in Block
  BY <1>1, InCall
<1>3. NotSet(t) /\ Stacked' /\ LocalsFit' /\ OpTypedNext /\ op'[t].slot = NoSlot
  <2>1. CASE NextBlock(t) \/ Finish(t)
    BY <1>1, <2>1, NextBlockDone, FinishDone DEF ReadDisk
  <2>2. CASE op' = [op EXCEPT ![t] = p] /\ Call(t, "promote.check", "mem.alloc")
    <3>1. OpTyped(p) /\ SameObject(p, o) /\ p.slot = NoSlot /\ p.b = o.b
      <4>1. \A h : /\ OpTyped([o EXCEPT !.slot = NoSlot, !.held = h]) /\ SameObject([o EXCEPT !.slot = NoSlot, !.held = h], o)
                   /\ [o EXCEPT !.slot = NoSlot, !.held = h].slot = NoSlot /\ [o EXCEPT !.slot = NoSlot, !.held = h].b = o.b
        BY <1>2, FieldNames DEF OpTyped, SameObject
      <4> QED BY Zenon, <4>1
    <3>2. OpPut(t, p)
      BY <2>2, <3>1, OpPuts
    <3> HIDE DEF p
    <3>3. OpDone(t, {"promote.check", "mem.alloc"}, p)
      BY <1>1, <1>2, <2>2, <3>1, <3>2, CallFramesTo, CallGoesOn DEF ReadDisk
    <3> QED BY <1>1, <3>1, <3>2, <3>3, ReadDone DEF OpPut
  <2> QED BY <2>1, <2>2 DEF ReadDisk
<1> QED BY <1>3 DEF OpTypedNext, ReadDisk, CallInv, StoreTyped, LocalsTyped, EvTyped, store

LEMMA PromoteCheckCalls == ASSUME CallInv, NEW t \in Thread, PromoteCheck(t) PROVE CallInv' /\ NotSet(t) /\ op'[t].slot = NoSlot
<1> DEFINE o == op[t]
<1>1. At(t, "promote.check") /\ "promote.check" \in ReadLabel /\ "promote.set" \in ReadLabel /\ ReadLabel \subseteq CallLabel
  BY DEF PromoteCheck, ReadLabel, CallLabel
<1>2. OpTyped(o) /\ o.b \in Block /\ o.slot = NoSlot
  BY <1>1, InCall
<1>3. NotSet(t) /\ Stacked' /\ LocalsFit' /\ OpTypedNext /\ op'[t].slot = NoSlot
  <2>1. CASE NextBlock(t)
    BY <1>1, <2>1, NextBlockDone DEF PromoteCheck
  <2>2. CASE ~NextBlock(t)
    <3>1. PICK S : op' = [op EXCEPT ![t] = [o EXCEPT !.want = (@ \ ({o.b} \X Slice)) \cup ({o.b} \X S)]] /\ Goto(t, "promote.set")
      BY <2>2 DEF PromoteCheck
    <3> DEFINE p == [o EXCEPT !.want = (@ \ ({o.b} \X Slice)) \cup ({o.b} \X S)]
    <3>2. OpTyped(p) /\ SameObject(p, o) /\ p.slot = NoSlot /\ p.b = o.b
      BY <1>2, FieldNames DEF OpTyped, SameObject
    <3>3. OpPut(t, p)
      BY <3>1, <3>2, OpPuts
    <3> HIDE DEF p
    <3>4. OpDone(t, {"promote.set"}, p)
      BY <1>1, <1>2, <3>1, <3>2, <3>3, CallFramesTo, CallGoesOn DEF PromoteCheck
    <3> QED BY <1>1, <3>2, <3>3, <3>4, ReadDone DEF OpPut
  <2> QED BY <2>1, <2>2
<1> QED BY <1>3 DEF OpTypedNext, PromoteCheck, CallInv, StoreTyped, LocalsTyped, EvTyped

LEMMA PromoteSetCalls == ASSUME CallInv, NEW t \in Thread, PromoteSet(t) PROVE CallInv' /\ NotSet(t) /\ op'[t].slot = NoSlot
<1>1. At(t, "promote.set") /\ "promote.set" \in ReadLabel
  BY DEF PromoteSet, ReadLabel
<1>2. NotSet(t) /\ Stacked' /\ LocalsFit' /\ OpTypedNext /\ op'[t].slot = NoSlot
  BY <1>1, NextBlockDone DEF PromoteSet
<1> QED BY <1>2 DEF OpTypedNext, PromoteSet, CallInv, StoreTyped, LocalsTyped, EvTyped

LEMMA NextOfDone ==
  ASSUME CallInv, NEW t \in Thread, NEW l \in PinLabel, At(t, l), NextOf(t) \/ Finish(t), UNCHANGED flush
  PROVE  NotSet(t) /\ Stacked' /\ LocalsFit' /\ OpTypedNext /\ op'[t].slot = NoSlot
<1>1. l \in CallLabel /\ l \notin ReadLabel /\ l # "read.disk"
  BY DEF CallLabel, PinLabel, ReadLabel
<1>2. CASE Finish(t)
  BY <1>1, <1>2, FinishDone
<1>3. CASE ~Finish(t)
  <2> DEFINE o == [op[t] EXCEPT !.b = @ + 1]
  <2>1. op' = [op EXCEPT ![t] = o] /\ UNCHANGED stack
    BY <1>3 DEF NextOf
  <2>2. OpTyped(op[t]) /\ op[t].slot = NoSlot /\ Frames(t) = {l}
    BY <1>1, InCall
  <2>3. OpTyped(o) /\ SameObject(o, op[t]) /\ o.slot = NoSlot
    BY <2>2, FieldNames DEF OpTyped, SameObject
  <2>4. OpPut(t, o)
    BY <2>1, <2>3, OpPuts
  <2>5. CallTo(t, {l})
    BY <2>1, <2>2, SameFrames DEF CallTo, OthersSame, CallInv
  <2> HIDE DEF o
  <2>6. OpDone(t, {l}, o)
    BY <1>1, <2>3, <2>4, <2>5, CallGoesOn
  <2>7. op'[t].slot = NoSlot
    BY <2>3, <2>4 DEF OpPut
  <2> QED BY <2>3, <2>6, <2>7, ReadDone
<1> QED BY <1>2, <1>3

LEMMA PinUntrackCalls == ASSUME CallInv, NEW t \in Thread, PinUntrack(t) PROVE CallInv' /\ NotSet(t) /\ op'[t].slot = NoSlot
<1>1. At(t, "pin.untrack") /\ "pin.untrack" \in PinLabel
  BY DEF PinUntrack, PinLabel
<1>2. NotSet(t) /\ Stacked' /\ LocalsFit' /\ OpTypedNext /\ op'[t].slot = NoSlot
  BY <1>1, NextOfDone DEF PinUntrack
<1>3. EvTyped'
  BY DEF PinUntrack, CallInv, EvTyped, Untrack
<1> QED BY <1>2, <1>3 DEF OpTypedNext, PinUntrack, CallInv, StoreTyped, LocalsTyped, store

LEMMA UnpinTrackCalls == ASSUME CallInv, NEW t \in Thread, UnpinTrack(t) PROVE CallInv' /\ NotSet(t) /\ op'[t].slot = NoSlot
<1>1. At(t, "unpin.track") /\ "unpin.track" \in PinLabel /\ PinLabel \subseteq CallLabel
  BY DEF UnpinTrack, PinLabel, CallLabel
<1>2. NotSet(t) /\ Stacked' /\ LocalsFit' /\ OpTypedNext /\ op'[t].slot = NoSlot
  BY <1>1, NextOfDone DEF UnpinTrack
<1>3. EvTyped'
  <2>1. op[t].key \in Key
    BY <1>1, InCall
  <2>2. diskEv' = diskEv \/ diskEv' = Track(diskEv, op[t].key)
    BY DEF UnpinTrack
  <2> QED BY <2>1, <2>2, EvSet DEF CallInv
<1> QED BY <1>2, <1>3 DEF OpTypedNext, UnpinTrack, CallInv, StoreTyped, LocalsTyped, store

\* The stacks calls start with.
LEMMA FirstFrames ==
  /\ \A l \in CallLabel \cup RemoveLabel : Deepens(<<l>>) /\ LabelsOf(<<l>>) = {l}
  /\ \A l \in CallLabel : Deepens(<<l, "mem.alloc">>) /\ LabelsOf(<<l, "mem.alloc">>) = {l, "mem.alloc"}
  /\ \A l \in CallLabel : /\ Deepens(<<l, "mem.alloc", "remove.index">>)
                          /\ LabelsOf(<<l, "mem.alloc", "remove.index">>) = {l, "mem.alloc", "remove.index"}
<1>1. {"mem.alloc", "remove.index"} \subseteq Label /\ CallLabel \cup RemoveLabel \subseteq Label
  BY Levels DEF RemoveLabel
<1>2. Level("mem.alloc") = 2 /\ Level("remove.index") = 7 /\ \A l \in CallLabel : Level(l) = 1
  BY Levels DEF RemoveLabel
<1>3. ASSUME NEW l \in CallLabel \cup RemoveLabel PROVE Deepens(<<l>>) /\ LabelsOf(<<l>>) = {l}
  BY <1>1 DEF Deepens, LabelsOf
<1>4. ASSUME NEW l \in CallLabel PROVE Deepens(<<l, "mem.alloc">>) /\ LabelsOf(<<l, "mem.alloc">>) = {l, "mem.alloc"}
  BY <1>1, <1>2 DEF Deepens, LabelsOf
<1>5. ASSUME NEW l \in CallLabel
      PROVE  /\ Deepens(<<l, "mem.alloc", "remove.index">>)
             /\ LabelsOf(<<l, "mem.alloc", "remove.index">>) = {l, "mem.alloc", "remove.index"}
  <2> DEFINE s == <<l, "mem.alloc", "remove.index">>
  <2>1. s \in Seq(Label) /\ Len(s) = 3 /\ s[1] = l /\ s[2] = "mem.alloc" /\ s[3] = "remove.index"
    BY <1>1
  <2> HIDE DEF s
  <2>2. Deepens(s)
    BY <1>2, <2>1 DEF Deepens
  <2>3. LabelsOf(s) = {l, "mem.alloc", "remove.index"}
    BY <2>1 DEF LabelsOf
  <2> QED BY <2>2, <2>3 DEF s
<1> QED BY <1>3, <1>4, <1>5

LEMMA StartsWith ==
  ASSUME CallInv, NEW t \in Thread, stack[t] = <<>>, NEW s, Deepens(s), stack' = [stack EXCEPT ![t] = s]
  PROVE  Frames(t) = {} /\ CallTo(t, LabelsOf(s))
BY StartFrames DEF CallTo, OthersSame, CallInv

LEMMA BlockOf == ASSUME NEW n \in 0 .. MaxBlocks, NEW first \in 0 .. (n * SliceCount - 1) PROVE first \div SliceCount \in Block
<1>1. n \in Int /\ n <= MaxBlocks /\ first \in Int /\ 0 <= first /\ first < n * SliceCount
  BY Sizes
<1> DEFINE q == first \div SliceCount
           r == first % SliceCount
<1>2. q \in Int /\ r \in Int /\ first = SliceCount * q + r /\ 0 <= r /\ r < SliceCount
  BY <1>1, Sizes
<1> HIDE DEF q, r
<1>3. 0 <= q
  <2> SUFFICES ASSUME q <= -1 PROVE FALSE
    BY <1>2
  <2>1. SliceCount * q <= SliceCount * (-1)
    BY <1>2, Sizes
  <2> QED BY <2>1, <1>1, <1>2, Sizes
<1>4. q < n
  <2> SUFFICES ASSUME n <= q PROVE FALSE
    BY <1>1, <1>2
  <2>1. n * SliceCount <= SliceCount * q
    BY <1>1, <1>2, Sizes
  <2> QED BY <2>1, <1>1, <1>2, Sizes
<1> QED BY <1>1, <1>2, <1>3, <1>4, Sizes DEF Block, q

LEMMA SetStartCalls ==
  ASSUME CallInv, NEW t \in Thread, NEW k \in Key, NEW n \in 1 .. MaxBlocks, NEW pinned, SetStart(t, k, n, pinned)
  PROVE  /\ CallInv'
         /\ op'[t].item \in Unused /\ op'[t].slot = NoSlot
         /\ \/ Frames(t)' = {"set.item", "mem.alloc"} /\ UNCHANGED removal
            \/ Frames(t)' = {"set.item", "mem.alloc", "remove.index"} /\ removal'[t].item = index[k]
         /\ \A u \in Thread \ {t} : op'[u] = op[u] /\ Frames(u)' = Frames(u) /\ removal'[u] = removal[u]
<1>1. PICK i \in Unused : op' = [op EXCEPT ![t] = [NoOp EXCEPT !.key = k, !.item = i, !.count = n, !.pinned = pinned]]
  BY DEF SetStart
<1> DEFINE o == [NoOp EXCEPT !.key = k, !.item = i, !.count = n, !.pinned = pinned]
           r == [key |-> k, item |-> index[k], b |-> 0]
<1>2. OpTyped(o) /\ o.slot = NoSlot /\ o.key = k /\ o.item = i /\ i \in Item
  <2>1. o.count = n /\ o.want = {} /\ o.slot = NoSlot /\ o.key = k /\ o.item = i /\ DOMAIN o = DOMAIN NoOp
    BY FieldNames DEF NoOp
  <2> HIDE DEF o
  <2>2. n \in 0 .. MaxBlocks
    BY Sizes
  <2> QED BY <2>1, <2>2 DEF OpTyped, Unused
<1>3. OpPut(t, o)
  BY <1>1, <1>2, OpPuts
<1> HIDE DEF o
<1>4. "set.item" \in CallLabel /\ "set.item" \notin ReadLabel
  BY DEF CallLabel, SetLabel, ReadLabel
<1>5. \A F : F \in {{"set.item", "mem.alloc"}, {"set.item", "mem.alloc", "remove.index"}} => OpFits(F, o) /\ F \cap FlushLabel = {}
  BY <1>2, <1>4 DEF OpFits, CallLabel, SetLabel, ReadLabel, PinLabel, FlushLabel
<1>6. stack[t] = <<>> /\ UNCHANGED flush
  BY DEF SetStart
<1>7. CASE stack' = [stack EXCEPT ![t] = <<"set.item", "mem.alloc">>] /\ UNCHANGED removal
  <2>1. Frames(t) = {} /\ CallTo(t, {"set.item", "mem.alloc"})
    <3>1. Deepens(<<"set.item", "mem.alloc">>) /\ LabelsOf(<<"set.item", "mem.alloc">>) = {"set.item", "mem.alloc"}
      BY <1>4, FirstFrames
    <3>2. stack' = [stack EXCEPT ![t] = <<"set.item", "mem.alloc">>]
      BY <1>7
    <3>3. Frames(t) = {} /\ CallTo(t, LabelsOf(<<"set.item", "mem.alloc">>))
      BY <1>6, <3>1, <3>2, StartsWith
    <3> QED BY <3>1, <3>3
  <2>2. OpDone(t, {"set.item", "mem.alloc"}, o)
    BY <1>3, <1>4, <1>5, <1>6, <2>1, OpStep
  <2> QED BY <1>2, <1>7, <2>2 DEF SetStart, OpDone, CallTo, OpPut, OthersSame, CallInv, StoreTyped, LocalsTyped, EvTyped, store
<1>8. CASE stack' = [stack EXCEPT ![t] = <<"set.item", "mem.alloc", "remove.index">>] /\ removal' = [removal EXCEPT ![t] = r]
  <2>1. Frames(t) = {} /\ CallTo(t, {"set.item", "mem.alloc", "remove.index"})
    <3>1. Deepens(<<"set.item", "mem.alloc", "remove.index">>) /\ LabelsOf(<<"set.item", "mem.alloc", "remove.index">>) = {"set.item", "mem.alloc", "remove.index"}
      BY <1>4, FirstFrames
    <3>2. stack' = [stack EXCEPT ![t] = <<"set.item", "mem.alloc", "remove.index">>]
      BY <1>8
    <3>3. Frames(t) = {} /\ CallTo(t, LabelsOf(<<"set.item", "mem.alloc", "remove.index">>))
      BY <1>6, <3>1, <3>2, StartsWith
    <3> QED BY <3>1, <3>3
  <2>2. OpDone(t, {"set.item", "mem.alloc", "remove.index"}, o)
    BY <1>3, <1>4, <1>5, <1>6, <2>1, OpStep
  <2>3. /\ DOMAIN removal' = Thread /\ \A u \in Thread : DOMAIN removal'[u] = DOMAIN NoRemoval
        /\ removal'[t] = r /\ \A u \in Thread \ {t} : removal'[u] = removal[u]
    <3>1. DOMAIN r = DOMAIN NoRemoval
      BY FieldNames
    <3> HIDE DEF r
    <3> QED BY <1>8, <3>1, RemovalSet DEF CallInv
  <2>4. r.item = index[k]
    OBVIOUS
  <2> HIDE DEF r
  <2> QED BY <1>2, <2>2, <2>3, <2>4 DEF SetStart, OpDone, CallTo, OpPut, OthersSame, CallInv, StoreTyped, LocalsTyped, EvTyped, store
<1> QED BY <1>7, <1>8 DEF SetStart

\* A call on an object of the index.
CallStarts(t, k) == /\ OpTypedNext /\ LocalsFit' /\ Stacked' /\ OthersSame(t)
                    /\ Frames(t)' \cap CallLabel \subseteq ReadLabel \cup PinLabel /\ Frames(t)' # {} /\ Frames(t) = {}
                    /\ op'[t].item = index[k] /\ op'[t].slot = NoSlot
                    /\ \A u \in Thread \ {t} : op'[u] = op[u]

LEMMA ObjectStarts ==
  ASSUME CallInv, NEW t \in Thread, NEW k \in Key, stack[t] = <<>>, index[k] # NoItem, UNCHANGED flush,
         NEW l \in {"read.block", "pin.untrack", "unpin.track"}, stack' = [stack EXCEPT ![t] = <<l>>],
         NEW o, op' = [op EXCEPT ![t] = o], OpTyped(o), o.key = k, o.item = index[k], o.slot = NoSlot, l = "read.block" => o.b \in Block
  PROVE  CallStarts(t, k)
<1>1. l \in ReadLabel \cup PinLabel /\ ReadLabel \cup PinLabel \subseteq CallLabel /\ l # "read.disk"
  BY DEF ReadLabel, PinLabel, CallLabel
<1>2. Frames(t) = {} /\ CallTo(t, {l})
  <2>1. Deepens(<<l>>) /\ LabelsOf(<<l>>) = {l}
    BY <1>1, FirstFrames
  <2> QED BY <2>1, StartsWith
<1>3. OpPut(t, o)
  BY OpPuts
<1>4. index[k] \in Item
  BY DEF CallInv, StoreTyped
<1>5. l \in ReadLabel => l = "read.block"
  BY DEF ReadLabel
<1>6. OpFits({l}, o)
  BY <1>1, <1>4, <1>5 DEF OpFits
<1>7. {l} \cap FlushLabel = {}
  BY DEF FlushLabel
<1>8. OpDone(t, {l}, o)
  BY <1>1, <1>2, <1>3, <1>6, <1>7, OpStep
<1> QED BY <1>1, <1>2, <1>8 DEF CallStarts, OpDone, CallTo, OpPut, OpTypedNext

LEMMA ReadStartCalls == ASSUME CallInv, NEW t \in Thread, NEW k \in Key, ReadStart(t, k) PROVE CallInv' /\ CallStarts(t, k)
<1> DEFINE n == item[index[k]].count
<1>1. PICK first \in 0..(n * SliceCount - 1) : \E last :
        op' = [op EXCEPT ![t] = [NoOp EXCEPT !.key = k, !.item = index[k], !.count = n,
                                             !.b = first \div SliceCount, !.want = ReadRange(n, first, last)]]
  BY DEF ReadStart
<1> PICK last : op' = [op EXCEPT ![t] = [NoOp EXCEPT !.key = k, !.item = index[k], !.count = n,
                                                     !.b = first \div SliceCount, !.want = ReadRange(n, first, last)]]
  BY <1>1
<1>2. index[k] # NoItem /\ index[k] \in Item /\ n \in 0 .. MaxBlocks
  BY DEF ReadStart, Found, CallInv, StoreTyped
<1>3. first \div SliceCount \in Block
  BY <1>2, BlockOf
<1>4. \A p \in ReadRange(n, first, last) : p[1] \in Block
  BY <1>2, Sizes DEF ReadRange, Block
<1> DEFINE o == [NoOp EXCEPT !.key = k, !.item = index[k], !.count = n,
                             !.b = first \div SliceCount, !.want = ReadRange(n, first, last)]
<1>5. /\ o.count = n /\ o.want = ReadRange(n, first, last) /\ o.slot = NoSlot /\ o.key = k /\ o.item = index[k]
      /\ o.b = first \div SliceCount /\ DOMAIN o = DOMAIN NoOp
  BY FieldNames DEF NoOp
<1>6. op' = [op EXCEPT ![t] = o]
  OBVIOUS
<1> HIDE DEF o
<1>7. OpTyped(o)
  BY <1>2, <1>4, <1>5 DEF OpTyped
<1>8. CallStarts(t, k)
  <2>1. PICK l \in {"read.block", "pin.untrack", "unpin.track"} : stack' = [stack EXCEPT ![t] = <<l>>]
    BY DEF ReadStart
  <2>2. stack[t] = <<>> /\ UNCHANGED flush /\ o.b \in Block
    BY <1>3, <1>5 DEF ReadStart
  <2> HIDE DEF n
  <2> QED BY <1>2, <1>5, <1>6, <1>7, <2>1, <2>2, ObjectStarts
<1> QED BY <1>8 DEF CallStarts, OpTypedNext, ReadStart, CallInv, StoreTyped, LocalsTyped, EvTyped, store

LEMMA PinStartCalls ==
  ASSUME CallInv, NEW t \in Thread, NEW k \in Key, PinStart(t, k) \/ UnpinStart(t, k)
  PROVE  CallInv' /\ CallStarts(t, k)
<1> DEFINE o == [NoOp EXCEPT !.key = k, !.item = index[k]]
<1>1. o.key = k /\ o.item = index[k] /\ o.slot = NoSlot /\ OpTyped(o)
  BY NullsTyped, FieldNames DEF OpTyped, NoOp
<1>2. op' = [op EXCEPT ![t] = o] /\ stack[t] = <<>> /\ index[k] # NoItem /\ UNCHANGED flush
  BY DEF PinStart, UnpinStart, Found
<1> HIDE DEF o
<1>3. CallStarts(t, k)
  <2>1. PICK l \in {"pin.untrack", "unpin.track"} : stack' = [stack EXCEPT ![t] = <<l>>]
    BY DEF PinStart, UnpinStart
  <2> QED BY <1>1, <1>2, <2>1, ObjectStarts
<1>4. DOMAIN item' = Item /\ \A i \in Item : DOMAIN item'[i] = DOMAIN NullItem /\ item'[i].count \in 0 .. MaxBlocks
  <2>1. PICK p \in BOOLEAN : item' = [item EXCEPT ![index[k]].pinned = p]
    BY DEF PinStart, UnpinStart, SetPinned
  <2> QED BY <2>1, FieldNames DEF CallInv, StoreTyped
<1> QED BY <1>3, <1>4 DEF CallStarts, OpTypedNext, PinStart, UnpinStart, CallInv, StoreTyped, LocalsTyped, EvTyped

LEMMA RemoveStartCalls == ASSUME CallInv, NEW t \in Thread, NEW k \in Key, RemoveStart(t, k) PROVE CallInv' /\ CallTo(t, {"remove.index"}) /\ Frames(t) = {}
<1>1. stack[t] = <<>> /\ stack' = [stack EXCEPT ![t] = <<"remove.index">>] /\ UNCHANGED <<op, flush>> /\ "remove.index" \in RemoveLabel
  BY DEF RemoveStart, RemoveLabel
<1>2. Frames(t) = {} /\ CallTo(t, {"remove.index"})
  BY <1>1, FirstFrames, StartsWith
<1>3. {"remove.index"} \cap (FlushLabel \cup CallLabel) = {}
  BY DEF FlushLabel, CallLabel, SetLabel, ReadLabel, PinLabel
<1>4. OpFits({"remove.index"}, op[t])
  <2>1. OpFits({}, op[t])
    BY <1>2 DEF CallInv, LocalsFit
  <2> QED BY <1>3, <2>1 DEF OpFits, CallLabel, ReadLabel
<1>5. OpDone(t, {"remove.index"}, op[t])
  <2>1. "set.item" \in CallLabel
    BY DEF CallLabel, SetLabel
  <2>2. OpPut(t, op[t])
    BY <1>1, OpSame
  <2> QED BY <1>1, <1>2, <1>3, <1>4, <2>1, <2>2, OpStep
<1>6. DOMAIN removal' = Thread /\ \A u \in Thread : DOMAIN removal'[u] = DOMAIN NoRemoval
  BY FieldNames DEF RemoveStart, CallInv, LocalsTyped
<1>7. DOMAIN item' = Item /\ \A i \in Item : DOMAIN item'[i] = DOMAIN NullItem /\ item'[i].count \in 0 .. MaxBlocks
  BY FieldNames DEF RemoveStart, CallInv, StoreTyped
<1> QED BY <1>2, <1>5, <1>6, <1>7 DEF OpDone, CallTo, RemoveStart, CallInv, StoreTyped, LocalsTyped, EvTyped

LEMMA StartCalls == ASSUME CallInv, NEW t \in Thread, Start(t) PROVE CallInv'
BY SetStartCalls, ReadStartCalls, PinStartCalls, RemoveStartCalls DEF Start

LEMMA CallingCalls == ASSUME CallInv, NEW t \in Thread, Calling(t) PROVE CallInv'
BY SetItemCalls, SetBlockCalls, SetMemCalls, SetDiskCalls, SetInsertCalls, ReadBlockCalls, ReadDiskCalls,
   PromoteCheckCalls, PromoteSetCalls, PinUntrackCalls, UnpinTrackCalls DEF Calling

LEMMA DestroyCalls == ASSUME CallInv, NEW i \in Item, Destroy(i) PROVE CallInv'
<1>1. Stacked' /\ \A u \in Thread : Frames(u)' = Frames(u)
  BY SameFrames DEF CallInv, Destroy
<1>2. LocalsFit'
  BY <1>1 DEF CallInv, LocalsFit, Destroy, locals
<1>3. DOMAIN item' = Item /\ \A j \in Item : DOMAIN item'[j] = DOMAIN NullItem /\ item'[j].count \in 0 .. MaxBlocks
  <2>1. NullItem.count = 0 /\ 0 \in 0 .. MaxBlocks
    BY Sizes DEF NullItem
  <2> QED BY <2>1 DEF Destroy, CallInv, StoreTyped
<1>4. disk' \in [Item -> [Block -> Slot \cup {NoSlot}]] /\ DOMAIN content' = Slot
  BY DEF Destroy, CallInv, StoreTyped
<1> QED BY <1>1, <1>2, <1>3, <1>4 DEF Destroy, CallInv, StoreTyped, LocalsTyped, EvTyped, locals

LEMMA FreshCalls == Init => CallInv
<1> SUFFICES ASSUME Init PROVE CallInv
  OBVIOUS
<1> USE DEF Init, Fresh
<1>1. Stacked /\ \A t \in Thread : Frames(t) = {}
  BY EmptyStack DEF Stacked, Frames
<1>2. StoreTyped
  <2>1. NullItem.count = 0 /\ 0 \in 0 .. MaxBlocks
    BY Sizes DEF NullItem
  <2> QED BY <2>1 DEF StoreTyped
<1>3. LocalsTyped
  BY NullsTyped DEF LocalsTyped
<1>4. EvTyped
  BY DEF EvTyped
<1>5. LocalsFit
  <2>1. OpFits({}, NoOp) /\ FlushFits({}, NoFlush)
    BY DEF OpFits, FlushFits, NoOp, NoFlush
  <2> QED BY <1>1, <2>1 DEF LocalsFit
<1> QED BY <1>1, <1>2, <1>3, <1>4, <1>5 DEF CallInv

-----------------------------------------------------------------------------
(* Who has an item: what a step may not do.                                *)

OtherLocalsSame(t) == \A u \in Thread \ {t} : /\ op'[u] = op[u] /\ flush'[u] = flush[u]
                                              /\ diskCall'[u] = diskCall[u] /\ removal'[u] = removal[u]

IndexShrinks == \A k \in Key : index'[k] \in {index[k], NoItem}

HandedItems(t) == {flush[t].item, diskCall[t].item, removal[t].item}

\* The items thread t has are those it had or those of the index.
ItemsFromIndex(t) == /\ HandedItems(t)' \subseteq HandedItems(t) \cup {NoItem} \cup Indexed
                     /\ op'[t].item \in {op[t].item, NoItem} \cup Indexed

SetKept(t) == InSet(Frames(t)') => /\ InSet(Frames(t)) /\ SameObject(op'[t], op[t])
                                   /\ Made(Frames(t)') => Made(Frames(t))

ItemsSame == \A i \in Item : item'[i].key = item[i].key /\ (item'[i].released => item[i].released)

FlushKept(t) == Frames(t)' \cap FlushLabel # {} => /\ Frames(t) \cap FlushLabel # {}
                                                   /\ SameObject(flush'[t], flush[t])

LEMMA NewIsItem == ASSUME CallInv, NEW t \in Thread, InSet(Frames(t)) PROVE op[t].item \in Item
BY DEF CallInv, LocalsFit, OpFits, InSet, CallLabel

LEMMA PrivateKept ==
  ASSUME CallInv, NewIsPrivate, IndexShrinks,
         \A u \in Thread : SetKept(u), \A u \in Thread : ItemsFromIndex(u),
         \A u \in Thread : Made(Frames(u)) => /\ item'[op[u].item].key = item[op[u].item].key
                                              /\ item'[op[u].item].released => item[op[u].item].released
  PROVE  NewIsPrivate'
<1> SUFFICES ASSUME NEW t \in Thread, InSet(Frames(t)')
             PROVE  /\ op'[t].item \notin Indexed'
                    /\ op'[t].item \notin HandedItems(t)'
                    /\ \A u \in Thread \ {t} : op'[t].item \notin Refs(u)'
                    /\ Made(Frames(t)') => item'[op'[t].item].key = op'[t].key /\ ~item'[op'[t].item].released
  BY DEF NewIsPrivate, HandedItems
<1> DEFINE i == op[t].item
<1>1. InSet(Frames(t)) /\ op'[t].item = i /\ op'[t].key = op[t].key /\ (Made(Frames(t)') => Made(Frames(t)))
  BY DEF SetKept, SameObject
<1>2. i \in Item /\ i # NoItem
  BY <1>1, NewIsItem, Nulls
<1>3. /\ i \notin Indexed /\ i \notin HandedItems(t)
      /\ \A u \in Thread \ {t} : i \notin HandedItems(u) /\ i # op[u].item
      /\ Made(Frames(t)) => item[i].key = op[t].key /\ ~item[i].released
  BY <1>1 DEF NewIsPrivate, HandedItems, Refs
<1> HIDE DEF i
<1>4. i \notin Indexed'
  BY <1>2, <1>3 DEF Indexed, IndexShrinks
<1>5. i \notin HandedItems(t)'
  BY <1>2, <1>3 DEF ItemsFromIndex
<1>6. \A u \in Thread \ {t} : i \notin Refs(u)'
  BY <1>2, <1>3 DEF ItemsFromIndex, HandedItems, Refs
<1>7. Made(Frames(t)') => item'[i].key = op[t].key /\ ~item'[i].released
  BY <1>1, <1>3 DEF i
<1> QED BY <1>1, <1>4, <1>5, <1>6, <1>7

LEMMA KeysKept ==
  ASSUME CallInv, KeysMatch, IndexShrinks, \A u \in Thread : FlushKept(u),
         \A k \in Key : index[k] # NoItem => item'[index[k]].key = item[index[k]].key,
         \A u \in Thread : Frames(u) \cap FlushLabel # {} => item'[flush[u].item].key = item[flush[u].item].key
  PROVE  KeysMatch'
<1>1. \A k \in Key : index'[k] # NoItem => item'[index'[k]].key = k
  BY DEF KeysMatch, IndexShrinks
<1>2. \A u \in Thread : Frames(u)' \cap FlushLabel # {} => item'[flush'[u].item].key = flush'[u].key
  BY DEF KeysMatch, FlushKept, SameObject
<1> QED BY <1>1, <1>2 DEF KeysMatch

LEMMA LeavingKept ==
  ASSUME CallInv, Leaving, IndexShrinks,
         \A k \in Key : index[k] # NoItem /\ item'[index[k]].released => item[index[k]].released,
         \A u \in Thread : "remove.index" \in Frames(u) => "remove.index" \in Frames(u)' /\ removal'[u].key = removal[u].key
  PROVE  Leaving'
BY DEF Leaving, IndexShrinks

\* A step that hands no item on and releases none.
LEMMA ItemsKept ==
  ASSUME CallInv, ItemInv, NEW t \in Thread, OthersSame(t), OtherLocalsSame(t), IndexShrinks,
         SetKept(t), ItemsFromIndex(t), ItemsSame, FlushKept(t), "remove.index" \notin Frames(t)
  PROVE  ItemInv'
<1>1. \A u \in Thread : SetKept(u) /\ ItemsFromIndex(u) /\ FlushKept(u)
  BY DEF OthersSame, OtherLocalsSame, SetKept, ItemsFromIndex, HandedItems, FlushKept, SameObject
<1>2. \A k \in Key : index[k] # NoItem => index[k] \in Item
  BY DEF CallInv, StoreTyped
<1>3. \A u \in Thread : Frames(u) \cap FlushLabel # {} => flush[u].item \in Item
  BY DEF CallInv, LocalsFit, FlushFits
<1>4. \A u \in Thread : Made(Frames(u)) => op[u].item \in Item
  BY NewIsItem DEF Made, InSet
<1>5. NewIsPrivate'
  BY <1>1, <1>4, PrivateKept DEF ItemInv, ItemsSame
<1>6. KeysMatch'
  BY <1>1, <1>2, <1>3, KeysKept DEF ItemInv, ItemsSame
<1>7. Leaving'
  BY <1>2, LeavingKept DEF ItemInv, ItemsSame, OthersSame, OtherLocalsSame
<1> QED BY <1>5, <1>6, <1>7 DEF ItemInv

LEMMA InnerItemsFrames ==
  ASSUME CallInv, NEW t \in Thread, OuterKept(t), UNCHANGED <<op, flush>>
  PROVE  SetKept(t) /\ FlushKept(t)
BY DEF OuterKept, SetKept, InSet, Made, FlushKept, SameObject, CallLabel

LEMMA AtOf == ASSUME CallInv, NEW t \in Thread, NEW l, At(t, l), l # "remove.index" PROVE "remove.index" \notin Frames(t)
<1>1. "remove.index" \in RemoveLabel
  BY DEF RemoveLabel
<1> QED BY <1>1, TopAlone DEF CallInv

LEMMA InnerItems ==
  ASSUME CallInv, ItemInv, NEW t \in Thread, Inner(t), ~DiskEmpty(t), ~RemoveIndex(t)
  PROVE  ItemInv'
<1>1. OthersSame(t) /\ OuterKept(t) /\ UNCHANGED <<op, flush, item, index>>
  BY InnerFrames, InnerKeeps DEF CallInv, Inner, MemAllocOk, MemAllocEvicts, MemAllocFails, ProcessedMem, DiskAllocOk, DiskAllocEvicts,
       DiskAllocFails, ProcessEvictedDisk, ProcessedDisk, RemoveBlock, RemoveDone, store, locals
<1>2. SetKept(t) /\ FlushKept(t) /\ IndexShrinks /\ ItemsSame
  BY <1>1, InnerItemsFrames DEF IndexShrinks, ItemsSame
<1>3. "remove.index" \notin Frames(t)
  BY AtOf DEF Inner, MemAllocOk, MemAllocEvicts, MemAllocFails, ProcessedMem, DiskAllocOk, DiskAllocEvicts,
       DiskAllocFails, ProcessEvictedDisk, ProcessedDisk, RemoveBlock, RemoveDone
<1>4. CASE UNCHANGED <<diskCall, removal>>
  BY <1>1, <1>2, <1>3, <1>4, ItemsKept DEF OtherLocalsSame, ItemsFromIndex, HandedItems
<1>5. CASE DiskAllocOk(t) \/ DiskAllocEvicts(t) \/ DiskAllocFails(t)
  <2>1. removal' = removal /\ \A u \in Thread \ {t} : diskCall'[u] = diskCall[u]
    BY <1>5 DEF DiskAllocOk, DiskAllocEvicts, DiskAllocFails, CallInv, LocalsTyped
  <2>2. diskCall'[t].item \in {diskCall[t].item, NoItem}
    <3>1. \A d, S : [NoDiskCall EXCEPT !.slot = d].item = NoItem /\ Retry(diskCall[t], S).item = diskCall[t].item
      BY FieldNames DEF NoDiskCall, Retry, CallInv, LocalsTyped, CallTyped
    <3>2. NoDiskCall.item = NoItem
      BY DEF NoDiskCall
    <3>3. PICK c \in {NoDiskCall} \cup {[NoDiskCall EXCEPT !.slot = d] : d \in Slot} \cup {Retry(diskCall[t], S) : S \in SUBSET Evictable(diskEv)} :
            diskCall' = [diskCall EXCEPT ![t] = c]
      BY <1>5 DEF DiskAllocOk, DiskAllocEvicts, DiskAllocFails, FreeSlots
    <3>4. c.item \in {diskCall[t].item, NoItem}
      BY <3>1, <3>2
    <3> QED BY <3>3, <3>4 DEF CallInv, LocalsTyped
  <2> QED BY <1>1, <1>2, <1>3, <2>1, <2>2, ItemsKept DEF OtherLocalsSame, ItemsFromIndex, HandedItems
<1>6. CASE ProcessEvictedDisk(t)
  <2>1. removal' = removal /\ \A u \in Thread \ {t} : diskCall'[u] = diskCall[u]
    BY <1>6 DEF ProcessEvictedDisk, CallInv, LocalsTyped
  <2>2. diskCall'[t].item \in {diskCall[t].item} \cup Indexed
    BY <1>6, FieldNames DEF ProcessEvictedDisk, CallInv, LocalsTyped, CallTyped, Indexed
  <2> QED BY <1>1, <1>2, <1>3, <2>1, <2>2, ItemsKept DEF OtherLocalsSame, ItemsFromIndex, HandedItems
<1>7. CASE RemoveBlock(t) \/ RemoveDone(t)
  <2>1. diskCall' = diskCall /\ \A u \in Thread \ {t} : removal'[u] = removal[u]
    BY <1>7 DEF RemoveBlock, RemoveDone, CallInv, LocalsTyped
  <2>2. removal'[t].item \in {removal[t].item, NoItem}
    BY <1>7, FieldNames DEF RemoveBlock, RemoveDone, NoRemoval, CallInv, LocalsTyped
  <2> QED BY <1>1, <1>2, <1>3, <2>1, <2>2, ItemsKept DEF OtherLocalsSame, ItemsFromIndex, HandedItems
<1> QED BY <1>4, <1>5, <1>6, <1>7 DEF Inner, MemAllocOk, MemAllocEvicts, MemAllocFails, ProcessedMem, ProcessedDisk, locals

LEMMA RemoveIndexItems == ASSUME CallInv, ItemInv, NEW t \in Thread, RemoveIndex(t) PROVE ItemInv'
<1>1. OthersSame(t) /\ OuterKept(t) /\ UNCHANGED <<op, flush, item, diskCall, removal>> /\ index' = [index EXCEPT ![removal[t].key] = NoItem]
  BY InnerFrames DEF CallInv, Inner, RemoveIndex, locals
<1>2. IndexShrinks
  BY <1>1 DEF CallInv, StoreTyped, IndexShrinks
<1>3. \A u \in Thread : SetKept(u) /\ FlushKept(u) /\ ItemsFromIndex(u)
  BY <1>1, InnerItemsFrames DEF OthersSame, SetKept, FlushKept, SameObject, ItemsFromIndex, HandedItems
<1>4. NewIsPrivate' /\ KeysMatch'
  BY <1>1, <1>2, <1>3, PrivateKept, KeysKept DEF ItemInv
<1>5. Leaving'
  <2> SUFFICES ASSUME NEW k \in Key, index'[k] # NoItem, item'[index'[k]].released
               PROVE  \E u \in Thread : "remove.index" \in Frames(u)' /\ removal'[u].key = k
    BY DEF Leaving
  <2>1. index'[k] = index[k] /\ k # removal[t].key
    BY <1>1, <1>2 DEF IndexShrinks, CallInv, StoreTyped
  <2>2. PICK u \in Thread : "remove.index" \in Frames(u) /\ removal[u].key = k
    BY <1>1, <2>1 DEF ItemInv, Leaving
  <2>3. u # t
    BY <2>1, <2>2
  <2> QED BY <1>1, <2>2, <2>3 DEF OthersSame
<1> QED BY <1>4, <1>5 DEF ItemInv

\* release_if_empty of an item the thread has.
LEMMA ReleaseItems ==
  ASSUME CallInv, ItemInv, NEW t \in Thread, NEW l, At(t, l), l \notin RemoveLabel, NEW m \in Label, Level(m) = Level(l), Level(l) < 7,
         NEW k, NEW i, i \in HandedItems(t), ReleaseIfEmpty(t, k, i, m), \A j \in Key : index[j] = i /\ i # NoItem => j = k,
         OthersSame(t), SetKept(t), FlushKept(t), OtherLocalsSame(t), UNCHANGED <<index, op, flush>>,
         diskCall'[t].item \in {diskCall[t].item, NoItem}
  PROVE  ItemInv'
<1>1. IndexShrinks /\ l # "remove.index"
  BY DEF IndexShrinks, RemoveLabel
<1>2. "remove.index" \notin Frames(t)
  BY <1>1, AtOf
<1>3. CASE ~(~item[i].released /\ Empty(i))
  <2>1. UNCHANGED <<item, removal>>
    BY <1>3 DEF ReleaseIfEmpty
  <2> QED BY <1>1, <1>2, <2>1, ItemsKept DEF ItemsFromIndex, HandedItems, ItemsSame
<1>4. CASE ~item[i].released /\ Empty(i)
  <2> DEFINE r == [key |-> k, item |-> i, b |-> 0]
  <2>1. item' = [item EXCEPT ![i].released = TRUE] /\ removal' = [removal EXCEPT ![t] = r] /\ Call(t, m, "remove.index")
    BY <1>4 DEF ReleaseIfEmpty
  <2>2. removal'[t].key = k /\ removal'[t].item = i
    BY <2>1 DEF CallInv, LocalsTyped
  <2>3. "remove.index" \in Frames(t)'
    <3>1. "remove.index" \in Label /\ Level("remove.index") = 7
      BY Levels DEF RemoveLabel
    <3> QED BY <2>1, <3>1, CallFrames DEF CallInv
  <2>4. \A u \in Thread : SetKept(u) /\ FlushKept(u) /\ ItemsFromIndex(u)
    BY <2>2 DEF OthersSame, OtherLocalsSame, SetKept, FlushKept, SameObject, ItemsFromIndex, HandedItems
  <2>5. \A j \in Item : item'[j].key = item[j].key /\ (j # i => item'[j].released = item[j].released)
    BY <2>1, FieldNames DEF CallInv, StoreTyped
  <2>6. \A u \in Thread : Made(Frames(u)) => op[u].item \in Item \ {i}
    <3> SUFFICES ASSUME NEW u \in Thread, Made(Frames(u)) PROVE op[u].item \in Item \ {i}
      OBVIOUS
    <3>1. InSet(Frames(u))
      BY DEF Made, InSet
    <3>2. op[u].item \in Item
      BY <3>1, NewIsItem
    <3>3. op[u].item # i
      BY <3>1 DEF ItemInv, NewIsPrivate, HandedItems, Refs
    <3> QED BY <3>2, <3>3
  <2>7. NewIsPrivate'
    BY <1>1, <2>4, <2>5, <2>6, PrivateKept DEF ItemInv
  <2>8. KeysMatch'
    <3>1. \A j \in Key : index[j] # NoItem => index[j] \in Item
      BY DEF CallInv, StoreTyped
    <3>2. \A u \in Thread : Frames(u) \cap FlushLabel # {} => flush[u].item \in Item
      BY DEF CallInv, LocalsFit, FlushFits
    <3> QED BY <1>1, <2>4, <2>5, <3>1, <3>2, KeysKept DEF ItemInv
  <2>9. Leaving'
    <3> SUFFICES ASSUME NEW j \in Key, index'[j] # NoItem, item'[index'[j]].released
                 PROVE  \E u \in Thread : "remove.index" \in Frames(u)' /\ removal'[u].key = j
      BY DEF Leaving
    <3>1. index[j] \in Item /\ index'[j] = index[j]
      BY DEF CallInv, StoreTyped
    <3>2. CASE index[j] = i
      BY <2>2, <2>3, <3>1, <3>2
    <3>3. CASE index[j] # i
      <4>1. item[index[j]].released
        BY <2>5, <3>1, <3>3
      <4>2. PICK u \in Thread : "remove.index" \in Frames(u) /\ removal[u].key = j
        BY <3>1, <4>1 DEF ItemInv, Leaving
      <4>3. u # t
        BY <1>2, <4>2
      <4> QED BY <4>2, <4>3 DEF OthersSame, OtherLocalsSame
    <3> QED BY <3>2, <3>3
  <2> QED BY <2>7, <2>8, <2>9 DEF ItemInv
<1> QED BY <1>3, <1>4

LEMMA DiskEmptyItems == ASSUME CallInv, ItemInv, NEW t \in Thread, DiskEmpty(t) PROVE ItemInv'
<1> DEFINE i == diskCall[t].item
<1>1. OthersSame(t) /\ OuterKept(t)
  BY InnerFrames DEF CallInv, Inner
<1>2. SetKept(t) /\ FlushKept(t)
  BY <1>1, InnerItemsFrames DEF DiskEmpty
<1>3. /\ \A u \in Thread \ {t} : diskCall'[u] = diskCall[u] /\ removal'[u] = removal[u]
      /\ diskCall'[t].item = NoItem
  BY FieldNames DEF DiskEmpty, ReleaseIfEmpty, CallInv, LocalsTyped, CallTyped
<1>4. /\ "disk.empty" \notin RemoveLabel /\ "disk.evicted" \in Label /\ Level("disk.empty") = 6 /\ Level("disk.evicted") = 6
  BY Levels DEF EvictLabel, RemoveLabel
<1>5. \A j \in Key : index[j] = i /\ i # NoItem => j = item[i].key
  BY DEF ItemInv, KeysMatch
<1>6. At(t, "disk.empty") /\ ReleaseIfEmpty(t, item[i].key, i, "disk.evicted") /\ UNCHANGED <<index, op, flush>>
  BY DEF DiskEmpty
<1>7. OtherLocalsSame(t)
  BY <1>3, <1>6 DEF OtherLocalsSame
<1>8. i \in HandedItems(t)
  BY DEF HandedItems
<1> QED BY <1>1, <1>2, <1>3, <1>4, <1>5, <1>6, <1>7, <1>8, ReleaseItems

LEMMA FlushItemsFrames ==
  ASSUME CallInv, NEW t \in Thread, NEW l \in FlushLabel, At(t, l), UNCHANGED <<op, index>>,
         CallsKept(t), (flush'[t] = NoFlush /\ Frames(t)' \cap FlushLabel = {}) \/ SameObject(flush'[t], flush[t])
  PROVE  SetKept(t) /\ FlushKept(t) /\ IndexShrinks /\ "remove.index" \notin Frames(t)
<1>1. Frames(t) \cap FlushLabel # {}
  BY InFlush
<1>2. "remove.index" \notin Frames(t)
  BY AtOf DEF FlushLabel
<1>3. SetKept(t)
  BY DEF CallsKept, SetKept, InSet, Made, SameObject, CallLabel
<1> QED BY <1>1, <1>2, <1>3 DEF FlushKept, IndexShrinks

LEMMA FlushingItems ==
  ASSUME CallInv, ItemInv, NEW t \in Thread, Flushing(t), ~ProcessEvictedMem(t), ~FlushEmpty(t)
  PROVE  ItemInv'
<1>1. PICK l \in FlushLabel, m \in FlushLabel :
        At(t, l) /\ ((Return(t) /\ flush' = [flush EXCEPT ![t] = NoFlush]) \/ Goto(t, m) \/ Call(t, m, "disk.alloc"))
  <2> "flush.begin" \in FlushLabel /\ "flush.decide" \in FlushLabel /\ "flush.delete" \in FlushLabel /\ "flush.empty" \in FlushLabel
      /\ "flush.return" \in FlushLabel /\ "flush.target" \in FlushLabel /\ "flush.alloc" \in FlushLabel /\ "flush.write" \in FlushLabel /\ "flush.drop" \in FlushLabel
    BY DEF FlushLabel
  <2>1. CASE FlushBegin(t) \/ FlushDecide(t)
    BY <2>1 DEF FlushBegin, FlushDecide, EndFlush
  <2>2. CASE FlushDelete(t) \/ FlushReturn(t) \/ FlushDrop(t)
    BY <2>2 DEF FlushDelete, FlushReturn, FlushDrop, EndFlush
  <2>3. CASE FlushTarget(t) \/ FlushAlloc(t)
    BY <2>3 DEF FlushTarget, FlushAlloc
  <2>4. CASE FlushWrite(t) \/ FlushWriteFails(t)
    BY <2>4 DEF FlushWrite, FlushWriteFails
  <2> QED BY <2>1, <2>2, <2>3, <2>4 DEF Flushing
<1>2. CallsKept(t) /\ OthersSame(t) /\ (Return(t) => Frames(t)' \cap FlushLabel = {})
  BY <1>1, FlushFrames DEF FlushMoves, CallInv
<1>3. UNCHANGED <<index, item, op, removal>>
  BY FlushStepKeeps DEF Flushing, FlushBegin, FlushDecide, FlushDelete, FlushReturn, FlushTarget, FlushAlloc, FlushWrite, FlushWriteFails, FlushDrop, store, locals
<1>4. /\ \A u \in Thread \ {t} : diskCall'[u] = diskCall[u]
      /\ diskCall'[t].item \in {diskCall[t].item, NoItem}
  <2>1. NoDiskCall.item = NoItem
    BY DEF NoDiskCall
  <2>2. diskCall' = diskCall \/ diskCall' = [diskCall EXCEPT ![t] = NoDiskCall]
    BY DEF Flushing, FlushBegin, FlushDecide, FlushDelete, FlushReturn, FlushTarget, FlushAlloc, FlushWrite, FlushWriteFails, FlushDrop, locals
  <2> QED BY <2>1, <2>2 DEF CallInv, LocalsTyped
<1>5. /\ \A u \in Thread \ {t} : flush'[u] = flush[u]
      /\ (flush'[t] = NoFlush /\ Return(t)) \/ SameObject(flush'[t], flush[t])
  <2>1. DOMAIN flush = Thread /\ DOMAIN flush[t] = DOMAIN NoFlush
    BY DEF CallInv, LocalsTyped, FlushTyped
  <2>2. CASE FlushBegin(t)
    <3>1. \A h : SameObject([flush[t] EXCEPT !.held = h], flush[t])
      BY <2>1, FieldNames DEF SameObject
    <3>2. CASE EndFlush(t)
      BY <2>1, <3>2 DEF EndFlush
    <3>3. CASE ~EndFlush(t)
      <4>1. flush' = [flush EXCEPT ![t] = [flush[t] EXCEPT !.held = flush[t].key \in diskEv.tracked]]
        BY <2>2, <3>3 DEF FlushBegin
      <4>2. SameObject([flush[t] EXCEPT !.held = flush[t].key \in diskEv.tracked], flush[t])
        BY Zenon, <3>1
      <4> DEFINE g == [flush[t] EXCEPT !.held = flush[t].key \in diskEv.tracked]
      <4>3. flush' = [flush EXCEPT ![t] = g] /\ SameObject(g, flush[t])
        BY <4>1, <4>2
      <4> HIDE DEF g
      <4> QED BY <2>1, <4>3
    <3> QED BY <3>2, <3>3
  <2>3. CASE FlushDecide(t)
    <3> DEFINE g(s, p) == [[flush[t] EXCEPT !.segs = s] EXCEPT !.pinned = p]
    <3>1. \A s, p : SameObject(g(s, p), flush[t])
      BY <2>1, FieldNames DEF SameObject
    <3>2. CASE EndFlush(t)
      BY <2>1, <3>2 DEF EndFlush
    <3>3. CASE UNCHANGED flush
      BY <3>3 DEF SameObject
    <3>4. CASE \E s, p : flush' = [flush EXCEPT ![t] = g(s, p)]
      <4>1. PICK s, p : flush' = [flush EXCEPT ![t] = g(s, p)]
        BY <3>4
      <4>2. SameObject(g(s, p), flush[t])
        BY <3>1
      <4> HIDE DEF g
      <4> QED BY <2>1, <4>1, <4>2
    <3>5. EndFlush(t) \/ UNCHANGED flush \/ \E s, p : flush' = [flush EXCEPT ![t] = g(s, p)]
      <4> DEFINE s == mem[flush[t].item][flush[t].b].slices
                 p == item[flush[t].item].pinned
      <4>1. EndFlush(t) \/ UNCHANGED flush \/ flush' = [flush EXCEPT ![t].segs = s, ![t].pinned = p]
        BY <2>3 DEF FlushDecide
      <4> HIDE DEF s, p
      <4>2. [flush EXCEPT ![t].segs = s, ![t].pinned = p] = [flush EXCEPT ![t] = g(s, p)]
        BY <2>1
      <4>3. EndFlush(t) \/ UNCHANGED flush \/ flush' = [flush EXCEPT ![t] = g(s, p)]
        BY <4>1, <4>2
      <4> HIDE DEF g
      <4> QED BY <4>3
    <3> QED BY <3>2, <3>3, <3>4, <3>5
  <2>4. CASE FlushDelete(t) \/ FlushReturn(t) \/ FlushDrop(t)
    BY <2>1, <2>4 DEF FlushDelete, FlushReturn, FlushDrop, EndFlush, SameObject, locals
  <2>5. CASE FlushTarget(t) \/ FlushAlloc(t)
    BY <2>1, <2>5, FieldNames DEF FlushTarget, FlushAlloc, SameObject
  <2>6. CASE FlushWrite(t) \/ FlushWriteFails(t)
    BY <2>1, <2>6, FieldNames DEF FlushWrite, FlushWriteFails, SameObject
  <2> QED BY <2>2, <2>3, <2>4, <2>5, <2>6 DEF Flushing
<1>6. SetKept(t) /\ FlushKept(t) /\ IndexShrinks /\ "remove.index" \notin Frames(t)
  BY <1>1, <1>2, <1>3, <1>5, FlushItemsFrames
<1>7. ItemsFromIndex(t) /\ OtherLocalsSame(t) /\ ItemsSame
  <2>1. NoFlush.item = NoItem
    BY DEF NoFlush
  <2> QED BY <1>3, <1>4, <1>5, <2>1 DEF ItemsFromIndex, HandedItems, OtherLocalsSame, ItemsSame, SameObject
<1> QED BY <1>2, <1>6, <1>7, ItemsKept

LEMMA FlushEmptyItems == ASSUME CallInv, ItemInv, NEW t \in Thread, FlushEmpty(t) PROVE ItemInv'
<1> DEFINE f == flush[t]
<1>1. /\ At(t, "flush.empty") /\ ReleaseIfEmpty(t, f.key, f.item, "flush.return") /\ UNCHANGED <<index, op, flush, diskCall>>
      /\ "flush.empty" \in FlushLabel /\ "flush.return" \in FlushLabel
  BY DEF FlushEmpty, FlushLabel
<1>2. CallsKept(t) /\ OthersSame(t)
  BY <1>1, FlushFrames DEF FlushMoves, CallInv, ReleaseIfEmpty
<1>3. SetKept(t) /\ FlushKept(t)
  BY <1>1, <1>2, FlushItemsFrames DEF SameObject
<1>4. \A u \in Thread \ {t} : removal'[u] = removal[u]
  BY <1>1 DEF ReleaseIfEmpty, CallInv, LocalsTyped
<1>5. /\ "flush.empty" \notin RemoveLabel /\ "flush.return" \in Label /\ Level("flush.empty") = 4 /\ Level("flush.return") = 4
  BY <1>1, Levels DEF RemoveLabel
<1>6. \A j \in Key : index[j] = f.item /\ f.item # NoItem => j = f.key
  <2>1. item[f.item].key = f.key
    BY <1>1, InFlush DEF ItemInv, KeysMatch
  <2> QED BY <2>1 DEF ItemInv, KeysMatch
<1>7. OtherLocalsSame(t) /\ f.item \in HandedItems(t)
  BY <1>1, <1>4 DEF OtherLocalsSame, HandedItems
<1> QED BY <1>1, <1>2, <1>3, <1>5, <1>6, <1>7, ReleaseItems

LEMMA ProcessEvictedMemItems == ASSUME CallInv, ItemInv, NEW t \in Thread, ProcessEvictedMem(t) PROVE ItemInv'
<1>1. "remove.index" \notin Frames(t) /\ UNCHANGED <<index, item, op, diskCall, removal>>
  BY AtOf DEF ProcessEvictedMem
<1>2. CASE UNCHANGED <<stack, flush>>
  <2>1. \A u \in Thread : Frames(u)' = Frames(u)
    BY <1>2, SameFrames DEF CallInv
  <2> QED BY <1>1, <1>2, <2>1, ItemsKept DEF OthersSame, OtherLocalsSame, IndexShrinks, SetKept, SameObject, ItemsFromIndex, HandedItems, ItemsSame, FlushKept
<1>3. CASE ~UNCHANGED <<stack, flush>>
  <2>1. PICK k \in Key, b \in Block :
          /\ index[k] # NoItem
          /\ flush' = [flush EXCEPT ![t] = [NoFlush EXCEPT !.key = k, !.item = index[k], !.b = b]]
          /\ Call(t, "mem.evicted", "flush.begin")
    BY <1>3 DEF ProcessEvictedMem
  <2>2. flush'[t].key = k /\ flush'[t].item = index[k] /\ \A u \in Thread \ {t} : flush'[u] = flush[u]
    BY <2>1, FieldNames DEF CallInv, LocalsTyped
  <2>3. OthersSame(t) /\ Frames(t)' = (Frames(t) \ {"mem.evicted"}) \cup {"mem.evicted", "flush.begin"}
    <3>1. Level("mem.evicted") = 3 /\ Level("flush.begin") = 4 /\ {"mem.evicted", "flush.begin"} \subseteq Label
      BY Levels DEF FlushLabel
    <3> QED BY <2>1, <3>1, CallFrames DEF CallInv, OthersSame, ProcessEvictedMem
  <2>4. "mem.evicted" \in Frames(t)
    BY TopFrame DEF CallInv, ProcessEvictedMem
  <2>5. SetKept(t)
    BY <1>1, <2>3, <2>4 DEF SetKept, InSet, Made, SameObject, SetLabel
  <2>6. \A u \in Thread : SetKept(u) /\ ItemsFromIndex(u)
    BY <1>1, <2>2, <2>3, <2>5 DEF OthersSame, SetKept, SameObject, ItemsFromIndex, HandedItems, Indexed
  <2>7. IndexShrinks
    BY <1>1 DEF IndexShrinks
  <2>8. NewIsPrivate'
    BY <1>1, <2>6, <2>7, PrivateKept DEF ItemInv
  <2>9. KeysMatch'
    BY <1>1, <2>1, <2>2, <2>3 DEF ItemInv, KeysMatch, OthersSame
  <2>10. Leaving'
    BY <1>1, <2>3, <2>7, LeavingKept DEF ItemInv, OthersSame
  <2> QED BY <2>8, <2>9, <2>10 DEF ItemInv
<1> QED BY <1>2, <1>3

\* The steps of a call change the stack and op of their own thread.
LEMMA CallingOthers ==
  ASSUME CallInv, NEW t \in Thread, Calling(t)
  PROVE  OthersSame(t) /\ UNCHANGED <<flush, removal>> /\ \A u \in Thread \ {t} : op'[u] = op[u]
<1>1. DOMAIN op = Thread /\ DOMAIN stack = Thread
  BY DEF CallInv, LocalsTyped, Stacked
<1>2. ASSUME NEW l, Goto(t, l) \/ Return(t) \/ UNCHANGED stack \/ \E r : Call(t, l, r) PROVE OthersSame(t)
  BY <1>1, <1>2 DEF Goto, Return, Call, OthersSame, Frames
<1>3. Finish(t) => OthersSame(t) /\ \A u \in Thread \ {t} : op'[u] = op[u]
  BY <1>1, <1>2 DEF Finish
<1>4. NextBlock(t) => OthersSame(t) /\ \A u \in Thread \ {t} : op'[u] = op[u]
  BY <1>1, <1>2, <1>3 DEF NextBlock
<1>5. NextOf(t) => OthersSame(t) /\ \A u \in Thread \ {t} : op'[u] = op[u]
  BY <1>1, <1>2, <1>3 DEF NextOf
<1>6. CASE SetItem(t)
  BY <1>2, <1>6 DEF SetItem
<1>7. CASE SetBlock(t)
  BY <1>2, <1>3, <1>7 DEF SetBlock
<1>8. CASE SetMem(t)
  BY <1>1, <1>2, <1>3, <1>8 DEF SetMem
<1>9. CASE SetDisk(t)
  BY <1>1, <1>2, <1>3, <1>9 DEF SetDisk
<1>10. CASE SetInsert(t)
  BY <1>3, <1>10 DEF SetInsert
<1>11. CASE ReadBlock(t)
  BY <1>1, <1>2, <1>3, <1>4, <1>11 DEF ReadBlock
<1>12. CASE ReadDisk(t)
  <2>1. CASE NextBlock(t) \/ Finish(t)
    BY <1>3, <1>4, <1>12, <2>1 DEF ReadDisk
  <2>2. CASE ~(NextBlock(t) \/ Finish(t))
    <3>1. OthersSame(t) /\ UNCHANGED <<flush, removal>>
      BY <1>2, <1>12, <2>2 DEF ReadDisk
    <3>2. PICK o : op' = [op EXCEPT ![t] = o]
      BY <1>12, <2>2 DEF ReadDisk
    <3> QED BY <1>1, <3>1, <3>2
  <2> QED BY <2>1, <2>2
<1>13. CASE PromoteCheck(t)
  BY <1>1, <1>2, <1>4, <1>13 DEF PromoteCheck
<1>14. CASE PromoteSet(t)
  BY <1>4, <1>14 DEF PromoteSet
<1>15. CASE PinUntrack(t)
  BY <1>3, <1>5, <1>15 DEF PinUntrack, locals
<1>16. CASE UnpinTrack(t)
  BY <1>3, <1>5, <1>16 DEF UnpinTrack
<1> QED BY <1>6, <1>7, <1>8, <1>9, <1>10, <1>11, <1>12, <1>13, <1>14, <1>15, <1>16 DEF Calling

LEMMA CallingAt == ASSUME NEW t \in Thread, Calling(t) PROVE \E l \in CallLabel : At(t, l)
<1>1. CASE SetItem(t) \/ SetBlock(t) \/ SetMem(t) \/ SetDisk(t) \/ SetInsert(t)
  BY <1>1 DEF SetItem, SetBlock, SetMem, SetDisk, SetInsert, CallLabel, SetLabel
<1>2. CASE ReadBlock(t) \/ ReadDisk(t) \/ PromoteCheck(t) \/ PromoteSet(t)
  BY <1>2 DEF ReadBlock, ReadDisk, PromoteCheck, PromoteSet, CallLabel, ReadLabel
<1>3. CASE PinUntrack(t) \/ UnpinTrack(t)
  BY <1>3 DEF PinUntrack, UnpinTrack, CallLabel, PinLabel
<1> QED BY <1>1, <1>2, <1>3 DEF Calling

\* A call is in one frame of its own, and in no flush or removal.
LEMMA CallingFrames ==
  ASSUME CallInv, NEW t \in Thread, Calling(t)
  PROVE  Frames(t) \cap RemoveLabel = {} /\ Frames(t) \cap FlushLabel = {}
<1>1. PICK l \in CallLabel : At(t, l)
  BY CallingAt
<1>2. Frames(t) = {l}
  BY <1>1, InCall
<1> QED BY <1>1, <1>2 DEF CallLabel, SetLabel, ReadLabel, PinLabel, FlushLabel, RemoveLabel

\* No step of a call enters a flush.
LEMMA CallingNoFlush == ASSUME CallInv, NEW t \in Thread, Calling(t) PROVE Frames(t)' \cap FlushLabel = {}
<1>1. PICK l \in CallLabel : At(t, l)
  BY CallingAt
<1>2. /\ \A m \in CallLabel : {m} \cap FlushLabel = {}
      /\ \A m \in CallLabel : \A r \in {"mem.alloc", "disk.alloc"} : {m, r} \cap FlushLabel = {}
  BY DEF CallLabel, SetLabel, ReadLabel, PinLabel, FlushLabel
<1>3. /\ Return(t) => Frames(t)' \cap FlushLabel = {}
      /\ UNCHANGED stack => Frames(t)' \cap FlushLabel = {}
      /\ \A m \in CallLabel : Goto(t, m) => Frames(t)' \cap FlushLabel = {}
      /\ \A m \in CallLabel : \A r \in {"mem.alloc", "disk.alloc"} : Call(t, m, r) => Frames(t)' \cap FlushLabel = {}
  <2>1. Frames(t) = {l}
    BY <1>1, InCall
  <2>2. UNCHANGED stack => Frames(t)' = {l}
    BY <2>1, SameFrames DEF CallInv
  <2> QED BY <1>1, <1>2, <2>2, CallFramesTo DEF CallTo
<1>4. /\ {"set.block", "set.mem", "set.disk", "read.block", "read.disk", "promote.check", "promote.set"} \subseteq CallLabel
  BY DEF CallLabel, SetLabel, ReadLabel
<1>5. Finish(t) \/ NextBlock(t) \/ NextOf(t) => Frames(t)' \cap FlushLabel = {}
  BY <1>3, <1>4 DEF Finish, NextBlock, NextOf
<1>6. CASE SetItem(t) \/ SetBlock(t) \/ SetMem(t) \/ SetDisk(t) \/ SetInsert(t)
  BY <1>3, <1>4, <1>5, <1>6 DEF SetItem, SetBlock, SetMem, SetDisk, SetInsert
<1>7. CASE ReadBlock(t) \/ ReadDisk(t)
  BY <1>3, <1>4, <1>5, <1>7 DEF ReadBlock, ReadDisk
<1>8. CASE PromoteCheck(t) \/ PromoteSet(t)
  BY <1>3, <1>4, <1>5, <1>8 DEF PromoteCheck, PromoteSet
<1>9. CASE PinUntrack(t) \/ UnpinTrack(t)
  BY <1>5, <1>9 DEF PinUntrack, UnpinTrack
<1> QED BY <1>6, <1>7, <1>8, <1>9 DEF Calling

LEMMA CallingItems ==
  ASSUME CallInv, CallInv', ItemInv, NEW t \in Thread, Calling(t), ~SetItem(t), ~SetInsert(t)
  PROVE  ItemInv'
<1>1. OthersSame(t) /\ UNCHANGED <<flush, removal>> /\ (\A u \in Thread \ {t} : op'[u] = op[u])
  BY CallingOthers
<1>2. "remove.index" \notin Frames(t) /\ FlushKept(t)
  BY CallingFrames, CallingNoFlush DEF RemoveLabel, FlushKept
<1>3. UNCHANGED <<index, item>>
  BY DEF Calling, SetBlock, SetMem, SetDisk, ReadBlock, ReadDisk, PromoteCheck, PromoteSet, PinUntrack, UnpinTrack, store
<1>4. /\ \A u \in Thread \ {t} : diskCall'[u] = diskCall[u]
      /\ diskCall'[t].item \in {diskCall[t].item, NoItem}
  <2>1. NoDiskCall.item = NoItem
    BY DEF NoDiskCall
  <2>2. diskCall' = diskCall \/ diskCall' = [diskCall EXCEPT ![t] = NoDiskCall]
    BY DEF Calling, SetBlock, SetMem, SetDisk, ReadBlock, ReadDisk, PromoteCheck, PromoteSet, PinUntrack, UnpinTrack, locals
  <2> QED BY <2>1, <2>2 DEF CallInv, LocalsTyped
<1>5. SetKept(t) /\ op'[t].item \in {op[t].item, NoItem}
  <2>1. CASE SetBlock(t) \/ SetMem(t) \/ SetDisk(t)
    <3>1. SetGoesOn(t)
      BY <2>1, SetBlockCalls, SetMemCalls, SetDiskCalls
    <3>2. Made(Frames(t)) /\ InSet(Frames(t))
      <4>1. PICK l \in {"set.block", "set.mem", "set.disk"} : At(t, l)
        BY <2>1 DEF SetBlock, SetMem, SetDisk
      <4>2. l \in Frames(t)
        BY <4>1, TopFrame DEF CallInv
      <4> QED BY <4>2 DEF Made, InSet, SetLabel
    <3> QED BY <3>1, <3>2 DEF SetGoesOn, SetKept, SameObject, InSet
  <2>2. CASE ~(SetBlock(t) \/ SetMem(t) \/ SetDisk(t))
    <3>1. NotSet(t)
      BY <2>2, ReadBlockCalls, ReadDiskCalls, PromoteCheckCalls, PromoteSetCalls, PinUntrackCalls, UnpinTrackCalls DEF Calling
    <3>2. ~InSet(Frames(t)')
      BY <3>1 DEF NotSet, InSet, SetLabel, CallLabel, ReadLabel, PinLabel
    <3> QED BY <3>1, <3>2 DEF NotSet, SetKept, SameObject
  <2> QED BY <2>1, <2>2
<1>6. IndexShrinks /\ ItemsSame /\ OtherLocalsSame(t) /\ ItemsFromIndex(t)
  BY <1>1, <1>3, <1>4, <1>5 DEF IndexShrinks, ItemsSame, OtherLocalsSame, ItemsFromIndex, HandedItems
<1> QED BY <1>1, <1>2, <1>5, <1>6, ItemsKept

LEMMA SetItemItems == ASSUME CallInv, ItemInv, NEW t \in Thread, SetItem(t) PROVE ItemInv'
<1> DEFINE i == op[t].item
<1>1. OthersSame(t) /\ UNCHANGED <<index, op, flush, diskCall, removal>>
  BY CallingOthers DEF Calling, SetItem
<1>2. At(t, "set.item") /\ "set.item" \in CallLabel /\ InSet({"set.item"}) /\ i \in Item /\ Frames(t) = {"set.item"}
  <2>1. At(t, "set.item") /\ "set.item" \in CallLabel /\ InSet({"set.item"})
    BY DEF SetItem, CallLabel, SetLabel, InSet
  <2> QED BY <2>1, InCall
<1>3. /\ i \notin Indexed /\ i \notin HandedItems(t)
      /\ \A u \in Thread \ {t} : i \notin Refs(u)
  BY <1>2 DEF ItemInv, NewIsPrivate, HandedItems
<1>4. item'[i].key = op[t].key /\ ~item'[i].released /\ \A j \in Item \ {i} : item'[j] = item[j]
  BY <1>2 DEF SetItem, CallInv, StoreTyped
<1>5. \A u \in Thread : Frames(u)' \cap FlushLabel = Frames(u) \cap FlushLabel
  <2>1. Frames(t)' \cap FlushLabel = {} /\ Frames(t) \cap FlushLabel = {}
    BY CallingNoFlush, CallingFrames DEF Calling
  <2> QED BY <1>1, <2>1 DEF OthersSame
<1>6. NewIsPrivate'
  <2> SUFFICES ASSUME NEW u \in Thread, InSet(Frames(u)')
               PROVE  /\ op[u].item \notin Indexed
                      /\ op[u].item \notin HandedItems(u)
                      /\ \A v \in Thread \ {u} : op[u].item \notin Refs(v)
                      /\ Made(Frames(u)') => item'[op[u].item].key = op[u].key /\ ~item'[op[u].item].released
    BY <1>1 DEF NewIsPrivate, HandedItems, Refs, Indexed
  <2>1. CASE u = t
    BY <1>3, <1>4, <2>1
  <2>2. CASE u # t
    <3>1. Frames(u)' = Frames(u) /\ op[u].item # i
      BY <1>1, <1>3, <2>2 DEF OthersSame, Refs
    <3>2. op[u].item \in Item
      BY <3>1, NewIsItem
    <3> QED BY <1>4, <3>1, <3>2 DEF ItemInv, NewIsPrivate, HandedItems
  <2> QED BY <2>1, <2>2
<1>7. KeysMatch'
  <2>1. \A k \in Key : index[k] # NoItem => index[k] \in Item \ {i}
    BY <1>3 DEF CallInv, StoreTyped, Indexed
  <2>2. \A u \in Thread : Frames(u) \cap FlushLabel # {} => flush[u].item \in Item \ {i}
    BY <1>3 DEF CallInv, LocalsFit, FlushFits, HandedItems, Refs
  <2>3. \A k \in Key : index[k] # NoItem => item'[index[k]].key = k
    BY <1>4, <2>1 DEF ItemInv, KeysMatch
  <2>4. \A u \in Thread : Frames(u)' \cap FlushLabel # {} => item'[flush[u].item].key = flush[u].key
    BY <1>4, <1>5, <2>2 DEF ItemInv, KeysMatch
  <2> QED BY <1>1, <2>3, <2>4 DEF KeysMatch
<1>8. Leaving'
  <2>1. \A k \in Key : index[k] # NoItem => item'[index[k]] = item[index[k]]
    BY <1>3, <1>4 DEF CallInv, StoreTyped, Indexed
  <2>2. IndexShrinks
    BY <1>1 DEF IndexShrinks
  <2>3. "remove.index" \notin Frames(t)
    BY <1>2
  <2> QED BY <1>1, <2>1, <2>2, <2>3, LeavingKept DEF ItemInv, OthersSame
<1> QED BY <1>6, <1>7, <1>8 DEF ItemInv

LEMMA SetInsertItems == ASSUME CallInv, ItemInv, NEW t \in Thread, SetInsert(t) PROVE ItemInv'
<1> DEFINE i == op[t].item
           k == op[t].key
<1>1. OthersSame(t) /\ UNCHANGED <<item, flush, diskCall, removal>> /\ \A u \in Thread \ {t} : op'[u] = op[u]
  BY CallingOthers DEF Calling, SetInsert
<1>2. At(t, "set.block") /\ "set.block" \in CallLabel /\ i \in Item /\ k \in Key /\ Frames(t) = {"set.block"} /\ Frames(t)' = {}
  <2>1. At(t, "set.block") /\ "set.block" \in CallLabel
    BY DEF SetInsert, CallLabel, SetLabel
  <2> QED BY <2>1, InCall, SetInsertCalls
<1>3. InSet(Frames(t)) /\ Made(Frames(t))
  BY <1>2 DEF InSet, Made, SetLabel
<1>4. /\ item[i].key = k /\ ~item[i].released
      /\ \A u \in Thread \ {t} : i \notin Refs(u)
  BY <1>3 DEF ItemInv, NewIsPrivate
<1>5. index'[k] = i /\ \A j \in Key \ {k} : index'[j] = index[j]
  BY <1>2 DEF SetInsert, CallInv, StoreTyped
<1>6. NewIsPrivate'
  <2> SUFFICES ASSUME NEW u \in Thread, InSet(Frames(u)')
               PROVE  /\ op'[u].item \notin Indexed'
                      /\ op'[u].item \notin HandedItems(u)
                      /\ \A v \in Thread \ {u} : op'[u].item \notin Refs(v)'
                      /\ Made(Frames(u)') => item[op'[u].item].key = op'[u].key /\ ~item[op'[u].item].released
    BY <1>1 DEF NewIsPrivate, HandedItems
  <2>1. u # t
    BY <1>2 DEF InSet
  <2>2. Frames(u)' = Frames(u) /\ op'[u] = op[u] /\ op[u].item # i /\ op[u].item \in Item /\ InSet(Frames(u))
    BY <1>1, <1>4, <2>1, NewIsItem DEF OthersSame, Refs
  <2>3. /\ op[u].item \notin Indexed /\ op[u].item \notin HandedItems(u) /\ \A v \in Thread \ {u} : op[u].item \notin Refs(v)
        /\ Made(Frames(u)) => item[op[u].item].key = op[u].key /\ ~item[op[u].item].released
    BY <2>2 DEF ItemInv, NewIsPrivate, HandedItems
  <2>4. op[u].item \notin Indexed'
    BY <1>5, <2>2, <2>3 DEF Indexed
  <2>5. op'[t].item = NoItem
    <3>1. DOMAIN op = Thread /\ NoOp.item = NoItem
      BY DEF CallInv, LocalsTyped, NoOp
    <3> QED BY <3>1 DEF SetInsert, Finish
  <2>6. \A v \in Thread \ {u} : op[u].item \notin Refs(v)'
    BY <1>1, <2>2, <2>3, <2>5, Nulls DEF Refs
  <2> QED BY <2>2, <2>3, <2>4, <2>6
<1>7. KeysMatch'
  <2>1. \A u \in Thread : Frames(u)' \cap FlushLabel # {} => Frames(u) \cap FlushLabel # {}
    BY <1>1, <1>2 DEF OthersSame
  <2> QED BY <1>1, <1>4, <1>5, <2>1 DEF ItemInv, KeysMatch
<1>8. Leaving'
  <2> SUFFICES ASSUME NEW j \in Key, index'[j] # NoItem, item[index'[j]].released
               PROVE  \E u \in Thread : "remove.index" \in Frames(u)' /\ removal[u].key = j
    BY <1>1 DEF Leaving
  <2>1. j # k /\ index'[j] = index[j]
    BY <1>4, <1>5
  <2>2. PICK u \in Thread : "remove.index" \in Frames(u) /\ removal[u].key = j
    BY <2>1 DEF ItemInv, Leaving
  <2>3. u # t
    BY <1>2, <2>2
  <2> QED BY <1>1, <2>2, <2>3 DEF OthersSame
<1> QED BY <1>6, <1>7, <1>8 DEF ItemInv

LEMMA SetStartItems ==
  ASSUME CallInv, ItemInv, NEW t \in Thread, NEW k \in Key, NEW n \in 1 .. MaxBlocks, NEW pinned, SetStart(t, k, n, pinned)
  PROVE  ItemInv'
<1> DEFINE i == op'[t].item
<1>1. /\ i \in Unused
      /\ \A u \in Thread \ {t} : op'[u] = op[u] /\ Frames(u)' = Frames(u) /\ removal'[u] = removal[u]
      /\ removal'[t].item \in {removal[t].item, index[k]}
      /\ Frames(t)' \subseteq {"set.item", "mem.alloc", "remove.index"}
  BY SetStartCalls
<1>2. Frames(t) = {} /\ UNCHANGED <<index, item, flush, diskCall>>
  BY EmptyStack DEF SetStart, Frames, store
<1>3. i \in Item /\ i \notin Indexed /\ \A u \in Thread : i \notin Refs(u)
  BY <1>1 DEF Unused, Live, Indexed
<1>4. ~Made(Frames(t)') /\ Frames(t)' \cap FlushLabel = {}
  BY <1>1 DEF Made, SetLabel, FlushLabel
<1> HIDE DEF i
<1>5. NewIsPrivate'
  <2> SUFFICES ASSUME NEW u \in Thread, InSet(Frames(u)')
               PROVE  /\ op'[u].item \notin Indexed
                      /\ op'[u].item \notin {flush[u].item, diskCall[u].item, removal'[u].item}
                      /\ \A v \in Thread \ {u} : op'[u].item \notin {op'[v].item, flush[v].item, diskCall[v].item, removal'[v].item}
                      /\ Made(Frames(u)') => item[op'[u].item].key = op'[u].key /\ ~item[op'[u].item].released
    BY <1>2 DEF NewIsPrivate, Refs, Indexed
  <2>1. CASE u = t
    BY <1>1, <1>3, <1>4, <2>1 DEF Refs, Indexed, i
  <2>2. CASE u # t
    <3>1. InSet(Frames(u)) /\ op'[u] = op[u] /\ op[u].item # i /\ Frames(u)' = Frames(u)
      BY <1>1, <1>3, <2>2 DEF Refs
    <3>2. /\ op[u].item \notin Indexed /\ op[u].item \notin {flush[u].item, diskCall[u].item, removal[u].item}
          /\ \A v \in Thread \ {u} : op[u].item \notin Refs(v)
          /\ Made(Frames(u)) => item[op[u].item].key = op[u].key /\ ~item[op[u].item].released
      BY <3>1 DEF ItemInv, NewIsPrivate
    <3>3. ASSUME NEW v \in Thread \ {u} PROVE op[u].item \notin {op'[v].item, flush[v].item, diskCall[v].item, removal'[v].item}
      <4>1. CASE v = t
        BY <1>1, <3>1, <3>2, <4>1 DEF Refs, Indexed, i
      <4>2. CASE v # t
        BY <1>1, <3>2, <4>2 DEF Refs
      <4> QED BY <4>1, <4>2
    <3> QED BY <1>1, <2>2, <3>1, <3>2, <3>3
  <2> QED BY <2>1, <2>2
<1>6. KeysMatch'
  <2>1. \A u \in Thread : Frames(u)' \cap FlushLabel # {} => Frames(u) \cap FlushLabel # {}
    BY <1>1, <1>4
  <2> QED BY <1>2, <2>1 DEF ItemInv, KeysMatch
<1>7. Leaving'
  <2>1. \A u \in Thread : "remove.index" \in Frames(u) => "remove.index" \in Frames(u)' /\ removal'[u].key = removal[u].key
    BY <1>1, <1>2
  <2> QED BY <1>2, <2>1, LeavingKept DEF ItemInv, IndexShrinks
<1> QED BY <1>5, <1>6, <1>7 DEF ItemInv

LEMMA ObjectStartItems ==
  ASSUME CallInv, ItemInv, NEW t \in Thread, NEW k \in Key, ReadStart(t, k) \/ PinStart(t, k) \/ UnpinStart(t, k)
  PROVE  ItemInv'
<1>1. CallStarts(t, k) /\ CallInv'
  BY ReadStartCalls, PinStartCalls
<1>2. UNCHANGED <<index, flush, diskCall, removal>>
  BY DEF ReadStart, PinStart, UnpinStart, store
<1>3. ItemsSame
  <2>1. CASE ReadStart(t, k)
    BY <2>1 DEF ReadStart, store, ItemsSame
  <2>2. CASE PinStart(t, k) \/ UnpinStart(t, k)
    <3>1. PICK p \in BOOLEAN : item' = [item EXCEPT ![index[k]].pinned = p]
      BY <2>2 DEF PinStart, UnpinStart, SetPinned
    <3> QED BY <3>1, FieldNames DEF CallInv, StoreTyped, ItemsSame
  <2> QED BY <2>1, <2>2
<1>4. SetKept(t)
  BY <1>1 DEF CallStarts, SetKept, InSet, CallLabel, SetLabel, ReadLabel, PinLabel
<1>5. FlushKept(t)
  <2>1. \A m \in Frames(t)' : m \notin FlushLabel
    <3>1. stack[t] = <<>> /\ \E l \in {"read.block", "pin.untrack", "unpin.track"} : stack' = [stack EXCEPT ![t] = <<l>>]
      BY DEF ReadStart, PinStart, UnpinStart
    <3>2. PICK l \in {"read.block", "pin.untrack", "unpin.track"} : stack' = [stack EXCEPT ![t] = <<l>>]
      BY <3>1
    <3>3. l \in CallLabel /\ l \notin FlushLabel
      BY DEF CallLabel, ReadLabel, PinLabel, FlushLabel
    <3>4. Deepens(<<l>>) /\ LabelsOf(<<l>>) = {l}
      BY <3>3, FirstFrames
    <3>5. CallTo(t, LabelsOf(<<l>>))
      BY <3>1, <3>2, <3>4, StartsWith, ZenonT(60)
    <3> QED BY <3>3, <3>4, <3>5 DEF CallTo
  <2> QED BY <2>1 DEF FlushKept
<1>6. IndexShrinks /\ OtherLocalsSame(t) /\ ItemsFromIndex(t) /\ OthersSame(t) /\ "remove.index" \notin Frames(t)
  BY <1>1, <1>2 DEF CallStarts, IndexShrinks, OtherLocalsSame, ItemsFromIndex, HandedItems, Indexed
<1> QED BY <1>3, <1>4, <1>5, <1>6, ItemsKept

LEMMA RemoveStartItems == ASSUME CallInv, ItemInv, NEW t \in Thread, NEW k \in Key, RemoveStart(t, k) PROVE ItemInv'
<1> DEFINE i == index[k]
<1>1. Frames(t) = {} /\ Frames(t)' = {"remove.index"} /\ OthersSame(t)
  BY RemoveStartCalls DEF CallTo
<1>2. UNCHANGED <<index, op, flush, diskCall>> /\ i \in Item /\ item' = [item EXCEPT ![i].released = TRUE]
  BY DEF RemoveStart, Found, CallInv, StoreTyped
<1>3. removal'[t].key = k /\ removal'[t].item = i /\ \A u \in Thread \ {t} : removal'[u] = removal[u]
  BY DEF RemoveStart, CallInv, LocalsTyped
<1>4. \A j \in Item : item'[j].key = item[j].key /\ (j # i => item'[j].released = item[j].released)
  BY <1>2, FieldNames DEF CallInv, StoreTyped
<1>5. \A u \in Thread : SetKept(u) /\ FlushKept(u) /\ ItemsFromIndex(u)
  <2>1. {"remove.index"} \cap (SetLabel \cup FlushLabel) = {}
    BY DEF SetLabel, FlushLabel
  <2> QED BY <1>1, <1>2, <1>3, <2>1 DEF OthersSame, SetKept, InSet, SameObject, FlushKept, ItemsFromIndex, HandedItems, Indexed
<1>6. IndexShrinks
  BY <1>2 DEF IndexShrinks
<1>7. \A u \in Thread : Made(Frames(u)) => op[u].item \in Item \ {i}
  <2> SUFFICES ASSUME NEW u \in Thread, Made(Frames(u)) PROVE op[u].item \in Item \ {i}
    OBVIOUS
  <2>1. InSet(Frames(u))
    BY DEF Made, InSet
  <2> QED BY <2>1, NewIsItem DEF ItemInv, NewIsPrivate, Indexed
<1>8. NewIsPrivate'
  BY <1>4, <1>5, <1>6, <1>7, PrivateKept DEF ItemInv
<1>9. KeysMatch'
  <2>1. \A j \in Key : index[j] # NoItem => index[j] \in Item
    BY DEF CallInv, StoreTyped
  <2>2. \A u \in Thread : Frames(u) \cap FlushLabel # {} => flush[u].item \in Item
    BY DEF CallInv, LocalsFit, FlushFits
  <2> QED BY <1>4, <1>5, <1>6, <2>1, <2>2, KeysKept DEF ItemInv
<1>10. Leaving'
  <2> SUFFICES ASSUME NEW j \in Key, index[j] # NoItem, item'[index[j]].released
               PROVE  \E u \in Thread : "remove.index" \in Frames(u)' /\ removal'[u].key = j
    BY <1>2 DEF Leaving
  <2>1. index[j] \in Item
    BY DEF CallInv, StoreTyped
  <2>2. CASE index[j] = i
    <3>1. j = k
      BY <1>2, <2>2, Nulls DEF ItemInv, KeysMatch
    <3> QED BY <1>1, <1>3, <3>1
  <2>3. CASE index[j] # i
    <3>1. PICK u \in Thread : "remove.index" \in Frames(u) /\ removal[u].key = j
      BY <1>4, <2>1, <2>3 DEF ItemInv, Leaving
    <3>2. u # t
      BY <1>1, <3>1
    <3> QED BY <1>1, <1>3, <3>1, <3>2 DEF OthersSame
  <2> QED BY <2>2, <2>3
<1> QED BY <1>8, <1>9, <1>10 DEF ItemInv

LEMMA StartItems == ASSUME CallInv, ItemInv, NEW t \in Thread, Start(t) PROVE ItemInv'
BY SetStartItems, ObjectStartItems, RemoveStartItems DEF Start

LEMMA DestroyItems == ASSUME CallInv, ItemInv, NEW i \in Item, Destroy(i) PROVE ItemInv'
<1>1. UNCHANGED <<index, stack, op, flush, diskCall, removal>> /\ \A j \in Item \ {i} : item'[j] = item[j]
  BY DEF Destroy, locals, CallInv, StoreTyped
<1>2. \A u \in Thread : Frames(u)' = Frames(u)
  BY <1>1, SameFrames DEF CallInv
<1>3. i \notin Indexed /\ \A u \in Thread : i \notin Refs(u)
  BY DEF Destroy, Live, Indexed
<1>4. \A k \in Key : index[k] # NoItem => item'[index[k]] = item[index[k]]
  BY <1>1, <1>3 DEF CallInv, StoreTyped, Indexed
<1>5. \A u \in Thread : Frames(u) \cap FlushLabel # {} => item'[flush[u].item] = item[flush[u].item]
  BY <1>1, <1>3 DEF CallInv, LocalsFit, FlushFits, Refs
<1>6. \A u \in Thread : InSet(Frames(u)) => item'[op[u].item] = item[op[u].item]
  BY <1>1, <1>3, NewIsItem DEF Refs
<1>7. NewIsPrivate'
  BY <1>1, <1>2, <1>6 DEF ItemInv, NewIsPrivate, Indexed, Refs
<1>8. KeysMatch'
  BY <1>1, <1>2, <1>4, <1>5 DEF ItemInv, KeysMatch
<1>9. Leaving'
  BY <1>1, <1>2, <1>4 DEF ItemInv, Leaving
<1> QED BY <1>7, <1>8, <1>9 DEF ItemInv

LEMMA FreshItems == Init => ItemInv
<1> SUFFICES ASSUME Init PROVE ItemInv
  OBVIOUS
<1>1. (\A k \in Key : index[k] = NoItem) /\ \A t \in Thread : Frames(t) = {}
  BY EmptyStack DEF Init, Fresh, Frames
<1> QED BY <1>1 DEF ItemInv, NewIsPrivate, InSet, KeysMatch, Leaving

LEMMA StutterItems == CallInv /\ ItemInv /\ UNCHANGED vars => CallInv' /\ ItemInv'
<1> SUFFICES ASSUME CallInv, ItemInv, UNCHANGED vars PROVE CallInv' /\ ItemInv'
  OBVIOUS
<1>1. UNCHANGED <<index, item, disk, content, diskEv, stack, op, flush, diskCall, removal>>
  BY DEF vars, store, locals
<1>2. Stacked' /\ \A u \in Thread : Frames(u)' = Frames(u)
  BY <1>1, SameFrames DEF CallInv
<1>3. CallInv'
  BY <1>1, <1>2 DEF CallInv, StoreTyped, LocalsTyped, EvTyped, LocalsFit
<1>4. ItemInv'
  BY <1>1, <1>2 DEF ItemInv, NewIsPrivate, KeysMatch, Leaving, Indexed, Refs
<1> QED BY <1>3, <1>4

-----------------------------------------------------------------------------
(* The theorem about the items.                                            *)

LEMMA FreshAgain == ASSUME CallInv, Crash PROVE Init'
BY DEF Crash, Init, Fresh

LEMMA NextItems == ASSUME CallInv, ItemInv, Next PROVE CallInv' /\ ItemInv'
<1>1. ASSUME NEW t \in Thread, Start(t) PROVE CallInv' /\ ItemInv'
  BY <1>1, StartCalls, StartItems
<1>2. ASSUME NEW t \in Thread, Inner(t) PROVE CallInv' /\ ItemInv'
  BY <1>2, InnerCalls, InnerItems, DiskEmptyItems, RemoveIndexItems
<1>3. ASSUME NEW t \in Thread, Flushing(t) PROVE CallInv' /\ ItemInv'
  BY <1>3, FlushingCalls, FlushingItems, ProcessEvictedMemItems, FlushEmptyItems
<1>4. ASSUME NEW t \in Thread, Calling(t) PROVE CallInv' /\ ItemInv'
  BY <1>4, CallingCalls, CallingItems, SetItemItems, SetInsertItems
<1>5. ASSUME NEW i \in Item, Destroy(i) PROVE CallInv' /\ ItemInv'
  BY <1>5, DestroyCalls, DestroyItems
<1>6. CASE Crash
  <2>1. Init'
    BY <1>6, FreshAgain
  <2>2. (Init => CallInv /\ ItemInv)'
    BY FreshCalls, FreshItems, PTL
  <2> QED BY <2>1, <2>2
<1> QED BY <1>1, <1>2, <1>3, <1>4, <1>5, <1>6, StepIs DEF Next

\* In every reachable state of the cache the routines a thread is in call each
\* other in one order, its locals are what these routines left there, the item
\* of a set is its own until the index gets it, and a released item that is
\* still in the index has a thread that is about to take it out.
THEOREM ItemsAreHeld == Spec => [](CallInv /\ ItemInv)
<1>1. Init => CallInv /\ ItemInv
  BY FreshCalls, FreshItems
<1>2. CallInv /\ ItemInv /\ [Next]_vars => CallInv' /\ ItemInv'
  BY NextItems, StutterItems
<1> QED BY <1>1, <1>2, PTL DEF Spec

\* No item is left in the index that get cannot use any more
\* (release_if_empty and remove of star_cache_impl.cpp, which release an item
\* and take it out of the index in two steps).
THEOREM ReleasedLeaves == Spec => []ReleasedIsLeaving
<1>1. CallInv /\ ItemInv => ReleasedIsLeaving
  <2> SUFFICES ASSUME CallInv, ItemInv, NEW k \in Key, index[k] # NoItem /\ item[index[k]].released
               PROVE  \E t \in Thread : At(t, "remove.index") /\ removal[t].key = k
    BY DEF ReleasedIsLeaving
  <2>1. PICK t \in Thread : "remove.index" \in Frames(t) /\ removal[t].key = k
    BY DEF ItemInv, Leaving
  <2>2. stack[t] # <<>> /\ Deepens(stack[t])
    BY <2>1, EmptyStack DEF CallInv, Stacked, Frames
  <2>3. Last(stack[t]) \in Label /\ ("remove.index" = Last(stack[t]) \/ Level("remove.index") < Level(Last(stack[t])))
    BY <2>1, <2>2, TopIsDeepest DEF Frames
  <2>4. Level("remove.index") = 7 /\ Level(Last(stack[t])) \in 1 .. 7
    BY <2>3, Levels DEF RemoveLabel
  <2> QED BY <2>1, <2>2, <2>3, <2>4 DEF At
<1> QED BY <1>1, ItemsAreHeld, PTL

-----------------------------------------------------------------------------
(* Who has a disk block.                                                   *)

Filled(d, i, b) == \A s \in Slice : content[d][s] = <<i, b>>

OnDisk(d) == \E i \in Item, b \in Block : disk[i][b] = d

\* Nobody but t has d.
SoleFlush(t, d) == /\ ~OnDisk(d)
                   /\ \A u \in Thread : op[u].slot # d
                   /\ \A u \in Thread \ {t} : flush[u].slot # d
SoleCall(t, d) == /\ ~OnDisk(d)
                  /\ \A u \in Thread : op[u].slot # d /\ flush[u].slot # d
                  /\ \A u \in Thread \ {t} : diskCall[u].slot # d

\* A block that a read has, that a flush writes, that an allocation got.
ReadSlotOK(t) == op[t].slot # NoSlot => Filled(op[t].slot, op[t].item, op[t].b)
FlushSlotOK(t) == flush[t].slot # NoSlot => \/ Filled(flush[t].slot, flush[t].item, flush[t].b)
                                            \/ flush[t].segs = Slice /\ SoleFlush(t, flush[t].slot)
CallSlotOK(t) == diskCall[t].slot # NoSlot => SoleCall(t, diskCall[t].slot)

SlotInv == DiskBlockWhole /\ \A t \in Thread : ReadSlotOK(t) /\ FlushSlotOK(t) /\ CallSlotOK(t)

-----------------------------------------------------------------------------
(* What keeps SlotInv.                                                     *)

LEMMA SomeSlice == Slice # {}
<1>1. 0 \in Slice
  BY Sizes DEF Slice
<1> QED BY <1>1

\* A block the thread has afterwards it had before, for the same block of
\* the same item.
OpSlotKept(u) == op'[u].slot # NoSlot => /\ op'[u].slot = op[u].slot /\ op'[u].item = op[u].item /\ op'[u].b = op[u].b
FlushSlotKept(u) == flush'[u].slot # NoSlot => /\ flush'[u].slot = flush[u].slot /\ Target(flush'[u]) = Target(flush[u])
                                               /\ flush'[u].segs = flush[u].segs
CallSlotKept(u) == diskCall'[u].slot # NoSlot => diskCall'[u].slot = diskCall[u].slot
SlotsKept(u) == OpSlotKept(u) /\ FlushSlotKept(u) /\ CallSlotKept(u)

DiskShrinks == \A i \in Item, b \in Block : disk'[i][b] # NoSlot => disk'[i][b] = disk[i][b]

\* The bytes of every item but those in Gone stay where they are.
BytesKept(Gone) == /\ \A d \in Slot, s \in Slice : \A i, b : content[d][s] = <<i, b>> /\ i \notin Gone => content'[d][s] = <<i, b>>
                   /\ \A i \in Gone, b \in Block : disk'[i][b] = NoSlot
                   /\ \A t \in Thread : op[t].item \notin Gone /\ flush[t].item \notin Gone

LEMMA SlotsDropped ==
  ASSUME SlotInv, StoreTyped, LocalsTyped, \A u \in Thread : SlotsKept(u), DiskShrinks, NEW Gone, BytesKept(Gone)
  PROVE  SlotInv'
<1> USE DEF SlotsKept
<1>1. ASSUME NEW d \in Slot, NEW i, NEW b, i \notin Gone, Filled(d, i, b) PROVE \A s \in Slice : content'[d][s] = <<i, b>>
  BY <1>1 DEF BytesKept, Filled
<1>2. DiskBlockWhole'
  <2> SUFFICES ASSUME NEW j \in Item, NEW c \in Block, disk'[j][c] # NoSlot PROVE \A s \in Slice : content'[disk'[j][c]][s] = <<j, c>>
    BY DEF DiskBlockWhole
  <2>1. disk'[j][c] = disk[j][c] /\ disk[j][c] \in Slot /\ j \notin Gone
    BY DEF DiskShrinks, StoreTyped, BytesKept
  <2>2. Filled(disk[j][c], j, c)
    BY <2>1 DEF SlotInv, DiskBlockWhole, Filled
  <2> QED BY <1>1, <2>1, <2>2
<1>3. ASSUME NEW d, d # NoSlot, OnDisk(d)' PROVE OnDisk(d)
  BY <1>3 DEF OnDisk, DiskShrinks
<1> SUFFICES ASSUME NEW t \in Thread PROVE ReadSlotOK(t)' /\ FlushSlotOK(t)' /\ CallSlotOK(t)'
  BY <1>2 DEF SlotInv
<1>4. ASSUME op'[t].slot # NoSlot PROVE ReadSlotOK(t)'
  <2>1. op'[t].slot = op[t].slot /\ op'[t].item = op[t].item /\ op'[t].b = op[t].b
    BY <1>4 DEF OpSlotKept
  <2>2. op[t].slot \in Slot /\ Filled(op[t].slot, op[t].item, op[t].b) /\ op[t].item \notin Gone
    <3>1. op[t].item \notin Gone
      BY DEF BytesKept
    <3> QED BY <1>4, <2>1, <3>1 DEF LocalsTyped, OpTyped, SlotInv, ReadSlotOK
  <2> QED BY <1>1, <2>1, <2>2 DEF ReadSlotOK, Filled
<1>5. ASSUME flush'[t].slot # NoSlot PROVE FlushSlotOK(t)'
  <2>1. flush'[t].slot = flush[t].slot /\ flush'[t].item = flush[t].item /\ flush'[t].b = flush[t].b /\ flush'[t].segs = flush[t].segs
    BY <1>5 DEF FlushSlotKept, Target
  <2>2. flush[t].slot \in Slot /\ flush[t].item \notin Gone
    <3>1. flush[t].item \notin Gone
      BY DEF BytesKept
    <3> QED BY <1>5, <2>1, <3>1 DEF LocalsTyped, FlushTyped
  <2>3. CASE Filled(flush[t].slot, flush[t].item, flush[t].b)
    BY <1>1, <2>1, <2>2, <2>3 DEF FlushSlotOK, Filled
  <2>4. CASE flush[t].segs = Slice /\ SoleFlush(t, flush[t].slot)
    BY <1>3, <1>5, <2>1, <2>4 DEF FlushSlotOK, SoleFlush, OpSlotKept, FlushSlotKept
  <2> QED BY <1>5, <2>1, <2>3, <2>4 DEF SlotInv, FlushSlotOK
<1>6. ASSUME diskCall'[t].slot # NoSlot PROVE CallSlotOK(t)'
  <2>1. diskCall'[t].slot = diskCall[t].slot /\ SoleCall(t, diskCall[t].slot)
    BY <1>6 DEF CallSlotKept, SlotInv, CallSlotOK
  <2> QED BY <1>3, <1>6, <2>1 DEF CallSlotOK, SoleCall, OpSlotKept, FlushSlotKept, CallSlotKept
<1> QED BY <1>4, <1>5, <1>6 DEF ReadSlotOK, FlushSlotOK, CallSlotOK

\* The common case: content stays.
LEMMA SlotsSame ==
  ASSUME SlotInv, StoreTyped, LocalsTyped, \A u \in Thread : SlotsKept(u), DiskShrinks, \A d \in Slot : content'[d] = content[d]
  PROVE  SlotInv'
<1>1. BytesKept({})
  BY DEF BytesKept
<1> QED BY <1>1, SlotsDropped

\* Thread t fills block d, installed for block b of item i, and gives it up.
LEMMA SlotFilled ==
  ASSUME SlotInv, StoreTyped, LocalsTyped, NEW t \in Thread, NEW i, NEW b, NEW d \in Slot, NEW S,
         content' = [content EXCEPT ![d] = Written(d, i, b, S)],
         disk' = [disk EXCEPT ![i][b] = d],
         \A u \in Thread : SlotsKept(u), flush'[t].slot = NoSlot, diskCall'[t].slot # d,
         \A u \in Thread \ {t} : diskCall[u].slot # d,
         \/ Filled(d, i, b)
         \/ S = Slice /\ ~OnDisk(d) /\ (\A u \in Thread : op[u].slot # d) /\ \A u \in Thread \ {t} : flush[u].slot # d,
         \A u \in Thread \ {t} : flush[u].slot = d => Filled(d, flush[u].item, flush[u].b)
  PROVE  SlotInv'
<1> USE DEF SlotsKept
<1>1. d # NoSlot
  BY Nulls
<1>2. \A s \in Slice : content'[d][s] = <<i, b>>
  BY DEF StoreTyped, Written, Filled
<1>3. \A e \in Slot \ {d} : content'[e] = content[e]
  BY DEF StoreTyped
<1>4. \A j \in Item, c \in Block : (disk'[j][c] = d /\ j = i /\ c = b) \/ disk'[j][c] = disk[j][c]
  BY DEF StoreTyped
<1>5. ASSUME NEW j, NEW c, Filled(d, j, c), Filled(d, i, b) PROVE j = i /\ c = b
  BY <1>5, SomeSlice DEF Filled
<1>6. ASSUME NEW e \in Slot, NEW j, NEW c, Filled(e, j, c), e # d \/ Filled(d, i, b) PROVE \A s \in Slice : content'[e][s] = <<j, c>>
  <2>1. CASE e # d
    BY <1>3, <1>6, <2>1 DEF Filled
  <2>2. CASE e = d
    BY <1>2, <1>5, <1>6, <2>2
  <2> QED BY <2>1, <2>2
<1>7. DiskBlockWhole'
  <2> SUFFICES ASSUME NEW j \in Item, NEW c \in Block, disk'[j][c] # NoSlot PROVE \A s \in Slice : content'[disk'[j][c]][s] = <<j, c>>
    BY DEF DiskBlockWhole
  <2>1. CASE disk'[j][c] = d /\ j = i /\ c = b
    BY <1>2, <2>1
  <2>2. CASE disk'[j][c] = disk[j][c]
    <3>1. disk[j][c] \in Slot /\ Filled(disk[j][c], j, c)
      BY <2>2 DEF StoreTyped, SlotInv, DiskBlockWhole, Filled
    <3>2. disk[j][c] # d \/ Filled(d, i, b)
      BY DEF OnDisk
    <3> QED BY <1>6, <2>2, <3>1, <3>2
  <2> QED BY <1>4, <2>1, <2>2
<1>8. ASSUME NEW e, e # NoSlot, e # d, OnDisk(e)' PROVE OnDisk(e)
  BY <1>4, <1>8 DEF OnDisk
<1> SUFFICES ASSUME NEW u \in Thread PROVE ReadSlotOK(u)' /\ FlushSlotOK(u)' /\ CallSlotOK(u)'
  BY <1>7 DEF SlotInv
<1>9. ASSUME op'[u].slot # NoSlot PROVE ReadSlotOK(u)'
  <2>1. op'[u].slot = op[u].slot /\ op'[u].item = op[u].item /\ op'[u].b = op[u].b
    BY <1>9 DEF OpSlotKept
  <2>2. Filled(op[u].slot, op[u].item, op[u].b) /\ op[u].slot \in Slot
    BY <1>9, <2>1 DEF SlotInv, ReadSlotOK, LocalsTyped, OpTyped
  <2>3. op[u].slot # d \/ Filled(d, i, b)
    BY <2>1, <1>9
  <2>4. \A s \in Slice : content'[op[u].slot][s] = <<op[u].item, op[u].b>>
    BY <1>6, <2>2, <2>3
  <2> QED BY <2>1, <2>2, <2>4 DEF ReadSlotOK, Filled
<1>10. ASSUME flush'[u].slot # NoSlot PROVE FlushSlotOK(u)'
  <2>1. flush'[u].slot = flush[u].slot /\ flush'[u].item = flush[u].item /\ flush'[u].b = flush[u].b /\ flush'[u].segs = flush[u].segs
    BY <1>10 DEF FlushSlotKept, Target
  <2>2. u # t /\ flush[u].slot \in Slot
    BY <1>10, <2>1 DEF LocalsTyped, FlushTyped
  <2>3. CASE Filled(flush[u].slot, flush[u].item, flush[u].b)
    <3>1. flush[u].slot # d \/ Filled(d, i, b)
      BY <2>2
    <3> QED BY <1>6, <2>1, <2>2, <2>3, <3>1 DEF FlushSlotOK, Filled
  <2>4. CASE ~Filled(flush[u].slot, flush[u].item, flush[u].b)
    <3>1. flush[u].slot # d /\ flush[u].segs = Slice /\ SoleFlush(u, flush[u].slot)
      BY <1>10, <2>1, <2>2, <2>4 DEF SlotInv, FlushSlotOK
    <3> QED BY <1>8, <1>10, <2>1, <3>1 DEF FlushSlotOK, SoleFlush, OpSlotKept, FlushSlotKept
  <2> QED BY <2>3, <2>4
<1>11. ASSUME diskCall'[u].slot # NoSlot PROVE CallSlotOK(u)'
  <2>1. diskCall'[u].slot = diskCall[u].slot /\ SoleCall(u, diskCall[u].slot)
    BY <1>11 DEF CallSlotKept, SlotInv, CallSlotOK
  <2>2. diskCall[u].slot # d
    BY <2>1
  <2> QED BY <1>8, <1>11, <2>1, <2>2 DEF CallSlotOK, SoleCall, OpSlotKept, FlushSlotKept, CallSlotKept
<1> QED BY <1>9, <1>10, <1>11 DEF ReadSlotOK, FlushSlotOK, CallSlotOK

-----------------------------------------------------------------------------
(* The steps.                                                              *)

LEMMA NotReading == ASSUME CallInv', NEW t \in Thread, "read.disk" \notin Frames(t)' PROVE op'[t].slot = NoSlot
BY DEF CallInv, LocalsFit, OpFits

LEMMA NotWriting == ASSUME CallInv', NEW t \in Thread, "flush.write" \notin Frames(t)' PROVE flush'[t].slot = NoSlot
BY DEF CallInv, LocalsFit, FlushFits

\* The disk block of a removed or evicted block is given up.
LEMMA DiskDropped ==
  ASSUME StoreTyped, NEW i, NEW b,
         UNCHANGED disk \/ disk' = [disk EXCEPT ![i][b] = NoSlot] \/ disk' = [disk EXCEPT ![i] = [c \in Block |-> NoSlot]]
  PROVE  DiskShrinks
BY DEF StoreTyped, DiskShrinks

LEMMA CallPut ==
  ASSUME LocalsTyped, NEW t \in Thread, NEW c, diskCall' = [diskCall EXCEPT ![t] = c], c.slot \in {diskCall[t].slot, NoSlot}
  PROVE  \A u \in Thread : CallSlotKept(u)
BY DEF LocalsTyped, CallSlotKept

LEMMA InnerKeepsSlots ==
  ASSUME CallInv, NEW t \in Thread, Inner(t), ~DiskAllocOk(t)
  PROVE  UNCHANGED content /\ DiskShrinks /\ \A u \in Thread : SlotsKept(u)
<1>1. UNCHANGED <<op, flush, content>>
  BY InnerKeeps
<1> DEFINE c == diskCall[t]
<1>2. CallTyped(c) /\ StoreTyped /\ LocalsTyped
  BY DEF CallInv, LocalsTyped
<1>3. (\A u \in Thread : CallSlotKept(u)) /\ DiskShrinks
  <2>1. CASE UNCHANGED <<diskCall, disk>>
    BY <2>1 DEF CallSlotKept, DiskShrinks
  <2>2. CASE DiskAllocEvicts(t)
    <3>1. PICK S \in SUBSET Evictable(diskEv) : diskCall' = [diskCall EXCEPT ![t] = Retry(c, S)]
      BY <2>2 DEF DiskAllocEvicts
    <3>2. S \in SUBSET Key
      BY <3>1 DEF CallInv, EvTyped, Evictable
    <3>3. Retry(c, S).slot = c.slot
      BY <1>2, <3>2, CallWritten
    <3>4. UNCHANGED disk
      BY <2>2 DEF DiskAllocEvicts, store
    <3> QED BY <1>2, <3>1, <3>3, <3>4, CallPut DEF DiskShrinks
  <2>3. CASE DiskAllocFails(t)
    <3>1. NoDiskCall.slot = NoSlot
      BY DEF NoDiskCall
    <3>2. diskCall' = [diskCall EXCEPT ![t] = NoDiskCall] /\ UNCHANGED disk
      BY <2>3 DEF DiskAllocFails, store
    <3> QED BY <1>2, <3>1, <3>2, CallPut DEF DiskShrinks
  <2>4. CASE ProcessEvictedDisk(t)
    <3>1. PICK k \in c.evicted : IF index[k] = NoItem
            THEN diskCall' = [diskCall EXCEPT ![t].evicted = {}] /\ UNCHANGED disk
            ELSE /\ disk' = [disk EXCEPT ![index[k]] = [b \in Block |-> NoSlot]]
                 /\ diskCall' = [diskCall EXCEPT ![t].evicted = @ \ {k}, ![t].item = index[k]]
      BY <2>4 DEF ProcessEvictedDisk
    <3>2. DiskShrinks
      BY <1>2, <3>1, DiskDropped
    <3>3. \A u \in Thread : CallSlotKept(u)
      BY <1>2, <3>1, FieldNames DEF CallSlotKept, LocalsTyped, CallTyped
    <3> QED BY <3>2, <3>3
  <2>5. CASE DiskEmpty(t)
    <3>1. diskCall' = [diskCall EXCEPT ![t].item = NoItem] /\ UNCHANGED disk
      BY <2>5 DEF DiskEmpty
    <3> QED BY <1>2, <3>1, FieldNames DEF CallSlotKept, LocalsTyped, CallTyped, DiskShrinks
  <2>6. CASE RemoveBlock(t)
    <3>1. \E i, b : disk' = [disk EXCEPT ![i][b] = NoSlot]
      BY <2>6 DEF RemoveBlock
    <3>2. UNCHANGED diskCall
      BY <2>6 DEF RemoveBlock
    <3> QED BY <1>2, <3>1, <3>2, DiskDropped DEF CallSlotKept
  <2>7. CASE \/ MemAllocOk(t) \/ MemAllocEvicts(t) \/ MemAllocFails(t) \/ ProcessedMem(t) \/ ProcessedDisk(t)
             \/ RemoveIndex(t) \/ RemoveDone(t)
    <3>1. UNCHANGED <<diskCall, disk>>
      BY <2>7 DEF MemAllocOk, MemAllocEvicts, MemAllocFails, ProcessedMem, ProcessedDisk, RemoveIndex, RemoveDone, store, locals
    <3> QED BY <2>1, <3>1
  <2> QED BY <2>2, <2>3, <2>4, <2>5, <2>6, <2>7 DEF Inner
<1>4. \A u \in Thread : SlotsKept(u)
  BY <1>1, <1>3 DEF SlotsKept, OpSlotKept, FlushSlotKept
<1> QED BY <1>1, <1>3, <1>4

LEMMA InnerSlots ==
  ASSUME CallInv, SlotInv, NEW t \in Thread, Inner(t), ~DiskAllocOk(t)
  PROVE  SlotInv'
BY InnerKeepsSlots, SlotsSame DEF CallInv

\* The block that an allocation takes is nobody's.
LEMMA DiskAllocOkSlots ==
  ASSUME CallInv, SlotInv, NEW t \in Thread, DiskAllocOk(t)
  PROVE  SlotInv'
<1>1. UNCHANGED <<disk, content, op, flush>>
  BY DEF DiskAllocOk, store
<1> PICK d \in FreeSlots : diskCall' = [diskCall EXCEPT ![t] = [NoDiskCall EXCEPT !.slot = d]]
  BY DEF DiskAllocOk
<1>2. diskCall'[t].slot = d /\ \A u \in Thread \ {t} : diskCall'[u] = diskCall[u]
  BY FieldNames DEF CallInv, LocalsTyped, NoDiskCall
<1>3. /\ ~OnDisk(d)
      /\ \A u \in Thread : op[u].slot # d /\ flush[u].slot # d /\ diskCall[u].slot # d
  BY DEF FreeSlots, BlockSlots, LocalSlots, OnDisk
<1>4. DiskBlockWhole'
  BY <1>1 DEF SlotInv, DiskBlockWhole
<1> SUFFICES ASSUME NEW u \in Thread PROVE ReadSlotOK(u)' /\ FlushSlotOK(u)' /\ CallSlotOK(u)'
  BY <1>4 DEF SlotInv
<1>5. ReadSlotOK(u)' /\ FlushSlotOK(u)'
  BY <1>1 DEF SlotInv, ReadSlotOK, FlushSlotOK, Filled, SoleFlush, OnDisk
<1>6. CallSlotOK(u)'
  <2>1. CASE u = t
    BY <1>1, <1>2, <1>3, <2>1 DEF CallSlotOK, SoleCall, OnDisk
  <2>2. CASE u # t
    <3>1. CallSlotOK(u) /\ diskCall[u].slot # d
      BY <1>3 DEF SlotInv
    <3> QED BY <1>1, <1>2, <2>2, <3>1 DEF CallSlotOK, SoleCall, OnDisk
  <2> QED BY <2>1, <2>2
<1> QED BY <1>5, <1>6

LEMMA FlushPutSlots ==
  ASSUME LocalsTyped, NEW t \in Thread, NEW g, g.slot = NoSlot, flush' = [flush EXCEPT ![t] = g] \/ UNCHANGED flush
  PROVE  \A u \in Thread : FlushSlotKept(u)
BY DEF LocalsTyped, FlushSlotKept

\* The flush steps that take no block and write none.
FlushKeeps(t) == \/ ProcessEvictedMem(t) \/ FlushBegin(t) \/ FlushDecide(t) \/ FlushDelete(t) \/ FlushEmpty(t) \/ FlushReturn(t)
                 \/ FlushWriteFails(t) \/ FlushDrop(t)

LEMMA FlushKeepsSlots ==
  ASSUME CallInv, NEW t \in Thread, FlushKeeps(t)
  PROVE  UNCHANGED content /\ DiskShrinks /\ \A u \in Thread : SlotsKept(u)
<1> USE DEF FlushKeeps
<1>1. CallInv' /\ UNCHANGED <<op, diskCall, content>>
  <2>1. CallInv'
    BY FlushingCalls DEF Flushing
  <2> QED BY <2>1 DEF ProcessEvictedMem, FlushBegin, FlushDecide, FlushDelete, FlushEmpty, FlushReturn, FlushWriteFails, FlushDrop,
                      store, locals
<1>2. StoreTyped /\ LocalsTyped
  BY DEF CallInv
<1>3. DiskShrinks
  <2>1. CASE FlushDelete(t)
    <3>1. disk' = [disk EXCEPT ![flush[t].item][flush[t].b] = NoSlot]
      BY <2>1 DEF FlushDelete
    <3> QED BY <1>2, <3>1, DiskDropped
  <2>2. CASE ~FlushDelete(t)
    <3>1. UNCHANGED disk
      BY <2>2 DEF ProcessEvictedMem, FlushBegin, FlushDecide, FlushEmpty, FlushReturn, FlushWriteFails, FlushDrop, store
    <3> QED BY <3>1 DEF DiskShrinks
  <2> QED BY <2>1, <2>2
<1>4. \A u \in Thread : FlushSlotKept(u)
  <2>1. NoFlush.slot = NoSlot /\ \A k, i, b : [NoFlush EXCEPT !.key = k, !.item = i, !.b = b].slot = NoSlot
    BY DEF NoFlush
  <2>2. CASE ProcessEvictedMem(t)
    <3>1. \/ UNCHANGED flush
          \/ \E k, i, b : flush' = [flush EXCEPT ![t] = [NoFlush EXCEPT !.key = k, !.item = i, !.b = b]]
      <4> PICK k \in Key, b \in Block :
            \/ UNCHANGED <<mem, stack, flush>>
            \/ flush' = [flush EXCEPT ![t] = [NoFlush EXCEPT !.key = k, !.item = index[k], !.b = b]]
            \/ UNCHANGED <<stack, flush>>
        BY <2>2, Zenon DEF ProcessEvictedMem
      <4> QED BY Zenon
    <3>2. CASE UNCHANGED flush
      BY <3>2 DEF FlushSlotKept
    <3>3. ASSUME NEW k, NEW i, NEW b, flush' = [flush EXCEPT ![t] = [NoFlush EXCEPT !.key = k, !.item = i, !.b = b]]
          PROVE  \A u \in Thread : FlushSlotKept(u)
      <4> DEFINE g == [NoFlush EXCEPT !.key = k, !.item = i, !.b = b]
      <4>1. g.slot = NoSlot
        BY <2>1
      <4>2. flush' = [flush EXCEPT ![t] = g]
        BY <3>3
      <4> HIDE DEF g
      <4> QED BY <1>2, <4>1, <4>2, FlushPutSlots
    <3> QED BY <3>1, <3>2, <3>3
  <2>3. CASE EndFlush(t)
    BY <1>2, <2>1, <2>3, FlushPutSlots DEF EndFlush
  <2>4. CASE UNCHANGED flush
    BY <2>4 DEF FlushSlotKept
  <2>5. CASE FlushBegin(t) \/ FlushDecide(t)
    <3>1. At(t, "flush.begin") \/ At(t, "flush.decide")
      BY <2>5 DEF FlushBegin, FlushDecide
    <3>2. flush[t].slot = NoSlot
      BY <3>1, InFlush DEF FlushLabel
    <3>3. \/ EndFlush(t) \/ UNCHANGED flush
          \/ \E h : flush' = [flush EXCEPT ![t].held = h]
          \/ \E s, p : flush' = [flush EXCEPT ![t].segs = s, ![t].pinned = p]
      <4>1. CASE FlushBegin(t)
        <5>1. EndFlush(t) \/ flush' = [flush EXCEPT ![t].held = flush[t].key \in diskEv.tracked]
          BY <4>1 DEF FlushBegin
        <5> QED BY <5>1, Zenon
      <4>2. CASE FlushDecide(t)
        BY <4>2 DEF FlushDecide
      <4> QED BY <2>5, <4>1, <4>2
    <3>4. CASE \E h : flush' = [flush EXCEPT ![t].held = h]
      BY <1>2, <3>2, <3>4, FieldNames DEF FlushSlotKept, LocalsTyped, FlushTyped
    <3>5. CASE \E s, p : flush' = [flush EXCEPT ![t].segs = s, ![t].pinned = p]
      BY <1>2, <3>2, <3>5, FieldNames DEF FlushSlotKept, LocalsTyped, FlushTyped
    <3> QED BY <2>3, <2>4, <3>3, <3>4, <3>5
  <2>6. CASE FlushWriteFails(t)
    BY <1>2, <2>6, FieldNames DEF FlushWriteFails, FlushSlotKept, LocalsTyped, FlushTyped
  <2> QED BY <2>2, <2>3, <2>4, <2>5, <2>6 DEF FlushDelete, FlushEmpty, FlushReturn, FlushDrop, locals
<1>5. \A u \in Thread : SlotsKept(u)
  BY <1>1, <1>4 DEF SlotsKept, OpSlotKept, CallSlotKept
<1> QED BY <1>1, <1>3, <1>5

LEMMA FlushKeepsSlotInv == ASSUME CallInv, SlotInv, NEW t \in Thread, FlushKeeps(t) PROVE SlotInv'
BY FlushKeepsSlots, SlotsSame DEF CallInv

\* A flush finds its disk block, which holds its block already.
LEMMA FlushTargetSlots == ASSUME CallInv, SlotInv, NEW t \in Thread, FlushTarget(t) PROVE SlotInv'
<1> DEFINE f == flush[t]
           d == disk[f.item][f.b]
<1>1. UNCHANGED <<disk, content, op>> /\ At(t, "flush.target")
  BY DEF FlushTarget, store
<1>2. f.item \in Item /\ f.b \in Block /\ StoreTyped /\ LocalsTyped
  BY <1>1, InFlush DEF FlushLabel, CallInv
<1>3. CASE d # NoSlot
  <2>1. flush' = [flush EXCEPT ![t].slot = d] /\ UNCHANGED diskCall
    BY <1>3 DEF FlushTarget
  <2>2. /\ flush'[t].slot = d /\ flush'[t].item = f.item /\ flush'[t].b = f.b
        /\ \A u \in Thread \ {t} : flush'[u] = flush[u]
    BY <1>2, <2>1, FieldNames DEF LocalsTyped, FlushTyped
  <2>3. Filled(d, f.item, f.b) /\ OnDisk(d)
    BY <1>2, <1>3 DEF SlotInv, DiskBlockWhole, Filled, OnDisk
  <2>4. DiskBlockWhole'
    BY <1>1 DEF SlotInv, DiskBlockWhole
  <2> HIDE DEF d, f
  <2> SUFFICES ASSUME NEW u \in Thread PROVE ReadSlotOK(u)' /\ FlushSlotOK(u)' /\ CallSlotOK(u)'
    BY <2>4 DEF SlotInv
  <2>5. ReadSlotOK(u)'
    BY <1>1 DEF SlotInv, ReadSlotOK, Filled
  <2>6. FlushSlotOK(u)'
    <3>1. CASE u = t
      BY <1>1, <2>2, <2>3, <3>1 DEF FlushSlotOK, Filled
    <3>2. CASE u # t
      <4>1. FlushSlotOK(u) /\ flush'[u] = flush[u]
        BY <2>2, <3>2 DEF SlotInv
      <4>2. SoleFlush(u, flush[u].slot) => flush[u].slot # d
        BY <2>3 DEF SoleFlush
      <4> QED BY <1>1, <2>2, <3>2, <4>1, <4>2 DEF FlushSlotOK, SoleFlush, Filled, OnDisk
    <3> QED BY <3>1, <3>2
  <2>7. CallSlotOK(u)'
    <3>1. CallSlotOK(u) /\ (SoleCall(u, diskCall[u].slot) => diskCall[u].slot # d)
      BY <2>3 DEF SlotInv, SoleCall
    <3> QED BY <1>1, <2>1, <2>2, <3>1 DEF CallSlotOK, SoleCall, OnDisk
  <2> QED BY <2>5, <2>6, <2>7
<1>4. CASE d = NoSlot
  <2>1. diskCall' = [diskCall EXCEPT ![t] = NoDiskCall] /\ UNCHANGED flush
    BY <1>4 DEF FlushTarget
  <2>2. NoDiskCall.slot = NoSlot
    BY DEF NoDiskCall
  <2>3. \A u \in Thread : SlotsKept(u)
    BY <1>1, <1>2, <2>1, <2>2, CallPut DEF SlotsKept, OpSlotKept, FlushSlotKept
  <2> QED BY <1>1, <1>2, <2>3, SlotsSame DEF DiskShrinks
<1> QED BY <1>3, <1>4

\* A flush takes the block that was allocated for it, to write all of it.
LEMMA FlushAllocSlots == ASSUME DcheckOn, CallInv, SlotInv, NEW t \in Thread, FlushAlloc(t) PROVE SlotInv'
<1> DEFINE d == diskCall[t].slot
<1>1. UNCHANGED <<disk, content, op>> /\ At(t, "flush.alloc")
  BY DEF FlushAlloc, store
<1>2. flush[t].segs = Slice /\ LocalsTyped
  BY <1>1, InFlush DEF FlushLabel, CallInv
<1>3. /\ flush'[t].slot = d /\ flush'[t].segs = Slice
      /\ \A u \in Thread \ {t} : flush'[u] = flush[u] /\ diskCall'[u] = diskCall[u]
      /\ diskCall'[t].slot = NoSlot
  BY <1>2, FieldNames DEF FlushAlloc, LocalsTyped, FlushTyped, NoDiskCall
<1>4. d # NoSlot => SoleCall(t, d)
  BY DEF SlotInv, CallSlotOK
<1>5. DiskBlockWhole'
  BY <1>1 DEF SlotInv, DiskBlockWhole
<1> HIDE DEF d
<1> SUFFICES ASSUME NEW u \in Thread PROVE ReadSlotOK(u)' /\ FlushSlotOK(u)' /\ CallSlotOK(u)'
  BY <1>5 DEF SlotInv
<1>6. ReadSlotOK(u)'
  BY <1>1 DEF SlotInv, ReadSlotOK, Filled
<1>7. FlushSlotOK(u)'
  <2>1. CASE u = t
    BY <1>1, <1>3, <1>4, <2>1 DEF FlushSlotOK, SoleFlush, SoleCall, OnDisk
  <2>2. CASE u # t
    <3>1. FlushSlotOK(u) /\ flush'[u] = flush[u] /\ (flush[u].slot # NoSlot => flush[u].slot # d)
      BY <1>3, <1>4, <2>2 DEF SlotInv, SoleCall
    <3> QED BY <1>1, <1>3, <2>2, <3>1 DEF FlushSlotOK, SoleFlush, Filled, OnDisk
  <2> QED BY <2>1, <2>2
<1>8. CallSlotOK(u)'
  <2>1. CASE u = t
    BY <1>3, <2>1 DEF CallSlotOK
  <2>2. CASE u # t
    <3>1. CallSlotOK(u) /\ diskCall'[u] = diskCall[u] /\ (diskCall[u].slot # NoSlot => diskCall[u].slot # d)
      BY <1>3, <1>4, <2>2 DEF SlotInv, SoleCall
    <3> QED BY <1>1, <1>3, <2>2, <3>1 DEF CallSlotOK, SoleCall, OnDisk
  <2> QED BY <2>1, <2>2
<1> QED BY <1>6, <1>7, <1>8

\* A write fills the block with the bytes it lacks, and installs it.
LEMMA FlushWriteSlots == ASSUME CallInv, SlotInv, NEW t \in Thread, FlushWrite(t) PROVE SlotInv'
<1> DEFINE f == flush[t]
           d == f.slot
<1>1. UNCHANGED <<op, diskCall>> /\ At(t, "flush.write")
  BY DEF FlushWrite
<1>2. /\ content' = [content EXCEPT ![d] = Written(d, f.item, f.b, f.segs)]
      /\ disk' = [disk EXCEPT ![f.item][f.b] = d]
      /\ flush' = [flush EXCEPT ![t].ok = TRUE, ![t].slot = NoSlot]
  BY DEF FlushWrite
<1>3. StoreTyped /\ LocalsTyped /\ FlushTyped(f)
  BY DEF CallInv, LocalsTyped
<1>4. flush'[t].slot = NoSlot /\ \A u \in Thread \ {t} : flush'[u] = flush[u]
  BY <1>2, <1>3, FieldNames DEF LocalsTyped, FlushTyped
<1>5. \A u \in Thread : SlotsKept(u)
  BY <1>1, <1>4 DEF SlotsKept, OpSlotKept, FlushSlotKept, CallSlotKept
<1> HIDE DEF f
<1>6. CASE d = NoSlot
  <2>1. \A e \in Slot : content'[e] = content[e]
    BY <1>2, <1>3, <1>6, Nulls DEF StoreTyped
  <2>2. DiskShrinks
    BY <1>2, <1>3, <1>6, DiskDropped
  <2> QED BY <1>3, <1>5, <2>1, <2>2, SlotsSame
<1>7. CASE d # NoSlot
  <2>1. d \in Slot
    BY <1>3, <1>7 DEF FlushTyped
  <2>2. FlushSlotOK(t) /\ \A u \in Thread : FlushSlotOK(u) /\ CallSlotOK(u)
    BY DEF SlotInv
  <2>3. \/ Filled(d, f.item, f.b)
        \/ f.segs = Slice /\ SoleFlush(t, d)
    BY <1>7, <2>2 DEF FlushSlotOK, f
  <2>4. \A u \in Thread : diskCall[u].slot # d
    BY <1>7, <2>2 DEF CallSlotOK, SoleCall, f
  <2>5. ASSUME NEW u \in Thread \ {t}, flush[u].slot = d PROVE Filled(d, flush[u].item, flush[u].b)
    BY <1>7, <2>2, <2>5 DEF FlushSlotOK, SoleFlush, f
  <2> HIDE DEF d
  <2> DEFINE i == f.item
             b == f.b
             S == f.segs
  <2>6. \/ Filled(d, i, b)
        \/ S = Slice /\ ~OnDisk(d) /\ (\A u \in Thread : op[u].slot # d) /\ \A u \in Thread \ {t} : flush[u].slot # d
    BY <2>3 DEF SoleFlush
  <2>7. content' = [content EXCEPT ![d] = Written(d, i, b, S)] /\ disk' = [disk EXCEPT ![i][b] = d]
    BY <1>2 DEF d
  <2> HIDE DEF i, b, S
  <2> QED BY <1>1, <1>3, <1>4, <1>5, <2>1, <2>4, <2>5, <2>6, <2>7, SlotFilled, ZenonT(60)
<1> QED BY <1>6, <1>7

LEMMA FlushingSlots == ASSUME DcheckOn, CallInv, SlotInv, NEW t \in Thread, Flushing(t) PROVE SlotInv'
BY FlushKeepsSlotInv, FlushTargetSlots, FlushAllocSlots, FlushWriteSlots DEF Flushing, FlushKeeps

-----------------------------------------------------------------------------
(* Steps of the API call itself, its start, and the end of an item.        *)

\* The steps that take no block and write none.
LEMMA CallingKeepsSlots ==
  ASSUME CallInv, SlotInv, NEW t \in Thread,
         LocalsTyped', op'[t].slot = NoSlot, \A u \in Thread \ {t} : op'[u] = op[u],
         UNCHANGED <<flush, disk, content>>, UNCHANGED diskCall \/ diskCall' = [diskCall EXCEPT ![t] = NoDiskCall]
  PROVE  SlotInv'
<1>1. StoreTyped /\ LocalsTyped
  BY DEF CallInv
<1>2. NoDiskCall.slot = NoSlot
  BY DEF NoDiskCall
<1>3. \A u \in Thread : CallSlotKept(u)
  BY <1>1, <1>2, CallPut DEF CallSlotKept
<1>4. \A u \in Thread : SlotsKept(u)
  BY <1>3 DEF SlotsKept, OpSlotKept, FlushSlotKept
<1> QED BY <1>1, <1>4, SlotsSame DEF DiskShrinks

\* A set is in no disk read.
LEMMA SetHasNone == ASSUME CallInv', NEW t \in Thread, SetGoesOn(t) PROVE op'[t].slot = NoSlot
<1>1. "read.disk" \notin Frames(t)'
  <2>1. "read.disk" \in CallLabel /\ "read.disk" \notin SetLabel
    BY DEF CallLabel, ReadLabel, SetLabel
  <2> QED BY <2>1 DEF SetGoesOn
<1> QED BY <1>1, NotReading

LEMMA CallingSlots ==
  ASSUME CallInv, SlotInv, NEW t \in Thread, Calling(t), ~ReadBlock(t), ~SetDisk(t)
  PROVE  SlotInv'
<1>1. CallInv' /\ UNCHANGED flush /\ \A u \in Thread \ {t} : op'[u] = op[u]
  BY CallingCalls, CallingOthers
<1>2. op'[t].slot = NoSlot
  <2>1. CASE SetItem(t) \/ SetBlock(t) \/ SetMem(t)
    BY <1>1, <2>1, SetItemCalls, SetBlockCalls, SetMemCalls, SetHasNone
  <2>2. CASE SetInsert(t)
    BY <1>1, <2>2, SetInsertCalls, NotReading
  <2> QED BY <2>1, <2>2, ReadDiskCalls, PromoteCheckCalls, PromoteSetCalls, PinUntrackCalls, UnpinTrackCalls DEF Calling
<1>3. UNCHANGED <<disk, content>> /\ (UNCHANGED diskCall \/ diskCall' = [diskCall EXCEPT ![t] = NoDiskCall])
  BY DEF Calling, SetItem, SetBlock, SetMem, SetInsert, ReadDisk, PromoteCheck, PromoteSet, PinUntrack, UnpinTrack, store, locals
<1> QED BY <1>1, <1>2, <1>3, CallingKeepsSlots DEF CallInv

\* A set fills the block that was allocated for it.
LEMMA SetDiskSlots == ASSUME CallInv, SlotInv, NEW t \in Thread, SetDisk(t) PROVE SlotInv'
<1> DEFINE d == diskCall[t].slot
           i == op[t].item
           b == op[t].b
<1>1. CallInv' /\ SetGoesOn(t)
  BY SetDiskCalls
<1>2. op'[t].slot = NoSlot /\ LocalsTyped'
  BY <1>1, SetHasNone DEF CallInv
<1>3. UNCHANGED flush /\ \A u \in Thread \ {t} : op'[u] = op[u]
  BY CallingOthers DEF Calling
<1>4. StoreTyped /\ LocalsTyped /\ CallTyped(diskCall[t])
  BY DEF CallInv, LocalsTyped
<1>5. diskCall' = [diskCall EXCEPT ![t] = NoDiskCall] /\ NoDiskCall.slot = NoSlot
  BY DEF SetDisk, NoDiskCall
<1>6. CASE UNCHANGED <<content, disk>>
  BY <1>2, <1>3, <1>5, <1>6, CallingKeepsSlots
<1>7. CASE /\ d # NoSlot
           /\ content' = [content EXCEPT ![d] = Written(d, i, b, Slice)]
           /\ disk' = [disk EXCEPT ![i][b] = d]
  <2>1. SoleCall(t, d) /\ d \in Slot
    BY <1>4, <1>7 DEF SlotInv, CallSlotOK, CallTyped
  <2>2. /\ ~OnDisk(d) /\ (\A u \in Thread : op[u].slot # d) /\ (\A u \in Thread : flush[u].slot # d)
        /\ \A u \in Thread \ {t} : diskCall[u].slot # d
    BY <2>1 DEF SoleCall
  <2>3. flush'[t].slot = NoSlot
    <3>1. At(t, "set.disk") /\ "set.disk" \in CallLabel /\ "flush.write" \notin {"set.disk"}
      BY DEF SetDisk, CallLabel, SetLabel
    <3>2. Frames(t) = {"set.disk"}
      BY <3>1, InCall
    <3>3. flush[t].slot = NoSlot
      BY <3>1, <3>2 DEF CallInv, LocalsFit, FlushFits
    <3> QED BY <1>3, <3>3
  <2>4. diskCall'[t].slot = NoSlot /\ d # NoSlot /\ \A u \in Thread : CallSlotKept(u)
    BY <1>4, <1>5, <1>7, CallPut DEF LocalsTyped
  <2>5. \A u \in Thread : SlotsKept(u)
    BY <1>2, <1>3, <2>4 DEF SlotsKept, OpSlotKept, FlushSlotKept
  <2>6. content' = [content EXCEPT ![d] = Written(d, i, b, Slice)] /\ disk' = [disk EXCEPT ![i][b] = d]
    BY <1>7
  <2> HIDE DEF d, i, b
  <2> QED BY <1>4, <2>1, <2>2, <2>3, <2>4, <2>5, <2>6, SlotFilled, ZenonT(60)
<1> QED BY <1>6, <1>7 DEF SetDisk

\* A read takes the disk block that the item has.
LEMMA ReadBlockSlots == ASSUME CallInv, SlotInv, NEW t \in Thread, ReadBlock(t) PROVE SlotInv'
<1> DEFINE d == disk[op[t].item][op[t].b]
<1>1. UNCHANGED <<flush, disk, content, diskCall>> /\ At(t, "read.block")
  BY DEF ReadBlock, store
<1>2. /\ CallInv' /\ op'[t].slot \in {NoSlot, d}
      /\ op'[t].slot # NoSlot => op'[t].item = op[t].item /\ op'[t].b = op[t].b
  BY ReadBlockCalls
<1>3. \A u \in Thread \ {t} : op'[u] = op[u]
  BY CallingOthers DEF Calling
<1>4. CASE op'[t].slot = NoSlot
  BY <1>1, <1>2, <1>3, <1>4, CallingKeepsSlots DEF CallInv
<1>5. CASE op'[t].slot # NoSlot
  <2>1. op[t].item \in Item /\ op[t].b \in Block
    BY <1>1, InCall DEF CallLabel, ReadLabel
  <2>2. Filled(d, op[t].item, op[t].b) /\ OnDisk(d)
    BY <1>2, <1>5, <2>1 DEF SlotInv, DiskBlockWhole, Filled, OnDisk
  <2>3. DiskBlockWhole'
    BY <1>1 DEF SlotInv, DiskBlockWhole
  <2> SUFFICES ASSUME NEW u \in Thread PROVE ReadSlotOK(u)' /\ FlushSlotOK(u)' /\ CallSlotOK(u)'
    BY <2>3 DEF SlotInv
  <2>4. op'[t].slot = d
    BY <1>2, <1>5
  <2> HIDE DEF d
  <2>5. ReadSlotOK(u)'
    <3>1. CASE u = t
      BY <1>1, <1>2, <1>5, <2>2, <2>4, <3>1 DEF ReadSlotOK, Filled
    <3>2. CASE u # t
      BY <1>1, <1>3, <3>2 DEF SlotInv, ReadSlotOK, Filled
    <3> QED BY <3>1, <3>2
  <2>6. FlushSlotOK(u)'
    <3>1. FlushSlotOK(u) /\ (SoleFlush(u, flush[u].slot) => flush[u].slot # d)
      BY <2>2 DEF SlotInv, SoleFlush
    <3> QED BY <1>1, <1>3, <2>4, <3>1 DEF FlushSlotOK, SoleFlush, Filled, OnDisk
  <2>7. CallSlotOK(u)'
    <3>1. CallSlotOK(u) /\ (SoleCall(u, diskCall[u].slot) => diskCall[u].slot # d)
      BY <2>2 DEF SlotInv, SoleCall
    <3> QED BY <1>1, <1>3, <2>4, <3>1 DEF CallSlotOK, SoleCall, OnDisk
  <2> QED BY <2>5, <2>6, <2>7
<1> QED BY <1>4, <1>5

LEMMA StartSlots == ASSUME CallInv, SlotInv, NEW t \in Thread, Start(t) PROVE SlotInv'
<1>1. CallInv'
  BY StartCalls
<1>2. ASSUME NEW k \in Key, NEW n \in 1 .. MaxBlocks, NEW pinned, SetStart(t, k, n, pinned) PROVE SlotInv'
  <2>1. op'[t].slot = NoSlot /\ \A u \in Thread \ {t} : op'[u] = op[u]
    BY <1>2, SetStartCalls
  <2>2. UNCHANGED <<flush, disk, content, diskCall>>
    BY <1>2 DEF SetStart, store
  <2> QED BY <1>1, <2>1, <2>2, CallingKeepsSlots DEF CallInv
<1>3. ASSUME NEW k \in Key, ReadStart(t, k) \/ PinStart(t, k) \/ UnpinStart(t, k) PROVE SlotInv'
  <2>1. op'[t].slot = NoSlot /\ \A u \in Thread \ {t} : op'[u] = op[u]
    BY <1>3, ReadStartCalls, PinStartCalls DEF CallStarts
  <2>2. UNCHANGED <<flush, disk, content, diskCall>>
    BY <1>3 DEF ReadStart, PinStart, UnpinStart, store
  <2> QED BY <1>1, <2>1, <2>2, CallingKeepsSlots DEF CallInv
<1>4. ASSUME NEW k \in Key, RemoveStart(t, k) PROVE SlotInv'
  <2>1. UNCHANGED <<op, flush, disk, content, diskCall>>
    BY <1>4 DEF RemoveStart
  <2>2. \A u \in Thread : SlotsKept(u)
    BY <2>1 DEF SlotsKept, OpSlotKept, FlushSlotKept, CallSlotKept
  <2> QED BY <2>1, <2>2, SlotsSame DEF DiskShrinks, CallInv
<1> QED BY <1>2, <1>3, <1>4 DEF Start

LEMMA DestroySlots == ASSUME CallInv, SlotInv, NEW i \in Item, Destroy(i) PROVE SlotInv'
<1>1. UNCHANGED <<op, flush, diskCall>>
  BY DEF Destroy, locals
<1>2. StoreTyped /\ LocalsTyped
  BY DEF CallInv
<1>3. \A u \in Thread : op[u].item # i /\ flush[u].item # i
  BY DEF Destroy, Live, Refs
<1>4. disk' = [disk EXCEPT ![i] = [b \in Block |-> NoSlot]]
  BY DEF Destroy
<1>5. \A d \in Slot, s \in Slice : content'[d][s] = IF \E b \in Block : content[d][s] = <<i, b>> THEN Junk ELSE content[d][s]
  BY DEF Destroy
<1>6. BytesKept({i})
  <2>1. ASSUME NEW d \in Slot, NEW s \in Slice, NEW j, NEW c, content[d][s] = <<j, c>>, j \notin {i} PROVE content'[d][s] = <<j, c>>
    BY <1>5, <2>1
  <2>2. \A b \in Block : disk'[i][b] = NoSlot
    BY <1>2, <1>4 DEF StoreTyped
  <2> QED BY <1>3, <2>1, <2>2 DEF BytesKept
<1>7. \A u \in Thread : SlotsKept(u)
  BY <1>1 DEF SlotsKept, OpSlotKept, FlushSlotKept, CallSlotKept
<1> QED BY <1>2, <1>4, <1>6, <1>7, SlotsDropped, DiskDropped

LEMMA FreshSlots == Init => SlotInv
<1> SUFFICES ASSUME Init PROVE SlotInv
  OBVIOUS
<1>1. \A t \in Thread : op[t].slot = NoSlot /\ flush[t].slot = NoSlot /\ diskCall[t].slot = NoSlot
  BY DEF Init, Fresh, NoOp, NoFlush, NoDiskCall
<1>2. DiskBlockWhole
  BY DEF Init, Fresh, DiskBlockWhole
<1> QED BY <1>1, <1>2 DEF SlotInv, ReadSlotOK, FlushSlotOK, CallSlotOK

LEMMA StutterSlots == ASSUME CallInv, SlotInv, UNCHANGED vars PROVE SlotInv'
<1>1. UNCHANGED <<op, flush, disk, content, diskCall>>
  BY DEF vars, store, locals
<1>2. \A u \in Thread : SlotsKept(u)
  BY <1>1 DEF SlotsKept, OpSlotKept, FlushSlotKept, CallSlotKept
<1> QED BY <1>1, <1>2, SlotsSame DEF DiskShrinks, CallInv

DiskInv == CallInv /\ ItemInv /\ (DcheckOn => SlotInv)

LEMMA NextSlots == DiskInv /\ [Next]_vars => DiskInv'
<1> SUFFICES ASSUME CallInv, ItemInv, DcheckOn => SlotInv, [Next]_vars PROVE DiskInv'
  BY DEF DiskInv
<1>1. CallInv' /\ ItemInv'
  BY NextItems, StutterItems
<1>2. ASSUME DcheckOn PROVE SlotInv'
  <2>1. SlotInv
    BY <1>2
  <2>2. CASE \E t \in Thread : Start(t)
    BY <2>1, <2>2, StartSlots
  <2>3. ASSUME NEW t \in Thread, Step(t) PROVE SlotInv'
    <3>1. CASE Inner(t)
      BY <2>1, <3>1, InnerSlots, DiskAllocOkSlots
    <3>2. CASE Flushing(t)
      BY <1>2, <2>1, <3>2, FlushingSlots
    <3>3. CASE Calling(t)
      BY <2>1, <3>3, CallingSlots, SetDiskSlots, ReadBlockSlots
    <3> QED BY <2>3, <3>1, <3>2, <3>3, StepIs
  <2>4. CASE \E i \in Item : Destroy(i)
    BY <2>1, <2>4, DestroySlots
  <2>5. CASE UNCHANGED vars
    BY <2>1, <2>5, StutterSlots
  <2>6. CASE Crash
    <3>1. Init'
      BY <2>6, FreshAgain
    <3> QED BY <3>1, FreshSlots, PTL
  <2> QED BY <2>2, <2>3, <2>4, <2>5, <2>6 DEF Next
<1> QED BY <1>1, <1>2 DEF DiskInv

\* No item points to a disk block that lacks a slice of it
\* (star_cache_impl.cpp:665), in a build whose DCHECKs are on; the run
\* partial_flush shows a release build that breaks it.  A block that an
\* allocation has handed out is in the hands of one thread, and what a flush
\* installs it has either filled or found filled.
THEOREM DiskBlocksAreWhole == ASSUME DcheckOn PROVE Spec => []DiskBlockWhole
<1>1. Init => DiskInv
  BY FreshCalls, FreshItems, FreshSlots DEF DiskInv
<1>2. DiskInv => DiskBlockWhole
  BY DEF DiskInv, SlotInv
<1> QED BY <1>1, <1>2, NextSlots, PTL DEF Spec

\* While a read has a disk block, every slice it reads from it holds the bytes
\* of the item it found and of the block it is at, whatever other threads
\* evict, flush, replace or allocate meanwhile (same builds): the DiskBlockPtr
\* the read copied keeps the block from being handed out again.
THEOREM ReadsAreIntact == ASSUME DcheckOn PROVE Spec => []ReadIntegrity
<1>1. Init => DiskInv
  BY FreshCalls, FreshItems, FreshSlots DEF DiskInv
<1>2. DiskInv => ReadIntegrity
  <2> SUFFICES ASSUME CallInv, SlotInv, NEW t \in Thread, At(t, "read.disk"), NEW s \in Wanted(op[t])
               PROVE  content[op[t].slot][s] = <<op[t].item, op[t].b>>
    BY DEF DiskInv, ReadIntegrity
  <2>1. op[t].slot # NoSlot
    BY InCall DEF CallLabel, ReadLabel
  <2>2. s \in Slice
    BY DEF Wanted
  <2> QED BY <2>1, <2>2 DEF SlotInv, ReadSlotOK, Filled
<1> QED BY <1>1, <1>2, NextSlots, PTL DEF Spec
-----------------------------------------------------------------------------
(* Whose a disk block is, in every build.                                  *)

\* Block b of item i has disk block d: it is installed there, or a thread
\* reads or writes it for that block.
Has(d, i, b) == \/ i \in Item /\ b \in Block /\ disk[i][b] = d
                \/ \E u \in Thread : op[u].slot = d /\ op[u].item = i /\ op[u].b = b
                \/ \E u \in Thread : flush[u].slot = d /\ flush[u].item = i /\ flush[u].b = b

OneOwner == \A d \in Slot : \A i, j, b, c : Has(d, i, b) /\ Has(d, j, c) => i = j /\ b = c

\* The one an allocation got is nobody's yet.
AllocatedIsFree ==
  \A d \in Slot, t \in Thread : diskCall[t].slot = d => /\ \A i, b : ~Has(d, i, b)
                                                        /\ \A u \in Thread \ {t} : diskCall[u].slot # d

OwnInv == OneOwner /\ AllocatedIsFree

HasShrinks == \A d \in Slot : \A i, b : Has(d, i, b)' => Has(d, i, b)

LEMMA OwnersKept ==
  ASSUME OwnInv, HasShrinks, \A u \in Thread : CallSlotKept(u)
  PROVE  OwnInv'
<1>1. OneOwner'
  BY DEF OwnInv, OneOwner, HasShrinks
<1>2. \A u \in Thread, d \in Slot : diskCall'[u].slot = d => diskCall[u].slot = d
  BY Nulls DEF CallSlotKept
<1>3. AllocatedIsFree'
  BY <1>2 DEF OwnInv, AllocatedIsFree, HasShrinks
<1> QED BY <1>1, <1>3 DEF OwnInv

LEMMA KeptHasShrinks ==
  ASSUME DiskShrinks, \A u \in Thread : SlotsKept(u)
  PROVE  HasShrinks
BY Nulls DEF DiskShrinks, SlotsKept, OpSlotKept, FlushSlotKept, Target, HasShrinks, Has

\* Thread t hands the block it was given to block b of item i.
LEMMA OwnerFound ==
  ASSUME OwnInv, NEW t \in Thread, NEW i, NEW b,
         \A d \in Slot : \A j, c : Has(d, j, c)' => Has(d, j, c) \/ (d = diskCall[t].slot /\ j = i /\ c = b),
         diskCall'[t].slot = NoSlot, \A u \in Thread \ {t} : diskCall'[u].slot = diskCall[u].slot
  PROVE  OwnInv'
<1>1. OneOwner'
  BY DEF OwnInv, OneOwner, AllocatedIsFree
<1>2. AllocatedIsFree'
  BY Nulls DEF OwnInv, AllocatedIsFree
<1> QED BY <1>1, <1>2 DEF OwnInv

-----------------------------------------------------------------------------
(* The steps.                                                              *)

LEMMA DiskAllocOkOwners == ASSUME CallInv, OwnInv, NEW t \in Thread, DiskAllocOk(t) PROVE OwnInv'
<1>1. UNCHANGED <<disk, op, flush>>
  BY DEF DiskAllocOk, store
<1> PICK d \in FreeSlots : diskCall' = [diskCall EXCEPT ![t] = [NoDiskCall EXCEPT !.slot = d]]
  BY DEF DiskAllocOk
<1>2. diskCall'[t].slot = d /\ \A u \in Thread \ {t} : diskCall'[u] = diskCall[u]
  BY FieldNames DEF CallInv, LocalsTyped, NoDiskCall
<1>3. (\A i, b : ~Has(d, i, b)) /\ \A u \in Thread : diskCall[u].slot # d
  BY DEF FreeSlots, BlockSlots, LocalSlots, Has
<1>4. \A e, i, b : Has(e, i, b)' <=> Has(e, i, b)
  BY <1>1 DEF Has
<1> QED BY <1>2, <1>3, <1>4 DEF OwnInv, OneOwner, AllocatedIsFree

LEMMA InnerOwners == ASSUME CallInv, OwnInv, NEW t \in Thread, Inner(t) PROVE OwnInv'
<1>1. CASE ~DiskAllocOk(t)
  BY <1>1, InnerKeepsSlots, KeptHasShrinks, OwnersKept DEF SlotsKept
<1> QED BY <1>1, DiskAllocOkOwners

LEMMA FlushTargetOwners == ASSUME CallInv, OwnInv, NEW t \in Thread, FlushTarget(t) PROVE OwnInv'
<1> DEFINE f == flush[t]
           d == disk[f.item][f.b]
<1>1. UNCHANGED <<disk, op>> /\ At(t, "flush.target")
  BY DEF FlushTarget, store
<1>2. f.item \in Item /\ f.b \in Block /\ LocalsTyped
  BY <1>1, InFlush DEF FlushLabel, CallInv
<1>3. \A u \in Thread : CallSlotKept(u)
  <2>1. diskCall' = diskCall \/ diskCall' = [diskCall EXCEPT ![t] = NoDiskCall]
    BY DEF FlushTarget
  <2>2. NoDiskCall.slot = NoSlot
    BY DEF NoDiskCall
  <2> QED BY <1>2, <2>1, <2>2, CallPut DEF CallSlotKept
<1>4. HasShrinks
  <2>1. CASE UNCHANGED flush
    BY <1>1, <2>1 DEF HasShrinks, Has
  <2>2. CASE flush' = [flush EXCEPT ![t].slot = d]
    <3>1. /\ flush'[t].slot = d /\ flush'[t].item = f.item /\ flush'[t].b = f.b
          /\ \A u \in Thread \ {t} : flush'[u] = flush[u]
      BY <1>2, <2>2, FieldNames DEF LocalsTyped, FlushTyped
    <3>2. Has(d, f.item, f.b)
      BY <1>2 DEF Has
    <3> HIDE DEF d, f
    <3> SUFFICES ASSUME NEW e \in Slot, NEW i, NEW b, Has(e, i, b)' PROVE Has(e, i, b)
      BY DEF HasShrinks
    <3>3. CASE \E u \in Thread : flush'[u].slot = e /\ flush'[u].item = i /\ flush'[u].b = b
      <4>1. PICK u \in Thread : flush'[u].slot = e /\ flush'[u].item = i /\ flush'[u].b = b
        BY <3>3
      <4>2. CASE u = t
        BY <3>1, <3>2, <4>1, <4>2
      <4>3. CASE u # t
        BY <3>1, <4>1, <4>3 DEF Has
      <4> QED BY <4>2, <4>3
    <3> QED BY <1>1, <3>3 DEF Has
  <2> QED BY <2>1, <2>2 DEF FlushTarget
<1> QED BY <1>3, <1>4, OwnersKept

LEMMA FlushAllocOwners == ASSUME CallInv, OwnInv, NEW t \in Thread, FlushAlloc(t) PROVE OwnInv'
<1> DEFINE f == flush[t]
           d == diskCall[t].slot
<1>1. UNCHANGED <<disk, op>>
  BY DEF FlushAlloc, store
<1>2. LocalsTyped
  BY DEF CallInv
<1>3. /\ flush'[t].slot = d /\ flush'[t].item = f.item /\ flush'[t].b = f.b
      /\ \A u \in Thread \ {t} : flush'[u] = flush[u] /\ diskCall'[u] = diskCall[u]
      /\ diskCall'[t].slot = NoSlot
  BY <1>2, FieldNames DEF FlushAlloc, LocalsTyped, FlushTyped, NoDiskCall
<1> HIDE DEF f
<1>4. ASSUME NEW e \in Slot, NEW j, NEW c, Has(e, j, c)' PROVE Has(e, j, c) \/ (e = d /\ j = f.item /\ c = f.b)
  <2>1. CASE \E u \in Thread : flush'[u].slot = e /\ flush'[u].item = j /\ flush'[u].b = c
    <3>1. PICK u \in Thread : flush'[u].slot = e /\ flush'[u].item = j /\ flush'[u].b = c
      BY <2>1
    <3>2. CASE u = t
      BY <1>3, <3>1, <3>2
    <3>3. CASE u # t
      BY <1>3, <3>1, <3>3 DEF Has
    <3> QED BY <3>2, <3>3
  <2> QED BY <1>1, <1>4, <2>1 DEF Has
<1>5. \A u \in Thread \ {t} : diskCall'[u].slot = diskCall[u].slot
  BY <1>3
<1> QED BY <1>3, <1>4, <1>5, OwnerFound

\* What a flush writes it has, and has for the block it installs it for.
LEMMA FlushWriteOwners == ASSUME CallInv, OwnInv, NEW t \in Thread, FlushWrite(t) PROVE OwnInv'
<1> DEFINE f == flush[t]
<1>1. UNCHANGED <<op, diskCall>> /\ disk' = [disk EXCEPT ![f.item][f.b] = f.slot]
  BY DEF FlushWrite
<1>2. flush'[t].slot = NoSlot /\ \A u \in Thread \ {t} : flush'[u] = flush[u]
  BY FieldNames DEF FlushWrite, CallInv, LocalsTyped, FlushTyped
<1>3. \A i \in Item, b \in Block : disk'[i][b] = disk[i][b] \/ (disk'[i][b] = f.slot /\ i = f.item /\ b = f.b)
  BY <1>1 DEF CallInv, StoreTyped
<1>4. Has(f.slot, f.item, f.b)
  BY DEF Has
<1> HIDE DEF f
<1>5. ASSUME NEW e \in Slot, NEW i, NEW b, Has(e, i, b)' PROVE Has(e, i, b)
  <2>1. CASE i \in Item /\ b \in Block /\ disk'[i][b] = e
    BY <1>3, <1>4, <2>1 DEF Has
  <2>2. CASE \E u \in Thread : flush'[u].slot = e /\ flush'[u].item = i /\ flush'[u].b = b
    BY <1>2, <2>2, Nulls DEF Has
  <2>3. CASE \E u \in Thread : op'[u].slot = e /\ op'[u].item = i /\ op'[u].b = b
    BY <1>1, <2>3 DEF Has
  <2> QED BY <1>5, <2>1, <2>2, <2>3 DEF Has
<1>6. HasShrinks
  BY <1>5 DEF HasShrinks
<1>7. \A u \in Thread : CallSlotKept(u)
  BY <1>1 DEF CallSlotKept
<1> QED BY <1>6, <1>7, OwnersKept

LEMMA FlushingOwners == ASSUME CallInv, OwnInv, NEW t \in Thread, Flushing(t) PROVE OwnInv'
<1>1. CASE FlushKeeps(t)
  BY <1>1, FlushKeepsSlots, KeptHasShrinks, OwnersKept DEF SlotsKept
<1> QED BY <1>1, FlushTargetOwners, FlushAllocOwners, FlushWriteOwners DEF Flushing, FlushKeeps

\* The steps of a call that take no disk block.
LEMMA CallingKeepsOwners ==
  ASSUME CallInv, OwnInv, NEW t \in Thread, op'[t].slot = NoSlot, \A u \in Thread \ {t} : op'[u] = op[u],
         UNCHANGED <<flush, disk>>, UNCHANGED diskCall \/ diskCall' = [diskCall EXCEPT ![t] = NoDiskCall]
  PROVE  OwnInv'
<1>1. NoDiskCall.slot = NoSlot /\ LocalsTyped
  BY DEF NoDiskCall, CallInv
<1>2. \A u \in Thread : CallSlotKept(u)
  BY <1>1, CallPut DEF CallSlotKept
<1>3. HasShrinks
  BY <1>2, KeptHasShrinks DEF SlotsKept, OpSlotKept, FlushSlotKept, DiskShrinks
<1> QED BY <1>2, <1>3, OwnersKept

LEMMA SetDiskOwners == ASSUME CallInv, OwnInv, NEW t \in Thread, SetDisk(t) PROVE OwnInv'
<1> DEFINE d == diskCall[t].slot
           i == op[t].item
           b == op[t].b
<1>1. op'[t].slot = NoSlot /\ UNCHANGED flush /\ \A u \in Thread \ {t} : op'[u] = op[u]
  <2>1. CallInv' /\ SetGoesOn(t)
    BY SetDiskCalls
  <2> QED BY <2>1, SetHasNone, CallingOthers DEF Calling
<1>2. diskCall' = [diskCall EXCEPT ![t] = NoDiskCall] /\ NoDiskCall.slot = NoSlot
  BY DEF SetDisk, NoDiskCall
<1>3. CASE UNCHANGED disk
  BY <1>1, <1>2, <1>3, CallingKeepsOwners
<1>4. CASE disk' = [disk EXCEPT ![i][b] = d]
  <2>1. \A j \in Item, c \in Block : disk'[j][c] = disk[j][c] \/ (disk'[j][c] = d /\ j = i /\ c = b)
    BY <1>4 DEF CallInv, StoreTyped
  <2>2. diskCall'[t].slot = NoSlot /\ \A u \in Thread \ {t} : diskCall'[u].slot = diskCall[u].slot
    BY <1>2 DEF CallInv, LocalsTyped
  <2> HIDE DEF i, b
  <2>3. ASSUME NEW e \in Slot, NEW j, NEW c, Has(e, j, c)' PROVE Has(e, j, c) \/ (e = d /\ j = i /\ c = b)
    <3>1. CASE j \in Item /\ c \in Block /\ disk'[j][c] = e
      BY <2>1, <3>1 DEF Has
    <3>2. CASE \E u \in Thread : flush'[u].slot = e /\ flush'[u].item = j /\ flush'[u].b = c
      BY <1>1, <3>2 DEF Has
    <3>3. CASE \E u \in Thread : op'[u].slot = e /\ op'[u].item = j /\ op'[u].b = c
      BY <1>1, <3>3, Nulls DEF Has
    <3> QED BY <2>3, <3>1, <3>2, <3>3 DEF Has
  <2> QED BY <2>2, <2>3, OwnerFound
<1> QED BY <1>3, <1>4 DEF SetDisk

LEMMA ReadBlockOwners == ASSUME CallInv, OwnInv, NEW t \in Thread, ReadBlock(t) PROVE OwnInv'
<1> DEFINE d == disk[op[t].item][op[t].b]
<1>1. UNCHANGED <<flush, disk, diskCall>> /\ At(t, "read.block")
  BY DEF ReadBlock, store
<1>2. /\ op'[t].slot \in {NoSlot, d}
      /\ op'[t].slot # NoSlot => op'[t].item = op[t].item /\ op'[t].b = op[t].b
      /\ \A u \in Thread \ {t} : op'[u] = op[u]
  BY ReadBlockCalls, CallingOthers DEF Calling
<1>3. Has(d, op[t].item, op[t].b)
  <2>1. op[t].item \in Item /\ op[t].b \in Block
    BY <1>1, InCall DEF CallLabel, ReadLabel
  <2> QED BY <2>1 DEF Has
<1> HIDE DEF d
<1>4. ASSUME NEW e \in Slot, NEW i, NEW b, Has(e, i, b)' PROVE Has(e, i, b)
  <2>1. CASE \E u \in Thread : op'[u].slot = e /\ op'[u].item = i /\ op'[u].b = b
    <3>1. PICK u \in Thread : op'[u].slot = e /\ op'[u].item = i /\ op'[u].b = b
      BY <2>1
    <3>2. CASE u = t
      BY <1>2, <1>3, <3>1, <3>2, Nulls
    <3>3. CASE u # t
      BY <1>2, <3>1, <3>3 DEF Has
    <3> QED BY <3>2, <3>3
  <2> QED BY <1>1, <1>4, <2>1 DEF Has
<1> QED BY <1>1, <1>4, OwnersKept DEF HasShrinks, CallSlotKept

LEMMA CallingOwners == ASSUME CallInv, OwnInv, NEW t \in Thread, Calling(t) PROVE OwnInv'
<1>1. CASE SetDisk(t) \/ ReadBlock(t)
  BY <1>1, SetDiskOwners, ReadBlockOwners
<1>2. CASE ~SetDisk(t) /\ ~ReadBlock(t)
  <2>1. CallInv' /\ UNCHANGED flush /\ \A u \in Thread \ {t} : op'[u] = op[u]
    BY CallingCalls, CallingOthers
  <2>2. op'[t].slot = NoSlot
    <3>1. CASE SetItem(t) \/ SetBlock(t) \/ SetMem(t)
      BY <2>1, <3>1, SetItemCalls, SetBlockCalls, SetMemCalls, SetHasNone
    <3>2. CASE SetInsert(t)
      BY <2>1, <3>2, SetInsertCalls, NotReading
    <3> QED BY <1>2, <3>1, <3>2, ReadDiskCalls, PromoteCheckCalls, PromoteSetCalls, PinUntrackCalls, UnpinTrackCalls DEF Calling
  <2>3. UNCHANGED disk /\ (UNCHANGED diskCall \/ diskCall' = [diskCall EXCEPT ![t] = NoDiskCall])
    BY <1>2 DEF Calling, SetItem, SetBlock, SetMem, SetInsert, ReadDisk, PromoteCheck, PromoteSet, PinUntrack, UnpinTrack, store, locals
  <2> QED BY <2>1, <2>2, <2>3, CallingKeepsOwners
<1> QED BY <1>1, <1>2

LEMMA StartOwners == ASSUME CallInv, OwnInv, NEW t \in Thread, Start(t) PROVE OwnInv'
<1>1. ASSUME NEW k \in Key, NEW n \in 1 .. MaxBlocks, NEW pinned, SetStart(t, k, n, pinned) PROVE OwnInv'
  <2>1. op'[t].slot = NoSlot /\ \A u \in Thread \ {t} : op'[u] = op[u]
    BY <1>1, SetStartCalls
  <2>2. UNCHANGED <<flush, disk, diskCall>>
    BY <1>1 DEF SetStart, store
  <2> QED BY <2>1, <2>2, CallingKeepsOwners
<1>2. ASSUME NEW k \in Key, ReadStart(t, k) \/ PinStart(t, k) \/ UnpinStart(t, k) PROVE OwnInv'
  <2>1. op'[t].slot = NoSlot /\ \A u \in Thread \ {t} : op'[u] = op[u]
    BY <1>2, ReadStartCalls, PinStartCalls DEF CallStarts
  <2>2. UNCHANGED <<flush, disk, diskCall>>
    BY <1>2 DEF ReadStart, PinStart, UnpinStart, store
  <2> QED BY <2>1, <2>2, CallingKeepsOwners
<1>3. ASSUME NEW k \in Key, RemoveStart(t, k) PROVE OwnInv'
  <2>1. UNCHANGED <<op, flush, disk, diskCall>>
    BY <1>3 DEF RemoveStart
  <2> QED BY <2>1, OwnersKept DEF HasShrinks, Has, CallSlotKept
<1> QED BY <1>1, <1>2, <1>3 DEF Start

LEMMA DestroyOwners == ASSUME CallInv, OwnInv, NEW i \in Item, Destroy(i) PROVE OwnInv'
<1>1. UNCHANGED <<op, flush, diskCall>>
  BY DEF Destroy, locals
<1>2. DiskShrinks
  BY DiskDropped DEF Destroy, CallInv
<1>3. \A u \in Thread : SlotsKept(u)
  BY <1>1 DEF SlotsKept, OpSlotKept, FlushSlotKept, CallSlotKept
<1> QED BY <1>2, <1>3, KeptHasShrinks, OwnersKept DEF SlotsKept

LEMMA FreshOwners == Init => OwnInv
<1> SUFFICES ASSUME Init PROVE OwnInv
  OBVIOUS
<1>1. \A t \in Thread : op[t].slot = NoSlot /\ flush[t].slot = NoSlot /\ diskCall[t].slot = NoSlot
  BY DEF Init, Fresh, NoOp, NoFlush, NoDiskCall
<1>2. \A i \in Item, b \in Block : disk[i][b] = NoSlot
  BY DEF Init, Fresh
<1>3. \A d \in Slot : \A i, b : ~Has(d, i, b)
  BY <1>1, <1>2, Nulls DEF Has
<1> QED BY <1>1, <1>3, Nulls DEF OwnInv, OneOwner, AllocatedIsFree

LEMMA StutterOwners == ASSUME OwnInv, UNCHANGED vars PROVE OwnInv'
<1>1. UNCHANGED <<op, flush, disk, diskCall>>
  BY DEF vars, store, locals
<1> QED BY <1>1, OwnersKept DEF HasShrinks, Has, CallSlotKept

LEMMA NextOwners == CallInv /\ OwnInv /\ [Next]_vars => OwnInv'
<1> SUFFICES ASSUME CallInv, OwnInv, [Next]_vars PROVE OwnInv'
  OBVIOUS
<1>1. CASE \E t \in Thread : Start(t)
  BY <1>1, StartOwners
<1>2. CASE \E t \in Thread : Step(t)
  BY <1>2, StepIs, InnerOwners, FlushingOwners, CallingOwners
<1>3. CASE \E i \in Item : Destroy(i)
  BY <1>3, DestroyOwners
<1>4. CASE Crash
  <2>1. Init'
    BY <1>4, FreshAgain
  <2> QED BY <2>1, FreshOwners, PTL
<1> QED BY <1>1, <1>2, <1>3, <1>4, StutterOwners DEF Next

\* A block of the disk belongs to one block of one item, in every build and
\* with any failures of the disk: whatever items and threads have it, they have
\* it for the same block of the same item, and one that was just allocated
\* nobody has yet (the DiskBlockPtr of block_item.h frees it when the last one
\* lets it go).
THEOREM BlocksHaveOneOwner == Spec => [](OneOwner /\ AllocatedIsFree)
<1> DEFINE Inv == CallInv /\ ItemInv /\ OwnInv
<1>1. Init => Inv
  BY FreshCalls, FreshItems, FreshOwners
<1>2. Inv /\ [Next]_vars => Inv'
  BY NextItems, StutterItems, NextOwners
<1>3. Inv => OneOwner /\ AllocatedIsFree
  BY DEF OwnInv
<1> QED BY <1>1, <1>2, <1>3, PTL DEF Spec

-----------------------------------------------------------------------------
(* What a set has written of its item.                                     *)

MemTyped == mem \in [Item -> [Block -> [slices : SUBSET Slice, dirty : BOOLEAN]]]

\* All of block b of item i is in memory, or on the disk.
Stored(i, b) == mem[i][b].slices = Slice \/ (disk[i][b] # NoSlot /\ Filled(disk[i][b], i, b))

\* The blocks before op[t].b are written, and the next one is of the object.
SetWrites(t) ==
  /\ InSet(Frames(t)) => op[t].b \in Nat
  /\ "set.item" \in Frames(t) => op[t].b = 0
  /\ Frames(t) \cap {"set.mem", "set.disk"} # {} => op[t].b < op[t].count
  /\ Made(Frames(t)) => /\ item[op[t].item].count = op[t].count
                        /\ \A b \in Block : b < op[t].b => Stored(op[t].item, b)

WriteInv == MemTyped /\ \A t \in Thread : SetWrites(t)

\* What a step leaves as it was: the data of item i, the progress of a set.
BytesStay(i) == \A b \in Block : disk[i][b] # NoSlot =>
                  \A s \in Slice : content[disk[i][b]][s] = <<i, b>> => content'[disk[i][b]][s] = <<i, b>>
DataSame(i) == item'[i].count = item[i].count /\ mem'[i] = mem[i] /\ disk'[i] = disk[i] /\ BytesStay(i)
SetStays(u) == InSet(Frames(u)') => Frames(u)' \cap SetLabel = Frames(u) \cap SetLabel /\ op'[u] = op[u]

\* An item that a step of thread t has no pointer to, but as the one it sets.
Foreign(t, i) == i \notin Indexed \cup HandedItems(t) /\ (InSet(Frames(t)) \/ i # op[t].item)

LEMMA NewIsForeign == ASSUME ItemInv, NEW t \in Thread, NEW u \in Thread, InSet(Frames(u)) PROVE Foreign(t, op[u].item)
BY DEF ItemInv, NewIsPrivate, Foreign, HandedItems, Refs

LEMMA WritesKept ==
  ASSUME NEW u \in Thread, SetWrites(u), SetStays(u), InSet(Frames(u)) => DataSame(op[u].item)
  PROVE  SetWrites(u)'
<1>1. CASE ~InSet(Frames(u)')
  BY <1>1 DEF InSet, Made, SetLabel, SetWrites
<1>2. CASE InSet(Frames(u)')
  <2>1. InSet(Frames(u)) /\ Frames(u)' \cap SetLabel = Frames(u) \cap SetLabel /\ op'[u] = op[u] /\ DataSame(op[u].item)
    BY <1>2 DEF SetStays, InSet
  <2>2. /\ "set.item" \in Frames(u)' <=> "set.item" \in Frames(u)
        /\ Frames(u)' \cap {"set.mem", "set.disk"} = Frames(u) \cap {"set.mem", "set.disk"}
        /\ Made(Frames(u)') <=> Made(Frames(u))
    BY <2>1 DEF Made, SetLabel
  <2>3. \A b \in Block : Stored(op[u].item, b) => Stored(op[u].item, b)'
    BY <2>1 DEF Stored, Filled, DataSame, BytesStay
  <2> QED BY <2>1, <2>2, <2>3 DEF SetWrites, DataSame
<1> QED BY <1>1, <1>2

\* A step that sets no item but moves some.
LEMMA WriteInvKept ==
  ASSUME CallInv, ItemInv, WriteInv, NEW t \in Thread, MemTyped', \A u \in Thread : SetStays(u),
         \A i \in Item : Foreign(t, i) => DataSame(i)
  PROVE  WriteInv'
<1>1. \A u \in Thread : InSet(Frames(u)) => DataSame(op[u].item)
  BY NewIsForeign, NewIsItem
<1> QED BY <1>1, WritesKept DEF WriteInv

LEMMA ContentSame == ASSUME UNCHANGED content PROVE \A i : BytesStay(i)
BY DEF BytesStay

LEMMA NullMemTyped == NullMem \in [slices : SUBSET Slice, dirty : BOOLEAN]
BY DEF NullMem

LEMMA MemPut ==
  ASSUME MemTyped, NEW i, NEW b, NEW m \in [slices : SUBSET Slice, dirty : BOOLEAN], mem' = [mem EXCEPT ![i][b] = m]
  PROVE  MemTyped' /\ \A j \in Item \ {i} : mem'[j] = mem[j]
BY DEF MemTyped

LEMMA MemExtended ==
  ASSUME MemTyped, NEW i \in Item, NEW b \in Block, NEW S \in SUBSET Slice, mem' = [mem EXCEPT ![i][b].slices = @ \cup S]
  PROVE  MemTyped' /\ \A j \in Item \ {i} : mem'[j] = mem[j]
<1> DEFINE m == [mem[i][b] EXCEPT !.slices = @ \cup S]
<1>1. mem[i][b] \in [slices : SUBSET Slice, dirty : BOOLEAN]
  BY DEF MemTyped
<1>2. m \in [slices : SUBSET Slice, dirty : BOOLEAN]
  BY <1>1
<1>3. mem' = [mem EXCEPT ![i][b] = m]
  BY DEF MemTyped
<1> HIDE DEF m
<1> QED BY <1>2, <1>3, MemPut

LEMMA CountKept ==
  ASSUME StoreTyped, NEW i, NEW v, \/ item' = item
                                   \/ item' = [item EXCEPT ![i].released = v]
                                   \/ item' = [item EXCEPT ![i].pinned = v]
  PROVE  \A j \in Item : item'[j].count = item[j].count
BY FieldNames DEF StoreTyped

LEMMA ReleaseKeepsCount ==
  ASSUME StoreTyped, NEW t, NEW k, NEW i, NEW l, ReleaseIfEmpty(t, k, i, l)
  PROVE  \A j \in Item : item'[j].count = item[j].count
<1>1. item' = item \/ item' = [item EXCEPT ![i].released = TRUE]
  BY DEF ReleaseIfEmpty
<1> QED BY <1>1, CountKept

-----------------------------------------------------------------------------
(* The steps that set no item.                                             *)

LEMMA InnerWrites == ASSUME CallInv, ItemInv, WriteInv, NEW t \in Thread, Inner(t) PROVE WriteInv'
<1>1. OthersSame(t) /\ OuterKept(t) /\ UNCHANGED op /\ \A i : BytesStay(i)
  BY InnerFrames, InnerKeeps, ContentSame DEF CallInv
<1>2. \A u \in Thread : SetStays(u)
  <2>1. Frames(t)' \cap SetLabel = Frames(t) \cap SetLabel
    BY <1>1 DEF OuterKept, CallLabel
  <2> QED BY <1>1, <2>1 DEF OthersSame, SetStays
<1>3. StoreTyped /\ MemTyped
  BY DEF CallInv, WriteInv
<1>4. MemTyped' /\ \A i \in Item : Foreign(t, i) => DataSame(i)
  <2>1. CASE RemoveBlock(t)
    <3> DEFINE j == removal[t].item
               b == removal[t].b
    <3>1. mem' = [mem EXCEPT ![j][b] = NullMem] /\ disk' = [disk EXCEPT ![j][b] = NoSlot] /\ item' = item
      BY <2>1 DEF RemoveBlock
    <3>2. MemTyped' /\ \A i \in Item \ {j} : mem'[i] = mem[i]
      BY <1>3, <3>1, NullMemTyped, MemPut
    <3>3. \A i \in Item \ {j} : disk'[i] = disk[i]
      BY <1>3, <3>1 DEF StoreTyped
    <3>4. \A i \in Item : Foreign(t, i) => i # j
      BY DEF Foreign, HandedItems
    <3> QED BY <1>1, <3>1, <3>2, <3>3, <3>4 DEF DataSame
  <2>2. CASE ProcessEvictedDisk(t)
    <3>1. PICK k \in Key : disk' = disk \/ (index[k] # NoItem /\ disk' = [disk EXCEPT ![index[k]] = [b \in Block |-> NoSlot]])
      BY <2>2 DEF ProcessEvictedDisk, CallInv, LocalsTyped, CallTyped
    <3>2. UNCHANGED <<mem, item>>
      BY <2>2 DEF ProcessEvictedDisk
    <3>3. \A i \in Item : Foreign(t, i) => i # index[k]
      BY DEF Foreign, Indexed
    <3>4. \A i \in Item : Foreign(t, i) => disk'[i] = disk[i]
      BY <1>3, <3>1, <3>3 DEF StoreTyped
    <3> QED BY <1>1, <1>3, <3>2, <3>4 DEF DataSame, MemTyped
  <2>3. CASE DiskEmpty(t)
    <3>1. UNCHANGED <<mem, disk>> /\ \A i \in Item : item'[i].count = item[i].count
      BY <1>3, <2>3, ReleaseKeepsCount DEF DiskEmpty
    <3> QED BY <1>1, <1>3, <3>1 DEF DataSame, MemTyped
  <2>4. CASE \/ MemAllocOk(t) \/ MemAllocEvicts(t) \/ MemAllocFails(t) \/ ProcessedMem(t) \/ DiskAllocOk(t) \/ DiskAllocEvicts(t)
             \/ DiskAllocFails(t) \/ ProcessedDisk(t) \/ RemoveIndex(t) \/ RemoveDone(t)
    <3>1. UNCHANGED <<item, mem, disk>>
      BY <2>4 DEF MemAllocOk, MemAllocEvicts, MemAllocFails, ProcessedMem, DiskAllocOk, DiskAllocEvicts, DiskAllocFails,
                  ProcessedDisk, RemoveIndex, RemoveDone, store
    <3> QED BY <1>1, <1>3, <3>1 DEF DataSame, MemTyped
  <2> QED BY <2>1, <2>2, <2>3, <2>4 DEF Inner
<1> QED BY <1>2, <1>4, WriteInvKept

LEMMA FlushingFrames == ASSUME CallInv, NEW t \in Thread, Flushing(t) PROVE OthersSame(t) /\ CallsKept(t)
<1>1. CASE ProcessEvictedMem(t)
  <2>1. CASE UNCHANGED stack
    BY <2>1, SameFrames DEF CallInv, OthersSame, CallsKept
  <2>2. CASE ~UNCHANGED stack
    <3>1. Call(t, "mem.evicted", "flush.begin") /\ At(t, "mem.evicted")
      BY <1>1, <2>2 DEF ProcessEvictedMem
    <3>2. Level("mem.evicted") = 3 /\ Level("flush.begin") = 4 /\ {"mem.evicted", "flush.begin"} \subseteq Label
      BY Levels DEF FlushLabel
    <3>3. OthersSame(t) /\ Frames(t)' = (Frames(t) \ {"mem.evicted"}) \cup {"mem.evicted", "flush.begin"}
      BY <3>1, <3>2, CallFrames DEF CallInv, OthersSame
    <3> QED BY <3>3 DEF CallsKept, CallLabel, SetLabel, ReadLabel, PinLabel
  <2> QED BY <2>1, <2>2
<1>2. CASE ~ProcessEvictedMem(t)
  <2>1. PICK l \in FlushLabel, m \in FlushLabel :
          At(t, l) /\ (Return(t) \/ Goto(t, m) \/ Call(t, m, "disk.alloc") \/ Call(t, m, "remove.index"))
    <3> "flush.begin" \in FlushLabel /\ "flush.decide" \in FlushLabel /\ "flush.delete" \in FlushLabel /\ "flush.empty" \in FlushLabel
        /\ "flush.return" \in FlushLabel /\ "flush.target" \in FlushLabel /\ "flush.alloc" \in FlushLabel /\ "flush.write" \in FlushLabel /\ "flush.drop" \in FlushLabel
      BY DEF FlushLabel
    <3>1. CASE FlushBegin(t) \/ FlushDecide(t)
      BY <3>1 DEF FlushBegin, FlushDecide, EndFlush
    <3>2. CASE FlushDelete(t) \/ FlushReturn(t) \/ FlushDrop(t)
      BY <3>2 DEF FlushDelete, FlushReturn, FlushDrop, EndFlush
    <3>3. CASE FlushTarget(t) \/ FlushAlloc(t)
      BY <3>3 DEF FlushTarget, FlushAlloc
    <3>4. CASE FlushWrite(t) \/ FlushWriteFails(t)
      BY <3>4 DEF FlushWrite, FlushWriteFails
    <3>5. CASE FlushEmpty(t)
      BY <3>5 DEF FlushEmpty, ReleaseIfEmpty
    <3> QED BY <1>2, <3>1, <3>2, <3>3, <3>4, <3>5 DEF Flushing
  <2> QED BY <2>1, FlushFrames DEF FlushMoves, CallInv
<1> QED BY <1>1, <1>2

\* The block a flush writes is no other item's.
LEMMA FlushWriteStays ==
  ASSUME StoreTyped, OwnInv, NEW t \in Thread, FlushWrite(t), NEW i \in Item, i # flush[t].item
  PROVE  BytesStay(i)
<1> DEFINE d == flush[t].slot
<1> SUFFICES ASSUME NEW b \in Block, disk[i][b] # NoSlot PROVE content'[disk[i][b]] = content[disk[i][b]]
  BY DEF BytesStay
<1>1. disk[i][b] \in Slot /\ content' = [content EXCEPT ![d] = Written(d, flush[t].item, flush[t].b, flush[t].segs)]
  BY DEF StoreTyped, FlushWrite
<1>2. Has(disk[i][b], i, b) /\ Has(d, flush[t].item, flush[t].b)
  BY DEF Has
<1>3. disk[i][b] # d
  BY <1>1, <1>2 DEF OwnInv, OneOwner
<1> HIDE DEF d
<1> QED BY <1>1, <1>3 DEF StoreTyped

LEMMA FlushingWrites == ASSUME CallInv, ItemInv, OwnInv, WriteInv, NEW t \in Thread, Flushing(t) PROVE WriteInv'
<1>1. OthersSame(t) /\ CallsKept(t) /\ UNCHANGED op
  BY FlushingFrames, FlushStepKeeps
<1>2. \A u \in Thread : SetStays(u)
  <2>1. Frames(t)' \cap SetLabel = Frames(t) \cap SetLabel
    BY <1>1 DEF CallsKept, CallLabel
  <2> QED BY <1>1, <2>1 DEF OthersSame, SetStays
<1>3. StoreTyped /\ MemTyped
  BY DEF CallInv, WriteInv
<1> DEFINE j == flush[t].item
           b == flush[t].b
<1>5. \A i \in Item : Foreign(t, i) => i # j
  BY DEF Foreign, HandedItems
<1>6. \A i \in Item : Foreign(t, i) => BytesStay(i)
  <2>1. CASE FlushWrite(t)
    BY <1>3, <1>5, <2>1, FlushWriteStays DEF BytesStay
  <2>2. CASE ~FlushWrite(t)
    <3>1. UNCHANGED content
      BY <2>2 DEF Flushing, ProcessEvictedMem, FlushBegin, FlushDecide, FlushDelete, FlushEmpty, FlushReturn, FlushTarget, FlushAlloc,
         FlushWriteFails, FlushDrop, store
    <3> QED BY <3>1, ContentSame
  <2> QED BY <2>1, <2>2
<1>4. MemTyped' /\ \A i \in Item : Foreign(t, i) => DataSame(i)
  <2>1. CASE ProcessEvictedMem(t)
    <3>1. PICK k \in Key, c \in Block : mem' = mem \/ (index[k] # NoItem /\ mem' = [mem EXCEPT ![index[k]][c] = NullMem])
      BY <2>1, Zenon DEF ProcessEvictedMem
    <3>2. UNCHANGED <<disk, item>>
      BY <2>1 DEF ProcessEvictedMem
    <3>3. \A i \in Item : Foreign(t, i) => i # index[k]
      BY DEF Foreign, Indexed
    <3>4. MemTyped' /\ \A i \in Item : Foreign(t, i) => mem'[i] = mem[i]
      <4>1. CASE mem' = mem
        BY <1>3, <4>1 DEF MemTyped
      <4>2. CASE mem' = [mem EXCEPT ![index[k]][c] = NullMem]
        <5> DEFINE n == index[k]
        <5>1. mem' = [mem EXCEPT ![n][c] = NullMem]
          BY <4>2
        <5>2. \A i \in Item : Foreign(t, i) => i # n
          BY <3>3
        <5> HIDE DEF n
        <5>3. MemTyped' /\ \A i \in Item \ {n} : mem'[i] = mem[i]
          BY <1>3, <5>1, NullMemTyped, MemPut
        <5> QED BY <5>2, <5>3
      <4> QED BY <3>1, <4>1, <4>2
    <3> QED BY <1>6, <3>2, <3>4 DEF DataSame
  <2>3. CASE FlushDelete(t) \/ FlushDrop(t)
    <3>1. mem' = [mem EXCEPT ![j][b] = NullMem] /\ (disk' = disk \/ disk' = [disk EXCEPT ![j][b] = NoSlot]) /\ item' = item
      BY <2>3 DEF FlushDelete, FlushDrop
    <3>2. MemTyped' /\ \A i \in Item \ {j} : mem'[i] = mem[i]
      BY <1>3, <3>1, NullMemTyped, MemPut
    <3>3. \A i \in Item \ {j} : disk'[i] = disk[i]
      BY <1>3, <3>1 DEF StoreTyped
    <3> QED BY <1>5, <1>6, <3>1, <3>2, <3>3 DEF DataSame
  <2>4. CASE FlushWrite(t)
    <3>1. disk' = [disk EXCEPT ![j][b] = flush[t].slot] /\ UNCHANGED <<item, mem>>
      BY <2>4 DEF FlushWrite
    <3>2. \A i \in Item \ {j} : disk'[i] = disk[i]
      BY <1>3, <3>1 DEF StoreTyped
    <3> QED BY <1>3, <1>5, <1>6, <3>1, <3>2 DEF DataSame, MemTyped
  <2>5. CASE FlushEmpty(t)
    <3>1. UNCHANGED <<mem, disk>> /\ \A i \in Item : item'[i].count = item[i].count
      BY <1>3, <2>5, ReleaseKeepsCount DEF FlushEmpty
    <3> QED BY <1>3, <1>6, <3>1 DEF DataSame, MemTyped
  <2>6. CASE FlushBegin(t) \/ FlushDecide(t) \/ FlushReturn(t) \/ FlushTarget(t) \/ FlushAlloc(t) \/ FlushWriteFails(t)
    <3>1. UNCHANGED <<item, mem, disk>>
      BY <2>6 DEF FlushBegin, FlushDecide, FlushReturn, FlushTarget, FlushAlloc, FlushWriteFails, store
    <3> QED BY <1>3, <1>6, <3>1 DEF DataSame, MemTyped
  <2> QED BY <2>1, <2>3, <2>4, <2>5, <2>6 DEF Flushing
<1> QED BY <1>2, <1>4, WriteInvKept

LEMMA ReadingWrites ==
  ASSUME CallInv, ItemInv, WriteInv, NEW t \in Thread,
         ReadBlock(t) \/ ReadDisk(t) \/ PromoteCheck(t) \/ PromoteSet(t) \/ PinUntrack(t) \/ UnpinTrack(t)
  PROVE  WriteInv'
<1> DEFINE j == op[t].item
           b == op[t].b
<1>1. OthersSame(t) /\ (\A u \in Thread \ {t} : op'[u] = op[u]) /\ \A i : BytesStay(i)
  <2>1. UNCHANGED content
    BY DEF ReadBlock, ReadDisk, PromoteCheck, PromoteSet, PinUntrack, UnpinTrack, store
  <2> QED BY <2>1, ContentSame, CallingOthers DEF Calling
<1>2. \A u \in Thread : SetStays(u)
  <2>1. NotSet(t)
    BY ReadBlockCalls, ReadDiskCalls, PromoteCheckCalls, PromoteSetCalls, PinUntrackCalls, UnpinTrackCalls
  <2>2. ~InSet(Frames(t)')
    BY <2>1 DEF NotSet, InSet, SetLabel, CallLabel, ReadLabel, PinLabel
  <2> QED BY <1>1, <2>2 DEF OthersSame, SetStays
<1>3. StoreTyped /\ MemTyped
  BY DEF CallInv, WriteInv
<1>4. MemTyped' /\ \A i \in Item : Foreign(t, i) => DataSame(i)
  <2>1. CASE PromoteCheck(t) \/ PromoteSet(t)
    <3>1. PICK l \in ReadLabel : At(t, l)
      BY <2>1 DEF PromoteCheck, PromoteSet, ReadLabel
    <3>2. j \in Item /\ b \in Block /\ Frames(t) = {l}
      BY <3>1, InCall DEF CallLabel
    <3>3. \A i \in Item : Foreign(t, i) => i # j
      BY <3>1, <3>2 DEF Foreign, InSet, ReadLabel, SetLabel
    <3>4. UNCHANGED <<item, disk>>
      BY <2>1 DEF PromoteCheck, PromoteSet
    <3>5. MemTyped' /\ \A i \in Item \ {j} : mem'[i] = mem[i]
      <4>1. CASE PromoteSet(t)
        <5> DEFINE m == [slices |-> Wanted(op[t]), dirty |-> FALSE]
        <5>1. m \in [slices : SUBSET Slice, dirty : BOOLEAN]
          BY DEF Wanted
        <5>2. mem' = [mem EXCEPT ![j][b] = m]
          BY <4>1 DEF PromoteSet
        <5> HIDE DEF m
        <5> QED BY <1>3, <5>1, <5>2, MemPut
      <4>2. CASE PromoteCheck(t)
        <5>1. mem' = mem \/ \E S \in SUBSET Slice : mem' = [mem EXCEPT ![j][b].slices = @ \cup S]
          <6>1. SegmentsOf(Wanted(op[t])) \subseteq SUBSET Slice
            BY DEF SegmentsOf, Wanted
          <6>2. mem' = mem \/ \E S \in SegmentsOf(Wanted(op[t])) : mem' = mem \/ mem' = [mem EXCEPT ![j][b].slices = @ \cup S]
            BY <4>2, Zenon DEF PromoteCheck
          <6> QED BY <6>1, <6>2
        <5>2. CASE mem' = mem
          BY <1>3, <5>2 DEF MemTyped
        <5>3. ASSUME NEW S \in SUBSET Slice, mem' = [mem EXCEPT ![j][b].slices = @ \cup S] PROVE MemTyped' /\ \A i \in Item \ {j} : mem'[i] = mem[i]
          <6> HIDE DEF j, b
          <6> QED BY <1>3, <3>2, <5>3, MemExtended
        <5> QED BY <5>1, <5>2, <5>3
      <4> QED BY <2>1, <4>1, <4>2
    <3> QED BY <1>1, <3>3, <3>4, <3>5 DEF DataSame
  <2>2. CASE ~(PromoteCheck(t) \/ PromoteSet(t))
    <3>1. UNCHANGED <<item, mem, disk>>
      BY <2>2 DEF ReadBlock, ReadDisk, PinUntrack, UnpinTrack, store
    <3> QED BY <1>1, <1>3, <3>1 DEF DataSame, MemTyped
  <2> QED BY <2>1, <2>2
<1> QED BY <1>2, <1>4, WriteInvKept

-----------------------------------------------------------------------------
(* The steps of a set.                                                     *)

\* What the steps of a set leave: its frames are F, its local o.
SetMoves(t, F, o) == /\ OthersSame(t) /\ \A u \in Thread \ {t} : op'[u] = op[u]
                     /\ Frames(t)' \cap SetLabel = F /\ (F # {} => op'[t] = o)

LEMMA SetFrames ==
  ASSUME CallInv, NEW t \in Thread, NEW l \in SetLabel, At(t, l)
  PROVE  /\ Frames(t) = {l} /\ InSet(Frames(t)) /\ (l # "set.item" => Made(Frames(t)))
         /\ Return(t) => Frames(t)' \cap SetLabel = {}
         /\ \A m \in SetLabel : Goto(t, m) => Frames(t)' \cap SetLabel = {m}
         /\ \A m \in SetLabel : \A r \in {"mem.alloc", "disk.alloc"} : Call(t, m, r) => Frames(t)' \cap SetLabel = {m}
<1>1. SetLabel \subseteq CallLabel
  BY DEF CallLabel
<1>2. {"mem.alloc", "disk.alloc"} \cap SetLabel = {}
  BY DEF SetLabel
<1>3. Frames(t) = {l}
  BY <1>1, CallFramesTo
<1>4. ASSUME NEW m \in SetLabel, NEW r \in {"mem.alloc", "disk.alloc"}, Call(t, m, r) PROVE Frames(t)' \cap SetLabel = {m}
  <2>1. CallTo(t, {m, r})
    BY <1>1, <1>4, CallFramesTo
  <2> QED BY <1>2, <2>1 DEF CallTo
<1>5. Return(t) => Frames(t)' \cap SetLabel = {}
  BY <1>1, CallFramesTo DEF CallTo
<1>6. ASSUME NEW m \in SetLabel, Goto(t, m) PROVE Frames(t)' \cap SetLabel = {m}
  <2>1. CallTo(t, {m})
    BY <1>1, <1>6, CallFramesTo
  <2> QED BY <2>1 DEF CallTo
<1> QED BY <1>3, <1>4, <1>5, <1>6 DEF InSet, Made

\* A set that ends, or goes on having written some of its item.
LEMMA SetWritesOn ==
  ASSUME CallInv, ItemInv, WriteInv, NEW t \in Thread, InSet(Frames(t)), MemTyped',
         OthersSame(t), \A u \in Thread \ {t} : op'[u] = op[u], \A i \in Item \ {op[t].item} : DataSame(i),
         SetWrites(t)'
  PROVE  WriteInv'
<1>1. \A u \in Thread \ {t} : SetStays(u)
  BY DEF OthersSame, SetStays
<1>2. ASSUME NEW u \in Thread \ {t} PROVE InSet(Frames(u)) => op[u].item \in Item \ {op[t].item}
  BY NewIsItem DEF ItemInv, NewIsPrivate, Refs
<1> QED BY <1>1, <1>2, WritesKept DEF WriteInv

LEMMA SetEnds == ASSUME NEW t \in Thread, Frames(t)' \cap SetLabel = {} PROVE SetWrites(t)'
BY DEF SetWrites, InSet, Made, SetLabel

LEMMA SetItemWrites == ASSUME CallInv, ItemInv, WriteInv, NEW t \in Thread, SetItem(t) PROVE WriteInv'
<1> DEFINE o == op[t]
           v == [key |-> o.key, count |-> o.count, pinned |-> o.pinned, released |-> FALSE]
<1>1. At(t, "set.item") /\ "set.item" \in SetLabel /\ "set.block" \in SetLabel /\ Goto(t, "set.block")
  BY DEF SetItem, SetLabel
<1>2. OthersSame(t) /\ UNCHANGED <<op, mem, disk, content>> /\ item' = [item EXCEPT ![o.item] = v]
  BY CallingOthers DEF Calling, SetItem
<1>3. Frames(t) = {"set.item"} /\ InSet(Frames(t)) /\ Frames(t)' \cap SetLabel = {"set.block"}
  BY <1>1, SetFrames
<1>4. o.b = 0
  BY <1>3 DEF WriteInv, SetWrites
<1>5. o.item \in Item
  BY <1>3, NewIsItem
<1>6. v.count = o.count
  OBVIOUS
<1> HIDE DEF v
<1>7. item'[o.item].count = o.count /\ \A i \in Item \ {o.item} : item'[i] = item[i]
  BY <1>2, <1>5, <1>6 DEF CallInv, StoreTyped
<1>8. SetWrites(t)'
  <2>1. "set.item" \notin Frames(t)' /\ Frames(t)' \cap {"set.mem", "set.disk"} = {}
    BY <1>3 DEF SetLabel
  <2>2. \A b \in Block : ~(b < o.b)
    BY <1>4 DEF Block
  <2> QED BY <1>2, <1>4, <1>7, <2>1, <2>2 DEF SetWrites
<1> QED BY <1>2, <1>3, <1>7, <1>8, ContentSame, SetWritesOn DEF WriteInv, MemTyped, DataSame

LEMMA SetBlockWrites == ASSUME CallInv, ItemInv, WriteInv, NEW t \in Thread, SetBlock(t) PROVE WriteInv'
<1> DEFINE o == op[t]
<1>1. At(t, "set.block") /\ {"set.block", "set.mem", "set.disk"} \subseteq SetLabel /\ o.b < o.count
  BY DEF SetBlock, SetLabel
<1>2. OthersSame(t) /\ UNCHANGED <<item, mem, disk, content>> /\ \A u \in Thread \ {t} : op'[u] = op[u]
  BY CallingOthers DEF Calling, SetBlock, store
<1>3. Frames(t) = {"set.block"} /\ InSet(Frames(t)) /\ Made(Frames(t))
  BY <1>1, SetFrames
<1>4. SetWrites(t)'
  <2>1. CASE Finish(t)
    <3>1. Frames(t)' \cap SetLabel = {}
      BY <1>1, <2>1, SetFrames DEF Finish
    <3> QED BY <3>1, SetEnds
  <2>2. CASE UNCHANGED op /\ (Call(t, "set.mem", "mem.alloc") \/ Call(t, "set.disk", "disk.alloc"))
    <3>1. Frames(t)' \cap SetLabel \in {{"set.mem"}, {"set.disk"}}
      BY <1>1, <2>2, SetFrames
    <3>2. "set.item" \notin Frames(t)'
      BY <3>1 DEF SetLabel
    <3>3. SetWrites(t)
      BY DEF WriteInv
    <3>4. \A b : Stored(o.item, b) => Stored(o.item, b)'
      BY <1>2, <2>2 DEF Stored, Filled
    <3> QED BY <1>1, <1>2, <1>3, <2>2, <3>2, <3>3, <3>4 DEF SetWrites
  <2> QED BY <2>1, <2>2 DEF SetBlock
<1> QED BY <1>2, <1>3, <1>4, ContentSame, SetWritesOn DEF WriteInv, MemTyped, DataSame

\* The block that is written next is a block of the item.
LEMMA NextIsBlock ==
  ASSUME CallInv, WriteInv, NEW t \in Thread, NEW l \in {"set.mem", "set.disk"}, At(t, l)
  PROVE  /\ op[t].b \in Block /\ op[t].b \in Nat /\ op[t].item \in Item
         /\ l \in SetLabel /\ InSet(Frames(t)) /\ SetWrites(t)
         /\ item[op[t].item].count = op[t].count /\ \A b \in Block : b < op[t].b => Stored(op[t].item, b)
<1>1. l \in SetLabel /\ l # "set.item"
  BY DEF SetLabel
<1>2. Frames(t) = {l} /\ InSet(Frames(t)) /\ Made(Frames(t))
  BY <1>1, SetFrames
<1>3. SetWrites(t)
  BY DEF WriteInv
<1>4. op[t].b < op[t].count /\ op[t].b \in Nat
  BY <1>2, <1>3 DEF SetWrites
<1>5. op[t].count \in 0 .. MaxBlocks
  BY DEF CallInv, LocalsTyped, OpTyped
<1>6. op[t].b \in Block
  BY <1>4, <1>5, Sizes DEF Block
<1> QED BY <1>1, <1>2, <1>3, <1>4, <1>6, NewIsItem DEF SetWrites

StoredNow(i, b) == mem'[i][b].slices = Slice \/ (disk'[i][b] # NoSlot /\ \A s \in Slice : content'[disk'[i][b]][s] = <<i, b>>)

\* Going on with the next block once this one is stored.
LEMMA NextWrites ==
  ASSUME CallInv, WriteInv, NEW t \in Thread, NEW l \in {"set.mem", "set.disk"}, At(t, l), NextWrite(t), UNCHANGED item,
         \A b \in Block : Stored(op[t].item, b) => StoredNow(op[t].item, b), StoredNow(op[t].item, op[t].b)
  PROVE  SetWrites(t)'
<1> DEFINE o == op[t]
<1>1. /\ o.b \in Block /\ o.b \in Nat /\ item[o.item].count = o.count /\ \A b \in Block : b < o.b => Stored(o.item, b)
      /\ l \in SetLabel
  BY NextIsBlock
<1>2. Frames(t)' \cap SetLabel = {"set.block"}
  BY <1>1, SetFrames DEF NextWrite, SetLabel
<1>3. op'[t].b = o.b + 1 /\ op'[t].item = o.item /\ op'[t].count = o.count
  BY FieldNames DEF NextWrite, CallInv, LocalsTyped, OpTyped
<1>4. "set.item" \notin Frames(t)' /\ Frames(t)' \cap {"set.mem", "set.disk"} = {}
  BY <1>2 DEF SetLabel
<1>5. ASSUME NEW b \in Block, b < op'[t].b PROVE StoredNow(o.item, b)
  <2>1. b = o.b \/ b < o.b
    BY <1>1, <1>3, <1>5 DEF Block
  <2> QED BY <1>1, <2>1
<1>6. ASSUME NEW b \in Block, b < op'[t].b PROVE Stored(op[t].item, b)'
  <2>1. StoredNow(o.item, b)
    BY <1>5, <1>6
  <2> QED BY <1>3, <2>1 DEF Stored, Filled, StoredNow
<1>7. "set.item" \in Frames(t)' => FALSE
  BY <1>4
<1>8. item'[op'[t].item].count = op'[t].count /\ op'[t].b \in Nat
  BY <1>1, <1>3
<1> QED BY <1>4, <1>6, <1>7, <1>8 DEF SetWrites

LEMMA SetMemWrites == ASSUME CallInv, ItemInv, WriteInv, NEW t \in Thread, SetMem(t) PROVE WriteInv'
<1> DEFINE i == op[t].item
           b == op[t].b
           m == [slices |-> Slice, dirty |-> TRUE]
<1>1. At(t, "set.mem") /\ UNCHANGED <<item, disk, content>>
  BY DEF SetMem
<1>2. OthersSame(t) /\ \A u \in Thread \ {t} : op'[u] = op[u]
  BY CallingOthers DEF Calling
<1>3. i \in Item /\ b \in Block /\ InSet(Frames(t)) /\ "set.mem" \in SetLabel
  BY <1>1, NextIsBlock
<1>4. StoreTyped /\ MemTyped
  BY DEF CallInv, WriteInv
<1>5. CASE Finish(t) /\ UNCHANGED mem
  <2>1. Frames(t)' \cap SetLabel = {}
    BY <1>1, <1>3, <1>5, SetFrames DEF Finish
  <2>2. SetWrites(t)'
    BY <2>1, SetEnds
  <2> QED BY <1>1, <1>2, <1>3, <1>4, <1>5, <2>2, ContentSame, SetWritesOn DEF MemTyped, DataSame
<1>6. CASE mem' = [mem EXCEPT ![i][b] = m] /\ NextWrite(t)
  <2>1. m \in [slices : SUBSET Slice, dirty : BOOLEAN] /\ m.slices = Slice
    OBVIOUS
  <2>2. mem' = [mem EXCEPT ![i][b] = m]
    BY <1>6
  <2> HIDE DEF m
  <2>3. MemTyped' /\ \A j \in Item \ {i} : mem'[j] = mem[j]
    BY <1>4, <2>1, <2>2, MemPut
  <2>4. \A c \in Block : mem'[i][c] = IF c = b THEN m ELSE mem[i][c]
    BY <1>3, <1>4, <2>2 DEF MemTyped
  <2>5. (\A c \in Block : Stored(i, c) => StoredNow(i, c)) /\ StoredNow(i, b)
    BY <1>1, <1>3, <2>1, <2>4 DEF Stored, Filled, StoredNow
  <2>6. SetWrites(t)'
    BY <1>1, <1>6, <2>5, NextWrites
  <2> QED BY <1>1, <1>2, <1>3, <2>3, <2>6, ContentSame, SetWritesOn DEF DataSame
<1> QED BY <1>5, <1>6 DEF SetMem, NextWrite

LEMMA SetDiskWrites == ASSUME CallInv, ItemInv, OwnInv, WriteInv, NEW t \in Thread, SetDisk(t) PROVE WriteInv'
<1> DEFINE i == op[t].item
           b == op[t].b
           d == diskCall[t].slot
<1>1. At(t, "set.disk") /\ UNCHANGED <<item, mem>>
  BY DEF SetDisk
<1>2. OthersSame(t) /\ \A u \in Thread \ {t} : op'[u] = op[u]
  BY CallingOthers DEF Calling
<1>3. i \in Item /\ b \in Block /\ InSet(Frames(t)) /\ "set.disk" \in SetLabel
  BY <1>1, NextIsBlock
<1>4. StoreTyped /\ MemTyped /\ MemTyped'
  BY <1>1 DEF CallInv, WriteInv, MemTyped
<1>5. CASE Finish(t) /\ UNCHANGED <<disk, content>>
  <2>1. Frames(t)' \cap SetLabel = {}
    BY <1>1, <1>3, <1>5, SetFrames DEF Finish
  <2>2. SetWrites(t)'
    BY <2>1, SetEnds
  <2> QED BY <1>1, <1>2, <1>3, <1>4, <1>5, <2>2, ContentSame, SetWritesOn DEF DataSame
<1>6. CASE /\ d # NoSlot /\ disk' = [disk EXCEPT ![i][b] = d] /\ NextWrite(t)
           /\ content' = [content EXCEPT ![d] = Written(d, i, b, Slice)]
  <2>1. \A c \in Block : disk'[i][c] = IF c = b THEN d ELSE disk[i][c]
    BY <1>3, <1>4, <1>6 DEF StoreTyped
  <2>2. \A j \in Item \ {i} : disk'[j] = disk[j]
    BY <1>4, <1>6 DEF StoreTyped
  <2>3. d \in Slot
    BY <1>6 DEF CallInv, LocalsTyped, CallTyped
  <2>4. \A s \in Slice : content'[d][s] = <<i, b>>
    BY <1>4, <1>6, <2>3 DEF StoreTyped, Written
  <2>5. ASSUME NEW j \in Item, NEW c \in Block, disk[j][c] # NoSlot PROVE content'[disk[j][c]] = content[disk[j][c]]
    <3>1. disk[j][c] \in Slot /\ Has(disk[j][c], j, c)
      BY <1>4, <2>5 DEF StoreTyped, Has
    <3>2. disk[j][c] # d
      BY <2>3, <3>1 DEF OwnInv, AllocatedIsFree
    <3> QED BY <1>4, <1>6, <3>1, <3>2 DEF StoreTyped
  <2>6. \A j \in Item : BytesStay(j)
    BY <2>5 DEF BytesStay
  <2>7. StoredNow(i, b)
    BY <1>3, <1>6, <2>1, <2>4 DEF StoredNow
  <2>8. ASSUME NEW c \in Block, Stored(i, c), c # b PROVE StoredNow(i, c)
    <3>1. disk'[i][c] = disk[i][c]
      BY <2>1, <2>8
    <3> QED BY <1>1, <1>3, <2>5, <2>8, <3>1 DEF Stored, Filled, StoredNow
  <2>9. SetWrites(t)'
    BY <1>1, <1>6, <2>7, <2>8, NextWrites
  <2> QED BY <1>1, <1>2, <1>3, <1>4, <2>2, <2>6, <2>9, SetWritesOn DEF DataSame
<1> QED BY <1>5, <1>6 DEF SetDisk, NextWrite

LEMMA SetInsertWrites == ASSUME CallInv, ItemInv, WriteInv, NEW t \in Thread, SetInsert(t) PROVE WriteInv'
<1>1. At(t, "set.block") /\ "set.block" \in SetLabel /\ Return(t) /\ UNCHANGED <<item, mem, disk, content>>
  BY DEF SetInsert, Finish, SetLabel
<1>2. OthersSame(t) /\ \A u \in Thread \ {t} : op'[u] = op[u]
  BY CallingOthers DEF Calling
<1>3. InSet(Frames(t)) /\ Frames(t)' \cap SetLabel = {}
  BY <1>1, SetFrames
<1> QED BY <1>1, <1>2, <1>3, SetEnds, ContentSame, SetWritesOn DEF WriteInv, MemTyped, DataSame

LEMMA CallingWrites == ASSUME CallInv, ItemInv, OwnInv, WriteInv, NEW t \in Thread, Calling(t) PROVE WriteInv'
BY ReadingWrites, SetItemWrites, SetBlockWrites, SetMemWrites, SetDiskWrites, SetInsertWrites DEF Calling

-----------------------------------------------------------------------------
(* The start of a call, the end of an item, and of the process.            *)

LEMMA StartWrites == ASSUME CallInv, ItemInv, WriteInv, NEW t \in Thread, Start(t) PROVE WriteInv'
<1>1. StoreTyped /\ MemTyped
  BY DEF CallInv, WriteInv
<1>2. MemTyped' /\ \A i \in Item : DataSame(i)
  <2>1. UNCHANGED <<mem, disk, content>>
    BY DEF Start, SetStart, ReadStart, RemoveStart, PinStart, UnpinStart, store
  <2>2. \E j, v : item' = item \/ item' = [item EXCEPT ![j].released = v] \/ item' = [item EXCEPT ![j].pinned = v]
    BY DEF Start, SetStart, ReadStart, RemoveStart, PinStart, UnpinStart, SetPinned, store
  <2>3. \A i \in Item : item'[i].count = item[i].count
    BY <1>1, <2>2, CountKept
  <2> QED BY <1>1, <2>1, <2>3, ContentSame DEF MemTyped, DataSame
<1>3. ASSUME NEW k \in Key, NEW n \in 1 .. MaxBlocks, NEW pinned, SetStart(t, k, n, pinned) PROVE WriteInv'
  <2>1. /\ \A u \in Thread \ {t} : op'[u] = op[u] /\ Frames(u)' = Frames(u)
        /\ Frames(t)' \cap SetLabel = {"set.item"}
    BY <1>3, SetStartCalls DEF SetLabel
  <2>2. op'[t].b = 0
    BY <1>3, FieldNames DEF SetStart, NoOp, CallInv, LocalsTyped
  <2>3. SetWrites(t)'
    <3>1. ~Made(Frames(t)') /\ Frames(t)' \cap {"set.mem", "set.disk"} = {}
      BY <2>1 DEF Made, SetLabel
    <3> QED BY <2>2, <3>1 DEF SetWrites
  <2>4. \A u \in Thread \ {t} : SetStays(u) /\ (InSet(Frames(u)) => DataSame(op[u].item))
    BY <1>2, <2>1, NewIsItem DEF SetStays
  <2> QED BY <1>2, <2>3, <2>4, WritesKept DEF WriteInv
<1>4. ASSUME NEW k \in Key, ReadStart(t, k) \/ PinStart(t, k) \/ UnpinStart(t, k) PROVE WriteInv'
  <2>1. OthersSame(t) /\ ~InSet(Frames(t)') /\ \A u \in Thread \ {t} : op'[u] = op[u]
    BY <1>4, ReadStartCalls, PinStartCalls DEF CallStarts, InSet, SetLabel, CallLabel, ReadLabel, PinLabel
  <2>2. \A u \in Thread : SetStays(u)
    BY <2>1 DEF OthersSame, SetStays
  <2> QED BY <1>2, <2>2, WriteInvKept
<1>5. ASSUME NEW k \in Key, RemoveStart(t, k) PROVE WriteInv'
  <2>1. CallTo(t, {"remove.index"}) /\ UNCHANGED op
    BY <1>5, RemoveStartCalls DEF RemoveStart
  <2>2. ~InSet(Frames(t)')
    BY <2>1 DEF CallTo, InSet, SetLabel
  <2>3. \A u \in Thread : SetStays(u)
    BY <2>1, <2>2 DEF CallTo, OthersSame, SetStays
  <2> QED BY <1>2, <2>3, WriteInvKept
<1> QED BY <1>3, <1>4, <1>5 DEF Start

LEMMA DestroyWrites == ASSUME CallInv, ItemInv, WriteInv, NEW i \in Item, Destroy(i) PROVE WriteInv'
<1>1. StoreTyped /\ MemTyped
  BY DEF CallInv, WriteInv
<1>2. UNCHANGED <<op, stack>>
  BY DEF Destroy, locals
<1>3. \A u \in Thread : SetStays(u)
  BY <1>2, SameFrames DEF CallInv, SetStays
<1>4. MemTyped' /\ \A j \in Item \ {i} : DataSame(j)
  <2>1. \A j \in Item \ {i} : BytesStay(j)
    BY <1>1 DEF Destroy, StoreTyped, BytesStay
  <2> QED BY <1>1, <2>1, NullMemTyped DEF Destroy, StoreTyped, MemTyped, DataSame
<1>5. \A u \in Thread : InSet(Frames(u)) => op[u].item \in Item \ {i}
  BY NewIsItem DEF Destroy, Live, Refs
<1> QED BY <1>3, <1>4, <1>5, WritesKept DEF WriteInv

LEMMA FreshWrites == Init => WriteInv
<1> SUFFICES ASSUME Init PROVE WriteInv
  OBVIOUS
<1>1. \A t \in Thread : Frames(t) = {}
  BY EmptyStack DEF Init, Fresh, Frames
<1>2. MemTyped
  BY NullMemTyped DEF Init, Fresh, MemTyped
<1> QED BY <1>1, <1>2 DEF WriteInv, SetWrites, InSet, Made

LEMMA StutterWrites == ASSUME CallInv, WriteInv, UNCHANGED vars PROVE WriteInv'
<1>1. UNCHANGED <<item, mem, disk, content, stack, op>>
  BY DEF vars, store, locals
<1>2. \A u \in Thread : SetStays(u) /\ (InSet(Frames(u)) => DataSame(op[u].item))
  BY <1>1, SameFrames, ContentSame DEF CallInv, SetStays, DataSame
<1> QED BY <1>1, <1>2, WritesKept DEF WriteInv, MemTyped

LEMMA NextWritten == CallInv /\ ItemInv /\ OwnInv /\ WriteInv /\ [Next]_vars => WriteInv'
<1> SUFFICES ASSUME CallInv, ItemInv, OwnInv, WriteInv, [Next]_vars PROVE WriteInv'
  OBVIOUS
<1>1. ASSUME NEW t \in Thread, Step(t) PROVE WriteInv'
  BY <1>1, StepIs, InnerWrites, FlushingWrites, CallingWrites
<1>2. CASE Crash
  <2>1. Init'
    BY <1>2, FreshAgain
  <2> QED BY <2>1, FreshWrites, PTL
<1> QED BY <1>1, <1>2, StartWrites, DestroyWrites, StutterWrites DEF Next

-----------------------------------------------------------------------------
(* What the index takes.                                                   *)

\* Only the end of a set puts an item into the index.
LEMMA OnlySetInserts == ASSUME CallInv, [Next]_vars, ~\E t \in Thread : SetInsert(t) PROVE IndexShrinks
<1>1. ASSUME UNCHANGED index PROVE IndexShrinks
  BY <1>1 DEF IndexShrinks
<1>2. ASSUME NEW t \in Thread, Start(t) PROVE IndexShrinks
  BY <1>1, <1>2 DEF Start, SetStart, ReadStart, RemoveStart, PinStart, UnpinStart, store
<1>3. ASSUME NEW t \in Thread, Inner(t) PROVE IndexShrinks
  <2>1. CASE RemoveIndex(t)
    BY <2>1 DEF RemoveIndex, CallInv, StoreTyped, IndexShrinks
  <2>2. CASE ~RemoveIndex(t)
    BY <1>1, <1>3, <2>2 DEF Inner, MemAllocOk, MemAllocEvicts, MemAllocFails, ProcessedMem, DiskAllocOk, DiskAllocEvicts, DiskAllocFails,
         ProcessEvictedDisk, DiskEmpty, ProcessedDisk, RemoveBlock, RemoveDone, store
  <2> QED BY <2>1, <2>2
<1>4. ASSUME NEW t \in Thread, Flushing(t) PROVE IndexShrinks
  BY <1>1, <1>4, FlushStepKeeps
<1>5. ASSUME NEW t \in Thread, Calling(t) PROVE IndexShrinks
  BY <1>1, <1>5 DEF Calling, SetItem, SetBlock, SetMem, SetDisk, ReadBlock, ReadDisk, PromoteCheck, PromoteSet, PinUntrack, UnpinTrack, store
<1>6. ASSUME NEW i \in Item, Destroy(i) PROVE IndexShrinks
  BY <1>1, <1>6 DEF Destroy
<1>7. CASE Crash
  BY <1>7 DEF Crash, Fresh, IndexShrinks
<1>8. CASE UNCHANGED vars
  BY <1>1, <1>8 DEF vars, store
<1> QED BY <1>2, <1>3, <1>4, <1>5, <1>6, <1>7, <1>8, StepIs DEF Next

LEMMA StoredIsComplete ==
  ASSUME MemTyped, NEW i \in Item, NEW b \in Block, Stored(i, b)
  PROVE  Complete(i, b)
<1>1. mem[i][b].slices \subseteq Slice
  BY DEF MemTyped
<1> QED BY <1>1 DEF Stored, Filled, Complete

LEMMA InsertsWhole ==
  ASSUME CallInv, WriteInv, NEW t \in Thread, SetInsert(t)
  PROVE  Whole(op[t].item) /\ \A k \in Key : index'[k] \in {index[k], op[t].item}
<1> DEFINE i == op[t].item
<1>1. At(t, "set.block") /\ "set.block" \in SetLabel /\ op[t].b = op[t].count
  BY DEF SetInsert, AllWritten, SetLabel
<1>2. InSet(Frames(t)) /\ Made(Frames(t))
  BY <1>1, SetFrames
<1>3. i \in Item
  BY <1>2, NewIsItem
<1>4. item[i].count = op[t].b /\ \A b \in Block : b < op[t].b => Stored(i, b)
  BY <1>1, <1>2 DEF WriteInv, SetWrites
<1>5. item[i].count \in 0 .. MaxBlocks
  BY <1>3 DEF CallInv, StoreTyped
<1>6. ASSUME NEW b \in Blocks(i) PROVE Complete(i, b)
  <2>1. b \in Block /\ b < op[t].b
    BY <1>4, <1>5, Sizes DEF Block, Blocks
  <2> QED BY <1>3, <1>4, <2>1, StoredIsComplete DEF WriteInv
<1>7. \A k \in Key : index'[k] \in {index[k], op[t].item}
  BY DEF SetInsert, CallInv, StoreTyped
<1> QED BY <1>6, <1>7 DEF Whole

\* An item that becomes visible in the index has all of its data (the end of
\* _write_cache_item, star_cache_impl.cpp:134), in every build and with any
\* failures of the disk: until then nobody but the set has the item, so that no
\* eviction, flush or removal takes a block it has stored, and a disk block it
\* has written is no other item's to overwrite.
THEOREM InsertedWhole == Spec => InsertedIsWhole
<1> DEFINE Inv == CallInv /\ ItemInv /\ OwnInv /\ WriteInv
<1>1. Init => Inv
  BY FreshCalls, FreshItems, FreshOwners, FreshWrites
<1>2. Inv /\ [Next]_vars => Inv'
  BY NextItems, StutterItems, NextOwners, NextWritten
<1>3. Inv /\ [Next]_vars => [\A k \in Key : index'[k] \notin {NoItem, index[k]} => Whole(index'[k])]_vars
  <2> SUFFICES ASSUME CallInv, WriteInv, [Next]_vars, NEW k \in Key, index'[k] \notin {NoItem, index[k]}
               PROVE  Whole(index'[k])
    OBVIOUS
  <2>1. PICK t \in Thread : SetInsert(t)
    BY OnlySetInserts DEF IndexShrinks
  <2> QED BY <2>1, InsertsWhole
<1> QED BY <1>1, <1>2, <1>3, PTL DEF Spec, InsertedIsWhole
=============================================================================
