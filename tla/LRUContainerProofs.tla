------------------------- MODULE LRUContainerProofs -------------------------
(***************************************************************************)
(* Proofs about LRUContainer for every set of keys, cells, handles and     *)
(* sizes: the reference counts, the LRU list and the table agree in every  *)
(* reachable state, no operation reaches freed memory, and every step is a *)
(* step of EvictionPolicy or leaves it alone.  Then the same, and the hash *)
(* tables, for ShardedLRUContainer: any number of shards and threads, any  *)
(* hash values, and evictions that go from shard to shard.                 *)
(***************************************************************************)
EXTENDS LRUContainer, ShardedLRUContainer, ArithmeticTheorems, SequenceTheorems

\* The strengthening that makes the invariants inductive: a cell is in use
\* exactly as long as something references it.
CellIsReferenced == \A e \in Entry : cell[e] = "live" <=> refs[e] > 0

Inv ==
    /\ TypeOK
    /\ RefsCountReferences
    /\ LruHoldsTheIdle
    /\ ValidIsTabled
    /\ CellIsReferenced

-----------------------------------------------------------------------------
(***************************************************************************)
(* The three ways in which the list changes.                               *)
(***************************************************************************)

\* A segment of a list, possibly empty, element by element.
LEMMA SegmentProperties ==
    ASSUME NEW s \in Seq(Entry), NEW m \in 1..(Len(s) + 1), NEW n \in (m - 1)..Len(s)
    PROVE  /\ SubSeq(s, m, n) \in Seq(Entry)
           /\ Len(SubSeq(s, m, n)) = n - m + 1
           /\ \A j \in 1..(n - m + 1) : SubSeq(s, m, n)[j] = s[m + j - 1]
<1>1. m \in Int /\ n \in Int /\ Len(s) \in Nat
  OBVIOUS
<1>2. \A j \in m..n : s[j] \in Entry
  BY <1>1
<1>3. /\ SubSeq(s, m, n) \in Seq(Entry)
      /\ Len(SubSeq(s, m, n)) = IF m <= n THEN n - m + 1 ELSE 0
      /\ \A j \in 1..(n - m + 1) : SubSeq(s, m, n)[j] = s[m + j - 1]
  BY <1>1, <1>2, SubSeqProperties
<1>4. (IF m <= n THEN n - m + 1 ELSE 0) = n - m + 1
  BY <1>1
<1> QED BY <1>3, <1>4

\* Removing one element of an injective list removes that element and keeps
\* the others (_lru_remove).
LEMMA LruRemoveProperties ==
    ASSUME NEW s \in Seq(Entry), IsInjective(s), NEW e, Contains(s, e)
    PROVE  /\ LruRemove(s, e) \in Seq(Entry)
           /\ IsInjective(LruRemove(s, e))
           /\ \A x : Contains(LruRemove(s, e), x) <=> (Contains(s, x) /\ x # e)
<1> DEFINE i == CHOOSE j \in 1..Len(s) : s[j] = e
           r == RemoveAt(s, i)
           a == SubSeq(s, 1, i - 1)
           b == SubSeq(s, i + 1, Len(s))
<1>1. i \in 1..Len(s) /\ s[i] = e
  BY DEF Contains
<1> HIDE DEF i
<1>2. Len(s) \in Nat /\ DOMAIN s = 1..Len(s) /\ \A j \in 1..Len(s) : s[j] \in Entry
  OBVIOUS
<1>3. /\ a \in Seq(Entry) /\ Len(a) = i - 1
      /\ \A j \in 1..(i - 1) : a[j] = s[j]
  BY <1>1, <1>2, SegmentProperties
<1>4. /\ b \in Seq(Entry) /\ Len(b) = Len(s) - i
      /\ \A j \in 1..(Len(s) - i) : b[j] = s[i + j]
  <2>1. /\ b \in Seq(Entry) /\ Len(b) = Len(s) - (i + 1) + 1
        /\ \A j \in 1..(Len(s) - (i + 1) + 1) : b[j] = s[(i + 1) + j - 1]
    <3>1. i + 1 \in 1..(Len(s) + 1) /\ Len(s) \in ((i + 1) - 1)..Len(s)
      BY <1>1, <1>2
    <3> QED BY <3>1, SegmentProperties
  <2>2. /\ Len(s) - (i + 1) + 1 = Len(s) - i
        /\ \A j \in 1..(Len(s) - i) : (i + 1) + j - 1 = i + j
    BY <1>1, <1>2
  <2> HIDE DEF b
  <2> QED BY <2>1, <2>2
<1> HIDE DEF a, b
<1>5. /\ r \in Seq(Entry) /\ Len(r) = Len(s) - 1
      /\ \A j \in 1..(Len(s) - 1) : r[j] = IF j < i THEN s[j] ELSE s[j + 1]
  <2>1. r = a \o b
    BY DEF r, a, b, RemoveAt
  <2>2. /\ a \o b \in Seq(Entry) /\ Len(a \o b) = Len(a) + Len(b)
        /\ \A j \in 1..(Len(a) + Len(b)) :
              (a \o b)[j] = IF j <= Len(a) THEN a[j] ELSE b[j - Len(a)]
    BY <1>3, <1>4, ConcatProperties
  <2>3. ASSUME NEW j \in 1..(Len(s) - 1)
        PROVE  (a \o b)[j] = IF j < i THEN s[j] ELSE s[j + 1]
    <3>1. CASE j < i
      BY <3>1, <2>2, <1>1, <1>2, <1>3, <1>4
    <3>2. CASE ~(j < i)
      <4>1. (a \o b)[j] = b[j - (i - 1)]
        BY <3>2, <2>2, <1>1, <1>2, <1>3, <1>4
      <4>2. j - (i - 1) \in 1..(Len(s) - i)
        BY <3>2, <1>1, <1>2
      <4>3. b[j - (i - 1)] = s[i + (j - (i - 1))]
        BY <1>4, <4>2
      <4>4. i + (j - (i - 1)) = j + 1
        BY <1>1, <1>2
      <4> QED BY <3>2, <4>1, <4>3, <4>4
    <3> QED BY <3>1, <3>2
  <2> QED BY <2>1, <2>2, <2>3, <1>1, <1>2, <1>3, <1>4
<1> HIDE DEF r
<1>6. DOMAIN r = 1..(Len(s) - 1)
  BY <1>5
<1>7. IsInjective(r)
  <2> SUFFICES ASSUME NEW j \in 1..(Len(s) - 1), NEW k \in 1..(Len(s) - 1), r[j] = r[k]
               PROVE  j = k
    BY <1>6 DEF IsInjective
  <2> DEFINE At(m) == IF m < i THEN m ELSE m + 1
  <2>1. /\ r[j] = s[At(j)] /\ At(j) \in 1..Len(s)
        /\ r[k] = s[At(k)] /\ At(k) \in 1..Len(s)
    BY <1>1, <1>2, <1>5
  <2>2. At(j) = At(k)
    <3> HIDE DEF At
    <3> QED BY <1>2, <2>1 DEF IsInjective
  <2> QED BY <1>1, <2>2
<1>8. ASSUME NEW x PROVE Contains(r, x) <=> (Contains(s, x) /\ x # e)
  <2>1. ASSUME Contains(r, x) PROVE Contains(s, x) /\ x # e
    <3>1. PICK j \in 1..(Len(s) - 1) : r[j] = x
      BY <2>1, <1>5 DEF Contains
    <3>2. PICK m \in 1..Len(s) : s[m] = x /\ m # i
      BY <3>1, <1>1, <1>2, <1>5
    <3> QED BY <3>2, <1>1, <1>2 DEF Contains, IsInjective
  <2>2. ASSUME Contains(s, x), x # e PROVE Contains(r, x)
    <3>1. PICK j \in 1..Len(s) : s[j] = x
      BY <2>2 DEF Contains
    <3>2. CASE j < i
      BY <3>1, <3>2, <1>1, <1>2, <1>5 DEF Contains
    <3>3. CASE j > i
      <4>1. j - 1 \in 1..(Len(s) - 1) /\ r[j - 1] = x
        BY <3>1, <3>3, <1>1, <1>2, <1>5
      <4> QED BY <4>1, <1>5 DEF Contains
    <3>4. j # i
      BY <3>1, <2>2, <1>1
    <3> QED BY <3>1, <3>2, <3>3, <3>4, <1>1, <1>2
  <2> QED BY <2>1, <2>2
<1>9. LruRemove(s, e) = r
  BY DEF LruRemove, r, i
<1> QED BY <1>5, <1>7, <1>8, <1>9

\* Appending an element that is not on the list (_lru_append).
LEMMA LruAppendProperties ==
    ASSUME NEW s \in Seq(Entry), IsInjective(s), NEW e \in Entry, ~Contains(s, e)
    PROVE  /\ Append(s, e) \in Seq(Entry)
           /\ IsInjective(Append(s, e))
           /\ \A x : Contains(Append(s, e), x) <=> (Contains(s, x) \/ x = e)
<1> DEFINE r == Append(s, e)
<1>1. /\ r \in Seq(Entry) /\ Len(r) = Len(s) + 1 /\ Len(s) \in Nat
      /\ \A j \in 1..Len(s) : r[j] = s[j]
      /\ r[Len(s) + 1] = e
      /\ DOMAIN r = 1..(Len(s) + 1) /\ DOMAIN s = 1..Len(s)
  OBVIOUS
<1> HIDE DEF r
<1>2. IsInjective(r)
  BY <1>1 DEF IsInjective, Contains
<1>3. ASSUME NEW x PROVE Contains(r, x) <=> (Contains(s, x) \/ x = e)
  BY <1>1 DEF Contains
<1> QED BY <1>1, <1>2, <1>3 DEF r

\* Dropping the n oldest elements (_evict_from_lru, prune).
LEMMA LruSuffixProperties ==
    ASSUME NEW s \in Seq(Entry), IsInjective(s), NEW n \in 0..Len(s)
    PROVE  LET r == SubSeq(s, n + 1, Len(s))
           IN  /\ r \in Seq(Entry)
               /\ IsInjective(r)
               /\ \A x : Contains(r, x) <=>
                            (Contains(s, x) /\ x \notin {s[i] : i \in 1..n})
<1> DEFINE r == SubSeq(s, n + 1, Len(s))
<1>1. Len(s) \in Nat /\ DOMAIN s = 1..Len(s) /\ n \in Nat /\ n <= Len(s)
  OBVIOUS
<1>2. /\ r \in Seq(Entry) /\ Len(r) = Len(s) - n
      /\ \A j \in 1..(Len(s) - n) : r[j] = s[n + j]
  <2>1. n + 1 \in 1..(Len(s) + 1) /\ Len(s) \in ((n + 1) - 1)..Len(s)
    BY <1>1
  <2>2. /\ r \in Seq(Entry) /\ Len(r) = Len(s) - (n + 1) + 1
        /\ \A j \in 1..(Len(s) - (n + 1) + 1) : r[j] = s[(n + 1) + j - 1]
    BY <2>1, SegmentProperties
  <2>3. /\ Len(s) - (n + 1) + 1 = Len(s) - n
        /\ \A j \in 1..(Len(s) - n) : (n + 1) + j - 1 = n + j
    BY <1>1
  <2> HIDE DEF r
  <2> QED BY <2>2, <2>3
<1> HIDE DEF r
<1>3. DOMAIN r = 1..(Len(s) - n)
  BY <1>2
<1>4. IsInjective(r)
  <2> SUFFICES ASSUME NEW j \in 1..(Len(s) - n), NEW k \in 1..(Len(s) - n), r[j] = r[k]
               PROVE  j = k
    BY <1>3 DEF IsInjective
  <2>1. n + j \in 1..Len(s) /\ n + k \in 1..Len(s) /\ s[n + j] = s[n + k]
    BY <1>1, <1>2
  <2>2. n + j = n + k
    BY <2>1, <1>1 DEF IsInjective
  <2> QED BY <2>2, <1>1
<1>5. ASSUME NEW x
      PROVE  Contains(r, x) <=> (Contains(s, x) /\ x \notin {s[i] : i \in 1..n})
  <2>1. ASSUME Contains(r, x) PROVE Contains(s, x) /\ x \notin {s[i] : i \in 1..n}
    <3>1. PICK j \in 1..(Len(s) - n) : r[j] = x
      BY <2>1, <1>2 DEF Contains
    <3>2. n + j \in 1..Len(s) /\ s[n + j] = x
      BY <3>1, <1>1, <1>2
    <3>3. \A i \in 1..n : i # n + j /\ i \in 1..Len(s)
      BY <3>1, <1>1
    <3> QED BY <3>2, <3>3, <1>1 DEF Contains, IsInjective
  <2>2. ASSUME Contains(s, x), x \notin {s[i] : i \in 1..n} PROVE Contains(r, x)
    <3>1. PICK j \in 1..Len(s) : s[j] = x
      BY <2>2 DEF Contains
    <3>2. j > n
      BY <3>1, <2>2, <1>1
    <3>3. j - n \in 1..(Len(s) - n) /\ r[j - n] = x
      BY <3>1, <3>2, <1>1, <1>2
    <3> QED BY <3>3, <1>2 DEF Contains
  <2> QED BY <2>1, <2>2
<1> QED BY <1>2, <1>4, <1>5 DEF r

-----------------------------------------------------------------------------
(***************************************************************************)
(* The number of handles on an entry, as callers take and release them.    *)
(***************************************************************************)

LEMMA HandlesAreFinite ==
    \A e : IsFiniteSet(HandlesOn(e)) /\ Cardinality(HandlesOn(e)) \in Nat
<1> SUFFICES ASSUME NEW e
             PROVE  IsFiniteSet(HandlesOn(e)) /\ Cardinality(HandlesOn(e)) \in Nat
  OBVIOUS
<1>1. HandlesOn(e) \subseteq Handle
  BY DEF HandlesOn
<1> QED BY <1>1, HandleAssumption, FS_Subset, FS_CardinalityType

\* insert and lookup hand out one more handle on one entry.
LEMMA HandleTaken ==
    ASSUME ref \in [Handle -> Entry \cup {NoEntry}],
           NEW h \in Handle, ref[h] = NoEntry, NEW e \in Entry,
           ref' = [ref EXCEPT ![h] = e]
    PROVE  \A x \in Entry : Cardinality(HandlesOn(x)') =
               IF x = e THEN Cardinality(HandlesOn(x)) + 1 ELSE Cardinality(HandlesOn(x))
<1>1. e # NoEntry
  BY NoEntryAssumption
<1>2. HandlesOn(e)' = HandlesOn(e) \cup {h} /\ h \notin HandlesOn(e)
  BY <1>1 DEF HandlesOn
<1>3. Cardinality(HandlesOn(e)') = Cardinality(HandlesOn(e)) + 1
  BY <1>2, HandlesAreFinite, FS_AddElement
<1>4. \A x \in Entry \ {e} : HandlesOn(x)' = HandlesOn(x)
  BY NoEntryAssumption DEF HandlesOn
<1> QED BY <1>3, <1>4

\* release gives one back.
LEMMA HandleReleased ==
    ASSUME ref \in [Handle -> Entry \cup {NoEntry}],
           NEW h \in Handle, NEW e \in Entry, ref[h] = e,
           ref' = [ref EXCEPT ![h] = NoEntry]
    PROVE  \A x \in Entry : Cardinality(HandlesOn(x)') =
               IF x = e THEN Cardinality(HandlesOn(x)) - 1 ELSE Cardinality(HandlesOn(x))
<1>1. HandlesOn(e)' = HandlesOn(e) \ {h} /\ h \in HandlesOn(e)
  BY NoEntryAssumption DEF HandlesOn
<1>2. Cardinality(HandlesOn(e)') = Cardinality(HandlesOn(e)) - 1
  BY <1>1, HandlesAreFinite, FS_RemoveElement
<1>3. \A x \in Entry \ {e} : HandlesOn(x)' = HandlesOn(x)
  BY NoEntryAssumption DEF HandlesOn
<1> QED BY <1>2, <1>3

-----------------------------------------------------------------------------
(***************************************************************************)
(* Facts of a state in which Inv holds.                                    *)
(***************************************************************************)

\* An entry in the table is valid and referenced; if only the table holds
\* it, it is on the list, otherwise it is not.
LEMMA TabledEntry ==
    ASSUME Inv, NEW k \in Key, table[k] # NoEntry
    PROVE  /\ table[k] \in Entry
           /\ valid[table[k]]
           /\ key[table[k]] = k
           /\ refs[table[k]] > 0
           /\ refs[table[k]] = 1 <=> Contains(lru, table[k])
<1>1. table[k] \in Entry /\ valid[table[k]] /\ key[table[k]] = k
  BY DEF Inv, TypeOK, ValidIsTabled
<1>2. refs[table[k]] = Cardinality(HandlesOn(table[k])) + 1
  BY <1>1 DEF Inv, RefsCountReferences
<1> QED BY <1>1, <1>2, HandlesAreFinite DEF Inv, LruHoldsTheIdle

\* A handle keeps its entry referenced.
LEMMA HeldEntry ==
    ASSUME Inv, NEW h \in Handle, ref[h] # NoEntry
    PROVE  /\ ref[h] \in Entry
           /\ refs[ref[h]] > 0
           /\ valid[ref[h]] => refs[ref[h]] > 1
<1>1. ref[h] \in Entry /\ h \in HandlesOn(ref[h])
  BY DEF Inv, TypeOK, HandlesOn
<1>2. Cardinality(HandlesOn(ref[h])) \in Nat /\ Cardinality(HandlesOn(ref[h])) # 0
  BY <1>1, HandlesAreFinite, FS_EmptySet
<1>3. refs[ref[h]] = Cardinality(HandlesOn(ref[h])) + (IF valid[ref[h]] THEN 1 ELSE 0)
  BY <1>1 DEF Inv, RefsCountReferences
<1> QED BY <1>1, <1>2, <1>3

\* A cell that can be allocated is not reachable from anywhere.
LEMMA FreeCell ==
    ASSUME Inv, NEW e \in Entry, cell[e] # "live"
    PROVE  /\ refs[e] = 0
           /\ ~valid[e]
           /\ Cardinality(HandlesOn(e)) = 0
           /\ ~Contains(lru, e)
           /\ \A k \in Key : table[k] # e
           /\ \A h \in Handle : ref[h] # e
<1>1. refs[e] = 0
  BY DEF Inv, TypeOK, CellIsReferenced
<1>2. ~valid[e] /\ Cardinality(HandlesOn(e)) = 0
  BY <1>1, HandlesAreFinite DEF Inv, TypeOK, RefsCountReferences
<1>3. \A k \in Key : table[k] # e
  BY <1>2, NoEntryAssumption DEF Inv, ValidIsTabled
<1>4. \A h \in Handle : ref[h] # e
  BY <1>1, HeldEntry, NoEntryAssumption
<1> QED BY <1>1, <1>2, <1>3, <1>4 DEF Inv, LruHoldsTheIdle

-----------------------------------------------------------------------------
(***************************************************************************)
(* Every operation keeps the invariant.                                    *)
(***************************************************************************)

LEMMA InitInv == Init => Inv
<1> SUFFICES ASSUME Init PROVE Inv
  OBVIOUS
<1>1. TypeOK
  BY DEF Init, TypeOK
<1>2. \A e \in Entry : HandlesOn(e) = {}
  BY NoEntryAssumption DEF Init, HandlesOn
<1>3. RefsCountReferences
  BY <1>2, FS_EmptySet DEF Init, RefsCountReferences
<1>4. LruHoldsTheIdle
  BY DEF Init, LruHoldsTheIdle, Contains, IsInjective
<1>5. ValidIsTabled /\ CellIsReferenced
  BY DEF Init, ValidIsTabled, CellIsReferenced
<1> QED BY <1>1, <1>3, <1>4, <1>5 DEF Inv

LEMMA InsertInv ==
    ASSUME Inv, NEW h \in Handle, NEW k \in Key, NEW c \in Charge, Insert(h, k, c)
    PROVE  Inv'
<1> DEFINE old == table[k]
           unlinkOld == old # NoEntry /\ LastRef(old)
<1>1. PICK e \in Entry :
         /\ cell[e] = "free"
         /\ table' = [table EXCEPT ![k] = e]
         /\ key' = [key EXCEPT ![e] = k]
         /\ charge' = [charge EXCEPT ![e] = c]
         /\ valid' = ValidAfterInsert(e, old)
         /\ refs' = RefsAfterInsert(e, old)
         /\ cell' = [x \in Entry |-> CASE x = e                 -> "live"
                                       [] x = old /\ unlinkOld  -> "unlinked"
                                       [] OTHER                 -> cell[x]]
         /\ lru' = IF unlinkOld THEN LruRemove(lru, old) ELSE lru
         /\ ref' = [ref EXCEPT ![h] = e]
  BY DEF Insert
<1>2. ref[h] = NoEntry
  BY DEF Insert
<1>3. /\ refs[e] = 0 /\ ~valid[e] /\ Cardinality(HandlesOn(e)) = 0
      /\ ~Contains(lru, e) /\ e # old
  BY <1>1, FreeCell
<1>4. old # NoEntry => /\ old \in Entry /\ valid[old] /\ key[old] = k /\ refs[old] > 0
                       /\ refs[old] = 1 <=> Contains(lru, old)
  BY TabledEntry
<1>5. \A x \in Entry : Cardinality(HandlesOn(x)') =
          IF x = e THEN Cardinality(HandlesOn(x)) + 1 ELSE Cardinality(HandlesOn(x))
  BY <1>1, <1>2, HandleTaken DEF Inv, TypeOK
<1>6. /\ lru' \in Seq(Entry) /\ IsInjective(lru')
      /\ \A x : Contains(lru', x) <=> (Contains(lru, x) /\ ~(unlinkOld /\ x = old))
  BY <1>1, <1>4, LruRemoveProperties DEF Inv, TypeOK, LruHoldsTheIdle, LastRef
<1>7. \A x \in Entry : refs'[x] = IF x = e THEN 2
                                  ELSE IF x = old THEN refs[x] - 1 ELSE refs[x]
  BY <1>1, <1>3 DEF RefsAfterInsert
<1>8. \A x \in Entry : valid'[x] <=> (x = e \/ (valid[x] /\ x # old))
  BY <1>1 DEF ValidAfterInsert
<1>9. TypeOK'
  <2>1. refs' \in [Entry -> Nat]
    BY <1>1, <1>3, <1>4, <1>7, NoEntryAssumption DEF Inv, TypeOK, RefsAfterInsert
  <2>2. valid' \in [Entry -> BOOLEAN]
    BY <1>1 DEF Inv, TypeOK, ValidAfterInsert
  <2>3. /\ cell' \in [Entry -> {"free", "live", "unlinked"}]
        /\ table' \in [Key -> Entry \cup {NoEntry}] /\ key' \in [Entry -> Key]
        /\ charge' \in [Entry -> Nat] /\ ref' \in [Handle -> Entry \cup {NoEntry}]
    BY <1>1, ChargeAssumption DEF Inv, TypeOK
  <2> QED BY <2>1, <2>2, <2>3, <1>6 DEF TypeOK
<1>10. RefsCountReferences'
  <2> SUFFICES ASSUME NEW x \in Entry
               PROVE  refs'[x] = Cardinality(HandlesOn(x)') + (IF valid'[x] THEN 1 ELSE 0)
    BY DEF RefsCountReferences
  <2>1. refs[x] = Cardinality(HandlesOn(x)) + (IF valid[x] THEN 1 ELSE 0)
    BY DEF Inv, RefsCountReferences
  <2>2. CASE x = e
    BY <2>2, <1>3, <1>5, <1>7, <1>8
  <2>3. CASE x # e /\ x = old
    BY <2>1, <2>3, <1>4, <1>5, <1>7, <1>8, HandlesAreFinite, NoEntryAssumption
  <2>4. CASE x # e /\ x # old
    BY <2>1, <2>4, <1>5, <1>7, <1>8
  <2> QED BY <2>2, <2>3, <2>4
<1>11. LruHoldsTheIdle'
  <2> SUFFICES ASSUME NEW x \in Entry
               PROVE  Contains(lru', x) <=> (valid'[x] /\ refs'[x] = 1)
    BY <1>6 DEF LruHoldsTheIdle
  <2>1. Contains(lru, x) <=> (valid[x] /\ refs[x] = 1)
    BY DEF Inv, LruHoldsTheIdle
  <2>2. CASE x = e
    BY <2>2, <1>3, <1>6, <1>7
  <2>3. CASE x # e /\ x = old
    BY <2>1, <2>3, <1>4, <1>6, <1>8, NoEntryAssumption DEF LastRef
  <2>4. CASE x # e /\ x # old
    BY <2>1, <2>4, <1>6, <1>7, <1>8
  <2> QED BY <2>2, <2>3, <2>4
<1>12. ValidIsTabled'
  <2>1. ASSUME NEW x \in Entry, valid'[x] PROVE table'[key'[x]] = x
    <3>1. CASE x = e
      BY <3>1, <1>1 DEF Inv, TypeOK
    <3>2. CASE x # e
      <4>1. valid[x] /\ x # old /\ table[key[x]] = x /\ key[x] \in Key
        BY <2>1, <3>2, <1>8 DEF Inv, TypeOK, ValidIsTabled
      <4>2. key'[x] = key[x] /\ key[x] # k
        BY <4>1, <3>2, <1>1 DEF Inv, TypeOK
      <4> QED BY <4>1, <4>2, <1>1 DEF Inv, TypeOK
    <3> QED BY <3>1, <3>2
  <2>2. ASSUME NEW j \in Key, table'[j] # NoEntry
        PROVE  valid'[table'[j]] /\ key'[table'[j]] = j
    <3>1. CASE j = k
      BY <3>1, <1>1, <1>8 DEF Inv, TypeOK
    <3>2. CASE j # k
      <4>1. /\ table'[j] = table[j] /\ table[j] \in Entry
            /\ valid[table[j]] /\ key[table[j]] = j
        BY <3>2, <2>2, <1>1 DEF Inv, TypeOK, ValidIsTabled
      <4>2. table[j] # e /\ table[j] # old
        BY <4>1, <3>2, <1>3, <1>4, NoEntryAssumption
      <4> QED BY <4>1, <4>2, <1>1, <1>8 DEF Inv, TypeOK
    <3> QED BY <3>1, <3>2
  <2> QED BY <2>1, <2>2 DEF ValidIsTabled
<1>13. CellIsReferenced'
  <2> SUFFICES ASSUME NEW x \in Entry PROVE cell'[x] = "live" <=> refs'[x] > 0
    BY DEF CellIsReferenced
  <2>1. cell[x] = "live" <=> refs[x] > 0
    BY DEF Inv, CellIsReferenced
  <2>2. refs[x] \in Nat
    BY DEF Inv, TypeOK
  <2> QED BY <2>1, <2>2, <1>1, <1>4, <1>7, NoEntryAssumption DEF LastRef
<1> QED BY <1>9, <1>10, <1>11, <1>12, <1>13 DEF Inv

LEMMA LookupInv ==
    ASSUME Inv, NEW h \in Handle, NEW k \in Key, Lookup(h, k)
    PROVE  Inv'
<1> PICK e \in Entry : e = table[k]
  BY TabledEntry DEF Lookup
<1>1. /\ ref[h] = NoEntry /\ e # NoEntry
      /\ lru' = IF refs[e] = 1 THEN LruRemove(lru, e) ELSE lru
      /\ refs' = [refs EXCEPT ![e] = @ + 1]
      /\ ref' = [ref EXCEPT ![h] = e]
      /\ UNCHANGED <<table, key, charge, valid, cell>>
  BY DEF Lookup, ListAfterRef, LastRef
<1>2. valid[e] /\ refs[e] > 0 /\ (refs[e] = 1 <=> Contains(lru, e))
  BY <1>1, TabledEntry
<1>3. \A x \in Entry : Cardinality(HandlesOn(x)') =
          IF x = e THEN Cardinality(HandlesOn(x)) + 1 ELSE Cardinality(HandlesOn(x))
  BY <1>1, HandleTaken DEF Inv, TypeOK
<1>4. /\ lru' \in Seq(Entry) /\ IsInjective(lru')
      /\ \A x : Contains(lru', x) <=> (Contains(lru, x) /\ x # e)
  BY <1>1, <1>2, LruRemoveProperties DEF Inv, TypeOK, LruHoldsTheIdle
<1>5. TypeOK'
  BY <1>1, <1>4 DEF Inv, TypeOK
<1>6. RefsCountReferences'
  <2> SUFFICES ASSUME NEW x \in Entry
               PROVE  refs'[x] = Cardinality(HandlesOn(x)') + (IF valid'[x] THEN 1 ELSE 0)
    BY DEF RefsCountReferences
  <2>1. /\ refs[x] = Cardinality(HandlesOn(x)) + (IF valid[x] THEN 1 ELSE 0)
        /\ refs'[x] = IF x = e THEN refs[x] + 1 ELSE refs[x]
        /\ valid'[x] <=> valid[x]
    BY <1>1 DEF Inv, TypeOK, RefsCountReferences
  <2> QED BY <2>1, <1>3, HandlesAreFinite
<1>7. LruHoldsTheIdle'
  BY <1>1, <1>2, <1>4 DEF Inv, TypeOK, LruHoldsTheIdle
<1>8. ValidIsTabled'
  BY <1>1 DEF Inv, ValidIsTabled
<1>9. CellIsReferenced'
  BY <1>1, <1>2 DEF Inv, TypeOK, CellIsReferenced
<1> QED BY <1>5, <1>6, <1>7, <1>8, <1>9 DEF Inv

LEMMA ReleaseInv ==
    ASSUME Inv, NEW h \in Handle, Release(h)
    PROVE  Inv'
<1> PICK e \in Entry : e = ref[h]
  BY HeldEntry DEF Release
<1>1. /\ ref[h] = e /\ ref[h] # NoEntry
      /\ refs' = [refs EXCEPT ![e] = @ - 1]
      /\ cell' = IF refs[e] = 1 THEN [cell EXCEPT ![e] = "unlinked"] ELSE cell
      /\ lru' = IF valid[e] /\ refs[e] = 2 THEN Append(lru, e) ELSE lru
      /\ ref' = [ref EXCEPT ![h] = NoEntry]
      /\ UNCHANGED <<table, key, charge, valid>>
  BY DEF Release, CellsAfterUnref, ListAfterRelease, LastRef
<1>2. refs[e] > 0 /\ (valid[e] => refs[e] > 1)
  BY <1>1, HeldEntry
<1>3. \A x \in Entry : Cardinality(HandlesOn(x)') =
          IF x = e THEN Cardinality(HandlesOn(x)) - 1 ELSE Cardinality(HandlesOn(x))
  BY <1>1, HandleReleased DEF Inv, TypeOK
<1>4. valid[e] => ~Contains(lru, e)
  BY <1>2 DEF Inv, LruHoldsTheIdle
<1>5. /\ lru' \in Seq(Entry) /\ IsInjective(lru')
      /\ \A x : Contains(lru', x) <=>
                   (Contains(lru, x) \/ (x = e /\ valid[e] /\ refs[e] = 2))
  BY <1>1, <1>4, LruAppendProperties DEF Inv, TypeOK, LruHoldsTheIdle
<1>6. TypeOK'
  BY <1>1, <1>2, <1>5 DEF Inv, TypeOK
<1>7. RefsCountReferences'
  <2> SUFFICES ASSUME NEW x \in Entry
               PROVE  refs'[x] = Cardinality(HandlesOn(x)') + (IF valid'[x] THEN 1 ELSE 0)
    BY DEF RefsCountReferences
  <2>1. /\ refs[x] = Cardinality(HandlesOn(x)) + (IF valid[x] THEN 1 ELSE 0)
        /\ refs'[x] = IF x = e THEN refs[x] - 1 ELSE refs[x]
        /\ valid'[x] <=> valid[x]
    BY <1>1 DEF Inv, TypeOK, RefsCountReferences
  <2> QED BY <2>1, <1>3, HandlesAreFinite
<1>8. LruHoldsTheIdle'
  <2> SUFFICES ASSUME NEW x \in Entry
               PROVE  Contains(lru', x) <=> (valid'[x] /\ refs'[x] = 1)
    BY <1>5 DEF LruHoldsTheIdle
  <2>1. Contains(lru, x) <=> (valid[x] /\ refs[x] = 1)
    BY DEF Inv, LruHoldsTheIdle
  <2>2. refs'[x] = (IF x = e THEN refs[x] - 1 ELSE refs[x]) /\ refs[x] \in Nat
    BY <1>1 DEF Inv, TypeOK
  <2> QED BY <2>1, <2>2, <1>1, <1>2, <1>5
<1>9. ValidIsTabled'
  BY <1>1 DEF Inv, ValidIsTabled
<1>10. CellIsReferenced'
  BY <1>1, <1>2 DEF Inv, TypeOK, CellIsReferenced
<1> QED BY <1>6, <1>7, <1>8, <1>9, <1>10 DEF Inv

LEMMA EraseInv ==
    ASSUME Inv, NEW k \in Key, Erase(k)
    PROVE  Inv'
<1> PICK e \in Entry : e = table[k]
  BY TabledEntry DEF Erase
<1>1. valid[e] /\ key[e] = k /\ refs[e] > 0 /\ (refs[e] = 1 <=> Contains(lru, e))
  BY TabledEntry DEF Erase
<1>2. /\ table[k] = e
      /\ table' = [table EXCEPT ![k] = NoEntry]
      /\ refs' = [refs EXCEPT ![e] = @ - 1]
      /\ valid' = [valid EXCEPT ![e] = FALSE]
      /\ cell' = IF refs[e] = 1 THEN [cell EXCEPT ![e] = "unlinked"] ELSE cell
      /\ lru' = IF refs[e] = 1 THEN LruRemove(lru, e) ELSE lru
      /\ UNCHANGED <<key, charge, ref>>
  BY <1>1 DEF Erase, CellsAfterUnref, LastRef
<1>3. \A x \in Entry : HandlesOn(x)' = HandlesOn(x)
  BY <1>2 DEF HandlesOn
<1>4. /\ lru' \in Seq(Entry) /\ IsInjective(lru')
      /\ \A x : Contains(lru', x) <=> (Contains(lru, x) /\ x # e)
  BY <1>1, <1>2, LruRemoveProperties DEF Inv, TypeOK, LruHoldsTheIdle
<1>5. TypeOK'
  BY <1>1, <1>2, <1>4 DEF Inv, TypeOK
<1>6. RefsCountReferences'
  <2> SUFFICES ASSUME NEW x \in Entry
               PROVE  refs'[x] = Cardinality(HandlesOn(x)') + (IF valid'[x] THEN 1 ELSE 0)
    BY DEF RefsCountReferences
  <2>1. /\ refs[x] = Cardinality(HandlesOn(x)) + (IF valid[x] THEN 1 ELSE 0)
        /\ refs'[x] = IF x = e THEN refs[x] - 1 ELSE refs[x]
        /\ valid'[x] <=> (valid[x] /\ x # e)
    BY <1>2 DEF Inv, TypeOK, RefsCountReferences
  <2> QED BY <2>1, <1>1, <1>3, HandlesAreFinite
<1>7. LruHoldsTheIdle'
  BY <1>1, <1>2, <1>4 DEF Inv, TypeOK, LruHoldsTheIdle
<1>8. ValidIsTabled'
  <2>1. ASSUME NEW x \in Entry, valid'[x] PROVE table'[key'[x]] = x
    <3>1. valid[x] /\ x # e /\ table[key[x]] = x /\ key[x] \in Key
      BY <2>1, <1>2 DEF Inv, TypeOK, ValidIsTabled
    <3> QED BY <3>1, <1>2 DEF Inv, TypeOK
  <2>2. ASSUME NEW j \in Key, table'[j] # NoEntry
        PROVE  valid'[table'[j]] /\ key'[table'[j]] = j
    <3>1. j # k /\ table'[j] = table[j]
      BY <2>2, <1>2 DEF Inv, TypeOK
    <3>2. table[j] \in Entry /\ valid[table[j]] /\ key[table[j]] = j /\ table[j] # e
      BY <2>2, <3>1, <1>1 DEF Inv, TypeOK, ValidIsTabled
    <3> QED BY <3>1, <3>2, <1>2 DEF Inv, TypeOK
  <2> QED BY <2>1, <2>2 DEF ValidIsTabled
<1>9. CellIsReferenced'
  BY <1>1, <1>2 DEF Inv, TypeOK, CellIsReferenced
<1> QED BY <1>5, <1>6, <1>7, <1>8, <1>9 DEF Inv

LEMMA EvictOldestInv ==
    ASSUME Inv, NEW n \in 0..Len(lru), EvictOldest(n)
    PROVE  Inv'
<1> DEFINE V == Oldest(n)
<1>1. /\ lru' = SubSeq(lru, n + 1, Len(lru))
      /\ table' = [k \in Key |-> IF table[k] \in V THEN NoEntry ELSE table[k]]
      /\ valid' = [e \in Entry |-> valid[e] /\ e \notin V]
      /\ refs' = [e \in Entry |-> IF e \in V THEN refs[e] - 1 ELSE refs[e]]
      /\ cell' = [e \in Entry |-> IF e \in V THEN "unlinked" ELSE cell[e]]
      /\ UNCHANGED <<key, charge, ref>>
  BY DEF EvictOldest
<1>2. \A e \in V : e \in Entry /\ Contains(lru, e) /\ valid[e] /\ refs[e] = 1
  <2>1. lru \in Seq(Entry) /\ \A e \in Entry : Contains(lru, e) => valid[e] /\ refs[e] = 1
    BY DEF Inv, TypeOK, LruHoldsTheIdle
  <2>2. ASSUME NEW e \in V PROVE e \in Entry /\ Contains(lru, e)
    <3>1. PICK i \in 1 .. n : e = lru[i]
      BY DEF Oldest
    <3>2. i \in 1 .. Len(lru)
      BY <2>1
    <3> QED BY <2>1, <3>1, <3>2 DEF Contains
  <2> QED BY <2>1, <2>2
<1>3. \A x \in Entry : HandlesOn(x)' = HandlesOn(x)
  BY <1>1 DEF HandlesOn
<1>4. /\ lru' \in Seq(Entry) /\ IsInjective(lru')
      /\ \A x : Contains(lru', x) <=> (Contains(lru, x) /\ x \notin V)
  BY <1>1, LruSuffixProperties DEF Oldest, Inv, TypeOK, LruHoldsTheIdle
<1> HIDE DEF V
<1>5. TypeOK'
  BY <1>1, <1>2, <1>4 DEF Inv, TypeOK
<1>6. RefsCountReferences'
  <2> SUFFICES ASSUME NEW x \in Entry
               PROVE  refs'[x] = Cardinality(HandlesOn(x)') + (IF valid'[x] THEN 1 ELSE 0)
    BY DEF RefsCountReferences
  <2>1. /\ refs[x] = Cardinality(HandlesOn(x)) + (IF valid[x] THEN 1 ELSE 0)
        /\ refs'[x] = IF x \in V THEN refs[x] - 1 ELSE refs[x]
        /\ valid'[x] <=> (valid[x] /\ x \notin V)
    BY <1>1 DEF Inv, TypeOK, RefsCountReferences
  <2> QED BY <2>1, <1>2, <1>3, HandlesAreFinite
<1>7. LruHoldsTheIdle'
  BY <1>1, <1>2, <1>4 DEF Inv, TypeOK, LruHoldsTheIdle
<1>8. ValidIsTabled'
  <2>1. ASSUME NEW x \in Entry, valid'[x] PROVE table'[key'[x]] = x
    <3>1. valid[x] /\ x \notin V /\ table[key[x]] = x /\ key[x] \in Key
      BY <2>1, <1>1 DEF Inv, TypeOK, ValidIsTabled
    <3> QED BY <3>1, <1>1
  <2>2. ASSUME NEW j \in Key, table'[j] # NoEntry
        PROVE  valid'[table'[j]] /\ key'[table'[j]] = j
    <3>1. table[j] \notin V /\ table'[j] = table[j]
      BY <2>2, <1>1
    <3>2. table[j] \in Entry /\ valid[table[j]] /\ key[table[j]] = j
      BY <2>2, <3>1 DEF Inv, TypeOK, ValidIsTabled
    <3> QED BY <3>1, <3>2, <1>1
  <2> QED BY <2>1, <2>2 DEF ValidIsTabled
<1>9. CellIsReferenced'
  BY <1>1, <1>2 DEF Inv, TypeOK, CellIsReferenced
<1> QED BY <1>5, <1>6, <1>7, <1>8, <1>9 DEF Inv

LEMMA FreeInv ==
    ASSUME Inv, NEW e \in Entry, Free(e)
    PROVE  Inv'
<1>1. \A x \in Entry : HandlesOn(x)' = HandlesOn(x)
  BY DEF Free, HandlesOn
<1>2. RefsCountReferences'
  BY <1>1 DEF Inv, Free, RefsCountReferences
<1>3. CellIsReferenced'
  BY DEF Inv, TypeOK, Free, CellIsReferenced
<1> QED BY <1>2, <1>3 DEF Inv, Free, TypeOK, LruHoldsTheIdle, ValidIsTabled

LEMMA StutterInv == Inv /\ UNCHANGED vars => Inv'
  BY DEF vars, Inv, TypeOK, RefsCountReferences, LruHoldsTheIdle, ValidIsTabled,
         CellIsReferenced, HandlesOn

\* The references, the list, the table and the memory of the entries agree in
\* every reachable state.
THEOREM LRUInvariant == Spec => []Inv
<1>1. Init => Inv
  BY InitInv
<1>2. Inv /\ [Next]_vars => Inv'
  <2> SUFFICES ASSUME Inv, [Next]_vars PROVE Inv'
    OBVIOUS
  <2>1. ASSUME NEW h \in Handle, NEW k \in Key, NEW c \in Charge, Insert(h, k, c)
        PROVE  Inv'
    BY <2>1, InsertInv
  <2>2. ASSUME NEW h \in Handle, NEW k \in Key, Lookup(h, k) PROVE Inv'
    BY <2>2, LookupInv
  <2>3. ASSUME NEW h \in Handle, Release(h) PROVE Inv'
    BY <2>3, ReleaseInv
  <2>4. ASSUME NEW k \in Key, Erase(k) PROVE Inv'
    BY <2>4, EraseInv
  <2>5. ASSUME NEW size \in Charge, Evict(size) PROVE Inv'
    <3>1. PICK n \in 1..Len(lru) : EvictOldest(n)
      BY <2>5 DEF Evict
    <3>2. n \in 0..Len(lru)
      OBVIOUS
    <3> QED BY <3>1, <3>2, EvictOldestInv
  <2>6. ASSUME Prune PROVE Inv'
    <3>1. Len(lru) \in 0..Len(lru)
      BY DEF Inv, TypeOK
    <3> QED BY <2>6, <3>1, EvictOldestInv DEF Prune
  <2>7. ASSUME NEW e \in Entry, Free(e) PROVE Inv'
    BY <2>7, FreeInv
  <2>8. CASE UNCHANGED vars
    BY <2>8, StutterInv
  <2> QED BY <2>1, <2>2, <2>3, <2>4, <2>5, <2>6, <2>7, <2>8 DEF Next
<1> QED BY <1>1, <1>2, PTL DEF Spec

\* Type correctness.
THEOREM TypeCorrect == Spec => []TypeOK
<1>1. Inv => TypeOK
  BY DEF Inv
<1> QED BY <1>1, LRUInvariant, PTL

\* A reference count never drifts from the references that exist, under any
\* interleaving of insert, lookup, release, erase and eviction.
THEOREM RefsCorrect == Spec => []RefsCountReferences
<1>1. Inv => RefsCountReferences
  BY DEF Inv
<1> QED BY <1>1, LRUInvariant, PTL

\* The comment at lru_container.h:219, and its converse: the list holds
\* exactly the entries that only the table references.
THEOREM ListCorrect == Spec => []LruHoldsTheIdle
<1>1. Inv => LruHoldsTheIdle
  BY DEF Inv
<1> QED BY <1>1, LRUInvariant, PTL

\* The table and the valid flags agree.
THEOREM TableCorrect == Spec => []ValidIsTabled
<1>1. Inv => ValidIsTabled
  BY DEF Inv
<1> QED BY <1>1, LRUInvariant, PTL

\* No handle, table slot or list link ever reaches freed memory.
THEOREM NoDanglingPointer == Spec => []NoUseAfterFree
<1>1. Inv => NoUseAfterFree
  <2> SUFFICES ASSUME Inv PROVE NoUseAfterFree
    OBVIOUS
  <2>1. ASSUME NEW h \in Handle, ref[h] # NoEntry PROVE cell[ref[h]] = "live"
    BY <2>1, HeldEntry DEF Inv, CellIsReferenced
  <2>2. ASSUME NEW k \in Key, table[k] # NoEntry PROVE cell[table[k]] = "live"
    BY <2>2, TabledEntry DEF Inv, CellIsReferenced
  <2>3. ASSUME NEW i \in 1..Len(lru) PROVE cell[lru[i]] = "live"
    <3>1. lru[i] \in Entry /\ refs[lru[i]] = 1
      BY DEF Inv, TypeOK, LruHoldsTheIdle, Contains
    <3> QED BY <3>1 DEF Inv, CellIsReferenced
  <2> QED BY <2>1, <2>2, <2>3 DEF NoUseAfterFree
<1> QED BY <1>1, LRUInvariant, PTL

-----------------------------------------------------------------------------
(***************************************************************************)
(* What the entries in use take.  There are finitely many of them, however *)
(* many cells the heap has.                                                *)
(***************************************************************************)
UsageInv == IsFiniteSet(Live) /\ UsageIsLiveCharge

\* Entries are unlinked, and the usage falls by what they took.
LEMMA UnlinkedUsage ==
    ASSUME Inv, UsageInv, NEW V \in SUBSET Live, Live' = Live \ V, UNCHANGED charge,
           usage' = usage - SumFunctionOnSet(charge, V)
    PROVE  UsageInv'
<1> DEFINE R == Live \ V
<1>1. \A e \in Live : charge[e] \in Int
  BY DEF Inv, TypeOK, Live
<1>2. IsFiniteSet(V) /\ IsFiniteSet(R) /\ \A e \in R : charge[e] \in Int
  BY <1>1, FS_Subset DEF UsageInv
<1>3. SumFunctionOnSet(charge, Live) = SumFunctionOnSet(charge, V) + SumFunctionOnSet(charge, R)
  BY <1>1, SumOfParts DEF UsageInv
<1>4. SumFunctionOnSet(charge, V) \in Int /\ SumFunctionOnSet(charge, R) \in Int
  BY <1>1, <1>2, SumType
<1>5. R = Live'
  OBVIOUS
<1> HIDE DEF R
<1>6. usage' = SumFunctionOnSet(charge, R)
  BY <1>3, <1>4 DEF UsageInv, UsageIsLiveCharge
<1> QED BY <1>2, <1>5, <1>6 DEF UsageInv, UsageIsLiveCharge

\* The entries and their charges do not change, nor does the usage.
LEMMA SameUsage ==
    ASSUME UsageInv, Live' = Live, UNCHANGED <<charge, usage>>
    PROVE  UsageInv'
BY DEF UsageInv, UsageIsLiveCharge

\* A reference is dropped, and perhaps the entry with it (_unref).
LEMMA UnrefUsage ==
    ASSUME Inv, UsageInv, NEW e \in Live, UNCHANGED charge,
           cell' = CellsAfterUnref(e), usage' = UsageAfterUnref(e)
    PROVE  UsageInv'
<1>1. CASE LastRef(e)
  <2>1. Live' = Live \ {e}
    BY <1>1 DEF Live, CellsAfterUnref, Inv, TypeOK
  <2>2. SumFunctionOnSet(charge, {e}) = charge[e]
    BY SumSingleton DEF Live, Inv, TypeOK
  <2>3. usage' = usage - SumFunctionOnSet(charge, {e})
    BY <1>1, <2>2 DEF UsageAfterUnref
  <2> QED BY <2>1, <2>3, UnlinkedUsage
<1>2. CASE ~LastRef(e)
  BY <1>2, SameUsage DEF CellsAfterUnref, UsageAfterUnref, Live
<1> QED BY <1>1, <1>2

LEMMA InsertUsage ==
    ASSUME Inv, UsageInv, NEW h \in Handle, NEW k \in Key, NEW c \in Charge, Insert(h, k, c)
    PROVE  UsageInv'
<1> DEFINE old == table[k]
           unlinkOld == old # NoEntry /\ LastRef(old)
           D == IF unlinkOld THEN {old} ELSE {}
           R == Live \ D
<1>1. PICK e \in Entry :
         /\ cell[e] = "free"
         /\ charge' = [charge EXCEPT ![e] = c]
         /\ cell' = [x \in Entry |-> CASE x = e                 -> "live"
                                       [] x = old /\ unlinkOld  -> "unlinked"
                                       [] OTHER                 -> cell[x]]
         /\ usage' = (usage + c) - (IF unlinkOld THEN charge[old] ELSE 0)
  BY DEF Insert
<1>2. old # NoEntry => old \in Live
  BY TabledEntry DEF Inv, CellIsReferenced, Live
<1>3. D \subseteq Live /\ e \notin R /\ R \subseteq Live
  BY <1>1, <1>2 DEF Live
<1>4. Live' = R \cup {e}
  BY <1>1, <1>2 DEF Live
<1>5. IsFiniteSet(R) /\ \A x \in R : charge[x] \in Int
  BY <1>3, FS_Subset DEF UsageInv, Inv, TypeOK, Live
<1>6. SumFunctionOnSet(charge, D) = IF unlinkOld THEN charge[old] ELSE 0
  <2>1. CASE unlinkOld
    <3>1. charge[old] \in Int /\ D = {old}
      BY <1>2, <2>1 DEF Inv, TypeOK, Live
    <3>2. SumFunctionOnSet(charge, {old}) = charge[old]
      BY <3>1, SumSingleton
    <3> QED BY <2>1, <3>1, <3>2
  <2>2. CASE ~unlinkOld
    <3>1. D = {}
      BY <2>2
    <3> QED BY <2>2, <3>1, SumEmpty
  <2> QED BY <2>1, <2>2
<1>7. SumFunctionOnSet(charge, Live) = SumFunctionOnSet(charge, D) + SumFunctionOnSet(charge, R)
  <2>1. \A x \in Live : charge[x] \in Int
    BY DEF Inv, TypeOK, Live
  <2> HIDE DEF D
  <2> QED BY <1>3, <2>1, SumOfParts DEF UsageInv
<1>8. c \in Int /\ charge'[e] = c /\ \A x \in R : charge'[x] = charge[x]
  BY <1>1, <1>3, ChargeAssumption DEF Inv, TypeOK, Live
<1> HIDE DEF R
<1>9. SumFunctionOnSet(charge', R) = SumFunctionOnSet(charge, R)
  BY <1>5, <1>8, SumSame
<1>10. SumFunctionOnSet(charge', R \cup {e}) = SumFunctionOnSet(charge', R) + c
  BY <1>3, <1>5, <1>8, SumAddElement
<1>11. SumFunctionOnSet(charge, R) \in Int /\ SumFunctionOnSet(charge, D) \in Int
  <2>1. IsFiniteSet(D) /\ \A x \in D : charge[x] \in Int
    BY <1>3, FS_Subset DEF UsageInv, Inv, TypeOK, Live
  <2> HIDE DEF D
  <2> QED BY <1>5, <2>1, SumType
<1>12. usage' = (usage + c) - SumFunctionOnSet(charge, D)
  BY <1>1, <1>6
<1> HIDE DEF D
<1>13. usage' = SumFunctionOnSet(charge, R) + c
  BY <1>7, <1>8, <1>11, <1>12 DEF UsageInv, UsageIsLiveCharge
<1>14. usage' = SumFunctionOnSet(charge', R \cup {e})
  BY <1>9, <1>10, <1>13
<1>15. IsFiniteSet(R \cup {e})
  BY <1>5, FS_AddElement
<1> QED BY <1>4, <1>14, <1>15 DEF UsageInv, UsageIsLiveCharge

LEMMA EvictOldestUsage ==
    ASSUME Inv, UsageInv, NEW n \in 0..Len(lru), EvictOldest(n)
    PROVE  UsageInv'
<1> DEFINE V == Oldest(n)
           sizes == [i \in 1..n |-> charge[lru[i]]]
<1>1. \A i \in 1..n : i \in 1..Len(lru) /\ lru[i] \in Entry
  BY DEF Inv, TypeOK
<1>2. V \in SUBSET Live
  <2>1. ASSUME NEW i \in 1..n PROVE lru[i] \in Live
    <3>1. refs[lru[i]] = 1
      BY <1>1 DEF Inv, LruHoldsTheIdle, Contains
    <3> QED BY <1>1, <3>1 DEF Live, Inv, CellIsReferenced
  <2> QED BY <2>1 DEF Oldest
<1>3. Live' = Live \ V
  BY <1>2 DEF EvictOldest, Live
<1>4. \A i, j \in 1..n : lru[i] = lru[j] => i = j
  BY <1>1 DEF Inv, TypeOK, LruHoldsTheIdle, IsInjective
<1>5. \A i \in 1..n : sizes[i] \in Int /\ sizes[i] = charge[lru[i]]
  BY <1>1 DEF Inv, TypeOK
<1>6. IsFiniteSet(1..n)
  BY FS_Interval DEF Inv, TypeOK
<1>7. SumFunctionOnSet(sizes, 1..n) = SumFunctionOnSet(charge, V)
  <2> HIDE DEF sizes
  <2>1. SumFunctionOnSet(sizes, 1..n) = SumFunctionOnSet(charge, {lru[i] : i \in 1..n})
    BY <1>4, <1>5, <1>6, SumRenamed
  <2> QED BY <2>1 DEF Oldest
<1>8. OldestCharge(n) = SumFunctionOnSet(sizes, 1..n)
  <2>1. DOMAIN sizes = 1..n
    OBVIOUS
  <2>2. OldestCharge(n) = SumFunctionOnSet(sizes, DOMAIN sizes)
    BY DEF OldestCharge, SumFunction, SumFunctionOnSet, FoldFunctionOnSet
  <2> QED BY <2>1, <2>2
<1>9. usage' = usage - SumFunctionOnSet(charge, V) /\ UNCHANGED charge
  BY <1>7, <1>8 DEF EvictOldest
<1> HIDE DEF V
<1> QED BY <1>2, <1>3, <1>9, UnlinkedUsage

\* get_usage is what the allocated entries take, whatever the number of keys,
\* cells and handles: no eviction, release or replacement is counted twice.
THEOREM UsageCorrect == Spec => []UsageIsLiveCharge
<1>1. Init => UsageInv
  <2> SUFFICES ASSUME Init PROVE UsageInv
    OBVIOUS
  <2>1. Live = {}
    BY DEF Init, Live
  <2> QED BY <2>1, SumEmpty, FS_EmptySet DEF Init, UsageInv, UsageIsLiveCharge
<1>2. Inv /\ UsageInv /\ [Next]_vars => UsageInv'
  <2> SUFFICES ASSUME Inv, UsageInv, [Next]_vars PROVE UsageInv'
    OBVIOUS
  <2>1. ASSUME NEW h \in Handle, NEW k \in Key, NEW c \in Charge, Insert(h, k, c)
        PROVE  UsageInv'
    BY <2>1, InsertUsage
  <2>2. ASSUME NEW h \in Handle, NEW k \in Key, Lookup(h, k) PROVE UsageInv'
    BY <2>2, SameUsage DEF Lookup, Live
  <2>3. ASSUME NEW h \in Handle, Release(h) PROVE UsageInv'
    <3>1. ref[h] \in Live
      BY <2>3, HeldEntry DEF Release, Inv, CellIsReferenced, Live
    <3> QED BY <2>3, <3>1, UnrefUsage DEF Release
  <2>4. ASSUME NEW k \in Key, Erase(k) PROVE UsageInv'
    <3>1. table[k] \in Live
      BY <2>4, TabledEntry DEF Erase, Inv, CellIsReferenced, Live
    <3> QED BY <2>4, <3>1, UnrefUsage DEF Erase
  <2>5. ASSUME NEW size \in Charge, Evict(size) PROVE UsageInv'
    <3>1. PICK n \in 1..Len(lru) : EvictOldest(n)
      BY <2>5 DEF Evict
    <3>2. n \in 0..Len(lru)
      OBVIOUS
    <3> QED BY <3>1, <3>2, EvictOldestUsage
  <2>6. ASSUME Prune PROVE UsageInv'
    <3>1. Len(lru) \in 0..Len(lru)
      BY DEF Inv, TypeOK
    <3> QED BY <2>6, <3>1, EvictOldestUsage DEF Prune
  <2>7. ASSUME NEW e \in Entry, Free(e) PROVE UsageInv'
    <3>1. Live' = Live
      BY <2>7 DEF Free, Live, Inv, TypeOK
    <3> QED BY <2>7, <3>1, SameUsage DEF Free
  <2>8. CASE UNCHANGED vars
    BY <2>8, SameUsage DEF vars, Live
  <2> QED BY <2>1, <2>2, <2>3, <2>4, <2>5, <2>6, <2>7, <2>8 DEF Next
<1>3. UsageInv => UsageIsLiveCharge
  BY DEF UsageInv
<1> QED BY <1>1, <1>2, <1>3, LRUInvariant, PTL DEF Spec

-----------------------------------------------------------------------------
(***************************************************************************)
(* The container implements EvictionPolicy: tracked keys are the keys in   *)
(* the table, and a handle is on the current entry of a key when it points *)
(* to the cell that the table holds for it.                                *)
(***************************************************************************)

LEMMA InsertIsAdd ==
    ASSUME Inv, NEW h \in Handle, NEW k \in Key, NEW c \in Charge, Insert(h, k, c)
    PROVE  Policy!Add(h, k)
<1>1. PICK e \in Entry : /\ cell[e] = "free"
                         /\ table' = [table EXCEPT ![k] = e]
                         /\ ref' = [ref EXCEPT ![h] = e]
  BY DEF Insert
<1>2. ref[h] = NoEntry
  BY DEF Insert
<1>3. (\A j \in Key : table[j] # e) /\ (\A g \in Handle : ref[g] # e)
  BY <1>1, FreeCell
<1>4. ~Policy!Holding(h)
  BY <1>2 DEF Policy!Holding, Holders
<1>5. Tracked' = Tracked \cup {k}
  BY <1>1, NoEntryAssumption DEF Inv, TypeOK, Tracked
<1>6. Holders' = {p \in Holders : p[2] # k} \cup {<<h, k>>}
  <2>1. ASSUME NEW g \in Handle, NEW j \in Key
        PROVE  <<g, j>> \in Holders' <=>
                  <<g, j>> \in {p \in Holders : p[2] # k} \cup {<<h, k>>}
    <3>1. CASE g = h
      BY <3>1, <1>1, <1>2, <1>3, NoEntryAssumption DEF Inv, TypeOK, Holders
    <3>2. CASE g # h
      BY <3>2, <1>1, <1>3 DEF Inv, TypeOK, Holders
    <3> QED BY <3>1, <3>2
  <2> QED BY <2>1 DEF Holders
<1> QED BY <1>4, <1>5, <1>6 DEF Policy!Add

LEMMA LookupIsTouch ==
    ASSUME Inv, NEW h \in Handle, NEW k \in Key, Lookup(h, k)
    PROVE  Policy!Touch(h, k)
<1> PICK e \in Entry : e = table[k]
  BY TabledEntry DEF Lookup
<1>1. /\ ref[h] = NoEntry /\ table[k] = e /\ e # NoEntry /\ k \in Tracked
      /\ ref' = [ref EXCEPT ![h] = e] /\ table' = table
  BY DEF Lookup, Tracked
<1>2. \A j \in Key : table[j] = e => j = k
  BY <1>1, TabledEntry
<1>3. ~Policy!Holding(h)
  BY <1>1 DEF Policy!Holding, Holders
<1>4. Tracked' = Tracked
  BY <1>1 DEF Tracked
<1>5. Holders' = Holders \cup {<<h, k>>}
  <2>1. ASSUME NEW g \in Handle, NEW j \in Key
        PROVE  <<g, j>> \in Holders' <=> <<g, j>> \in Holders \cup {<<h, k>>}
    BY <1>1, <1>2 DEF Inv, TypeOK, Holders
  <2> QED BY <2>1 DEF Holders
<1> QED BY <1>1, <1>3, <1>4, <1>5 DEF Policy!Touch

LEMMA ReleaseIsRelease ==
    ASSUME Inv, NEW h \in Handle, Release(h)
    PROVE  Policy!Release(h) \/ UNCHANGED Policy!vars
<1>1. ref' = [ref EXCEPT ![h] = NoEntry] /\ table' = table
  BY DEF Release
<1>2. Tracked' = Tracked
  BY <1>1 DEF Tracked
<1>3. Holders' = {p \in Holders : p[1] # h}
  <2>1. ASSUME NEW g \in Handle, NEW j \in Key
        PROVE  <<g, j>> \in Holders' <=> <<g, j>> \in {p \in Holders : p[1] # h}
    BY <1>1 DEF Inv, TypeOK, Holders
  <2> QED BY <2>1 DEF Holders
<1>4. CASE Policy!Holding(h)
  BY <1>2, <1>3, <1>4 DEF Policy!Release
<1>5. CASE ~Policy!Holding(h)
  <2>1. \A p \in Holders : p[1] # h
    BY <1>5 DEF Policy!Holding, Holders
  <2> QED BY <2>1, <1>2, <1>3 DEF Policy!vars
<1> QED BY <1>4, <1>5

LEMMA EraseIsRemove ==
    ASSUME Inv, NEW k \in Key, Erase(k)
    PROVE  Policy!Remove(k)
<1>1. table[k] # NoEntry /\ table' = [table EXCEPT ![k] = NoEntry] /\ ref' = ref
  BY DEF Erase
<1>2. k \in Tracked /\ Tracked' = Tracked \ {k}
  BY <1>1 DEF Inv, TypeOK, Tracked
<1>3. Holders' = {p \in Holders : p[2] # k}
  <2>1. ASSUME NEW g \in Handle, NEW j \in Key
        PROVE  <<g, j>> \in Holders' <=> <<g, j>> \in {p \in Holders : p[2] # k}
    BY <1>1 DEF Inv, TypeOK, Holders
  <2> QED BY <2>1 DEF Holders
<1> QED BY <1>2, <1>3 DEF Policy!Remove

LEMMA EvictOldestIsEvict ==
    ASSUME Inv, NEW n \in 1..Len(lru), EvictOldest(n)
    PROVE  \E S \in SUBSET Key : Policy!Evict(S)
<1> DEFINE S == {k \in Key : table[k] \in Oldest(n)}
<1>1. /\ table' = [k \in Key |-> IF table[k] \in Oldest(n) THEN NoEntry ELSE table[k]]
      /\ ref' = ref
  BY DEF EvictOldest
<1>2. \A e \in Oldest(n) : e \in Entry /\ valid[e] /\ refs[e] = 1
  BY DEF Oldest, Inv, TypeOK, LruHoldsTheIdle, Contains
<1>3. \A h \in Handle : ref[h] \notin Oldest(n)
  BY <1>2, HeldEntry, NoEntryAssumption
<1>4. S \subseteq Policy!Evictable
  BY <1>2, <1>3, NoEntryAssumption DEF Policy!Evictable, Tracked, Holders
<1>5. S # {}
  <2>1. lru[1] \in Oldest(n)
    BY DEF Oldest
  <2>2. key[lru[1]] \in Key /\ table[key[lru[1]]] = lru[1]
    BY <2>1, <1>2 DEF Inv, TypeOK, ValidIsTabled
  <2> QED BY <2>1, <2>2
<1>6. Tracked' = Tracked \ S
  BY <1>1 DEF Tracked
<1>7. Holders' = Holders
  <2>1. ASSUME NEW g \in Handle, NEW j \in Key
        PROVE  <<g, j>> \in Holders' <=> <<g, j>> \in Holders
    BY <1>1, <1>3 DEF Holders
  <2> QED BY <2>1 DEF Holders
<1>8. Policy!Evict(S)
  BY <1>4, <1>5, <1>6, <1>7 DEF Policy!Evict
<1> QED BY <1>8

\* Every behaviour of the container is one that eviction_policy.h allows: in
\* particular an entry that a caller holds is never among the evicted ones.
THEOREM LRUImplementsPolicy == Spec => PolicySpec
<1>1. Init => Policy!Init
  BY DEF Init, Policy!Init, Tracked, Holders
<1>2. Inv /\ [Next]_vars => [Policy!Next]_(Policy!vars)
  <2> SUFFICES ASSUME Inv, [Next]_vars PROVE [Policy!Next]_(Policy!vars)
    OBVIOUS
  <2>1. ASSUME NEW h \in Handle, NEW k \in Key, NEW c \in Charge, Insert(h, k, c)
        PROVE  [Policy!Next]_(Policy!vars)
    BY <2>1, InsertIsAdd DEF Policy!Next
  <2>2. ASSUME NEW h \in Handle, NEW k \in Key, Lookup(h, k)
        PROVE  [Policy!Next]_(Policy!vars)
    BY <2>2, LookupIsTouch DEF Policy!Next
  <2>3. ASSUME NEW h \in Handle, Release(h) PROVE [Policy!Next]_(Policy!vars)
    BY <2>3, ReleaseIsRelease DEF Policy!Next
  <2>4. ASSUME NEW k \in Key, Erase(k) PROVE [Policy!Next]_(Policy!vars)
    BY <2>4, EraseIsRemove DEF Policy!Next
  <2>5. ASSUME NEW size \in Charge, Evict(size) PROVE [Policy!Next]_(Policy!vars)
    <3>1. PICK n \in 1..Len(lru) : EvictOldest(n)
      BY <2>5 DEF Evict
    <3> QED BY <3>1, EvictOldestIsEvict DEF Policy!Next
  <2>6. ASSUME Prune PROVE [Policy!Next]_(Policy!vars)
    <3>1. Len(lru) \in 1..Len(lru)
      BY <2>6, EmptySeq DEF Inv, TypeOK, Prune
    <3> QED BY <2>6, <3>1, EvictOldestIsEvict DEF Prune, Policy!Next
  <2>7. ASSUME NEW e \in Entry, Free(e) PROVE [Policy!Next]_(Policy!vars)
    BY <2>7 DEF Free, Tracked, Holders, Policy!vars
  <2>8. CASE UNCHANGED vars
    BY <2>8 DEF vars, Tracked, Holders, Policy!vars
  <2> QED BY <2>1, <2>2, <2>3, <2>4, <2>5, <2>6, <2>7, <2>8 DEF Next
<1> QED BY <1>1, <1>2, LRUInvariant, PTL DEF Spec, PolicySpec, Policy!Spec

-----------------------------------------------------------------------------
(***************************************************************************)
(* ShardedLRUContainer.  First, sequences without one of their elements.   *)
(***************************************************************************)
\* A sequence without its element i.
LEMMA RemoveAtIs ==
  ASSUME NEW S, NEW s \in Seq(S), NEW i \in 1 .. Len(s)
  PROVE  /\ RemoveAt(s, i) \in Seq(S) /\ Len(RemoveAt(s, i)) = Len(s) - 1
         /\ \A j \in 1 .. Len(s) - 1 : RemoveAt(s, i)[j] = IF j < i THEN s[j] ELSE s[j + 1]
<1> DEFINE a == SubSeq(s, 1, i - 1)
           b == SubSeq(s, i + 1, Len(s))
<1>1. Len(s) \in Nat /\ i \in Nat /\ 1 <= i /\ i <= Len(s)
  OBVIOUS
<1>2. a \in Seq(S) /\ Len(a) = i - 1 /\ \A j \in 1 .. i - 1 : a[j] = s[j]
  <2>1. \A j \in 1 .. i - 1 : s[j] \in S
    BY <1>1, ElementOfSeq
  <2> QED BY <1>1, <2>1, SubSeqProperties
<1>3. b \in Seq(S) /\ Len(b) = Len(s) - i /\ \A j \in 1 .. Len(s) - i : b[j] = s[i + j]
  <2>1. \A j \in i + 1 .. Len(s) : s[j] \in S
    BY <1>1, ElementOfSeq
  <2>2. b \in Seq(S)
    BY <1>1, <2>1, SubSeqProperties
  <2>3. Len(b) = Len(s) - i
    BY <1>1, SubSeqProperties
  <2>4. ASSUME NEW j \in 1 .. Len(s) - i PROVE b[j] = s[i + j]
    <3>1. j \in 1 .. Len(s) - (i + 1) + 1
      BY <1>1
    <3>2. b[j] = s[(i + 1) + j - 1]
      BY <1>1, <3>1
    <3>3. (i + 1) + j - 1 = i + j
      BY <1>1
    <3> QED BY <3>2, <3>3
  <2> QED BY <2>2, <2>3, <2>4
<1>4. RemoveAt(s, i) = a \o b
  BY DEF RemoveAt
<1> HIDE DEF a, b
<1>5. a \o b \in Seq(S) /\ Len(a \o b) = Len(s) - 1
  <2>1. a \o b \in Seq(S) /\ Len(a \o b) = Len(a) + Len(b)
    BY <1>2, <1>3, ConcatProperties
  <2> QED BY <1>1, <1>2, <1>3, <2>1
<1>6. ASSUME NEW j \in 1 .. Len(s) - 1 PROVE (a \o b)[j] = IF j < i THEN s[j] ELSE s[j + 1]
  <2>1. (a \o b)[j] = IF j <= Len(a) THEN a[j] ELSE b[j - Len(a)]
    <3>1. j \in 1 .. Len(a) + Len(b)
      BY <1>1, <1>2, <1>3
    <3> QED BY <1>2, <1>3, <3>1, ConcatProperties
  <2>2. CASE j < i
    BY <1>1, <1>2, <2>1, <2>2
  <2>3. CASE ~(j < i)
    <3>1. j - (i - 1) \in 1 .. Len(s) - i /\ i + (j - (i - 1)) = j + 1 /\ ~(j <= i - 1)
      BY <1>1, <2>3
    <3> QED BY <1>2, <1>3, <2>1, <2>3, <3>1
  <2> QED BY <2>2, <2>3
<1> QED BY <1>4, <1>5, <1>6

\* The elements that are left.
LEMMA RemoveAtLeaves ==
  ASSUME NEW S, NEW s \in Seq(S), NEW i \in 1 .. Len(s), IsInjective(s)
  PROVE  IsInjective(RemoveAt(s, i)) /\ ToSet(RemoveAt(s, i)) = ToSet(s) \ {s[i]}
<1> DEFINE r == RemoveAt(s, i)
<1>1. r \in Seq(S) /\ Len(r) = Len(s) - 1 /\ \A j \in 1 .. Len(s) - 1 : r[j] = IF j < i THEN s[j] ELSE s[j + 1]
  BY RemoveAtIs
<1>2. Len(s) \in Nat /\ DOMAIN s = 1 .. Len(s) /\ DOMAIN r = 1 .. Len(s) - 1
  BY <1>1
<1> HIDE DEF r
<1> DEFINE At(j) == IF j < i THEN j ELSE j + 1
<1>0. \A j \in 1 .. Len(s) - 1 : At(j) \in 1 .. Len(s) /\ At(j) # i /\ r[j] = s[At(j)]
  BY <1>1, <1>2
<1>3. IsInjective(r)
  <2> SUFFICES ASSUME NEW j \in 1 .. Len(s) - 1, NEW l \in 1 .. Len(s) - 1, r[j] = r[l] PROVE j = l
    BY <1>2 DEF IsInjective
  <2>1. At(j) = At(l)
    <3> HIDE DEF At
    <3> QED BY <1>0, <1>2 DEF IsInjective
  <2> QED BY <2>1
<1>4. ASSUME NEW x \in ToSet(r) PROVE x \in ToSet(s) \ {s[i]}
  <2>1. PICK j \in 1 .. Len(s) - 1 : r[j] = x
    BY <1>2, <1>4 DEF ToSet
  <2> HIDE DEF At
  <2> QED BY <1>0, <1>2, <2>1 DEF IsInjective, ToSet
<1>5. ASSUME NEW x \in ToSet(s) \ {s[i]} PROVE x \in ToSet(r)
  <2>1. PICK j \in 1 .. Len(s) : s[j] = x
    BY <1>2, <1>5 DEF ToSet
  <2>2. j # i
    BY <1>5, <2>1
  <2>3. CASE j < i
    <3>1. j \in 1 .. Len(s) - 1 /\ r[j] = x
      BY <1>1, <1>2, <2>1, <2>3
    <3> QED BY <1>2, <3>1 DEF ToSet
  <2>4. CASE j > i
    <3>1. j - 1 \in 1 .. Len(s) - 1 /\ ~(j - 1 < i) /\ (j - 1) + 1 = j
      BY <1>2, <2>1, <2>4
    <3>2. r[j - 1] = x
      BY <1>1, <2>1, <3>1
    <3> QED BY <1>2, <3>1, <3>2 DEF ToSet
  <2> QED BY <1>2, <2>1, <2>2, <2>3, <2>4
<1> QED BY <1>3, <1>4, <1>5 DEF r

\* A list with no element twice loses the element and keeps the others, in their order.
LEMMA RemoveFirstIs ==
  ASSUME NEW S, NEW s \in Seq(S), NEW e
  PROVE  /\ RemoveFirst(s, e) \in Seq(S)
         /\ IsInjective(s) => IsInjective(RemoveFirst(s, e)) /\ ToSet(RemoveFirst(s, e)) = ToSet(s) \ {e}
<1>1. DOMAIN s = 1 .. Len(s) /\ Len(s) \in Nat
  OBVIOUS
<1>2. CASE ~ \E i \in 1 .. Len(s) : s[i] = e
  BY <1>1, <1>2 DEF RemoveFirst, ToSet
<1>3. CASE \E i \in 1 .. Len(s) : s[i] = e
  <2> DEFINE I == {i \in 1 .. Len(s) : s[i] = e}
  <2>1. I \subseteq Nat /\ IsFiniteSet(I) /\ I # {}
    <3>1. IsFiniteSet(1 .. Len(s))
      BY <1>1, FS_Interval
    <3> QED BY <1>3, <3>1, FS_Subset
  <2>2. Min(I) \in I
    <3> HIDE DEF I
    <3> QED BY <2>1, MinIs
  <2>3. RemoveFirst(s, e) = RemoveAt(s, Min(I))
    BY <1>3, <2>1 DEF RemoveFirst, SelectInSeq
  <2> DEFINE i == Min(I)
  <2>4. i \in 1 .. Len(s) /\ s[i] = e
    BY <2>2
  <2> HIDE DEF i
  <2>5. RemoveFirst(s, e) = RemoveAt(s, i)
    BY <2>3 DEF i
  <2>6. RemoveAt(s, i) \in Seq(S)
    BY <2>4, RemoveAtIs
  <2>7. IsInjective(s) => IsInjective(RemoveAt(s, i)) /\ ToSet(RemoveAt(s, i)) = ToSet(s) \ {e}
    BY <2>4, RemoveAtLeaves
  <2> QED BY <2>5, <2>6, <2>7
<1> QED BY <1>2, <1>3

\* One more element, at the end or at the front.
LEMMA AppendIs ==
  ASSUME NEW S, NEW s \in Seq(S), NEW e \in S
  PROVE  LET a == Append(s, e)
         IN  /\ a \in Seq(S) /\ Len(a) = Len(s) + 1 /\ DOMAIN a = 1 .. Len(s) + 1 /\ ToSet(a) = ToSet(s) \cup {e}
             /\ \A i \in 1 .. Len(s) + 1 : a[i] = IF i <= Len(s) THEN s[i] ELSE e
<1> DEFINE a == Append(s, e)
<1>1. Len(s) \in Nat /\ DOMAIN s = 1 .. Len(s)
  OBVIOUS
<1>2. /\ a \in Seq(S) /\ Len(a) = Len(s) + 1 /\ DOMAIN a = 1 .. Len(s) + 1
      /\ \A i \in 1 .. Len(s) + 1 : a[i] = IF i <= Len(s) THEN s[i] ELSE e
  OBVIOUS
<1> HIDE DEF a
<1>3. ASSUME NEW x \in ToSet(a) PROVE x \in ToSet(s) \cup {e}
  <2>1. PICK i \in 1 .. Len(s) + 1 : a[i] = x
    BY <1>2, <1>3 DEF ToSet
  <2>2. i <= Len(s) => i \in 1 .. Len(s)
    BY <1>1, <2>1
  <2> QED BY <1>1, <1>2, <2>1, <2>2 DEF ToSet
<1>4. ASSUME NEW x \in ToSet(s) PROVE x \in ToSet(a)
  <2>1. PICK i \in 1 .. Len(s) : s[i] = x
    BY <1>1, <1>4 DEF ToSet
  <2>2. i \in 1 .. Len(s) + 1 /\ a[i] = x
    BY <1>1, <1>2, <2>1
  <2> QED BY <1>2, <2>2 DEF ToSet
<1>5. Len(s) + 1 \in DOMAIN a /\ a[Len(s) + 1] = e
  BY <1>1, <1>2
<1>6. ToSet(a) = ToSet(s) \cup {e}
  BY <1>3, <1>4, <1>5 DEF ToSet
<1> QED BY <1>2, <1>6 DEF a

\* A sequence with a new first element.
LEMMA PushFrontIs ==
  ASSUME NEW S, NEW s \in Seq(S), NEW e \in S
  PROVE  LET p == <<e>> \o s
         IN  /\ p \in Seq(S) /\ Len(p) = Len(s) + 1 /\ DOMAIN p = 1 .. Len(s) + 1 /\ ToSet(p) = ToSet(s) \cup {e}
             /\ \A i \in 1 .. Len(s) + 1 : p[i] = IF i = 1 THEN e ELSE s[i - 1]
<1> DEFINE p == <<e>> \o s
<1>1. Len(s) \in Nat /\ DOMAIN s = 1 .. Len(s)
  OBVIOUS
<1>2. /\ p \in Seq(S) /\ Len(p) = Len(s) + 1 /\ DOMAIN p = 1 .. Len(s) + 1
      /\ \A i \in 1 .. Len(s) + 1 : p[i] = IF i = 1 THEN e ELSE s[i - 1]
  <2>1. <<e>> \in Seq(S) /\ Len(<<e>>) = 1 /\ <<e>>[1] = e
    OBVIOUS
  <2>2. p \in Seq(S) /\ Len(p) = 1 + Len(s)
    BY <1>1, <2>1, ConcatProperties
  <2>3. \A i \in 1 .. 1 + Len(s) : p[i] = IF i <= 1 THEN <<e>>[i] ELSE s[i - 1]
    BY <1>1, <2>1, ConcatProperties
  <2>4. 1 + Len(s) = Len(s) + 1
    BY <1>1
  <2>5. ASSUME NEW i \in 1 .. Len(s) + 1 PROVE p[i] = IF i = 1 THEN e ELSE s[i - 1]
    <3>1. i <= 1 <=> i = 1
      BY <1>1
    <3>2. p[i] = IF i <= 1 THEN <<e>>[i] ELSE s[i - 1]
      BY <2>3, <2>4
    <3> QED BY <2>1, <3>1, <3>2
  <2>6. DOMAIN p = 1 .. Len(p)
    BY <2>2
  <2> HIDE DEF p
  <2> QED BY <2>2, <2>4, <2>5, <2>6
<1> HIDE DEF p
<1>3. ASSUME NEW x \in ToSet(p) PROVE x \in ToSet(s) \cup {e}
  <2>1. PICK i \in 1 .. Len(s) + 1 : p[i] = x
    BY <1>2, <1>3 DEF ToSet
  <2>2. i # 1 => i - 1 \in 1 .. Len(s)
    BY <1>1, <2>1
  <2> QED BY <1>1, <1>2, <2>1, <2>2 DEF ToSet
<1>4. ASSUME NEW x \in ToSet(s) PROVE x \in ToSet(p)
  <2>1. PICK i \in 1 .. Len(s) : s[i] = x
    BY <1>1, <1>4 DEF ToSet
  <2>2. i + 1 \in 1 .. Len(s) + 1 /\ i + 1 # 1 /\ (i + 1) - 1 = i
    BY <1>1, <2>1
  <2>3. p[i + 1] = x
    BY <1>2, <2>1, <2>2
  <2> QED BY <1>2, <2>2, <2>3 DEF ToSet
<1>5. 1 \in DOMAIN p /\ p[1] = e
  BY <1>1, <1>2
<1>6. ToSet(p) = ToSet(s) \cup {e}
  BY <1>3, <1>4, <1>5 DEF ToSet
<1> QED BY <1>2, <1>6 DEF p

\* A list with no element twice gets one more.
LEMMA AppendAdds ==
  ASSUME NEW S, NEW s \in Seq(S), IsInjective(s), NEW e \in S, e \notin ToSet(s)
  PROVE  Append(s, e) \in Seq(S) /\ IsInjective(Append(s, e)) /\ ToSet(Append(s, e)) = ToSet(s) \cup {e}
<1> DEFINE a == Append(s, e)
<1>1. Len(s) \in Nat /\ DOMAIN s = 1 .. Len(s)
  OBVIOUS
<1>2. /\ a \in Seq(S) /\ Len(a) = Len(s) + 1 /\ DOMAIN a = 1 .. Len(s) + 1 /\ ToSet(a) = ToSet(s) \cup {e}
      /\ \A i \in 1 .. Len(s) + 1 : a[i] = IF i <= Len(s) THEN s[i] ELSE e
  BY AppendIs
<1> HIDE DEF a
<1>3. ASSUME NEW i \in 1 .. Len(s) + 1 PROVE (i \in 1 .. Len(s) /\ a[i] = s[i] /\ s[i] # e) \/ (i = Len(s) + 1 /\ a[i] = e)
  <2>1. CASE i <= Len(s)
    <3>1. i \in 1 .. Len(s) /\ a[i] = s[i]
      BY <1>1, <1>2, <2>1
    <3>2. s[i] \in ToSet(s)
      BY <1>1, <3>1 DEF ToSet
    <3> QED BY <3>1, <3>2
  <2>2. CASE ~(i <= Len(s))
    BY <1>1, <1>2, <2>2
  <2> QED BY <2>1, <2>2
<1>4. IsInjective(a)
  <2> SUFFICES ASSUME NEW i \in 1 .. Len(s) + 1, NEW j \in 1 .. Len(s) + 1, a[i] = a[j] PROVE i = j
    BY <1>2 DEF IsInjective
  <2> QED BY <1>1, <1>3 DEF IsInjective
<1> QED BY <1>2, <1>4 DEF a

-----------------------------------------------------------------------------
\* The table doubles.
LEMMA NewLengthIs == ASSUME NEW elems \in Nat PROVE NewLength(elems) \in Nat \ {0}
<1> DEFINE W == Nat \ {0}
           s == [i \in 1 .. elems |-> i]
           step == [i \in 1 .. elems |-> [w \in W |-> Doubled(w, elems)]]
           Is(g) == g = [t \in SUBSET (DOMAIN s) |-> IF t = {} THEN 4 ELSE Doubled(g[t \ {Max(t)}], elems)]
           g == CHOOSE x : Is(x)
<1>1. step \in [1 .. elems -> [W -> W]] /\ 4 \in W
  BY DEF Doubled
<1>2. NewLength(elems) = g[DOMAIN s]
  BY DEF NewLength, FoldLeft, MapThenFoldSet
<1>3. DOMAIN s = 1 .. elems
  OBVIOUS
<1>4. \A t \in SUBSET (1 .. elems) : t # {} => Max(t) \in 1 .. elems
  BY MaxIs
<1>5. Is(g)
  <2>1. PICK f \in [SUBSET (1 .. elems) -> W] : Folds(f, 1 .. elems, 4, step)
    <3> HIDE DEF W, step
    <3> QED BY <1>1, FoldExists
  <2>2. ASSUME NEW t \in SUBSET (1 .. elems), t # {} PROVE step[Max(t)][f[t \ {Max(t)}]] = Doubled(f[t \ {Max(t)}], elems)
    BY <1>4, <2>1, <2>2
  <2>3. Is(f)
    <3> HIDE DEF step
    <3> QED BY <1>3, <2>1, <2>2 DEF Folds
  <2> HIDE DEF Is
  <2> QED BY <2>3
<1>6. Follows(g, elems, W, 4, step)
  <2>1. g[{}] = 4
    <3> HIDE DEF g
    <3> QED BY <1>5
  <2>2. ASSUME NEW t \in SUBSET (1 .. elems), t # {}, g[t \ {Max(t)}] \in W PROVE g[t] = step[Max(t)][g[t \ {Max(t)}]]
    <3>1. step[Max(t)][g[t \ {Max(t)}]] = Doubled(g[t \ {Max(t)}], elems)
      <4> HIDE DEF g
      <4> QED BY <1>4, <2>2
    <3> HIDE DEF g, step
    <3> QED BY <1>3, <1>5, <2>2, <3>1
  <2> HIDE DEF g, step, W
  <2> QED BY <2>1, <2>2 DEF Follows
<1>7. g[1 .. elems] \in W
  <2> HIDE DEF g, step, W
  <2>1. FoldSteps(g, elems, W, 4, step)
    BY <1>1, <1>6, FoldFollows
  <2> QED BY <2>1 DEF FoldSteps
<1> QED BY <1>2, <1>3, <1>7

-----------------------------------------------------------------------------
(***************************************************************************)
(* The hash table.                                                         *)
(***************************************************************************)
TableKey == DOMAIN KeyHash

Lists(n) == [0 .. n - 1 -> Seq(Cell)]

Handles == {t \in [length : Nat \ {0}, elems : Int, list : UNION {Lists(n) : n \in Nat}] : t.list \in Lists(t.length)}

Entries(list) == UNION {ToSet(list[b]) : b \in DOMAIN list}

\* Every entry is in the chain of its hash value, the only one with its key.
WellFiled(list, n, keyOf) ==
  /\ \A b \in 0 .. n - 1 : \A i \in 1 .. Len(list[b]) : KeyHash[keyOf[list[b][i]]] % n = b
  /\ \A b \in 0 .. n - 1 : \A i, j \in 1 .. Len(list[b]) : keyOf[list[b][i]] = keyOf[list[b][j]] => i = j

\* s can be chain b.
FitsIn(s, b, n, keyOf) ==
  /\ s \in Seq(Cell) /\ \A i \in 1 .. Len(s) : KeyHash[keyOf[s[i]]] % n = b
  /\ \A i, j \in 1 .. Len(s) : keyOf[s[i]] = keyOf[s[j]] => i = j

\* The lists differ in chain b.
SameBut(list, new, b, n) == \A c \in 0 .. n - 1 : c # b => new[c] = list[c]

Place(n, keyOf, e) == KeyHash[keyOf[e]] % n

Replaced(s, i, e) == [s EXCEPT ![i] = e]

\* No entry has the key.
Lacks(list, keyOf, k) == \A e \in Entries(list) : keyOf[e] # k

\* What holds of a table between the calls.
Right(t, keyOf) ==
  t \in Handles /\ WellFiled(t.list, t.length, keyOf) /\ t.elems = Cardinality(Entries(t.list))

\* A hash value selects one of the buckets.
LEMMA BucketIs ==
  ASSUME NEW n \in Nat \ {0}, NEW k \in TableKey
  PROVE  KeyHash[k] % n \in 0 .. n - 1
<1>1. KeyHash[k] \in Nat
  BY KeyHashAssumption DEF TableKey
<1> QED BY <1>1

\* What the chains are made of.
LEMMA ChainsAre ==
  ASSUME NEW n \in Nat, NEW list \in Lists(n)
  PROVE  /\ DOMAIN list = 0 .. n - 1
         /\ \A b \in 0 .. n - 1 : list[b] \in Seq(Cell) /\ Len(list[b]) \in Nat /\ DOMAIN list[b] = 1 .. Len(list[b])
         /\ \A b \in 0 .. n - 1 : \A i \in 1 .. Len(list[b]) : list[b][i] \in Cell
<1>1. \A b \in 0 .. n - 1 : list[b] \in Seq(Cell)
  BY DEF Lists
<1> QED BY <1>1, ElementOfSeq DEF Lists

\* The entries are the elements of the chains.
LEMMA EntriesAre ==
  ASSUME NEW n \in Nat, NEW list \in Lists(n)
  PROVE  /\ Entries(list) \in SUBSET Cell
         /\ \A b \in 0 .. n - 1 : \A i \in 1 .. Len(list[b]) : list[b][i] \in Entries(list)
         /\ \A e \in Entries(list) : \E b \in 0 .. n - 1 : \E i \in 1 .. Len(list[b]) : list[b][i] = e
<1>1. ASSUME NEW e \in Entries(list) PROVE \E b \in 0 .. n - 1 : \E i \in 1 .. Len(list[b]) : list[b][i] = e
  <2>1. PICK b \in DOMAIN list : e \in ToSet(list[b])
    BY DEF Entries
  <2>2. b \in 0 .. n - 1 /\ DOMAIN list[b] = 1 .. Len(list[b])
    BY <2>1, ChainsAre
  <2> QED BY <2>1, <2>2 DEF ToSet
<1>2. ASSUME NEW b \in 0 .. n - 1, NEW i \in 1 .. Len(list[b]) PROVE list[b][i] \in Entries(list)
  <2>1. b \in DOMAIN list /\ i \in DOMAIN list[b]
    BY ChainsAre
  <2> QED BY <2>1 DEF Entries, ToSet
<1>3. Entries(list) \in SUBSET Cell
  BY <1>1, ChainsAre
<1> QED BY <1>1, <1>2, <1>3

\* Two entries with one key are the same.
LEMMA OneEntryPerKey ==
  ASSUME NEW n \in Nat \ {0}, NEW list \in Lists(n), NEW keyOf, WellFiled(list, n, keyOf),
         NEW d \in Entries(list), NEW e \in Entries(list), keyOf[d] = keyOf[e]
  PROVE  d = e
<1>1a. PICK b \in 0 .. n - 1 : \E i \in 1 .. Len(list[b]) : list[b][i] = d
  BY EntriesAre
<1>1. PICK i \in 1 .. Len(list[b]) : list[b][i] = d
  BY <1>1a
<1>2a. PICK c \in 0 .. n - 1 : \E j \in 1 .. Len(list[c]) : list[c][j] = e
  BY EntriesAre
<1>2. PICK j \in 1 .. Len(list[c]) : list[c][j] = e
  BY <1>2a
<1>3. b = c
  <2>1. KeyHash[keyOf[d]] % n = b
    BY <1>1 DEF WellFiled
  <2>2. KeyHash[keyOf[e]] % n = c
    BY <1>2 DEF WellFiled
  <2> QED BY <2>1, <2>2
<1> QED BY <1>1, <1>2, <1>3 DEF WellFiled

\* The entry with a key is in the chain of the key.
LEMMA EntryInChain ==
  ASSUME NEW n \in Nat \ {0}, NEW list \in Lists(n), NEW keyOf, WellFiled(list, n, keyOf), NEW e \in Entries(list)
  PROVE  /\ KeyHash[keyOf[e]] % n \in 0 .. n - 1
         /\ \E i \in 1 .. Len(list[KeyHash[keyOf[e]] % n]) : list[KeyHash[keyOf[e]] % n][i] = e
<1>1a. PICK b \in 0 .. n - 1 : \E i \in 1 .. Len(list[b]) : list[b][i] = e
  BY EntriesAre
<1>1. PICK i \in 1 .. Len(list[b]) : list[b][i] = e
  BY <1>1a
<1>2. KeyHash[keyOf[e]] % n = b
  BY <1>1 DEF WellFiled
<1> QED BY <1>1, <1>2

\* Only the keys of the entries matter.
LEMMA SameKeys ==
  ASSUME NEW n \in Nat \ {0}, NEW list \in Lists(n), NEW keyOf, WellFiled(list, n, keyOf),
         NEW other, \A e \in Entries(list) : other[e] = keyOf[e]
  PROVE  WellFiled(list, n, other)
<1>1. \A b \in 0 .. n - 1 : \A i \in 1 .. Len(list[b]) : other[list[b][i]] = keyOf[list[b][i]]
  BY EntriesAre
<1> QED BY <1>1 DEF WellFiled

\* One chain is another.
LEMMA ChainChanged ==
  ASSUME NEW n \in Nat \ {0}, NEW list \in Lists(n), NEW keyOf, WellFiled(list, n, keyOf), NEW b \in 0 .. n - 1,
         NEW new \in Lists(n), SameBut(list, new, b, n), FitsIn(new[b], b, n, keyOf)
  PROVE  /\ WellFiled(new, n, keyOf)
         /\ Entries(new) = (Entries(list) \ ToSet(list[b])) \cup ToSet(new[b])
<1> DEFINE s == new[b]
<1>2. \A c \in 0 .. n - 1 : new[c] = IF c = b THEN s ELSE list[c]
  BY DEF SameBut
<1>3. DOMAIN new = 0 .. n - 1 /\ DOMAIN list = 0 .. n - 1
  BY ChainsAre
<1>4. WellFiled(new, n, keyOf)
  <2>1. ASSUME NEW c \in 0 .. n - 1, NEW i \in 1 .. Len(new[c]) PROVE KeyHash[keyOf[new[c][i]]] % n = c
    BY <1>2 DEF WellFiled, FitsIn
  <2>2. ASSUME NEW c \in 0 .. n - 1, NEW i \in 1 .. Len(new[c]), NEW j \in 1 .. Len(new[c]), keyOf[new[c][i]] = keyOf[new[c][j]] PROVE i = j
    BY <1>2, <2>2 DEF WellFiled, FitsIn
  <2> QED BY <2>1, <2>2 DEF WellFiled
<1>5. ASSUME NEW e \in Entries(new) PROVE e \in (Entries(list) \ ToSet(list[b])) \cup ToSet(s)
  <2>1a. PICK c \in 0 .. n - 1 : \E i \in 1 .. Len(new[c]) : new[c][i] = e
    BY EntriesAre
  <2>1. PICK i \in 1 .. Len(new[c]) : new[c][i] = e
    BY <2>1a
  <2>2. CASE c = b
    <3>1. i \in DOMAIN s
      BY <1>2, <2>1, <2>2 DEF FitsIn
    <3> QED BY <1>2, <2>1, <2>2, <3>1 DEF ToSet
  <2>3. CASE c # b
    <3>1. new[c] = list[c] /\ i \in 1 .. Len(list[c]) /\ list[c][i] = e
      BY <1>2, <2>1, <2>3
    <3>2. e \in Entries(list) /\ KeyHash[keyOf[e]] % n = c
      BY <3>1, EntriesAre DEF WellFiled
    <3>3. ASSUME e \in ToSet(list[b]) PROVE FALSE
      <4>1. PICK j \in 1 .. Len(list[b]) : list[b][j] = e
        BY <3>3, ChainsAre DEF ToSet
      <4>2. KeyHash[keyOf[e]] % n = b
        BY <4>1 DEF WellFiled
      <4> QED BY <2>3, <3>2, <4>2
    <3> QED BY <3>2, <3>3
  <2> QED BY <2>2, <2>3
<1>6. ASSUME NEW e \in Entries(list) \ ToSet(list[b]) PROVE e \in Entries(new)
  <2>1. PICK c \in 0 .. n - 1 : e \in ToSet(list[c])
    BY <1>3, <1>6 DEF Entries
  <2>2. c # b
    BY <1>6, <2>1
  <2>3. e \in ToSet(new[c])
    BY <1>2, <2>1, <2>2
  <2> QED BY <1>3, <2>3 DEF Entries
<1>7. ToSet(s) \subseteq Entries(new)
  BY <1>2, <1>3 DEF Entries
<1> QED BY <1>4, <1>5, <1>6, <1>7

\* A table by its parts.
LEMMA TableIs ==
  ASSUME NEW t \in Handles
  PROVE  /\ t.length \in Nat \ {0} /\ t.elems \in Int /\ t.list \in Lists(t.length)
         /\ \A k \in TableKey : /\ Bucket(t, k) \in 0 .. t.length - 1 /\ Chain(t, k) \in Seq(Cell)
                         /\ Len(Chain(t, k)) \in Nat /\ DOMAIN Chain(t, k) = 1 .. Len(Chain(t, k))
<1>1. t.length \in Nat \ {0} /\ t.elems \in Int /\ t.list \in Lists(t.length)
  BY DEF Handles
<1>2. ASSUME NEW k \in TableKey
      PROVE  /\ Bucket(t, k) \in 0 .. t.length - 1 /\ Chain(t, k) \in Seq(Cell)
             /\ Len(Chain(t, k)) \in Nat /\ DOMAIN Chain(t, k) = 1 .. Len(Chain(t, k))
  <2>1. Bucket(t, k) \in 0 .. t.length - 1
    BY <1>1, BucketIs DEF Bucket
  <2> QED BY <1>1, <2>1, ChainsAre DEF Chain
<1> QED BY <1>1, <1>2

\* The search finds the entry with the key.
LEMMA FindIs ==
  ASSUME NEW t \in Handles, NEW keyOf, WellFiled(t.list, t.length, keyOf), NEW k \in TableKey
  PROVE  LET i == FindPointer(t, keyOf, k)
         IN  /\ i \in 0 .. Len(Chain(t, k))
             /\ i # 0 => keyOf[Chain(t, k)[i]] = k /\ Chain(t, k)[i] \in Entries(t.list)
             /\ i = 0 => \A e \in Entries(t.list) : keyOf[e] # k
<1> DEFINE chain == Chain(t, k)
           I == {i \in 1 .. Len(chain) : KeyHash[keyOf[chain[i]]] = KeyHash[k] /\ keyOf[chain[i]] = k}
           i == FindPointer(t, keyOf, k)
<1>1. t.length \in Nat \ {0} /\ t.list \in Lists(t.length) /\ Bucket(t, k) \in 0 .. t.length - 1 /\ Len(chain) \in Nat
  BY TableIs
<1>2. i = IF I # {} THEN Min(I) ELSE 0
  BY DEF FindPointer, SelectInSeq
<1>3. I # {} => Min(I) \in I
  <2>1. IsFiniteSet(1 .. Len(chain))
    BY <1>1, FS_Interval
  <2>2. I \in SUBSET (1 .. Len(chain)) /\ I \subseteq Nat
    OBVIOUS
  <2> HIDE DEF I
  <2> QED BY <2>1, <2>2, FS_Subset, MinIs
<1>4. ASSUME i # 0 PROVE i \in 1 .. Len(chain) /\ keyOf[chain[i]] = k /\ chain[i] \in Entries(t.list)
  <2>1. i \in I
    <3> HIDE DEF I
    <3> QED BY <1>2, <1>3, <1>4
  <2>2. i \in 1 .. Len(chain) /\ keyOf[chain[i]] = k
    BY <2>1
  <2> QED BY <1>1, <2>2, EntriesAre DEF Chain
<1>5. ASSUME i = 0, NEW e \in Entries(t.list), keyOf[e] = k PROVE FALSE
  <2>1. PICK j \in 1 .. Len(chain) : chain[j] = e
    <3>1. \E j \in 1 .. Len(t.list[KeyHash[keyOf[e]] % t.length]) : t.list[KeyHash[keyOf[e]] % t.length][j] = e
      BY <1>1, EntryInChain
    <3> QED BY <1>5, <3>1 DEF Chain, Bucket
  <2>2. j \in I
    BY <1>5, <2>1
  <2>3. Min(I) \in I
    <3> HIDE DEF I
    <3> QED BY <1>3, <2>2
  <2>4. Min(I) # 0
    <3>1. \A m \in I : m # 0
      OBVIOUS
    <3> HIDE DEF I
    <3> QED BY <2>3, <3>1
  <2> HIDE DEF I
  <2> QED BY <1>2, <1>5, <2>2, <2>4
<1> HIDE DEF i, chain
<1>6. i = 0 \/ i \in 1 .. Len(chain)
  BY <1>4
<1>7. i \in 0 .. Len(chain)
  BY <1>1, <1>6
<1> QED BY <1>4, <1>5, <1>7 DEF i, chain

\* A lookup finds the entry with the key, or nothing when there is none.
LEMMA LookupIs ==
  ASSUME NEW t \in Handles, NEW keyOf, WellFiled(t.list, t.length, keyOf), NEW k \in TableKey
  PROVE  /\ LookupHandle(t, keyOf, k) = AtPointer(t, k, FindPointer(t, keyOf, k))
         /\ \A e \in Entries(t.list) : keyOf[e] = k => LookupHandle(t, keyOf, k) = e
         /\ LookupHandle(t, keyOf, k) # NoCell => LookupHandle(t, keyOf, k) \in Entries(t.list) /\ keyOf[LookupHandle(t, keyOf, k)] = k
         /\ LookupHandle(t, keyOf, k) = NoCell <=> FindPointer(t, keyOf, k) = 0
<1> DEFINE i == FindPointer(t, keyOf, k)
           found == LookupHandle(t, keyOf, k)
<1>1. /\ i \in 0 .. Len(Chain(t, k))
      /\ i # 0 => keyOf[Chain(t, k)[i]] = k /\ Chain(t, k)[i] \in Entries(t.list)
      /\ i = 0 => \A e \in Entries(t.list) : keyOf[e] # k
  BY FindIs
<1>2. found = IF i = 0 THEN NoCell ELSE Chain(t, k)[i]
  BY DEF LookupHandle, AtPointer
<1>3. t.length \in Nat \ {0} /\ t.list \in Lists(t.length)
  BY TableIs
<1>4. NoCell \notin Entries(t.list)
  BY <1>3, EntriesAre, CellAssumption
<1> HIDE DEF i, found
<1>5. ASSUME NEW e \in Entries(t.list), keyOf[e] = k PROVE found = e
  <2>1. found \in Entries(t.list) /\ keyOf[found] = k
    BY <1>1, <1>2, <1>5
  <2> QED BY <1>3, <1>5, <2>1, OneEntryPerKey
<1>6. found = AtPointer(t, k, i)
  BY DEF i, found, LookupHandle
<1> QED BY <1>1, <1>2, <1>4, <1>5, <1>6 DEF i, found

\* The entry that was found goes.
LEMMA RemoveIs ==
  ASSUME NEW t, NEW keyOf, Right(t, keyOf), NEW k \in TableKey, FindPointer(t, keyOf, k) # 0
  PROVE  LET new == RemoveHandle(t, k, FindPointer(t, keyOf, k))
         IN  Right(new, keyOf) /\ Entries(new.list) = Entries(t.list) \ {LookupHandle(t, keyOf, k)}
<1> DEFINE i == FindPointer(t, keyOf, k)
           b == Bucket(t, k)
           chain == t.list[b]
           e == chain[i]
           s == RemoveAt(chain, i)
           list == [t.list EXCEPT ![b] = s]
           new == RemoveHandle(t, k, i)
<1>1. t \in Handles /\ WellFiled(t.list, t.length, keyOf) /\ t.elems = Cardinality(Entries(t.list))
  BY DEF Right
<1>2. t.length \in Nat \ {0} /\ t.elems \in Int /\ t.list \in Lists(t.length) /\ b \in 0 .. t.length - 1 /\ chain \in Seq(Cell) /\ Len(chain) \in Nat /\ DOMAIN chain = 1 .. Len(chain)
  BY <1>1, TableIs DEF Chain
<1>3. i \in 1 .. Len(chain) /\ e \in Entries(t.list) /\ LookupHandle(t, keyOf, k) = e
  <2>1. i \in 0 .. Len(chain) /\ i # 0 /\ e \in Entries(t.list)
    BY <1>1, FindIs DEF Chain
  <2> QED BY <1>2, <2>1 DEF LookupHandle, AtPointer, Chain
<1>4. new = [t EXCEPT !.list = list, !.elems = t.elems - 1]
  BY DEF RemoveHandle
<1> HIDE DEF new, i
<1>5. IsInjective(chain)
  BY <1>1, <1>2 DEF WellFiled, IsInjective
<1>6. s \in Seq(Cell) /\ ToSet(s) = ToSet(chain) \ {e}
  BY <1>2, <1>3, <1>5, RemoveAtIs, RemoveAtLeaves
<1>7. Len(s) = Len(chain) - 1 /\ \A j \in 1 .. Len(chain) - 1 : s[j] = IF j < i THEN chain[j] ELSE chain[j + 1]
  BY <1>2, <1>3, RemoveAtIs
<1> DEFINE At(j) == IF j < i THEN j ELSE j + 1
<1>8. \A j \in 1 .. Len(s) : At(j) \in 1 .. Len(chain) /\ s[j] = chain[At(j)]
  BY <1>2, <1>7
<1>16. \A p, q \in 1 .. Len(chain) : keyOf[chain[p]] = keyOf[chain[q]] => p = q
  BY <1>1, <1>2 DEF WellFiled
<1> HIDE DEF s, chain, b, e
<1>9. \A j \in 1 .. Len(s) : KeyHash[keyOf[s[j]]] % t.length = b
  <2> HIDE DEF At
  <2> QED BY <1>1, <1>2, <1>8 DEF WellFiled, chain
<1>10. ASSUME NEW j \in 1 .. Len(s), NEW l \in 1 .. Len(s), keyOf[s[j]] = keyOf[s[l]] PROVE j = l
  <2>1. At(j) = At(l)
    <3> HIDE DEF At
    <3> QED BY <1>8, <1>10, <1>16
  <2> QED BY <1>2, <1>3, <1>7, <2>1
<1>11. list \in Lists(t.length) /\ WellFiled(list, t.length, keyOf) /\ Entries(list) = (Entries(t.list) \ ToSet(chain)) \cup ToSet(s)
  <2>1. \A j, l \in 1 .. Len(s) : keyOf[s[j]] = keyOf[s[l]] => j = l
    BY <1>10
  <2>2. list \in Lists(t.length) /\ list[b] = s /\ SameBut(t.list, list, b, t.length)
    BY <1>2, <1>6 DEF Lists, SameBut
  <2>4. FitsIn(s, b, t.length, keyOf)
    BY <1>6, <1>9, <2>1 DEF FitsIn
  <2> HIDE DEF list
  <2>3. WellFiled(list, t.length, keyOf) /\ Entries(list) = (Entries(t.list) \ ToSet(t.list[b])) \cup ToSet(s)
    BY <1>1, <1>2, <2>2, <2>4, ChainChanged
  <2> QED BY <2>2, <2>3 DEF chain
<1>12. Entries(list) = Entries(t.list) \ {e}
  <2>1. e \in ToSet(chain)
    BY <1>2, <1>3 DEF e, ToSet
  <2>2. ToSet(chain) \subseteq Entries(t.list)
    BY <1>2, ChainsAre DEF chain, Entries
  <2> QED BY <1>6, <1>11, <2>1, <2>2
<1>13. Cardinality(Entries(list)) = t.elems - 1
  <2>1. IsFiniteSet(Entries(t.list))
    BY <1>2, EntriesAre, CellAssumption, FS_Subset
  <2> QED BY <1>1, <1>3, <1>12, <2>1, FS_RemoveElement
<1> HIDE DEF list
<1>14. new \in Handles /\ new.length = t.length /\ new.elems = t.elems - 1 /\ new.list = list
  <2>1. list \in UNION {Lists(m) : m \in Nat} /\ t.elems - 1 \in Int
    BY <1>2, <1>11
  <2> QED BY <1>1, <1>4, <1>11, <2>1 DEF Handles
<1>15. Right(new, keyOf)
  BY <1>11, <1>13, <1>14 DEF Right
<1> QED BY <1>3, <1>12, <1>14, <1>15 DEF new, i

\* An entry with a new key fits in its chain, before or behind the others.
LEMMA OneMoreFits ==
  ASSUME NEW n \in Nat \ {0}, NEW list \in Lists(n), NEW keyOf, WellFiled(list, n, keyOf),
         NEW e \in Cell, keyOf[e] \in TableKey, Lacks(list, keyOf, keyOf[e]),
         NEW b, b = Place(n, keyOf, e)
  PROVE  /\ b \in 0 .. n - 1
         /\ FitsIn(Append(list[b], e), b, n, keyOf) /\ FitsIn(<<e>> \o list[b], b, n, keyOf)
<1> DEFINE chain == list[b]
           a == Append(chain, e)
           p == <<e>> \o chain
<1>0. b = KeyHash[keyOf[e]] % n
  BY DEF Place
<1>1. b \in 0 .. n - 1
  BY <1>0, BucketIs
<1>2. chain \in Seq(Cell) /\ Len(chain) \in Nat /\ DOMAIN chain = 1 .. Len(chain)
  BY <1>1, ChainsAre
<1>3. /\ \A i \in 1 .. Len(chain) : KeyHash[keyOf[chain[i]]] % n = b /\ keyOf[chain[i]] # keyOf[e]
      /\ \A i, j \in 1 .. Len(chain) : keyOf[chain[i]] = keyOf[chain[j]] => i = j
  <2>1. \A i \in 1 .. Len(chain) : chain[i] \in Entries(list)
    BY <1>1, EntriesAre
  <2> QED BY <1>1, <2>1 DEF WellFiled, Lacks
<1>4. /\ a \in Seq(Cell) /\ Len(a) = Len(chain) + 1 /\ DOMAIN a = 1 .. Len(chain) + 1
      /\ \A i \in 1 .. Len(chain) + 1 : a[i] = IF i <= Len(chain) THEN chain[i] ELSE e
  BY <1>2, AppendIs
<1>5. /\ p \in Seq(Cell) /\ Len(p) = Len(chain) + 1 /\ DOMAIN p = 1 .. Len(chain) + 1
      /\ \A i \in 1 .. Len(chain) + 1 : p[i] = IF i = 1 THEN e ELSE chain[i - 1]
  BY <1>2, PushFrontIs
<1> HIDE DEF chain, a, p
<1>6. FitsIn(a, b, n, keyOf)
  <2>1. ASSUME NEW i \in 1 .. Len(a) PROVE KeyHash[keyOf[a[i]]] % n = b
    <3>1. CASE i <= Len(chain)
      BY <1>2, <1>3, <1>4, <3>1
    <3>2. CASE ~(i <= Len(chain))
      BY <1>0, <1>2, <1>4, <3>2
    <3> QED BY <3>1, <3>2
  <2>2. ASSUME NEW i \in 1 .. Len(a), NEW j \in 1 .. Len(a), keyOf[a[i]] = keyOf[a[j]] PROVE i = j
    <3>1. i \in 1 .. Len(chain) + 1 /\ j \in 1 .. Len(chain) + 1
      BY <1>4
    <3>2. (i \in 1 .. Len(chain) /\ a[i] = chain[i]) \/ (i = Len(chain) + 1 /\ a[i] = e)
      BY <1>2, <1>4, <3>1
    <3>3. (j \in 1 .. Len(chain) /\ a[j] = chain[j]) \/ (j = Len(chain) + 1 /\ a[j] = e)
      BY <1>2, <1>4, <3>1
    <3> QED BY <1>3, <2>2, <3>2, <3>3
  <2> QED BY <1>4, <2>1, <2>2 DEF FitsIn
<1>7. FitsIn(p, b, n, keyOf)
  <2> DEFINE At(i) == i - 1
  <2>0. \A i \in 1 .. Len(p) : (At(i) \in 1 .. Len(chain) /\ p[i] = chain[At(i)]) \/ (i = 1 /\ p[i] = e)
    BY <1>2, <1>5
  <2>1. ASSUME NEW i \in 1 .. Len(p) PROVE KeyHash[keyOf[p[i]]] % n = b
    <3> HIDE DEF At
    <3> QED BY <1>0, <1>3, <2>0
  <2>2. ASSUME NEW i \in 1 .. Len(p), NEW j \in 1 .. Len(p), keyOf[p[i]] = keyOf[p[j]] PROVE i = j
    <3>1. At(i) = At(j) \/ i = j
      <4> HIDE DEF At
      <4> QED BY <1>3, <2>0, <2>2
    <3> QED BY <1>2, <1>5, <3>1
  <2> QED BY <1>5, <2>1, <2>2 DEF FitsIn
<1> QED BY <1>1, <1>6, <1>7 DEF chain, a, p

\* An entry that takes the place of the one with its key fits.
LEMMA ReplacedFits ==
  ASSUME NEW n \in Nat \ {0}, NEW list \in Lists(n), NEW keyOf, WellFiled(list, n, keyOf),
         NEW e \in Cell, NEW b \in 0 .. n - 1, NEW i \in 1 .. Len(list[b]), keyOf[list[b][i]] = keyOf[e]
  PROVE  /\ FitsIn(Replaced(list[b], i, e), b, n, keyOf)
         /\ ToSet(Replaced(list[b], i, e)) = (ToSet(list[b]) \ {list[b][i]}) \cup {e}
<1> DEFINE chain == list[b]
           s == Replaced(chain, i, e)
<1>1. chain \in Seq(Cell) /\ Len(chain) \in Nat /\ DOMAIN chain = 1 .. Len(chain)
  BY ChainsAre
<1>2. /\ \A j \in 1 .. Len(chain) : KeyHash[keyOf[chain[j]]] % n = b
      /\ \A j, l \in 1 .. Len(chain) : keyOf[chain[j]] = keyOf[chain[l]] => j = l
  BY DEF WellFiled
<1>3. i \in 1 .. Len(chain) /\ keyOf[chain[i]] = keyOf[e] /\ s = [chain EXCEPT ![i] = e]
  BY DEF Replaced
<1> HIDE DEF chain, s
<1>4. s \in Seq(Cell) /\ Len(s) = Len(chain) /\ DOMAIN s = 1 .. Len(chain)
  <2>1. \A j \in 1 .. Len(chain) : chain[j] \in Cell
    BY <1>1
  <2>2. s = [j \in 1 .. Len(chain) |-> IF j = i THEN e ELSE chain[j]]
    BY <1>1, <1>3
  <2>3. \A j \in 1 .. Len(chain) : s[j] \in Cell
    BY <2>1, <2>2
  <2>4. s \in Seq(Cell)
    <3>1. s \in [1 .. Len(chain) -> Cell]
      BY <2>2, <2>3
    <3>2. [1 .. Len(chain) -> Cell] \subseteq Seq(Cell)
      BY <1>1, SeqDef
    <3> QED BY <3>1, <3>2
  <2>5. DOMAIN s = 1 .. Len(chain)
    BY <2>2
  <2> QED BY <1>1, <2>4, <2>5
<1>5. \A j \in 1 .. Len(chain) : s[j] = IF j = i THEN e ELSE chain[j]
  BY <1>1, <1>3
<1>6. \A j \in 1 .. Len(chain) : keyOf[s[j]] = keyOf[chain[j]]
  BY <1>3, <1>5
<1>7. FitsIn(s, b, n, keyOf)
  BY <1>2, <1>4, <1>6 DEF FitsIn
<1>8. \A j \in 1 .. Len(chain) : chain[j] = chain[i] => j = i
  BY <1>2, <1>3
<1>9. ToSet(s) = (ToSet(chain) \ {chain[i]}) \cup {e}
  BY <1>1, <1>3, <1>4, <1>5, <1>8 DEF ToSet
<1> QED BY <1>7, <1>9 DEF chain, s

\* An entry that goes to the front of its chain leaves the others where they are.
LEMMA PushIs ==
  ASSUME NEW n \in Nat \ {0}, NEW list \in Lists(n), NEW keyOf, NEW e \in Cell, keyOf[e] \in TableKey
  PROVE  /\ Pushed(list, keyOf, n, e) \in Lists(n)
         /\ WellFiled(list, n, keyOf) /\ Lacks(list, keyOf, keyOf[e])
            => WellFiled(Pushed(list, keyOf, n, e), n, keyOf) /\ Entries(Pushed(list, keyOf, n, e)) = Entries(list) \cup {e}
<1> DEFINE b == KeyHash[keyOf[e]] % n
           s == <<e>> \o list[b]
           new == Pushed(list, keyOf, n, e)
<1>1. b \in 0 .. n - 1 /\ list[b] \in Seq(Cell)
  BY BucketIs, ChainsAre
<1>2. s \in Seq(Cell)
  <2>1. <<e>> \in Seq(Cell)
    OBVIOUS
  <2> QED BY <1>1, <2>1, ConcatProperties
<1>3. new = [list EXCEPT ![b] = s]
  BY DEF Pushed
<1>4. new \in Lists(n) /\ new[b] = s /\ SameBut(list, new, b, n)
  <2> HIDE DEF b, s, new
  <2> QED BY <1>1, <1>2, <1>3 DEF Lists, SameBut
<1>5. ASSUME WellFiled(list, n, keyOf), Lacks(list, keyOf, keyOf[e])
      PROVE  WellFiled(new, n, keyOf) /\ Entries(new) = Entries(list) \cup {e}
  <2>1. FitsIn(s, b, n, keyOf) /\ ToSet(s) = ToSet(list[b]) \cup {e}
    <3>1. b = Place(n, keyOf, e)
      BY DEF Place
    <3> HIDE DEF b
    <3>2. FitsIn(s, b, n, keyOf)
      BY <1>5, <3>1, OneMoreFits
    <3>3. ToSet(s) = ToSet(list[b]) \cup {e}
      BY <1>1, PushFrontIs
    <3> QED BY <3>2, <3>3
  <2>2. ToSet(list[b]) \subseteq Entries(list)
    BY <1>1, ChainsAre DEF Entries
  <2> HIDE DEF b, s, new
  <2>3. WellFiled(new, n, keyOf) /\ Entries(new) = (Entries(list) \ ToSet(list[b])) \cup ToSet(new[b])
    BY <1>1, <1>4, <1>5, <2>1, ChainChanged
  <2> QED BY <1>4, <2>1, <2>2, <2>3
<1> QED BY <1>4, <1>5

\* The entries of a chain are pushed one after the other.
LEMMA MoveIs ==
  ASSUME NEW n \in Nat \ {0}, NEW list \in Lists(n), NEW keyOf \in [Cell -> TableKey], NEW chain \in Seq(Cell)
  PROVE  LET new == Moved(list, keyOf, n, chain)
         IN  /\ new \in Lists(n)
             /\ /\ WellFiled(list, n, keyOf)
                /\ \A i, j \in 1 .. Len(chain) : keyOf[chain[i]] = keyOf[chain[j]] => i = j
                /\ \A d \in Entries(list), i \in 1 .. Len(chain) : keyOf[d] # keyOf[chain[i]]
                => WellFiled(new, n, keyOf) /\ Entries(new) = Entries(list) \cup ToSet(chain)
<1> DEFINE W == Lists(n)
           L == Len(chain)
           step == [i \in 1 .. L |-> [w \in W |-> Pushed(w, keyOf, n, chain[i])]]
           Is(g) == g = [t \in SUBSET (DOMAIN chain) |-> IF t = {} THEN list ELSE Pushed(g[t \ {Max(t)}], keyOf, n, chain[Max(t)])]
           g == CHOOSE x : Is(x)
<1>1. L \in Nat /\ DOMAIN chain = 1 .. L /\ \A i \in 1 .. L : chain[i] \in Cell /\ keyOf[chain[i]] \in TableKey
  BY ElementOfSeq
<1>2. step \in [1 .. L -> [W -> W]] /\ list \in W
  <2>1. \A i \in 1 .. L, w \in W : Pushed(w, keyOf, n, chain[i]) \in W
    BY <1>1, PushIs
  <2> HIDE DEF W, L
  <2> QED BY <2>1 DEF W
<1>3. Moved(list, keyOf, n, chain) = g[DOMAIN chain]
  BY DEF Moved, FoldLeft, MapThenFoldSet
<1>4. \A t \in SUBSET (1 .. L) : t # {} => Max(t) \in 1 .. L
  BY <1>1, MaxIs
<1>5. Is(g)
  <2>1. PICK f \in [SUBSET (1 .. L) -> W] : Folds(f, 1 .. L, list, step)
    <3> HIDE DEF W, step, L
    <3> QED BY <1>1, <1>2, FoldExists
  <2>2. ASSUME NEW t \in SUBSET (1 .. L), t # {} PROVE step[Max(t)][f[t \ {Max(t)}]] = Pushed(f[t \ {Max(t)}], keyOf, n, chain[Max(t)])
    <3>1. f[t \ {Max(t)}] \in W
      <4> HIDE DEF W
      <4> QED BY <2>1, <2>2
    <3> HIDE DEF W, L
    <3> QED BY <1>4, <2>2, <3>1
  <2>3. Is(f)
    <3> HIDE DEF step, L
    <3> QED BY <1>1, <2>1, <2>2 DEF Folds
  <2> HIDE DEF Is
  <2> QED BY <2>3
<1>6. Follows(g, L, W, list, step)
  <2>1. g[{}] = list
    <3> HIDE DEF g
    <3> QED BY <1>5
  <2>2. ASSUME NEW t \in SUBSET (1 .. L), t # {}, g[t \ {Max(t)}] \in W PROVE g[t] = step[Max(t)][g[t \ {Max(t)}]]
    <3>1. step[Max(t)][g[t \ {Max(t)}]] = Pushed(g[t \ {Max(t)}], keyOf, n, chain[Max(t)])
      <4> HIDE DEF g, W, L
      <4> QED BY <1>4, <2>2
    <3> HIDE DEF g, step, L
    <3> QED BY <1>1, <1>5, <2>2, <3>1
  <2> HIDE DEF g, step, W, L
  <2> QED BY <2>1, <2>2 DEF Follows
<1>7. /\ g[1 .. 0] = list /\ \A i \in 0 .. L : g[1 .. i] \in W
      /\ \A i \in 0 .. L - 1 : g[1 .. i + 1] = step[i + 1][g[1 .. i]]
  <2> HIDE DEF g, step, W, L
  <2>1. FoldSteps(g, L, W, list, step)
    BY <1>1, <1>2, <1>6, FoldFollows
  <2> QED BY <2>1 DEF FoldSteps
<1>8. \A i \in 0 .. L - 1 : i + 1 \in 1 .. L
  BY <1>1
<1>9. \A i \in 0 .. L - 1 : g[1 .. i + 1] = Pushed(g[1 .. i], keyOf, n, chain[i + 1])
  <2>1. \A i \in 0 .. L - 1 : i \in 0 .. L
    BY <1>1
  <2>2. \A j \in 1 .. L, w \in W : step[j][w] = Pushed(w, keyOf, n, chain[j])
    <3> HIDE DEF W, L
    <3> QED OBVIOUS
  <2> HIDE DEF g, step, W, L
  <2> QED BY <1>7, <1>8, <2>1, <2>2
<1>10. g[1 .. L] \in W
  <2>1. L \in 0 .. L
    BY <1>1
  <2> HIDE DEF g, W, L
  <2> QED BY <1>7, <2>1
<1>11. ASSUME WellFiled(list, n, keyOf),
              \A i, j \in 1 .. L : keyOf[chain[i]] = keyOf[chain[j]] => i = j,
              \A d \in Entries(list), i \in 1 .. L : keyOf[d] # keyOf[chain[i]]
       PROVE  WellFiled(g[1 .. L], n, keyOf) /\ Entries(g[1 .. L]) = Entries(list) \cup ToSet(chain)
  <2> DEFINE Some(i) == Entries(list) \cup {chain[j] : j \in 1 .. i}
             Good == {i \in 0 .. L : WellFiled(g[1 .. i], n, keyOf) /\ Entries(g[1 .. i]) = Some(i)}
  <2>1. 0 \in Good
    <3>1. 0 \in 0 .. L
      BY <1>1
    <3>2. Some(0) = Entries(list)
      OBVIOUS
    <3> HIDE DEF g, L, Some
    <3> QED BY <1>7, <1>11, <3>1, <3>2
  <2>2. ASSUME NEW i \in 0 .. L - 1, i \in Good PROVE i + 1 \in Good
    <3> DEFINE w == g[1 .. i]
               v == g[1 .. i + 1]
               e == chain[i + 1]
    <3>1. i \in 0 .. L /\ i + 1 \in 1 .. L /\ i + 1 \in 0 .. L /\ \A j \in 1 .. i : j \in 1 .. L /\ j # i + 1
      BY <1>1
    <3>2. w \in Lists(n) /\ v = Pushed(w, keyOf, n, e) /\ e \in Cell /\ keyOf[e] \in TableKey
      <4> HIDE DEF g, L
      <4> QED BY <1>1, <1>7, <1>9, <3>1
    <3>3. WellFiled(w, n, keyOf) /\ Entries(w) = Some(i)
      <4> HIDE DEF g, L, Some
      <4> QED BY <2>2
    <3> HIDE DEF g, w, v, L
    <3>4. Lacks(w, keyOf, keyOf[e])
      BY <1>11, <3>1, <3>3 DEF Lacks
    <3>5. WellFiled(v, n, keyOf) /\ Entries(v) = Entries(w) \cup {e}
      <4> HIDE DEF e
      <4> QED BY <3>2, <3>3, <3>4, PushIs
    <3>6. Some(i + 1) = Some(i) \cup {e}
      <4>1. 1 .. i + 1 = (1 .. i) \cup {i + 1}
        BY <3>1
      <4> QED BY <4>1
    <3> HIDE DEF Some
    <3> QED BY <3>1, <3>3, <3>5, <3>6 DEF v
  <2>3. L \in Good
    <3>1. \A i \in 0 .. L : i \in Good
      <4> HIDE DEF Good, L
      <4> QED BY <1>1, <2>1, <2>2, UpTo
    <3>2. L \in 0 .. L
      BY <1>1
    <3> HIDE DEF Good, L
    <3> QED BY <3>1, <3>2
  <2>4. Some(L) = Entries(list) \cup ToSet(chain)
    <3> HIDE DEF L
    <3> QED BY <1>1 DEF ToSet
  <2> HIDE DEF g, L, Some
  <2> QED BY <2>3, <2>4
<1>12. Moved(list, keyOf, n, chain) = g[1 .. L]
  <2> HIDE DEF g, L
  <2> QED BY <1>1, <1>3
<1> HIDE DEF g
<1> QED BY <1>10, <1>11, <1>12

\* There are n empty chains.
LEMMA EmptyIs ==
  ASSUME NEW n \in Nat, NEW keyOf
  PROVE  EmptyChains(n) \in Lists(n) /\ WellFiled(EmptyChains(n), n, keyOf) /\ Entries(EmptyChains(n)) = {}
<1>1. \A b \in 0 .. n - 1 : EmptyChains(n)[b] = <<>>
  BY DEF EmptyChains
<1>2. EmptyChains(n) \in Lists(n)
  BY DEF EmptyChains, Lists
<1>3. <<>> \in Seq(Cell) /\ Len(<<>>) = 0 /\ \A i \in 1 .. 0 : FALSE
  OBVIOUS
<1>4. WellFiled(EmptyChains(n), n, keyOf)
  BY <1>1, <1>3 DEF WellFiled
<1>5. ASSUME NEW e \in Entries(EmptyChains(n)) PROVE FALSE
  <2>1. PICK b \in 0 .. n - 1 : \E i \in 1 .. Len(EmptyChains(n)[b]) : EmptyChains(n)[b][i] = e
    BY <1>2, EntriesAre
  <2> QED BY <1>1, <1>3, <2>1
<1> QED BY <1>2, <1>4, <1>5

\* A rehash keeps the entries.
LEMMA RehashIs ==
  ASSUME NEW t, NEW keyOf \in [Cell -> TableKey], Right(t, keyOf), NEW n \in Nat \ {0}
  PROVE  Right(Rehashed(t, keyOf, n), keyOf) /\ Entries(Rehashed(t, keyOf, n).list) = Entries(t.list)
<1> DEFINE W == Lists(n)
           L == t.length
           old == t.list
           base == EmptyChains(n)
           s == [i \in 1 .. L |-> old[i - 1]]
           step == [i \in 1 .. L |-> [w \in W |-> Moved(w, keyOf, n, s[i])]]
           Is(g) == g = [u \in SUBSET (DOMAIN s) |-> IF u = {} THEN base ELSE Moved(g[u \ {Max(u)}], keyOf, n, s[Max(u)])]
           g == CHOOSE x : Is(x)
<1>1. t \in Handles /\ WellFiled(old, L, keyOf) /\ t.elems = Cardinality(Entries(old)) /\ L \in Nat \ {0} /\ old \in Lists(L)
  BY TableIs DEF Right
<1>2. \A i \in 1 .. L : i - 1 \in 0 .. L - 1 /\ s[i] = old[i - 1] /\ s[i] \in Seq(Cell)
  <2>1. \A i \in 1 .. L : i - 1 \in 0 .. L - 1
    BY <1>1
  <2> QED BY <1>1, <2>1, ChainsAre
<1>3. DOMAIN s = 1 .. L
  OBVIOUS
<1>4. base \in W /\ WellFiled(base, n, keyOf) /\ Entries(base) = {}
  BY EmptyIs
<1>5. Rehashed(t, keyOf, n) = [t EXCEPT !.length = n, !.list = g[DOMAIN s]]
  BY DEF Rehashed, FoldLeft, MapThenFoldSet
<1> HIDE DEF s
<1>6. step \in [1 .. L -> [W -> W]]
  <2>1. \A i \in 1 .. L, w \in W : Moved(w, keyOf, n, s[i]) \in W
    BY <1>2, MoveIs
  <2> HIDE DEF W, L
  <2> QED BY <2>1 DEF W
<1> HIDE DEF base, L, old
<1>7. \A u \in SUBSET (1 .. L) : u # {} => Max(u) \in 1 .. L
  BY <1>1, MaxIs
<1>8. Is(g)
  <2>1. PICK f \in [SUBSET (1 .. L) -> W] : Folds(f, 1 .. L, base, step)
    <3> HIDE DEF W, step
    <3> QED BY <1>1, <1>4, <1>6, FoldExists
  <2>2. ASSUME NEW u \in SUBSET (1 .. L), u # {} PROVE step[Max(u)][f[u \ {Max(u)}]] = Moved(f[u \ {Max(u)}], keyOf, n, s[Max(u)])
    <3>1. f[u \ {Max(u)}] \in W
      <4> HIDE DEF W
      <4> QED BY <2>1, <2>2
    <3> HIDE DEF W
    <3> QED BY <1>7, <2>2, <3>1
  <2>3. Is(f)
    <3> HIDE DEF step
    <3> QED BY <1>3, <2>1, <2>2 DEF Folds
  <2> HIDE DEF Is
  <2> QED BY <2>3
<1>9. Follows(g, L, W, base, step)
  <2>1. g[{}] = base
    <3> HIDE DEF g
    <3> QED BY <1>8
  <2>2. ASSUME NEW u \in SUBSET (1 .. L), u # {}, g[u \ {Max(u)}] \in W PROVE g[u] = step[Max(u)][g[u \ {Max(u)}]]
    <3>1. step[Max(u)][g[u \ {Max(u)}]] = Moved(g[u \ {Max(u)}], keyOf, n, s[Max(u)])
      <4> HIDE DEF g, W
      <4> QED BY <1>7, <2>2
    <3> HIDE DEF g, step
    <3> QED BY <1>3, <1>8, <2>2, <3>1
  <2> HIDE DEF g, step, W
  <2> QED BY <2>1, <2>2 DEF Follows
<1>10. /\ g[1 .. 0] = base /\ \A i \in 0 .. L : g[1 .. i] \in W
       /\ \A i \in 0 .. L - 1 : g[1 .. i + 1] = step[i + 1][g[1 .. i]]
  <2> HIDE DEF g, step, W
  <2>1. FoldSteps(g, L, W, base, step)
    BY <1>1, <1>4, <1>6, <1>9, FoldFollows
  <2> QED BY <2>1 DEF FoldSteps
<1>11. \A i \in 0 .. L - 1 : i + 1 \in 1 .. L /\ i \in 0 .. L /\ i + 1 \in 0 .. L /\ (i + 1) - 1 = i
  BY <1>1
<1>12. \A i \in 0 .. L - 1 : g[1 .. i + 1] = Moved(g[1 .. i], keyOf, n, old[i])
  <2>1. \A j \in 1 .. L, w \in W : step[j][w] = Moved(w, keyOf, n, s[j])
    <3> HIDE DEF W
    <3> QED OBVIOUS
  <2>2. \A i \in 0 .. L - 1 : s[i + 1] = old[i]
    BY <1>2, <1>11
  <2> HIDE DEF g, step, W
  <2> QED BY <1>10, <1>11, <2>1, <2>2
<1> DEFINE Moved1(i) == UNION {ToSet(old[b]) : b \in 0 .. i - 1}
           Good == {i \in 0 .. L : WellFiled(g[1 .. i], n, keyOf) /\ Entries(g[1 .. i]) = Moved1(i)}
<1>13. 0 \in Good
  <2>1. Moved1(0) = {} /\ 0 \in 0 .. L
    BY <1>1
  <2> HIDE DEF g, Moved1
  <2> QED BY <1>4, <1>10, <2>1
<1>14. ASSUME NEW i \in 0 .. L - 1, i \in Good PROVE i + 1 \in Good
  <2> DEFINE w == g[1 .. i]
             v == g[1 .. i + 1]
             chain == old[i]
  <2>1. w \in Lists(n) /\ v = Moved(w, keyOf, n, chain) /\ chain \in Seq(Cell) /\ DOMAIN chain = 1 .. Len(chain)
    <3> HIDE DEF g
    <3> QED BY <1>1, <1>10, <1>11, <1>12, ChainsAre
  <2>2. WellFiled(w, n, keyOf) /\ Entries(w) = Moved1(i)
    <3> HIDE DEF g, Moved1
    <3> QED BY <1>14
  <2> HIDE DEF g, w, v
  <2>3. \A j, l \in 1 .. Len(chain) : keyOf[chain[j]] = keyOf[chain[l]] => j = l
    BY <1>1 DEF WellFiled
  <2>4. \A d \in Entries(w), j \in 1 .. Len(chain) : keyOf[d] # keyOf[chain[j]]
    <3> SUFFICES ASSUME NEW d \in Entries(w), NEW j \in 1 .. Len(chain), keyOf[d] = keyOf[chain[j]] PROVE FALSE
      OBVIOUS
    <3>1. PICK b \in 0 .. i - 1 : d \in ToSet(old[b])
      BY <2>2
    <3>2. b \in 0 .. L - 1 /\ b # i
      BY <1>1, <3>1
    <3>3. PICK m \in 1 .. Len(old[b]) : old[b][m] = d
      BY <1>1, <3>1, <3>2, ChainsAre DEF ToSet
    <3>4. KeyHash[keyOf[d]] % L = b
      BY <1>1, <3>2, <3>3 DEF WellFiled
    <3>5. KeyHash[keyOf[chain[j]]] % L = i
      BY <1>1 DEF WellFiled
    <3> QED BY <3>2, <3>4, <3>5
  <2>5. WellFiled(v, n, keyOf) /\ Entries(v) = Entries(w) \cup ToSet(chain)
    <3> HIDE DEF chain
    <3> QED BY <2>1, <2>2, <2>3, <2>4, MoveIs
  <2>6. Moved1(i + 1) = Moved1(i) \cup ToSet(old[i])
    <3>1. 0 .. (i + 1) - 1 = (0 .. i - 1) \cup {i}
      BY <1>11
    <3> QED BY <3>1
  <2> HIDE DEF Moved1
  <2> QED BY <1>11, <2>2, <2>5, <2>6 DEF v, w
<1>15. WellFiled(g[1 .. L], n, keyOf) /\ Entries(g[1 .. L]) = Moved1(L)
  <2>1. \A i \in 0 .. L : i \in Good
    <3> HIDE DEF Good
    <3> QED BY <1>1, <1>13, <1>14, UpTo
  <2>2. L \in 0 .. L
    BY <1>1
  <2> HIDE DEF g, Moved1
  <2> QED BY <2>1, <2>2
<1>16. Moved1(L) = Entries(old)
  BY <1>1, ChainsAre DEF Entries
<1> DEFINE new == Rehashed(t, keyOf, n)
           list == g[1 .. L]
<1>17. list \in Lists(n) /\ WellFiled(list, n, keyOf) /\ Entries(list) = Entries(old)
  <2>1. L \in 0 .. L
    BY <1>1
  <2> HIDE DEF g, Moved1
  <2> QED BY <1>10, <1>15, <1>16, <2>1
<1>18. new = [t EXCEPT !.length = n, !.list = list]
  <2> HIDE DEF g
  <2> QED BY <1>3, <1>5
<1> HIDE DEF list, new
<1>19. new \in Handles /\ new.length = n /\ new.list = list /\ new.elems = t.elems
  <2>1. list \in UNION {Lists(m) : m \in Nat}
    BY <1>17
  <2> QED BY <1>1, <1>17, <1>18, <2>1 DEF Handles
<1> QED BY <1>1, <1>17, <1>19 DEF Right, new, old

\* An injective sequence has as many elements as places.
LEMMA InjectiveCounts ==
  ASSUME NEW S, NEW s \in Seq(S), IsInjective(s)
  PROVE  IsFiniteSet(ToSet(s)) /\ Cardinality(ToSet(s)) = Len(s)
<1>1. Len(s) \in Nat /\ DOMAIN s = 1 .. Len(s) /\ s \in [1 .. Len(s) -> S]
  BY LenProperties
<1>2. IsFiniteSet(1 .. Len(s)) /\ Cardinality(1 .. Len(s)) = Len(s)
  <2>1. IsFiniteSet(1 .. Len(s)) /\ Cardinality(1 .. Len(s)) = IF 1 > Len(s) THEN 0 ELSE Len(s) - 1 + 1
    BY <1>1, FS_Interval
  <2> QED BY <1>1, <2>1
<1>3. s \in Bijection(1 .. Len(s), ToSet(s))
  BY <1>1 DEF ToSet, IsInjective, Bijection, Injection, Surjection
<1>4. ExistsBijection(1 .. Len(s), ToSet(s))
  BY <1>3 DEF ExistsBijection
<1> QED BY <1>2, <1>4, FS_Bijection

\* All chains together have as many places as there are entries.
LEMMA CountedIs ==
  ASSUME NEW n \in Nat \ {0}, NEW list \in Lists(n), NEW keyOf, WellFiled(list, n, keyOf)
  PROVE  Counted(list) = Cardinality(Entries(list))
<1> DEFINE N == 0 .. n - 1
           f == [b \in N |-> Len(list[b])]
           Those(B) == UNION {ToSet(list[b]) : b \in B}
           Good == {B \in SUBSET N : IsFiniteSet(Those(B)) /\ Cardinality(Those(B)) = SumFunctionOnSet(f, B)}
<1>1. IsFiniteSet(N)
  BY FS_Interval
<1>2. \A b \in N : f[b] \in Nat /\ IsFiniteSet(ToSet(list[b])) /\ Cardinality(ToSet(list[b])) = f[b]
  <2> SUFFICES ASSUME NEW b \in N PROVE f[b] \in Nat /\ IsFiniteSet(ToSet(list[b])) /\ Cardinality(ToSet(list[b])) = f[b]
    OBVIOUS
  <2>1. list[b] \in Seq(Cell) /\ Len(list[b]) \in Nat /\ DOMAIN list[b] = 1 .. Len(list[b])
    BY ChainsAre
  <2>2. IsInjective(list[b])
    BY <2>1 DEF WellFiled, IsInjective
  <2>3. f[b] = Len(list[b])
    OBVIOUS
  <2> QED BY <2>1, <2>2, <2>3, InjectiveCounts
<1>3. ASSUME NEW b \in N, NEW c \in N, NEW e \in ToSet(list[b]), e \in ToSet(list[c]) PROVE b = c
  <2>1. PICK i \in 1 .. Len(list[b]) : list[b][i] = e
    BY ChainsAre DEF ToSet
  <2>2. PICK j \in 1 .. Len(list[c]) : list[c][j] = e
    BY <1>3, ChainsAre DEF ToSet
  <2>3. KeyHash[keyOf[e]] % n = b
    BY <2>1 DEF WellFiled
  <2>4. KeyHash[keyOf[e]] % n = c
    BY <2>2 DEF WellFiled
  <2> QED BY <2>3, <2>4
<1>4. ASSUME NEW B \in SUBSET N, \A C \in SUBSET B : C # B => C \in Good PROVE B \in Good
  <2>1. CASE B = {}
    <3>1. Those(B) = {}
      BY <2>1
    <3> HIDE DEF Those, f
    <3> QED BY <2>1, <3>1, FS_EmptySet, SumEmpty
  <2>2. CASE B # {}
    <3>1. PICK b \in B : TRUE
      BY <2>2
    <3> DEFINE C == B \ {b}
               T == Those(C)
               U == ToSet(list[b])
    <3>2. C \in Good /\ b \in N
      BY <1>4, <3>1
    <3>3. IsFiniteSet(T) /\ Cardinality(T) = SumFunctionOnSet(f, C)
      <4> HIDE DEF Those, f, C
      <4> QED BY <3>2
    <3>4. T \cap U = {}
      BY <1>3, <3>2
    <3>5. Those(B) = T \cup U
      BY <3>1
    <3>6. IsFiniteSet(U) /\ Cardinality(U) = f[b] /\ f[b] \in Nat
      <4> HIDE DEF f
      <4> QED BY <1>2, <3>2
    <3>7. IsFiniteSet(B) /\ \A c \in B : f[c] \in Int
      <4> HIDE DEF f, N
      <4>1. IsFiniteSet(B)
        BY <1>1, FS_Subset
      <4> QED BY <1>2, <4>1
    <3>8. SumFunctionOnSet(f, B) = f[b] + SumFunctionOnSet(f, C)
      <4> HIDE DEF f, N, Those
      <4>1. SumFunctionOnSet(f, B) = f[b] + SumFunctionOnSet(f, B \ {b})
        BY <3>1, <3>7, SumRemove
      <4> QED BY <4>1
    <3> HIDE DEF T, U, f, C, Those
    <3>9. IsFiniteSet(T \cup U) /\ Cardinality(T \cup U) = Cardinality(T) + Cardinality(U) - Cardinality(T \cap U)
      BY <3>3, <3>6, FS_Union
    <3>10. Cardinality(T \cap U) = 0
      BY <3>4, FS_EmptySet
    <3>11. Cardinality(T) \in Nat
      BY <3>3, FS_CardinalityType
    <3>12. Cardinality(T \cup U) = Cardinality(T) + Cardinality(U)
      BY <3>6, <3>9, <3>10, <3>11
    <3>13. Cardinality(T \cup U) = SumFunctionOnSet(f, B)
      BY <3>3, <3>6, <3>8, <3>11, <3>12
    <3> QED BY <3>5, <3>9, <3>13
  <2> QED BY <2>1, <2>2
<1>5. N \in Good
  <2>1. \A B \in SUBSET N : B \in Good
    <3> HIDE DEF Good, N
    <3> QED BY <1>1, <1>4, FiniteInduction
  <2> QED BY <2>1
<1>6. Those(N) = Entries(list) /\ DOMAIN list = N
  BY ChainsAre DEF Entries
<1>7. Counted(list) = SumFunctionOnSet(f, N)
  BY <1>6 DEF Counted, SumFunction
<1> HIDE DEF Those, f, N
<1> QED BY <1>5, <1>6, <1>7

\* What holds of a table between the calls is what the container promises.
LEMMA RightFiles ==
  ASSUME NEW t, NEW keyOf \in [Cell -> TableKey], Right(t, keyOf)
  PROVE  Files(t, keyOf)
<1>1. t \in Handles /\ WellFiled(t.list, t.length, keyOf) /\ t.elems = Cardinality(Entries(t.list)) /\ t.length \in Nat \ {0} /\ t.list \in Lists(t.length)
  BY TableIs DEF Right
<1>2. DOMAIN t.list = 0 .. t.length - 1
  BY <1>1, ChainsAre
<1>3. t.elems = Counted(t.list)
  BY <1>1, CountedIs
<1>4. ASSUME NEW b \in DOMAIN t.list, NEW i \in DOMAIN t.list[b] PROVE LookupHandle(t, keyOf, keyOf[t.list[b][i]]) = t.list[b][i]
  <2> DEFINE e == t.list[b][i]
  <2>1. b \in 0 .. t.length - 1 /\ i \in 1 .. Len(t.list[b])
    BY <1>1, <1>2, ChainsAre
  <2>2. e \in Entries(t.list) /\ e \in Cell /\ keyOf[e] \in TableKey
    BY <1>1, <2>1, EntriesAre, ChainsAre
  <2> HIDE DEF e
  <2>3. LookupHandle(t, keyOf, keyOf[e]) = e
    BY <1>1, <2>2, LookupIs
  <2> QED BY <2>3 DEF e
<1> QED BY <1>2, <1>3, <1>4 DEF Files

\* A table grows or stays.
LEMMA GrowIs ==
  ASSUME NEW t, NEW keyOf \in [Cell -> TableKey], Right(t, keyOf), NEW memory
  PROVE  Right(Grown(t, keyOf, memory), keyOf) /\ Entries(Grown(t, keyOf, memory).list) = Entries(t.list)
<1>1. CASE t.elems > t.length /\ memory /\ Counted(t.list) = t.elems
  <2>1. t.elems \in Nat
    BY <1>1, TableIs DEF Right
  <2> QED BY <1>1, <2>1, NewLengthIs, RehashIs DEF Grown
<1>2. CASE ~(t.elems > t.length /\ memory /\ Counted(t.list) = t.elems)
  BY <1>2 DEF Grown
<1> QED BY <1>1, <1>2

\* A new entry takes the place of the one with its key, if there is one.
LEMMA InsertIs ==
  ASSUME NEW t, NEW keyOf \in [Cell -> TableKey], Right(t, keyOf), NEW e \in Cell, e \notin Entries(t.list), NEW memory
  PROVE  LET new == InsertHandle(t, keyOf, e, FindPointer(t, keyOf, keyOf[e]), memory)
         IN  Right(new, keyOf) /\ Entries(new.list) = (Entries(t.list) \ {LookupHandle(t, keyOf, keyOf[e])}) \cup {e}
<1> DEFINE k == keyOf[e]
           i == FindPointer(t, keyOf, k)
           b == Bucket(t, k)
           chain == t.list[b]
           old == LookupHandle(t, keyOf, k)
           new == InsertHandle(t, keyOf, e, i, memory)
<1>1. k \in TableKey /\ k = keyOf[e]
  OBVIOUS
<1>2. t \in Handles /\ WellFiled(t.list, t.length, keyOf) /\ t.elems = Cardinality(Entries(t.list))
  BY DEF Right
<1>3. t.length \in Nat \ {0} /\ t.elems \in Int /\ t.list \in Lists(t.length) /\ b \in 0 .. t.length - 1 /\ chain \in Seq(Cell) /\ Len(chain) \in Nat /\ DOMAIN chain = 1 .. Len(chain)
  BY <1>1, <1>2, TableIs DEF Chain
<1>4. /\ i \in 0 .. Len(chain)
      /\ i # 0 => keyOf[chain[i]] = k /\ chain[i] \in Entries(t.list) /\ old = chain[i]
      /\ i = 0 => Lacks(t.list, keyOf, k) /\ old = NoCell
  BY <1>1, <1>2, FindIs DEF Chain, LookupHandle, AtPointer, Lacks
<1>5. IsFiniteSet(Entries(t.list)) /\ NoCell \notin Entries(t.list) /\ ToSet(chain) \subseteq Entries(t.list)
  <2>1. Entries(t.list) \in SUBSET Cell
    BY <1>3, EntriesAre
  <2> QED BY <1>3, <2>1, ChainsAre, CellAssumption, FS_Subset DEF Entries
<1>6. b = KeyHash[keyOf[e]] % t.length
  BY <1>1 DEF Bucket
<1> HIDE DEF b, i, old
<1>7. CASE i = 0
  <2> DEFINE s == Append(chain, e)
             list == [t.list EXCEPT ![b] = s]
             u == [t EXCEPT !.list = list, !.elems = t.elems + 1]
  <2>1. FitsIn(s, b, t.length, keyOf) /\ ToSet(s) = ToSet(chain) \cup {e}
    <3>1. Lacks(t.list, keyOf, keyOf[e])
      BY <1>1, <1>4, <1>7
    <3> DEFINE n == t.length
               l == t.list
    <3>2. n \in Nat \ {0} /\ l \in Lists(n) /\ WellFiled(l, n, keyOf) /\ e \in Cell /\ keyOf[e] \in TableKey /\ Lacks(l, keyOf, keyOf[e]) /\ b = Place(n, keyOf, e)
      BY <1>1, <1>2, <1>3, <1>6, <3>1 DEF Place
    <3> HIDE DEF n, l
    <3>3. FitsIn(Append(l[b], e), b, n, keyOf)
      BY <3>2, OneMoreFits
    <3>4. ToSet(Append(chain, e)) = ToSet(chain) \cup {e}
      BY <1>3, AppendIs
    <3> QED BY <3>3, <3>4 DEF n, l
  <2>2. new = Grown(u, keyOf, memory)
    <3>1. Bucket(t, keyOf[e]) = b
      BY <1>1 DEF b
    <3>2. ~(i > 0)
      BY <1>7
    <3> QED BY <3>1, <3>2 DEF InsertHandle
  <2>3. list \in Lists(t.length) /\ list[b] = s /\ SameBut(t.list, list, b, t.length)
    <3>1. s \in Seq(Cell)
      BY <2>1 DEF FitsIn
    <3> HIDE DEF s
    <3> QED BY <1>3, <3>1 DEF Lists, SameBut
  <2> HIDE DEF s, list
  <2>4. WellFiled(list, t.length, keyOf) /\ Entries(list) = (Entries(t.list) \ ToSet(chain)) \cup ToSet(s)
    <3>1. Entries(list) = (Entries(t.list) \ ToSet(t.list[b])) \cup ToSet(s) /\ WellFiled(list, t.length, keyOf)
      BY <1>2, <1>3, <2>1, <2>3, ChainChanged
    <3> QED BY <3>1
  <2>5. Entries(list) = Entries(t.list) \cup {e}
    BY <1>5, <2>1, <2>4
  <2>6. Cardinality(Entries(list)) = t.elems + 1
    BY <1>2, <1>5, <2>5, FS_AddElement
  <2>7. u \in Handles /\ u.length = t.length /\ u.list = list /\ u.elems = t.elems + 1
    <3>1. list \in UNION {Lists(m) : m \in Nat} /\ t.elems + 1 \in Int
      BY <1>3, <2>3
    <3> QED BY <1>2, <1>3, <2>3, <3>1 DEF Handles
  <2> HIDE DEF u
  <2>8. Right(u, keyOf)
    BY <2>4, <2>6, <2>7 DEF Right
  <2>9. Right(new, keyOf) /\ Entries(new.list) = Entries(u.list)
    BY <2>2, <2>8, GrowIs
  <2> QED BY <1>4, <1>5, <1>7, <2>5, <2>7, <2>9 DEF i, old
<1>8. CASE i # 0
  <2> DEFINE s == Replaced(chain, i, e)
             list == [t.list EXCEPT ![b] = s]
  <2>0. i > 0 /\ i \in 1 .. Len(chain)
    BY <1>3, <1>4, <1>8
  <2>1. FitsIn(s, b, t.length, keyOf) /\ ToSet(s) = (ToSet(chain) \ {chain[i]}) \cup {e}
    <3> DEFINE n == t.length
               l == t.list
    <3>1. n \in Nat \ {0} /\ l \in Lists(n) /\ WellFiled(l, n, keyOf) /\ e \in Cell /\ b \in 0 .. n - 1 /\ i \in 1 .. Len(l[b]) /\ keyOf[l[b][i]] = keyOf[e]
      BY <1>1, <1>2, <1>3, <1>4, <1>8, <2>0
    <3> HIDE DEF n, l
    <3>2. FitsIn(Replaced(l[b], i, e), b, n, keyOf)
      BY <3>1, ReplacedFits
    <3>3. ToSet(Replaced(l[b], i, e)) = (ToSet(l[b]) \ {l[b][i]}) \cup {e}
      BY <3>1, ReplacedFits
    <3> QED BY <3>2, <3>3 DEF n, l
  <2>2. new = [t EXCEPT !.list = list]
    <3>1. Bucket(t, keyOf[e]) = b
      BY <1>1 DEF b
    <3> QED BY <2>0, <3>1 DEF InsertHandle, Replaced
  <2>3. list \in Lists(t.length) /\ list[b] = s /\ SameBut(t.list, list, b, t.length)
    <3>1. s \in Seq(Cell)
      BY <2>1 DEF FitsIn
    <3> HIDE DEF s
    <3> QED BY <1>3, <3>1 DEF Lists, SameBut
  <2> HIDE DEF s, list, new
  <2>4. WellFiled(list, t.length, keyOf) /\ Entries(list) = (Entries(t.list) \ ToSet(chain)) \cup ToSet(s)
    <3>1. Entries(list) = (Entries(t.list) \ ToSet(t.list[b])) \cup ToSet(s) /\ WellFiled(list, t.length, keyOf)
      BY <1>2, <1>3, <2>1, <2>3, ChainChanged
    <3> QED BY <3>1
  <2>5. chain[i] \in ToSet(chain)
    BY <1>3, <2>0 DEF ToSet
  <2>6. Entries(list) = (Entries(t.list) \ {chain[i]}) \cup {e}
    BY <1>5, <2>1, <2>4, <2>5
  <2>7. Cardinality(Entries(list)) = t.elems
    <3> DEFINE R == Entries(t.list) \ {chain[i]}
    <3>1. IsFiniteSet(R) /\ Cardinality(R) = t.elems - 1
      <4>1. chain[i] \in Entries(t.list) /\ IsFiniteSet(Entries(t.list))
        BY <1>4, <1>5, <1>8
      <4> HIDE DEF chain
      <4> QED BY <1>2, <4>1, FS_RemoveElement
    <3>2. e \notin R /\ Entries(list) = R \cup {e}
      BY <2>6
    <3> HIDE DEF R
    <3>3. Cardinality(Entries(list)) = (t.elems - 1) + 1
      BY <3>1, <3>2, FS_AddElement
    <3> QED BY <1>3, <3>3
  <2>8. new \in Handles /\ new.length = t.length /\ new.list = list /\ new.elems = t.elems
    <3>1. list \in UNION {Lists(m) : m \in Nat}
      BY <1>3, <2>3
    <3> QED BY <1>2, <1>3, <2>2, <2>3, <3>1 DEF Handles
  <2>9. Right(new, keyOf)
    BY <2>4, <2>7, <2>8 DEF Right
  <2> QED BY <1>4, <1>8, <2>6, <2>8, <2>9 DEF i, old, new
<1> QED BY <1>7, <1>8

-----------------------------------------------------------------------------
(***************************************************************************)
(* The shards.                                                             *)
(***************************************************************************)
CellRecord == [key : TableKey, charge : Nat, valid : BOOLEAN, refs : Int, mem : {"free", "live", "unlinked"}]

Containers == [tables : [Shard -> Handles], orders : [Shard -> Seq(Cell)], used : [Shard -> Int], cells : [Cell -> CellRecord]]

\* The types of what a container is made of.
LEMMA ContainerIs ==
  ASSUME NEW c \in Containers
  PROVE  /\ c.tables \in [Shard -> Handles] /\ c.orders \in [Shard -> Seq(Cell)] /\ c.used \in [Shard -> Int] /\ c.cells \in [Cell -> CellRecord]
         /\ KeysOfCells(c) \in [Cell -> TableKey]
         /\ \A e \in Cell : /\ c.cells[e].key \in TableKey /\ c.cells[e].charge \in Nat /\ c.cells[e].valid \in BOOLEAN
                            /\ c.cells[e].refs \in Int /\ c.cells[e].mem \in {"free", "live", "unlinked"}
                            /\ KeysOfCells(c)[e] = c.cells[e].key
                            /\ Home(c, e) \in Shard
         /\ \A k \in TableKey : ShardOf(k) \in Shard
<1>1. c.tables \in [Shard -> Handles] /\ c.orders \in [Shard -> Seq(Cell)] /\ c.used \in [Shard -> Int] /\ c.cells \in [Cell -> CellRecord]
  BY DEF Containers
<1>2. \A e \in Cell : /\ c.cells[e].key \in TableKey /\ c.cells[e].charge \in Nat /\ c.cells[e].valid \in BOOLEAN
                      /\ c.cells[e].refs \in Int /\ c.cells[e].mem \in {"free", "live", "unlinked"}
  BY <1>1 DEF CellRecord
<1>3. \A k \in TableKey : ShardOf(k) \in Shard
  <2>1. ShardCount \in Nat \ {0}
    BY ShardCountAssumption
  <2> QED BY <2>1, BucketIs DEF ShardOf, Shard
<1>4. KeysOfCells(c) \in [Cell -> TableKey] /\ \A e \in Cell : KeysOfCells(c)[e] = c.cells[e].key
  BY <1>2 DEF KeysOfCells
<1> QED BY <1>1, <1>2, <1>3, <1>4 DEF Home

\* The cells other than e.
OtherCells(c, d, e) == \A x \in Cell \ {e} : d.cells[x] = c.cells[x]

\* What taking an entry off the list changes.
LEMMA UnlistedParts ==
  ASSUME NEW c \in Containers, NEW e \in Cell
  PROVE  LET u == Unlisted(c, e)
         IN  /\ u \in Containers /\ u.tables = c.tables /\ u.used = c.used /\ u.cells = c.cells
             /\ u.orders = [c.orders EXCEPT ![Home(c, e)] = RemoveFirst(@, e)]
<1>1. Home(c, e) \in Shard /\ c.orders[Home(c, e)] \in Seq(Cell)
  BY ContainerIs
<1>2. RemoveFirst(c.orders[Home(c, e)], e) \in Seq(Cell)
  BY <1>1, RemoveFirstIs
<1> QED BY <1>1, <1>2 DEF Unlisted, Containers

\* What putting an entry on the list changes.
LEMMA ListedParts ==
  ASSUME NEW c \in Containers, NEW e \in Cell
  PROVE  LET u == Listed(c, e)
         IN  /\ u \in Containers /\ u.tables = c.tables /\ u.used = c.used /\ u.cells = c.cells
             /\ u.orders = [c.orders EXCEPT ![Home(c, e)] = Append(@, e)]
<1>1. Home(c, e) \in Shard /\ c.orders[Home(c, e)] \in Seq(Cell)
  BY ContainerIs
<1>2. Append(c.orders[Home(c, e)], e) \in Seq(Cell)
  BY <1>1
<1> QED BY <1>1, <1>2 DEF Listed, Containers

\* What dropping a reference changes.
LEMMA UnreferencedParts ==
  ASSUME NEW c \in Containers, NEW e \in Cell
  PROVE  LET u == Unreferenced(c, e)
         IN  /\ u \in Containers /\ u.tables = c.tables /\ u.orders = c.orders
             /\ u.used = [c.used EXCEPT ![Home(c, e)] = IF LastUse(c, e) THEN @ - c.cells[e].charge ELSE @]
             /\ OtherCells(c, u, e)
             /\ u.cells[e].key = c.cells[e].key /\ u.cells[e].charge = c.cells[e].charge /\ u.cells[e].valid = c.cells[e].valid
             /\ u.cells[e].refs = c.cells[e].refs - 1
             /\ u.cells[e].mem = IF LastUse(c, e) THEN "unlinked" ELSE c.cells[e].mem
<1> DEFINE u == Unreferenced(c, e)
<1>1. /\ c.tables \in [Shard -> Handles] /\ c.orders \in [Shard -> Seq(Cell)] /\ c.used \in [Shard -> Int] /\ c.cells \in [Cell -> CellRecord]
      /\ Home(c, e) \in Shard /\ c.cells[e].charge \in Nat /\ c.cells[e].refs \in Int /\ c.cells[e] \in CellRecord
  BY ContainerIs
<1>2. u.tables = c.tables /\ u.orders = c.orders
  BY DEF Unreferenced, Containers
<1>3. u.used = [c.used EXCEPT ![Home(c, e)] = IF LastUse(c, e) THEN @ - c.cells[e].charge ELSE @]
  BY DEF Unreferenced, Containers
<1>4. u.cells = [c.cells EXCEPT ![e].mem = IF LastUse(c, e) THEN "unlinked" ELSE @, ![e].refs = @ - 1]
  BY DEF Unreferenced, Containers
<1>5. OtherCells(c, u, e)
  BY <1>1, <1>4 DEF OtherCells
<1> DEFINE r == [c.cells[e] EXCEPT !.mem = IF LastUse(c, e) THEN "unlinked" ELSE @, !.refs = @ - 1]
<1>6. u.cells[e] = r
  BY <1>1, <1>4
<1>7. r \in CellRecord
  <2> DEFINE m == IF LastUse(c, e) THEN "unlinked" ELSE c.cells[e].mem
             n == c.cells[e].refs - 1
  <2>1. m \in {"free", "live", "unlinked"} /\ n \in Int
    BY <1>1 DEF CellRecord
  <2>2. r = [c.cells[e] EXCEPT !.mem = m, !.refs = n]
    OBVIOUS
  <2> HIDE DEF m, n, r
  <2> QED BY <1>1, <2>1, <2>2 DEF CellRecord
<1>8. /\ u.cells[e].key = c.cells[e].key /\ u.cells[e].charge = c.cells[e].charge /\ u.cells[e].valid = c.cells[e].valid
      /\ u.cells[e].refs = c.cells[e].refs - 1
      /\ u.cells[e].mem = IF LastUse(c, e) THEN "unlinked" ELSE c.cells[e].mem
  BY <1>1, <1>6 DEF CellRecord
<1>9. u.used \in [Shard -> Int]
  BY <1>1, <1>3
<1>10. u.cells \in [Cell -> CellRecord]
  BY <1>1, <1>4, <1>6, <1>7
<1>11. u \in Containers
  BY <1>1, <1>2, <1>9, <1>10 DEF Unreferenced, Containers
<1> QED BY <1>2, <1>3, <1>5, <1>8, <1>11

ValidIn(c, s) == {e \in Cell : c.cells[e].valid /\ Home(c, e) = s}
IdleIn(c, s) == {e \in ValidIn(c, s) : LastUse(c, e)}
InUse(c, s) == {e \in Cell : c.cells[e].mem = "live" /\ Home(c, e) = s}
Charges(c) == [e \in Cell |-> c.cells[e].charge]

TablesRight(c, lost) ==
  \A s \in Shard : Right(c.tables[s], KeysOfCells(c)) /\ Entries(c.tables[s].list) = ValidIn(c, s) \ lost

OrdersRight(c) == \A s \in Shard : IsInjective(c.orders[s]) /\ ToSet(c.orders[s]) = IdleIn(c, s)

UsedRight(c) == \A s \in Shard : c.used[s] = SumFunctionOnSet(Charges(c), InUse(c, s))

CellsRight(c) ==
  \A e \in Cell : /\ c.cells[e].mem = "live" <=> c.cells[e].refs # 0
                  /\ c.cells[e].valid => c.cells[e].mem = "live"
                  /\ c.cells[e].refs >= 0

\* The tables have lost some of their entries.
WholeBut(c, lost) == c \in Containers /\ TablesRight(c, lost) /\ OrdersRight(c) /\ UsedRight(c) /\ CellsRight(c)
Whole(c) == WholeBut(c, {})

\* What the search gives.
LEMMA FindGives ==
  ASSUME NEW c, Whole(c), NEW k \in TableKey
  PROVE  /\ Find(c, k) = LookupHandle(c.tables[ShardOf(k)], KeysOfCells(c), k)
         /\ Find(c, k) # NoCell => Find(c, k) \in Cell /\ c.cells[Find(c, k)].valid /\ c.cells[Find(c, k)].key = k
         /\ \A e \in Cell : c.cells[e].valid /\ c.cells[e].key = k => Find(c, k) = e
         /\ Find(c, k) = NoCell <=> Pointer(c, k) = 0
<1> DEFINE s == ShardOf(k)
           t == c.tables[s]
           keyOf == KeysOfCells(c)
<1>1. c \in Containers /\ Right(t, keyOf) /\ Entries(t.list) = ValidIn(c, s) /\ s \in Shard /\ \A e \in Cell : keyOf[e] = c.cells[e].key
  BY ContainerIs DEF Whole, WholeBut, TablesRight
<1>2. t \in Handles /\ WellFiled(t.list, t.length, keyOf)
  BY <1>1 DEF Right
<1>3. Find(c, k) = AtPointer(t, k, FindPointer(t, keyOf, k)) /\ Pointer(c, k) = FindPointer(t, keyOf, k)
  BY DEF Find, Pointer
<1>4. \A e \in Cell : c.cells[e].valid /\ c.cells[e].key = k => e \in Entries(t.list) /\ keyOf[e] = k
  BY <1>1 DEF ValidIn, Home
<1>5. \A e \in Entries(t.list) : e \in Cell /\ c.cells[e].valid /\ keyOf[e] = c.cells[e].key
  BY <1>1 DEF ValidIn
<1> HIDE DEF t, keyOf
<1>6. /\ LookupHandle(t, keyOf, k) = AtPointer(t, k, FindPointer(t, keyOf, k))
      /\ \A e \in Entries(t.list) : keyOf[e] = k => LookupHandle(t, keyOf, k) = e
      /\ LookupHandle(t, keyOf, k) # NoCell => LookupHandle(t, keyOf, k) \in Entries(t.list) /\ keyOf[LookupHandle(t, keyOf, k)] = k
      /\ LookupHandle(t, keyOf, k) = NoCell <=> FindPointer(t, keyOf, k) = 0
  BY <1>2, LookupIs
<1>7. Find(c, k) = LookupHandle(t, keyOf, k)
  BY <1>3, <1>6
<1> QED BY <1>3, <1>4, <1>5, <1>6, <1>7 DEF t, keyOf

\* The cell of e loses a reference and is no longer valid.
CellLost(c, d, e) ==
  /\ OtherCells(c, d, e)
  /\ d.cells[e].key = c.cells[e].key /\ d.cells[e].charge = c.cells[e].charge /\ d.cells[e].valid = FALSE
  /\ d.cells[e].refs = c.cells[e].refs - 1
  /\ d.cells[e].mem = IF LastUse(c, e) THEN "unlinked" ELSE c.cells[e].mem

\* What losing an entry changes.
LEMMA LostParts ==
  ASSUME NEW c \in Containers, NEW e \in Cell
  PROVE  LET l == Lost(c, e)
         IN  /\ l \in Containers /\ l.tables = c.tables /\ CellLost(c, l, e)
             /\ l.orders = [c.orders EXCEPT ![Home(c, e)] = IF LastUse(c, e) /\ c.cells[e].valid THEN RemoveFirst(@, e) ELSE @]
             /\ l.used = [c.used EXCEPT ![Home(c, e)] = IF LastUse(c, e) THEN @ - c.cells[e].charge ELSE @]
<1> DEFINE d == IF LastUse(c, e) /\ c.cells[e].valid THEN Unlisted(c, e) ELSE c
           u == Unreferenced(d, e)
           l == Lost(c, e)
<1>0. c.orders \in [Shard -> Seq(Cell)] /\ c.used \in [Shard -> Int] /\ Home(c, e) \in Shard
  BY ContainerIs
<1>1. d \in Containers /\ d.tables = c.tables /\ d.used = c.used /\ d.cells = c.cells
  BY UnlistedParts
<1>2. d.orders = [c.orders EXCEPT ![Home(c, e)] = IF LastUse(c, e) /\ c.cells[e].valid THEN RemoveFirst(@, e) ELSE @]
  <2>1. CASE LastUse(c, e) /\ c.cells[e].valid
    BY <2>1, UnlistedParts
  <2>2. CASE ~(LastUse(c, e) /\ c.cells[e].valid)
    <3>1. d = c
      BY <2>2
    <3> HIDE DEF d
    <3> QED BY <1>0, <2>2, <3>1
  <2> QED BY <2>1, <2>2
<1>3. l = [u EXCEPT !.cells[e].valid = FALSE]
  BY DEF Lost
<1> HIDE DEF d
<1>4. Home(d, e) = Home(c, e) /\ LastUse(d, e) = LastUse(c, e)
  BY <1>1 DEF Home, LastUse
<1>5. /\ u \in Containers /\ u.tables = d.tables /\ u.orders = d.orders
      /\ u.used = [d.used EXCEPT ![Home(d, e)] = IF LastUse(d, e) THEN @ - d.cells[e].charge ELSE @]
      /\ OtherCells(d, u, e)
      /\ u.cells[e].key = d.cells[e].key /\ u.cells[e].charge = d.cells[e].charge /\ u.cells[e].valid = d.cells[e].valid
      /\ u.cells[e].refs = d.cells[e].refs - 1
      /\ u.cells[e].mem = IF LastUse(d, e) THEN "unlinked" ELSE d.cells[e].mem
  BY <1>1, UnreferencedParts
<1> HIDE DEF u, l
<1>6. u.tables \in [Shard -> Handles] /\ u.orders \in [Shard -> Seq(Cell)] /\ u.used \in [Shard -> Int] /\ u.cells \in [Cell -> CellRecord] /\ u.cells[e] \in CellRecord
  BY <1>5, ContainerIs
<1>7. l.tables = u.tables /\ l.orders = u.orders /\ l.used = u.used /\ l.cells = [u.cells EXCEPT ![e].valid = FALSE]
  BY <1>3, <1>5 DEF Containers
<1>8. l.cells[e] = [u.cells[e] EXCEPT !.valid = FALSE] /\ \A x \in Cell \ {e} : l.cells[x] = u.cells[x]
  BY <1>6, <1>7
<1>9. [u.cells[e] EXCEPT !.valid = FALSE] \in CellRecord
  BY <1>6 DEF CellRecord
<1>10. l.cells \in [Cell -> CellRecord]
  BY <1>6, <1>7, <1>8, <1>9
<1>11. l \in Containers
  BY <1>3, <1>5, <1>6, <1>10, <1>7 DEF Containers
<1>12. CellLost(c, l, e)
  <2>1. /\ l.cells[e].key = u.cells[e].key /\ l.cells[e].charge = u.cells[e].charge /\ l.cells[e].refs = u.cells[e].refs
        /\ l.cells[e].mem = u.cells[e].mem /\ l.cells[e].valid = FALSE
    BY <1>6, <1>8 DEF CellRecord
  <2> QED BY <1>1, <1>4, <1>5, <1>8, <2>1 DEF CellLost, OtherCells
<1>13. l.used = [c.used EXCEPT ![Home(c, e)] = IF LastUse(c, e) THEN @ - c.cells[e].charge ELSE @]
  BY <1>1, <1>4, <1>5, <1>7
<1> QED BY <1>1, <1>2, <1>5, <1>7, <1>11, <1>12, <1>13 DEF l

\* Whatever the table, what is removed is an element of a chain.
LEMMA RemoveType ==
  ASSUME NEW t \in Handles, NEW keyOf, NEW k \in TableKey
  PROVE  RemoveHandle(t, k, FindPointer(t, keyOf, k)) \in Handles
<1> DEFINE b == Bucket(t, k)
           chain == t.list[b]
           I == {j \in 1 .. Len(chain) : KeyHash[keyOf[chain[j]]] = KeyHash[k] /\ keyOf[chain[j]] = k}
           i == FindPointer(t, keyOf, k)
           s == RemoveAt(chain, i)
           list == [t.list EXCEPT ![b] = s]
           new == RemoveHandle(t, k, i)
<1>1. t.length \in Nat \ {0} /\ t.elems \in Int /\ t.list \in Lists(t.length) /\ b \in 0 .. t.length - 1 /\ chain \in Seq(Cell) /\ Len(chain) \in Nat
  BY TableIs DEF Chain
<1>2. i = IF I # {} THEN Min(I) ELSE 0
  BY DEF FindPointer, SelectInSeq, Chain
<1>3. I # {} => Min(I) \in 1 .. Len(chain)
  <2>1. IsFiniteSet(1 .. Len(chain))
    <3> HIDE DEF chain
    <3> QED BY <1>1, FS_Interval
  <2>2. I \in SUBSET (1 .. Len(chain)) /\ I \subseteq Nat
    OBVIOUS
  <2> HIDE DEF I
  <2> QED BY <2>1, <2>2, FS_Subset, MinIs
<1> HIDE DEF I
<1>4. CASE I = {}
  BY <1>2, <1>4 DEF RemoveHandle
<1>5. CASE I # {}
  <2>1. i \in 1 .. Len(chain) /\ i # 0
    BY <1>1, <1>2, <1>3, <1>5
  <2>2. new = [t EXCEPT !.list = list, !.elems = t.elems - 1]
    BY <2>1 DEF RemoveHandle
  <2> HIDE DEF new, i
  <2>3. s \in Seq(Cell)
    BY <1>1, <2>1, RemoveAtIs
  <2> HIDE DEF s
  <2>4. list \in Lists(t.length)
    BY <1>1, <2>3 DEF Lists
  <2> HIDE DEF list
  <2>5. list \in UNION {Lists(m) : m \in Nat} /\ t.elems - 1 \in Int
    BY <1>1, <2>4
  <2>6. new \in Handles
    BY <1>1, <2>2, <2>4, <2>5 DEF Handles
  <2> QED BY <2>6 DEF new, i
<1> QED BY <1>4, <1>5

\* What taking an entry out of the table changes.
LEMMA UnfiledParts ==
  ASSUME NEW c \in Containers, NEW k \in TableKey
  PROVE  LET u == Unfiled(c, k)
         IN  /\ u \in Containers /\ u.orders = c.orders /\ u.used = c.used /\ u.cells = c.cells
             /\ u.tables = [c.tables EXCEPT ![ShardOf(k)] = RemoveHandle(@, k, Pointer(c, k))]
<1>1. ShardOf(k) \in Shard /\ c.tables[ShardOf(k)] \in Handles
  BY ContainerIs
<1>2. RemoveHandle(c.tables[ShardOf(k)], k, Pointer(c, k)) \in Handles
  BY <1>1, RemoveType DEF Pointer
<1> QED BY <1>1, <1>2 DEF Unfiled, Containers

\* What only depends on the cells.
LEMMA SameSets ==
  ASSUME NEW c, NEW d, d.cells = c.cells
  PROVE  /\ KeysOfCells(d) = KeysOfCells(c) /\ Charges(d) = Charges(c)
         /\ \A s : ValidIn(d, s) = ValidIn(c, s) /\ IdleIn(d, s) = IdleIn(c, s) /\ InUse(d, s) = InUse(c, s)
         /\ \A e : Home(d, e) = Home(c, e) /\ (LastUse(d, e) <=> LastUse(c, e))
BY DEF KeysOfCells, Charges, ValidIn, IdleIn, InUse, Home, LastUse

\* The table without the entry is right, and everything else is as before.
LEMMA UnfiledIs ==
  ASSUME NEW c, Whole(c), NEW e \in Cell, c.cells[e].valid
  PROVE  LET u == Unfiled(c, c.cells[e].key)
         IN  /\ WholeBut(u, {e})
             /\ u.orders = c.orders /\ u.used = c.used /\ u.cells = c.cells
<1> DEFINE k == c.cells[e].key
           s == ShardOf(k)
           t == c.tables[s]
           keyOf == KeysOfCells(c)
           new == RemoveHandle(t, k, FindPointer(t, keyOf, k))
           u == Unfiled(c, k)
<1>1. c \in Containers /\ TablesRight(c, {}) /\ OrdersRight(c) /\ UsedRight(c) /\ CellsRight(c)
  BY DEF Whole, WholeBut
<1>2. k \in TableKey /\ s \in Shard /\ s = Home(c, e) /\ c.tables \in [Shard -> Handles]
  BY <1>1, ContainerIs DEF Home
<1>3. /\ u \in Containers /\ u.orders = c.orders /\ u.used = c.used /\ u.cells = c.cells
      /\ u.tables = [c.tables EXCEPT ![s] = new]
  BY <1>1, <1>2, UnfiledParts DEF Pointer
<1>4. Right(t, keyOf) /\ Entries(t.list) = ValidIn(c, s)
  BY <1>1, <1>2 DEF TablesRight
<1>5. Find(c, k) = LookupHandle(t, keyOf, k) /\ Find(c, k) = e /\ Pointer(c, k) # 0
  <2>1. e # NoCell
    BY CellAssumption
  <2> QED BY <1>2, <2>1, FindGives
<1>6. FindPointer(t, keyOf, k) # 0
  BY <1>5 DEF Pointer
<1> HIDE DEF t, keyOf, u, new
<1>7. Right(new, keyOf) /\ Entries(new.list) = Entries(t.list) \ {e}
  BY <1>2, <1>4, <1>5, <1>6, RemoveIs DEF new
<1>8. TablesRight(u, {e})
  <2>1. \A x \in Shard : ValidIn(u, x) = ValidIn(c, x) /\ KeysOfCells(u) = keyOf
    BY <1>3, SameSets DEF keyOf
  <2> SUFFICES ASSUME NEW x \in Shard PROVE Right(u.tables[x], keyOf) /\ Entries(u.tables[x].list) = ValidIn(c, x) \ {e}
    BY <2>1 DEF TablesRight
  <2>2. CASE x = s
    BY <1>2, <1>3, <1>4, <1>7, <2>2
  <2>3. CASE x # s
    <3>1. u.tables[x] = c.tables[x]
      BY <1>2, <1>3, <2>3
    <3>2. Right(c.tables[x], keyOf) /\ Entries(c.tables[x].list) = ValidIn(c, x)
      BY <1>1 DEF TablesRight, keyOf
    <3>3. e \notin ValidIn(c, x)
      BY <1>2, <2>3 DEF ValidIn
    <3> QED BY <3>1, <3>2, <3>3
  <2> QED BY <2>2, <2>3
<1>9. OrdersRight(u) /\ UsedRight(u) /\ CellsRight(u)
  <2>1. \A x : IdleIn(u, x) = IdleIn(c, x) /\ InUse(u, x) = InUse(c, x) /\ Charges(u) = Charges(c)
    BY <1>3, SameSets
  <2> QED BY <1>1, <1>3, <2>1 DEF OrdersRight, UsedRight, CellsRight
<1> QED BY <1>3, <1>8, <1>9 DEF WholeBut, u

\* The sums of the charges exist.
LEMMA ChargesAdd ==
  ASSUME NEW c \in Containers, NEW S \in SUBSET Cell
  PROVE  IsFiniteSet(S) /\ SumFunctionOnSet(Charges(c), S) \in Nat /\ \A e \in S : Charges(c)[e] \in Int
<1>1. IsFiniteSet(S)
  BY CellAssumption, FS_Subset
<1>2. \A e \in S : Charges(c)[e] \in Nat
  BY ContainerIs DEF Charges
<1>3. SumFunctionOnSet(Charges(c), S) \in Nat
  BY <1>1, <1>2, SumType
<1> QED BY <1>1, <1>2, <1>3

\* A cell whose key and charge stay.
LEMMA LostSets ==
  ASSUME NEW c \in Containers, NEW d \in Containers, NEW e \in Cell, CellLost(c, d, e)
  PROVE  /\ KeysOfCells(d) = KeysOfCells(c) /\ Charges(d) = Charges(c)
         /\ \A x \in Cell : Home(d, x) = Home(c, x)
         /\ \A s \in Shard : /\ ValidIn(d, s) = ValidIn(c, s) \ {e} /\ IdleIn(d, s) = IdleIn(c, s) \ {e}
                             /\ InUse(d, s) = InUse(c, s) \ (IF LastUse(c, e) THEN {e} ELSE {})
<1>1. /\ \A x \in Cell : d.cells[x].key = c.cells[x].key /\ d.cells[x].charge = c.cells[x].charge
      /\ \A x \in Cell \ {e} : d.cells[x] = c.cells[x]
  BY DEF CellLost, OtherCells
<1>2. KeysOfCells(d) = KeysOfCells(c) /\ Charges(d) = Charges(c) /\ \A x \in Cell : Home(d, x) = Home(c, x)
  BY <1>1 DEF KeysOfCells, Charges, Home
<1>3. ~d.cells[e].valid /\ (d.cells[e].mem = "live" <=> c.cells[e].mem = "live" /\ ~LastUse(c, e))
  BY DEF CellLost
<1> SUFFICES ASSUME NEW s \in Shard
             PROVE  /\ ValidIn(d, s) = ValidIn(c, s) \ {e} /\ IdleIn(d, s) = IdleIn(c, s) \ {e}
                    /\ InUse(d, s) = InUse(c, s) \ (IF LastUse(c, e) THEN {e} ELSE {})
  BY <1>2
<1>4. ValidIn(d, s) = ValidIn(c, s) \ {e}
  BY <1>1, <1>2, <1>3 DEF ValidIn
<1>5. \A x \in Cell \ {e} : LastUse(d, x) <=> LastUse(c, x)
  BY <1>1 DEF LastUse
<1>6. IdleIn(d, s) = IdleIn(c, s) \ {e}
  <2>1. ValidIn(c, s) \subseteq Cell
    BY DEF ValidIn
  <2> QED BY <1>4, <1>5, <2>1 DEF IdleIn
<1>7. InUse(d, s) = InUse(c, s) \ (IF LastUse(c, e) THEN {e} ELSE {})
  BY <1>1, <1>2, <1>3 DEF InUse
<1> QED BY <1>4, <1>6, <1>7

\* What is used follows what is in use.
LEMMA UsedFollows ==
  ASSUME NEW c \in Containers, UsedRight(c), CellsRight(c), NEW d \in Containers, NEW e \in Cell, c.cells[e].mem = "live",
         Charges(d) = Charges(c), \A s \in Shard : InUse(d, s) = InUse(c, s) \ (IF LastUse(c, e) THEN {e} ELSE {}),
         d.used = [c.used EXCEPT ![Home(c, e)] = IF LastUse(c, e) THEN @ - c.cells[e].charge ELSE @]
  PROVE  UsedRight(d)
<1>1. c.used \in [Shard -> Int] /\ Home(c, e) \in Shard /\ c.cells[e].charge \in Nat
  BY ContainerIs
<1> SUFFICES ASSUME NEW s \in Shard PROVE d.used[s] = SumFunctionOnSet(Charges(d), InUse(d, s))
  BY DEF UsedRight
<1>2. c.used[s] = SumFunctionOnSet(Charges(c), InUse(c, s))
  BY DEF UsedRight
<1>3. CASE ~LastUse(c, e)
  BY <1>1, <1>2, <1>3
<1>4. CASE s # Home(c, e)
  <2>1. e \notin InUse(c, s)
    BY <1>4 DEF InUse
  <2>2. InUse(d, s) = InUse(c, s)
    BY <2>1
  <2> QED BY <1>1, <1>2, <1>4, <2>2
<1>5. CASE LastUse(c, e) /\ s = Home(c, e)
  <2> DEFINE S == InUse(c, s)
             f == Charges(c)
  <2>1. S \in SUBSET Cell /\ e \in S
    BY <1>5 DEF InUse
  <2>2. IsFiniteSet(S) /\ \A x \in S : f[x] \in Int
    BY <2>1, ChargesAdd
  <2>3. SumFunctionOnSet(f, S \ {e}) \in Nat
    <3>1. S \ {e} \in SUBSET Cell
      BY <2>1
    <3> HIDE DEF S
    <3> QED BY <3>1, ChargesAdd
  <2>4. f[e] = c.cells[e].charge
    BY DEF Charges
  <2> HIDE DEF S, f
  <2>5. SumFunctionOnSet(f, S) = f[e] + SumFunctionOnSet(f, S \ {e})
    BY <2>1, <2>2, SumRemove
  <2>6. d.used[s] = c.used[s] - f[e] /\ f[e] \in Int
    BY <1>1, <1>5, <2>4
  <2>7. InUse(d, s) = S \ {e} /\ Charges(d) = f /\ c.used[s] = SumFunctionOnSet(f, S)
    BY <1>2, <1>5 DEF S, f
  <2> QED BY <2>3, <2>5, <2>6, <2>7
<1> QED BY <1>3, <1>4, <1>5

\* An entry that the table has lost leaves the container whole.
LEMMA LostIs ==
  ASSUME NEW c, NEW e \in Cell, WholeBut(c, {e}), c.cells[e].valid
  PROVE  Whole(Lost(c, e)) /\ CellLost(c, Lost(c, e), e)
<1> DEFINE l == Lost(c, e)
<1>1. c \in Containers /\ TablesRight(c, {e}) /\ OrdersRight(c) /\ UsedRight(c) /\ CellsRight(c)
  BY DEF WholeBut
<1>2. /\ l \in Containers /\ l.tables = c.tables /\ CellLost(c, l, e)
      /\ l.orders = [c.orders EXCEPT ![Home(c, e)] = IF LastUse(c, e) /\ c.cells[e].valid THEN RemoveFirst(@, e) ELSE @]
      /\ l.used = [c.used EXCEPT ![Home(c, e)] = IF LastUse(c, e) THEN @ - c.cells[e].charge ELSE @]
  BY <1>1, LostParts
<1> HIDE DEF l
<1>3. /\ KeysOfCells(l) = KeysOfCells(c) /\ Charges(l) = Charges(c)
      /\ \A s \in Shard : /\ ValidIn(l, s) = ValidIn(c, s) \ {e} /\ IdleIn(l, s) = IdleIn(c, s) \ {e}
                          /\ InUse(l, s) = InUse(c, s) \ (IF LastUse(c, e) THEN {e} ELSE {})
  BY <1>1, <1>2, LostSets
<1>4. TablesRight(l, {})
  BY <1>1, <1>2, <1>3 DEF TablesRight
<1>5. OrdersRight(l)
  <2> SUFFICES ASSUME NEW s \in Shard PROVE IsInjective(l.orders[s]) /\ ToSet(l.orders[s]) = IdleIn(c, s) \ {e}
    BY <1>3 DEF OrdersRight
  <2>1. IsInjective(c.orders[s]) /\ ToSet(c.orders[s]) = IdleIn(c, s) /\ c.orders \in [Shard -> Seq(Cell)] /\ Home(c, e) \in Shard
    BY <1>1, ContainerIs DEF OrdersRight
  <2>2. CASE LastUse(c, e) /\ s = Home(c, e)
    <3>1. l.orders[s] = RemoveFirst(c.orders[s], e) /\ c.orders[s] \in Seq(Cell)
      BY <1>2, <2>1, <2>2
    <3> QED BY <2>1, <3>1, RemoveFirstIs
  <2>3. CASE ~(LastUse(c, e) /\ s = Home(c, e))
    <3>1. l.orders[s] = c.orders[s]
      BY <1>2, <2>1, <2>3
    <3>2. e \notin IdleIn(c, s)
      BY <2>3 DEF IdleIn, ValidIn
    <3> QED BY <2>1, <3>1, <3>2
  <2> QED BY <2>2, <2>3
<1>6. UsedRight(l)
  <2>1. c.cells[e].mem = "live"
    BY <1>1 DEF CellsRight
  <2> QED BY <1>1, <1>2, <1>3, <2>1, UsedFollows
<1>7. CellsRight(l)
  <2> SUFFICES ASSUME NEW x \in Cell
               PROVE  /\ l.cells[x].mem = "live" <=> l.cells[x].refs # 0
                      /\ l.cells[x].valid => l.cells[x].mem = "live"
                      /\ l.cells[x].refs >= 0
    BY DEF CellsRight
  <2>1. CASE x # e
    BY <1>1, <1>2, <2>1 DEF CellsRight, CellLost, OtherCells
  <2>2. CASE x = e
    <3>1. c.cells[e].refs \in Int /\ c.cells[e].refs >= 0 /\ c.cells[e].refs # 0 /\ c.cells[e].mem = "live"
      BY <1>1, ContainerIs DEF CellsRight
    <3> QED BY <1>2, <2>2, <3>1 DEF CellLost, LastUse
  <2> QED BY <2>1, <2>2
<1> QED BY <1>2, <1>4, <1>5, <1>6, <1>7 DEF Whole, WholeBut, l

\* erase: the entry leaves the table.
LEMMA EraseIs ==
  ASSUME NEW c, Whole(c), NEW e \in Cell, c.cells[e].valid
  PROVE  Whole(EraseEntry(c, e)) /\ CellLost(c, EraseEntry(c, e), e)
<1> DEFINE u == Unfiled(c, c.cells[e].key)
<1>1. WholeBut(u, {e}) /\ u.cells = c.cells
  BY UnfiledIs
<1>2. EraseEntry(c, e) = Lost(u, e)
  BY DEF EraseEntry
<1> HIDE DEF u
<1>3. Whole(Lost(u, e)) /\ CellLost(u, Lost(u, e), e)
  BY <1>1, LostIs
<1>4. CellLost(c, Lost(u, e), e)
  BY <1>1, <1>3 DEF CellLost, OtherCells, LastUse
<1> QED BY <1>2, <1>3, <1>4

\* Whatever the container, the result is one.
LEMMA EraseType ==
  ASSUME NEW c \in Containers, NEW e \in Cell
  PROVE  EraseEntry(c, e) \in Containers
<1>1. c.cells[e].key \in TableKey
  BY ContainerIs
<1>2. Unfiled(c, c.cells[e].key) \in Containers
  BY <1>1, UnfiledParts
<1> QED BY <1>2, LostParts DEF EraseEntry

\* The cell of e only has n references now, and is in state mem.
CellCounted(c, d, e, n, mem) ==
  /\ OtherCells(c, d, e)
  /\ d.cells[e].key = c.cells[e].key /\ d.cells[e].charge = c.cells[e].charge /\ d.cells[e].valid = c.cells[e].valid
  /\ d.cells[e].refs = n /\ d.cells[e].mem = mem

\* The sets of entries after a reference is taken or dropped.
LEMMA CountedSets ==
  ASSUME NEW c \in Containers, NEW d \in Containers, NEW e \in Cell, NEW n, NEW mem, CellCounted(c, d, e, n, mem)
  PROVE  /\ KeysOfCells(d) = KeysOfCells(c) /\ Charges(d) = Charges(c)
         /\ \A x \in Cell : Home(d, x) = Home(c, x)
         /\ \A s \in Shard : /\ ValidIn(d, s) = ValidIn(c, s)
                             /\ IdleIn(d, s) \ {e} = IdleIn(c, s) \ {e}
                             /\ e \in IdleIn(d, s) <=> c.cells[e].valid /\ Home(c, e) = s /\ n = 1
                             /\ InUse(d, s) \ {e} = InUse(c, s) \ {e}
                             /\ e \in InUse(d, s) <=> Home(c, e) = s /\ mem = "live"
<1>1. /\ \A x \in Cell : d.cells[x].key = c.cells[x].key /\ d.cells[x].charge = c.cells[x].charge /\ d.cells[x].valid = c.cells[x].valid
      /\ \A x \in Cell \ {e} : d.cells[x] = c.cells[x]
  BY DEF CellCounted, OtherCells
<1>2. KeysOfCells(d) = KeysOfCells(c) /\ Charges(d) = Charges(c) /\ \A x \in Cell : Home(d, x) = Home(c, x)
  BY <1>1 DEF KeysOfCells, Charges, Home
<1>3. d.cells[e].refs = n /\ d.cells[e].mem = mem
  BY DEF CellCounted
<1>4. \A s : ValidIn(d, s) = ValidIn(c, s)
  BY <1>1, <1>2 DEF ValidIn
<1> SUFFICES ASSUME NEW s \in Shard
             PROVE  /\ IdleIn(d, s) \ {e} = IdleIn(c, s) \ {e}
                    /\ e \in IdleIn(d, s) <=> c.cells[e].valid /\ Home(c, e) = s /\ n = 1
                    /\ InUse(d, s) \ {e} = InUse(c, s) \ {e}
                    /\ e \in InUse(d, s) <=> Home(c, e) = s /\ mem = "live"
  BY <1>2, <1>4
<1>5. \A x \in Cell \ {e} : LastUse(d, x) <=> LastUse(c, x)
  BY <1>1 DEF LastUse
<1>6. IdleIn(d, s) \ {e} = IdleIn(c, s) \ {e}
  <2>1. ValidIn(c, s) \subseteq Cell
    BY DEF ValidIn
  <2> QED BY <1>4, <1>5, <2>1 DEF IdleIn
<1>7. e \in IdleIn(d, s) <=> c.cells[e].valid /\ Home(c, e) = s /\ n = 1
  BY <1>3, <1>4 DEF IdleIn, LastUse, ValidIn
<1>8. InUse(d, s) \ {e} = InUse(c, s) \ {e} /\ (e \in InUse(d, s) <=> Home(c, e) = s /\ mem = "live")
  BY <1>1, <1>2, <1>3 DEF InUse
<1> QED BY <1>6, <1>7, <1>8

\* lookup: a handle more.
LEMMA ReferencedIs ==
  ASSUME NEW c, Whole(c), NEW e \in Cell, c.cells[e].valid
  PROVE  Whole(Referenced(c, e)) /\ CellCounted(c, Referenced(c, e), e, c.cells[e].refs + 1, "live")
<1> DEFINE d == IF LastUse(c, e) THEN Unlisted(c, e) ELSE c
           r == Referenced(c, e)
           n == c.cells[e].refs + 1
<1>1. c \in Containers /\ TablesRight(c, {}) /\ OrdersRight(c) /\ UsedRight(c) /\ CellsRight(c)
  BY DEF Whole, WholeBut
<1>2. c.orders \in [Shard -> Seq(Cell)] /\ Home(c, e) \in Shard /\ c.cells \in [Cell -> CellRecord] /\ c.cells[e] \in CellRecord /\ c.cells[e].refs \in Int
  BY <1>1, ContainerIs
<1>3. c.cells[e].mem = "live" /\ c.cells[e].refs >= 0 /\ c.cells[e].refs # 0
  BY <1>1 DEF CellsRight
<1>4. /\ d \in Containers /\ d.tables = c.tables /\ d.used = c.used /\ d.cells = c.cells
      /\ d.orders = [c.orders EXCEPT ![Home(c, e)] = IF LastUse(c, e) THEN RemoveFirst(@, e) ELSE @]
  <2>1. CASE LastUse(c, e)
    BY <1>1, <2>1, UnlistedParts
  <2>2. CASE ~LastUse(c, e)
    <3>1. d = c
      BY <2>2
    <3> HIDE DEF d
    <3> QED BY <1>1, <1>2, <2>2, <3>1
  <2> QED BY <2>1, <2>2
<1>5. r = [d EXCEPT !.cells[e].refs = @ + 1]
  BY DEF Referenced
<1> HIDE DEF d, r
<1>6. r.tables = d.tables /\ r.orders = d.orders /\ r.used = d.used /\ r.cells = [d.cells EXCEPT ![e].refs = @ + 1]
  BY <1>4, <1>5 DEF Containers
<1>7. r.cells[e] = [c.cells[e] EXCEPT !.refs = n] /\ \A x \in Cell \ {e} : r.cells[x] = c.cells[x]
  BY <1>2, <1>4, <1>6
<1>8. [c.cells[e] EXCEPT !.refs = n] \in CellRecord
  <2>1. n \in Int
    BY <1>2
  <2> HIDE DEF n
  <2> QED BY <1>2, <2>1 DEF CellRecord
<1>9. r.cells \in [Cell -> CellRecord]
  BY <1>2, <1>4, <1>6, <1>7, <1>8
<1>10. r \in Containers
  BY <1>4, <1>5, <1>6, <1>9 DEF Containers
<1>11. CellCounted(c, r, e, n, "live")
  <2>1. /\ r.cells[e].key = c.cells[e].key /\ r.cells[e].charge = c.cells[e].charge /\ r.cells[e].valid = c.cells[e].valid
        /\ r.cells[e].refs = n /\ r.cells[e].mem = c.cells[e].mem
    <3> HIDE DEF n
    <3> QED BY <1>2, <1>7 DEF CellRecord
  <2> QED BY <1>3, <1>7, <2>1 DEF CellCounted, OtherCells
<1>12. n \in Int /\ n > 1
  BY <1>2, <1>3
<1> HIDE DEF n
<1>13. /\ KeysOfCells(r) = KeysOfCells(c) /\ Charges(r) = Charges(c)
       /\ \A s \in Shard : /\ ValidIn(r, s) = ValidIn(c, s)
                           /\ IdleIn(r, s) \ {e} = IdleIn(c, s) \ {e}
                           /\ e \in IdleIn(r, s) <=> c.cells[e].valid /\ Home(c, e) = s /\ n = 1
                           /\ InUse(r, s) \ {e} = InUse(c, s) \ {e}
                           /\ e \in InUse(r, s) <=> Home(c, e) = s
  BY <1>1, <1>10, <1>11, CountedSets
<1>14. \A s \in Shard : IdleIn(r, s) = IdleIn(c, s) \ {e}
  <2>1. n # 1
    BY <1>12
  <2> QED BY <1>13, <2>1
<1>15. \A s \in Shard : InUse(r, s) = InUse(c, s)
  <2>1. \A s \in Shard : e \in InUse(c, s) <=> Home(c, e) = s
    BY <1>3 DEF InUse
  <2> SUFFICES ASSUME NEW s \in Shard PROVE InUse(r, s) = InUse(c, s)
    OBVIOUS
  <2>2. InUse(r, s) \ {e} = InUse(c, s) \ {e} /\ (e \in InUse(r, s) <=> e \in InUse(c, s))
    BY <1>13, <2>1
  <2> QED BY <2>2
<1>16. TablesRight(r, {}) /\ UsedRight(r)
  BY <1>1, <1>4, <1>6, <1>13, <1>15 DEF TablesRight, UsedRight
<1>17. OrdersRight(r)
  <2> SUFFICES ASSUME NEW s \in Shard PROVE IsInjective(r.orders[s]) /\ ToSet(r.orders[s]) = IdleIn(c, s) \ {e}
    BY <1>14 DEF OrdersRight
  <2>1. IsInjective(c.orders[s]) /\ ToSet(c.orders[s]) = IdleIn(c, s)
    BY <1>1 DEF OrdersRight
  <2>2. CASE LastUse(c, e) /\ s = Home(c, e)
    <3>1. r.orders[s] = RemoveFirst(c.orders[s], e) /\ c.orders[s] \in Seq(Cell)
      BY <1>2, <1>4, <1>6, <2>2
    <3> QED BY <2>1, <3>1, RemoveFirstIs
  <2>3. CASE ~(LastUse(c, e) /\ s = Home(c, e))
    <3>1. r.orders[s] = c.orders[s]
      BY <1>2, <1>4, <1>6, <2>3
    <3>2. e \notin IdleIn(c, s)
      BY <2>3 DEF IdleIn, ValidIn
    <3> QED BY <2>1, <3>1, <3>2
  <2> QED BY <2>2, <2>3
<1>18. CellsRight(r)
  <2>1. ASSUME NEW x \in Cell
        PROVE  /\ r.cells[x].mem = "live" <=> r.cells[x].refs # 0
               /\ r.cells[x].valid => r.cells[x].mem = "live"
               /\ r.cells[x].refs >= 0
    <3>1. CASE x # e
      BY <1>1, <1>7, <3>1 DEF CellsRight
    <3>2. CASE x = e
      BY <1>11, <1>12, <3>2 DEF CellCounted
    <3> QED BY <3>1, <3>2
  <2> QED BY <2>1 DEF CellsRight
<1> QED BY <1>10, <1>11, <1>16, <1>17, <1>18 DEF Whole, WholeBut, r, n

\* release: a handle less.
LEMMA ReleasedIs ==
  ASSUME NEW c, Whole(c), NEW e \in Cell, c.cells[e].mem = "live", c.cells[e].valid => c.cells[e].refs # 1
  PROVE  /\ Whole(ReleaseEntry(c, e))
         /\ CellCounted(c, ReleaseEntry(c, e), e, c.cells[e].refs - 1, IF LastUse(c, e) THEN "unlinked" ELSE "live")
<1> DEFINE u == Unreferenced(c, e)
           r == ReleaseEntry(c, e)
           n == c.cells[e].refs - 1
           m == IF LastUse(c, e) THEN "unlinked" ELSE "live"
           back == c.cells[e].valid /\ n = 1
<1>1. c \in Containers /\ TablesRight(c, {}) /\ OrdersRight(c) /\ UsedRight(c) /\ CellsRight(c)
  BY DEF Whole, WholeBut
<1>2. c.orders \in [Shard -> Seq(Cell)] /\ Home(c, e) \in Shard /\ c.cells[e].refs \in Int /\ c.cells[e].refs >= 0 /\ c.cells[e].refs # 0
  BY <1>1, ContainerIs DEF CellsRight
<1>3. /\ u \in Containers /\ u.tables = c.tables /\ u.orders = c.orders
      /\ u.used = [c.used EXCEPT ![Home(c, e)] = IF LastUse(c, e) THEN @ - c.cells[e].charge ELSE @]
      /\ OtherCells(c, u, e)
      /\ u.cells[e].key = c.cells[e].key /\ u.cells[e].charge = c.cells[e].charge /\ u.cells[e].valid = c.cells[e].valid
      /\ u.cells[e].refs = n
      /\ u.cells[e].mem = IF LastUse(c, e) THEN "unlinked" ELSE c.cells[e].mem
  BY <1>1, UnreferencedParts
<1> HIDE DEF u
<1>4. CellCounted(c, u, e, n, m)
  BY <1>3 DEF CellCounted
<1>5. Home(u, e) = Home(c, e) /\ (LastUse(u, e) <=> n = 1)
  BY <1>3 DEF Home, LastUse
<1>6. r = IF back THEN Listed(u, e) ELSE u
  BY <1>3, <1>5 DEF ReleaseEntry, Relisted, u
<1>7. /\ r \in Containers /\ r.tables = c.tables /\ r.used = u.used /\ r.cells = u.cells
      /\ r.orders = [c.orders EXCEPT ![Home(c, e)] = IF back THEN Append(@, e) ELSE @]
  <2>1. CASE back
    <3>1. /\ Listed(u, e) \in Containers /\ Listed(u, e).tables = u.tables /\ Listed(u, e).used = u.used /\ Listed(u, e).cells = u.cells
          /\ Listed(u, e).orders = [u.orders EXCEPT ![Home(u, e)] = Append(@, e)]
      BY <1>3, ListedParts
    <3>2. r = Listed(u, e)
      BY <1>6, <2>1
    <3> HIDE DEF r
    <3>3. r \in Containers /\ r.tables = c.tables /\ r.used = u.used /\ r.cells = u.cells /\ r.orders = [c.orders EXCEPT ![Home(c, e)] = Append(@, e)]
      BY <1>3, <1>5, <3>1, <3>2
    <3> QED BY <2>1, <3>3
  <2>2. CASE ~back
    <3>1. r = u
      BY <1>6, <2>2
    <3> HIDE DEF r, back
    <3> QED BY <1>2, <1>3, <2>2, <3>1
  <2> QED BY <2>1, <2>2
<1> HIDE DEF r
<1>8. CellCounted(c, r, e, n, m)
  BY <1>4, <1>7 DEF CellCounted, OtherCells
<1>9. /\ KeysOfCells(r) = KeysOfCells(c) /\ Charges(r) = Charges(c)
      /\ \A s \in Shard : /\ ValidIn(r, s) = ValidIn(c, s)
                          /\ IdleIn(r, s) \ {e} = IdleIn(c, s) \ {e}
                          /\ e \in IdleIn(r, s) <=> c.cells[e].valid /\ Home(c, e) = s /\ n = 1
                          /\ InUse(r, s) \ {e} = InUse(c, s) \ {e}
                          /\ e \in InUse(r, s) <=> Home(c, e) = s /\ m = "live"
  <2> HIDE DEF n, m
  <2> QED BY <1>1, <1>7, <1>8, CountedSets
<1>10. TablesRight(r, {})
  BY <1>1, <1>7, <1>9 DEF TablesRight
<1>11. UsedRight(r)
  <2>1. \A s \in Shard : e \in InUse(c, s) <=> Home(c, e) = s
    BY DEF InUse
  <2>2. m = "live" <=> ~LastUse(c, e)
    OBVIOUS
  <2>3. \A s \in Shard : InUse(r, s) = InUse(c, s) \ (IF LastUse(c, e) THEN {e} ELSE {})
    <3> SUFFICES ASSUME NEW s \in Shard PROVE InUse(r, s) = InUse(c, s) \ (IF LastUse(c, e) THEN {e} ELSE {})
      OBVIOUS
    <3>1. InUse(r, s) \ {e} = InUse(c, s) \ {e} /\ (e \in InUse(r, s) <=> e \in InUse(c, s) /\ ~LastUse(c, e))
      BY <1>9, <2>1, <2>2
    <3> QED BY <3>1
  <2>4. r.used = [c.used EXCEPT ![Home(c, e)] = IF LastUse(c, e) THEN @ - c.cells[e].charge ELSE @]
    BY <1>3, <1>7
  <2> QED BY <1>1, <1>7, <1>9, <2>3, <2>4, UsedFollows
<1>12. OrdersRight(r)
  <2> SUFFICES ASSUME NEW s \in Shard PROVE IsInjective(r.orders[s]) /\ ToSet(r.orders[s]) = IdleIn(r, s)
    BY DEF OrdersRight
  <2>1. IsInjective(c.orders[s]) /\ ToSet(c.orders[s]) = IdleIn(c, s)
    BY <1>1 DEF OrdersRight
  <2>2. e \notin IdleIn(c, s)
    BY DEF IdleIn, ValidIn, LastUse
  <2>3. IdleIn(r, s) = IdleIn(c, s) \cup (IF back /\ Home(c, e) = s THEN {e} ELSE {})
    <3>1. IdleIn(r, s) \ {e} = IdleIn(c, s) \ {e} /\ (e \in IdleIn(r, s) <=> back /\ Home(c, e) = s)
      BY <1>9
    <3> HIDE DEF back
    <3> QED BY <2>2, <3>1
  <2>4. CASE back /\ Home(c, e) = s
    <3>1. r.orders[s] = Append(c.orders[s], e) /\ c.orders[s] \in Seq(Cell)
      BY <1>2, <1>7, <2>4
    <3>2. IsInjective(Append(c.orders[s], e)) /\ ToSet(Append(c.orders[s], e)) = ToSet(c.orders[s]) \cup {e}
      BY <2>1, <2>2, <3>1, AppendAdds
    <3> QED BY <2>1, <2>3, <2>4, <3>1, <3>2
  <2>5. CASE ~(back /\ Home(c, e) = s)
    <3>1. r.orders[s] = c.orders[s]
      BY <1>2, <1>7, <2>5
    <3> QED BY <2>1, <2>3, <2>5, <3>1
  <2> QED BY <2>4, <2>5
<1>13. CellsRight(r)
  <2>1. ASSUME NEW x \in Cell
        PROVE  /\ r.cells[x].mem = "live" <=> r.cells[x].refs # 0
               /\ r.cells[x].valid => r.cells[x].mem = "live"
               /\ r.cells[x].refs >= 0
    <3>1. CASE x # e
      BY <1>1, <1>8, <3>1 DEF CellsRight, CellCounted, OtherCells
    <3>2. CASE x = e
      BY <1>2, <1>8, <3>2 DEF CellCounted, LastUse
    <3> QED BY <3>1, <3>2
  <2> QED BY <2>1 DEF CellsRight
<1> QED BY <1>7, <1>8, <1>10, <1>11, <1>12, <1>13 DEF Whole, WholeBut, r

\* The cell e is a new entry.
CellAdded(c, d, e, k, size) ==
  /\ OtherCells(c, d, e)
  /\ d.cells[e].key = k /\ d.cells[e].charge = size /\ d.cells[e].valid = TRUE
  /\ d.cells[e].refs = 2 /\ d.cells[e].mem = "live"

\* What a new entry changes before it is in the table.
LEMMA AllocatedParts ==
  ASSUME NEW c \in Containers, NEW e \in Cell, NEW k \in TableKey, NEW size \in Nat
  PROVE  LET a == Allocated(c, e, k, size)
         IN  /\ a \in Containers /\ a.tables = c.tables /\ a.orders = c.orders
             /\ a.used = [c.used EXCEPT ![ShardOf(k)] = @ + size] /\ CellAdded(c, a, e, k, size)
<1> DEFINE a == Allocated(c, e, k, size)
           r == [key |-> k, charge |-> size, valid |-> TRUE, refs |-> 2, mem |-> "live"]
<1>1. /\ c.tables \in [Shard -> Handles] /\ c.orders \in [Shard -> Seq(Cell)] /\ c.used \in [Shard -> Int] /\ c.cells \in [Cell -> CellRecord]
      /\ ShardOf(k) \in Shard
  BY ContainerIs
<1>2. /\ a.tables = c.tables /\ a.orders = c.orders /\ a.used = [c.used EXCEPT ![ShardOf(k)] = @ + size] /\ a.cells = [c.cells EXCEPT ![e] = r]
  BY DEF Allocated, Containers
<1>3. r \in CellRecord
  BY DEF CellRecord
<1>4. CellAdded(c, a, e, k, size)
  BY <1>1, <1>2 DEF CellAdded, OtherCells
<1>5. a.used \in [Shard -> Int]
  BY <1>1, <1>2
<1>6. a.cells \in [Cell -> CellRecord]
  <2> HIDE DEF r
  <2> QED BY <1>1, <1>2, <1>3
<1>7. a \in Containers
  BY <1>1, <1>2, <1>5, <1>6 DEF Allocated, Containers
<1> QED BY <1>2, <1>4, <1>7

\* A new entry in the free cell e.
LEMMA AddedSets ==
  ASSUME NEW c \in Containers, NEW d \in Containers, NEW e \in Cell, NEW k \in TableKey, NEW size \in Nat,
         CellAdded(c, d, e, k, size), ~c.cells[e].valid, c.cells[e].mem # "live"
  PROVE  /\ KeysOfCells(d)[e] = k /\ Charges(d)[e] = size
         /\ \A x \in Cell \ {e} : KeysOfCells(d)[x] = KeysOfCells(c)[x] /\ Charges(d)[x] = Charges(c)[x] /\ Home(d, x) = Home(c, x)
         /\ \A s \in Shard : /\ e \notin ValidIn(c, s) /\ e \notin InUse(c, s)
                             /\ ValidIn(d, s) = ValidIn(c, s) \cup (IF s = ShardOf(k) THEN {e} ELSE {})
                             /\ IdleIn(d, s) = IdleIn(c, s)
                             /\ InUse(d, s) = InUse(c, s) \cup (IF s = ShardOf(k) THEN {e} ELSE {})
<1>1. \A x \in Cell \ {e} : d.cells[x] = c.cells[x]
  BY DEF CellAdded, OtherCells
<1>2. d.cells[e].key = k /\ d.cells[e].charge = size /\ d.cells[e].valid /\ d.cells[e].refs = 2 /\ d.cells[e].mem = "live"
  BY DEF CellAdded
<1>3. KeysOfCells(d)[e] = k /\ Charges(d)[e] = size /\ Home(d, e) = ShardOf(k) /\ ~LastUse(d, e)
  BY <1>2 DEF KeysOfCells, Charges, Home, LastUse
<1>4. \A x \in Cell \ {e} : /\ KeysOfCells(d)[x] = KeysOfCells(c)[x] /\ Charges(d)[x] = Charges(c)[x] /\ Home(d, x) = Home(c, x)
                            /\ LastUse(d, x) <=> LastUse(c, x)
  BY <1>1 DEF KeysOfCells, Charges, Home, LastUse
<1> SUFFICES ASSUME NEW s \in Shard
             PROVE  /\ e \notin ValidIn(c, s) /\ e \notin InUse(c, s)
                    /\ ValidIn(d, s) = ValidIn(c, s) \cup (IF s = ShardOf(k) THEN {e} ELSE {})
                    /\ IdleIn(d, s) = IdleIn(c, s)
                    /\ InUse(d, s) = InUse(c, s) \cup (IF s = ShardOf(k) THEN {e} ELSE {})
  BY <1>3, <1>4
<1>5. e \notin ValidIn(c, s) /\ e \notin InUse(c, s)
  BY DEF ValidIn, InUse
<1>6. ValidIn(d, s) = ValidIn(c, s) \cup (IF s = ShardOf(k) THEN {e} ELSE {})
  BY <1>1, <1>2, <1>3, <1>4, <1>5 DEF ValidIn
<1>7. IdleIn(d, s) = IdleIn(c, s)
  <2>1. ValidIn(c, s) \subseteq Cell
    BY DEF ValidIn
  <2> QED BY <1>3, <1>4, <1>5, <1>6, <2>1 DEF IdleIn
<1>8. InUse(d, s) = InUse(c, s) \cup (IF s = ShardOf(k) THEN {e} ELSE {})
  BY <1>1, <1>2, <1>3, <1>4, <1>5 DEF InUse
<1> QED BY <1>5, <1>6, <1>7, <1>8

\* The new entry in the table; the old one is not there any more.
LEMMA FiledIs ==
  ASSUME NEW c, Whole(c), NEW e \in Cell, c.cells[e].mem = "free", NEW k \in TableKey, NEW size \in Nat, NEW memory
  PROVE  LET f == Filed(Allocated(c, e, k, size), e, k, memory)
         IN  WholeBut(f, {Find(c, k)}) /\ CellAdded(c, f, e, k, size)
<1> DEFINE a == Allocated(c, e, k, size)
           f == Filed(a, e, k, memory)
           s == ShardOf(k)
           t == c.tables[s]
           keyOf == KeysOfCells(a)
           i == FindPointer(t, keyOf, k)
           new == InsertHandle(t, keyOf, e, i, memory)
           old == Find(c, k)
<1>1. c \in Containers /\ TablesRight(c, {}) /\ OrdersRight(c) /\ UsedRight(c) /\ CellsRight(c) /\ s \in Shard
  BY ContainerIs DEF Whole, WholeBut
<1>2. c.cells[e].mem # "live" /\ ~c.cells[e].valid
  BY <1>1 DEF CellsRight
<1>3. a \in Containers /\ a.tables = c.tables /\ a.orders = c.orders /\ a.used = [c.used EXCEPT ![s] = @ + size] /\ CellAdded(c, a, e, k, size)
  BY <1>1, AllocatedParts
<1> HIDE DEF a
<1>4. /\ keyOf[e] = k /\ Charges(a)[e] = size
      /\ \A x \in Cell \ {e} : keyOf[x] = KeysOfCells(c)[x] /\ Charges(a)[x] = Charges(c)[x] /\ Home(a, x) = Home(c, x)
      /\ \A x \in Shard : /\ e \notin ValidIn(c, x) /\ e \notin InUse(c, x)
                          /\ ValidIn(a, x) = ValidIn(c, x) \cup (IF x = s THEN {e} ELSE {})
                          /\ IdleIn(a, x) = IdleIn(c, x)
                          /\ InUse(a, x) = InUse(c, x) \cup (IF x = s THEN {e} ELSE {})
  BY <1>1, <1>2, <1>3, AddedSets
<1>5. keyOf \in [Cell -> TableKey] /\ a.tables \in [Shard -> Handles] /\ c.tables \in [Shard -> Handles]
  BY <1>1, <1>3, ContainerIs
<1> HIDE DEF keyOf
<1>6. ASSUME NEW x \in Shard PROVE Right(c.tables[x], keyOf) /\ Entries(c.tables[x].list) = ValidIn(c, x)
  <2>1. Right(c.tables[x], KeysOfCells(c)) /\ Entries(c.tables[x].list) = ValidIn(c, x)
    BY <1>1 DEF TablesRight
  <2> DEFINE u == c.tables[x]
  <2>2. u \in Handles /\ WellFiled(u.list, u.length, KeysOfCells(c)) /\ u.elems = Cardinality(Entries(u.list)) /\ Entries(u.list) = ValidIn(c, x)
    BY <2>1 DEF Right
  <2>3. u.length \in Nat \ {0} /\ u.list \in Lists(u.length)
    BY <2>2, TableIs
  <2>4. \A y \in Entries(u.list) : keyOf[y] = KeysOfCells(c)[y]
    BY <1>4, <2>2 DEF ValidIn
  <2> HIDE DEF u
  <2>5. WellFiled(u.list, u.length, keyOf)
    BY <2>2, <2>3, <2>4, SameKeys
  <2> QED BY <2>1, <2>2, <2>5 DEF Right, u
<1>7. Right(t, keyOf) /\ Entries(t.list) = ValidIn(c, s)
  BY <1>1, <1>6
<1>8. LookupHandle(t, keyOf, k) = old
  <2>1. t \in Handles /\ WellFiled(t.list, t.length, keyOf)
    BY <1>7 DEF Right
  <2>2. \A y \in Entries(t.list) : y \in Cell \ {e} /\ keyOf[y] = c.cells[y].key /\ c.cells[y].valid
    BY <1>1, <1>4, <1>7, ContainerIs DEF ValidIn
  <2>3. CASE old = NoCell
    <3>1. \A y \in Entries(t.list) : keyOf[y] # k
      <4> SUFFICES ASSUME NEW y \in Entries(t.list), keyOf[y] = k PROVE FALSE
        OBVIOUS
      <4>1. Find(c, k) = y
        BY <2>2, FindGives
      <4> QED BY <2>2, <2>3, <4>1, CellAssumption
    <3> HIDE DEF t
    <3>2. LookupHandle(t, keyOf, k) # NoCell => LookupHandle(t, keyOf, k) \in Entries(t.list) /\ keyOf[LookupHandle(t, keyOf, k)] = k
      BY <2>1, LookupIs
    <3> QED BY <2>3, <3>1, <3>2
  <2>4. CASE old # NoCell
    <3>1. old \in Cell /\ c.cells[old].valid /\ c.cells[old].key = k
      BY <2>4, FindGives
    <3>2. old \in Entries(t.list) /\ keyOf[old] = k
      <4>1. old \in ValidIn(c, s)
        BY <3>1 DEF ValidIn, Home
      <4> QED BY <1>7, <2>2, <3>1, <4>1
    <3> HIDE DEF t, old
    <3> QED BY <2>1, <3>2, LookupIs
  <2> QED BY <2>3, <2>4
<1>9. f = [a EXCEPT !.tables[s] = new]
  BY <1>3 DEF Filed, Pointer, keyOf
<1>10. e \notin Entries(t.list)
  BY <1>1, <1>4, <1>7
<1> HIDE DEF t, f, old
<1>11. Right(new, keyOf) /\ Entries(new.list) = (Entries(t.list) \ {old}) \cup {e}
  <2>1. k = keyOf[e]
    BY <1>4
  <2>2. LET n == InsertHandle(t, keyOf, e, FindPointer(t, keyOf, keyOf[e]), memory)
        IN  Right(n, keyOf) /\ Entries(n.list) = (Entries(t.list) \ {LookupHandle(t, keyOf, keyOf[e])}) \cup {e}
    BY <1>5, <1>7, <1>10, InsertIs
  <2> QED BY <1>8, <2>1, <2>2
<1>12. new \in Handles
  BY <1>11 DEF Right
<1> HIDE DEF new
<1>13. f.tables = [c.tables EXCEPT ![s] = new] /\ f.orders = a.orders /\ f.used = a.used /\ f.cells = a.cells
  BY <1>3, <1>9 DEF Containers
<1>14. f \in Containers
  BY <1>1, <1>3, <1>9, <1>12, <1>13 DEF Containers
<1>15. CellAdded(c, f, e, k, size)
  BY <1>3, <1>13 DEF CellAdded, OtherCells
<1>16. KeysOfCells(f) = keyOf /\ Charges(f) = Charges(a) /\ \A x : ValidIn(f, x) = ValidIn(a, x) /\ IdleIn(f, x) = IdleIn(a, x) /\ InUse(f, x) = InUse(a, x)
  BY <1>13, SameSets DEF keyOf
<1>17. old # e
  <2>1. old # NoCell => c.cells[old].valid
    BY FindGives DEF old
  <2> QED BY <1>2, <2>1, CellAssumption
<1>18. TablesRight(f, {old})
  <2> SUFFICES ASSUME NEW x \in Shard PROVE Right(f.tables[x], keyOf) /\ Entries(f.tables[x].list) = ValidIn(a, x) \ {old}
    BY <1>16 DEF TablesRight
  <2>1. CASE x = s
    <3>1. f.tables[x] = new
      BY <1>1, <1>5, <1>13, <2>1
    <3>2. ValidIn(a, x) = ValidIn(c, s) \cup {e}
      BY <1>4, <2>1
    <3> QED BY <1>7, <1>11, <1>17, <3>1, <3>2
  <2>2. CASE x # s
    <3>1. f.tables[x] = c.tables[x] /\ ValidIn(a, x) = ValidIn(c, x)
      BY <1>1, <1>4, <1>5, <1>13, <2>2
    <3>2. old \notin ValidIn(c, x)
      <4>1. old # NoCell => Home(c, old) = s
        BY FindGives DEF old, Home
      <4> QED BY <2>2, <4>1, CellAssumption DEF ValidIn
    <3> QED BY <1>6, <3>1, <3>2
  <2> QED BY <2>1, <2>2
<1>19. OrdersRight(f)
  BY <1>1, <1>3, <1>4, <1>13, <1>16 DEF OrdersRight
<1>20. UsedRight(f)
  <2> SUFFICES ASSUME NEW x \in Shard PROVE a.used[x] = SumFunctionOnSet(Charges(a), InUse(a, x))
    BY <1>13, <1>16 DEF UsedRight
  <2> DEFINE S == InUse(c, x)
             g == Charges(c)
             h == Charges(a)
  <2>1. c.used[x] = SumFunctionOnSet(g, S) /\ c.used \in [Shard -> Int] /\ S \in SUBSET Cell /\ e \notin S
    BY <1>1, <1>4, ContainerIs DEF UsedRight, InUse
  <2>2. IsFiniteSet(S) /\ (\A y \in S : h[y] \in Int) /\ SumFunctionOnSet(h, S) \in Nat
    <3> HIDE DEF S
    <3> QED BY <1>3, <2>1, ChargesAdd
  <2>3. \A y \in S : g[y] = h[y]
    BY <1>4, <2>1
  <2>4. InUse(a, x) = S \cup (IF x = s THEN {e} ELSE {}) /\ h[e] = size /\ h[e] \in Int
    BY <1>1, <1>4
  <2> HIDE DEF S, g, h
  <2>5. SumFunctionOnSet(g, S) = SumFunctionOnSet(h, S)
    BY <2>2, <2>3, SumSame
  <2>6. SumFunctionOnSet(h, S \cup {e}) = SumFunctionOnSet(h, S) + h[e]
    BY <2>1, <2>2, <2>4, SumAddElement
  <2>7. a.used[x] = IF x = s THEN c.used[x] + size ELSE c.used[x]
    BY <1>1, <1>3, <2>1
  <2>8. CASE x = s
    BY <2>1, <2>4, <2>5, <2>6, <2>7, <2>8 DEF h
  <2>9. CASE x # s
    <3>1. InUse(a, x) = S
      BY <2>4, <2>9
    <3> QED BY <2>1, <2>5, <2>7, <2>9, <3>1 DEF h
  <2> QED BY <2>8, <2>9
<1>21. CellsRight(f)
  <2>1. ASSUME NEW x \in Cell
        PROVE  /\ f.cells[x].mem = "live" <=> f.cells[x].refs # 0
               /\ f.cells[x].valid => f.cells[x].mem = "live"
               /\ f.cells[x].refs >= 0
    <3>1. CASE x # e
      BY <1>1, <1>15, <3>1 DEF CellsRight, CellAdded, OtherCells
    <3>2. CASE x = e
      BY <1>15, <3>2 DEF CellAdded
    <3> QED BY <3>1, <3>2
  <2> QED BY <2>1 DEF CellsRight
<1> QED BY <1>14, <1>15, <1>18, <1>19, <1>20, <1>21 DEF WholeBut, f, old, a

\* What a new entry is.
IsNew(d, e, k, size) ==
  /\ d.cells[e].key = k /\ d.cells[e].charge = size /\ d.cells[e].valid = TRUE
  /\ d.cells[e].refs = 2 /\ d.cells[e].mem = "live"

\* What an entry is that the table has lost.
IsLost(c, d, e) ==
  /\ d.cells[e].key = c.cells[e].key /\ d.cells[e].charge = c.cells[e].charge /\ d.cells[e].valid = FALSE
  /\ d.cells[e].refs = c.cells[e].refs - 1
  /\ d.cells[e].mem = IF LastUse(c, e) THEN "unlinked" ELSE c.cells[e].mem

\* Those of S are lost.
Gone(c, d, S) == \A e \in Cell : IF e \in S THEN IsLost(c, d, e) ELSE d.cells[e] = c.cells[e]

\* insert: the new entry is found by its key, the one before it is lost.
LEMMA InsertedIs ==
  ASSUME NEW c, Whole(c), NEW e \in Cell, c.cells[e].mem = "free", NEW k \in TableKey, NEW size \in Nat, NEW memory
  PROVE  LET r == InsertEntry(c, e, k, size, memory)
         IN  /\ Whole(r) /\ IsNew(r, e, k, size) /\ Find(c, k) # e
             /\ Find(c, k) # NoCell => IsLost(c, r, Find(c, k))
             /\ \A x \in Cell \ {e, Find(c, k)} : r.cells[x] = c.cells[x]
<1> DEFINE f == Filed(Allocated(c, e, k, size), e, k, memory)
           old == Find(c, k)
           r == InsertEntry(c, e, k, size, memory)
<1>1. WholeBut(f, {old}) /\ CellAdded(c, f, e, k, size)
  BY FiledIs
<1>2. old # NoCell => old \in Cell /\ c.cells[old].valid
  BY FindGives
<1>3. ~c.cells[e].valid /\ e # NoCell
  BY CellAssumption DEF Whole, WholeBut, CellsRight
<1>4. r = LoseOld(f, old)
  BY DEF InsertEntry
<1> HIDE DEF f, old, r
<1>5. old # e
  BY <1>2, <1>3
<1>6. CASE old = NoCell
  <2>1. r = f
    BY <1>4, <1>6 DEF LoseOld
  <2>2. \A s \in Shard : ValidIn(f, s) \ {old} = ValidIn(f, s) \ {}
    BY <1>6, CellAssumption DEF ValidIn
  <2>3. TablesRight(f, {})
    BY <1>1, <2>2 DEF WholeBut, TablesRight
  <2>4. Whole(f)
    BY <1>1, <2>3 DEF Whole, WholeBut
  <2> QED BY <1>1, <1>5, <1>6, <2>1, <2>4 DEF CellAdded, OtherCells, IsNew, r, old
<1>7. CASE old # NoCell
  <2>1. r = Lost(f, old)
    BY <1>4, <1>7 DEF LoseOld
  <2>2. f.cells[old] = c.cells[old] /\ (LastUse(f, old) <=> LastUse(c, old))
    BY <1>1, <1>2, <1>5, <1>7 DEF CellAdded, OtherCells, LastUse
  <2>3. Whole(r) /\ CellLost(f, r, old)
    BY <1>1, <1>2, <1>7, <2>1, <2>2, LostIs
  <2>4. IsNew(r, e, k, size)
    BY <1>1, <1>5, <2>3 DEF CellAdded, CellLost, OtherCells, IsNew
  <2>5. IsLost(c, r, old)
    BY <2>2, <2>3 DEF CellLost, IsLost
  <2>6. \A x \in Cell \ {e, old} : r.cells[x] = c.cells[x]
    BY <1>1, <2>3 DEF CellAdded, CellLost, OtherCells
  <2> QED BY <1>5, <2>3, <2>4, <2>5, <2>6 DEF r, old
<1> QED BY <1>6, <1>7

\* evict: one after the other.
LEMMA EvictedIs ==
  ASSUME NEW c, Whole(c), NEW es \in Seq(Cell), IsInjective(es), \A e \in ToSet(es) : c.cells[e].valid
  PROVE  Whole(EvictEntries(c, es)) /\ Gone(c, EvictEntries(c, es), ToSet(es))
<1> DEFINE W == Containers
           L == Len(es)
           step == [i \in 1 .. L |-> [w \in W |-> EraseEntry(w, es[i])]]
           Is(g) == g = [u \in SUBSET (DOMAIN es) |-> IF u = {} THEN c ELSE EraseEntry(g[u \ {Max(u)}], es[Max(u)])]
           g == CHOOSE x : Is(x)
<1>1. L \in Nat /\ DOMAIN es = 1 .. L /\ (\A i \in 1 .. L : es[i] \in Cell) /\ c \in W
  BY ElementOfSeq DEF Whole, WholeBut
<1>2. step \in [1 .. L -> [W -> W]]
  <2>1. \A i \in 1 .. L, w \in W : EraseEntry(w, es[i]) \in W
    BY <1>1, EraseType
  <2> HIDE DEF W, L
  <2> QED BY <2>1 DEF W
<1>3. EvictEntries(c, es) = g[DOMAIN es]
  BY DEF EvictEntries, FoldLeft, MapThenFoldSet
<1>4. \A u \in SUBSET (1 .. L) : u # {} => Max(u) \in 1 .. L
  BY <1>1, MaxIs
<1> HIDE DEF L
<1>5. Is(g)
  <2>1. PICK f \in [SUBSET (1 .. L) -> W] : Folds(f, 1 .. L, c, step)
    <3> HIDE DEF W, step
    <3> QED BY <1>1, <1>2, FoldExists
  <2>2. ASSUME NEW u \in SUBSET (1 .. L), u # {} PROVE step[Max(u)][f[u \ {Max(u)}]] = EraseEntry(f[u \ {Max(u)}], es[Max(u)])
    <3>1. f[u \ {Max(u)}] \in W
      <4> HIDE DEF W
      <4> QED BY <2>1, <2>2
    <3> HIDE DEF W
    <3> QED BY <1>4, <2>2, <3>1
  <2>3. Is(f)
    <3> HIDE DEF step
    <3> QED BY <1>1, <2>1, <2>2 DEF Folds
  <2> HIDE DEF Is
  <2> QED BY <2>3
<1>6. Follows(g, L, W, c, step)
  <2>1. g[{}] = c
    <3> HIDE DEF g
    <3> QED BY <1>5
  <2>2. ASSUME NEW u \in SUBSET (1 .. L), u # {}, g[u \ {Max(u)}] \in W PROVE g[u] = step[Max(u)][g[u \ {Max(u)}]]
    <3>1. step[Max(u)][g[u \ {Max(u)}]] = EraseEntry(g[u \ {Max(u)}], es[Max(u)])
      <4> HIDE DEF g, W
      <4> QED BY <1>4, <2>2
    <3> HIDE DEF g, step
    <3> QED BY <1>1, <1>5, <2>2, <3>1
  <2> HIDE DEF g, step, W
  <2> QED BY <2>1, <2>2 DEF Follows
<1>7. /\ g[1 .. 0] = c /\ \A i \in 0 .. L : g[1 .. i] \in W
      /\ \A i \in 0 .. L - 1 : g[1 .. i + 1] = step[i + 1][g[1 .. i]]
  <2> HIDE DEF g, step, W
  <2>1. FoldSteps(g, L, W, c, step)
    BY <1>1, <1>2, <1>6, FoldFollows
  <2> QED BY <2>1 DEF FoldSteps
<1>8. \A i \in 0 .. L - 1 : i + 1 \in 1 .. L /\ i \in 0 .. L /\ i + 1 \in 0 .. L
  BY <1>1
<1>9. \A i \in 0 .. L - 1 : g[1 .. i + 1] = EraseEntry(g[1 .. i], es[i + 1])
  <2>1. \A j \in 1 .. L, w \in W : step[j][w] = EraseEntry(w, es[j])
    <3> HIDE DEF W
    <3> QED OBVIOUS
  <2> HIDE DEF g, step, W
  <2> QED BY <1>7, <1>8, <2>1
<1> DEFINE First(i) == {es[j] : j \in 1 .. i}
           Good == {i \in 0 .. L : Whole(g[1 .. i]) /\ Gone(c, g[1 .. i], First(i))}
<1>10. 0 \in Good
  <2>1. First(0) = {} /\ 0 \in 0 .. L
    BY <1>1
  <2>2. Gone(c, c, {})
    BY DEF Gone
  <2> HIDE DEF g, First
  <2> QED BY <1>7, <2>1, <2>2
<1>11. ASSUME NEW i \in 0 .. L - 1, i \in Good PROVE i + 1 \in Good
  <2> DEFINE w == g[1 .. i]
             v == g[1 .. i + 1]
             e == es[i + 1]
  <2>1. v = EraseEntry(w, e) /\ e \in Cell /\ c.cells[e].valid
    <3>1. e \in ToSet(es)
      BY <1>1, <1>8 DEF ToSet
    <3> HIDE DEF g
    <3> QED BY <1>1, <1>8, <1>9, <3>1
  <2>2. Whole(w) /\ Gone(c, w, First(i))
    <3> HIDE DEF g, First
    <3> QED BY <1>11
  <2>3. e \notin First(i)
    <3>1. \A j \in 1 .. i : j \in 1 .. L /\ j # i + 1
      BY <1>1
    <3> QED BY <1>1, <1>8, <3>1 DEF IsInjective
  <2>4. First(i + 1) = First(i) \cup {e}
    <3>1. 1 .. i + 1 = (1 .. i) \cup {i + 1}
      BY <1>8
    <3> QED BY <3>1
  <2> HIDE DEF g, w, v, e, First
  <2>5. w.cells[e] = c.cells[e]
    BY <2>1, <2>2, <2>3 DEF Gone
  <2>6. Whole(v) /\ CellLost(w, v, e)
    BY <2>1, <2>2, <2>5, EraseIs
  <2>7. IsLost(c, v, e)
    BY <2>5, <2>6 DEF CellLost, IsLost, LastUse
  <2>8. \A x \in Cell \ {e} : v.cells[x] = w.cells[x]
    BY <2>6 DEF CellLost, OtherCells
  <2>9. Gone(c, v, First(i) \cup {e})
    <3>1. ASSUME NEW x \in Cell PROVE IF x \in First(i) \cup {e} THEN IsLost(c, v, x) ELSE v.cells[x] = c.cells[x]
      <4>1. CASE x = e
        BY <2>7, <4>1
      <4>2. CASE x # e /\ x \in First(i)
        <5>1. IsLost(c, w, x) /\ v.cells[x] = w.cells[x]
          BY <2>2, <2>8, <4>2 DEF Gone
        <5>2. IsLost(c, v, x)
          BY <5>1 DEF IsLost
        <5> QED BY <4>2, <5>2
      <4>3. CASE x # e /\ x \notin First(i)
        BY <2>2, <2>8, <4>3 DEF Gone
      <4> QED BY <4>1, <4>2, <4>3
    <3> QED BY <3>1 DEF Gone
  <2> QED BY <1>8, <2>4, <2>6, <2>9 DEF v
<1>12. Whole(g[1 .. L]) /\ Gone(c, g[1 .. L], First(L))
  <2>1. \A i \in 0 .. L : i \in Good
    <3> HIDE DEF Good
    <3> QED BY <1>1, <1>10, <1>11, UpTo
  <2>2. L \in 0 .. L
    BY <1>1
  <2> HIDE DEF g, First
  <2> QED BY <2>1, <2>2
<1>13. First(L) = ToSet(es)
  BY <1>1 DEF ToSet
<1> HIDE DEF g, First
<1> QED BY <1>1, <1>3, <1>12, <1>13

\* The victims are the first of the order.
LEMMA VictimsAre ==
  ASSUME NEW c, Whole(c), NEW s \in Shard, NEW size
  PROVE  LET v == Victims(c, s, size)
         IN  v \in Seq(Cell) /\ IsInjective(v) /\ ToSet(v) \subseteq ToSet(c.orders[s])
<1> DEFINE row == c.orders[s]
           Freed(n) == FoldLeft(LAMBDA sum, e : sum + c.cells[e].charge, 0, SubSeq(row, 1, n))
           J == {n \in 0 .. Len(row) : n = Len(row) \/ Freed(n) >= size}
           m == Min(J)
           v == SubSeq(row, 1, m)
<1>1. row \in Seq(Cell) /\ Len(row) \in Nat /\ DOMAIN row = 1 .. Len(row) /\ IsInjective(row)
  <2>1. c \in Containers /\ OrdersRight(c)
    BY DEF Whole, WholeBut
  <2> QED BY <2>1, ContainerIs DEF OrdersRight
<1>2. Victims(c, s, size) = v
  BY DEF Victims
<1> HIDE DEF Freed, row
<1>3. J \subseteq Nat /\ J \subseteq 0 .. Len(row) /\ Len(row) \in J
  BY <1>1
<1>4. IsFiniteSet(J)
  <2>1. IsFiniteSet(0 .. Len(row))
    BY <1>1, FS_Interval
  <2> HIDE DEF J
  <2> QED BY <1>3, <2>1, FS_Subset
<1>5. m \in 0 .. Len(row)
  <2> HIDE DEF J
  <2> QED BY <1>3, <1>4, MinIs
<1> HIDE DEF m
<1>6. v \in Seq(Cell) /\ Len(v) = m /\ \A i \in 1 .. m : v[i] = row[i]
  <2>1. \A i \in 1 .. m : row[i] \in Cell
    BY <1>1, <1>5, ElementOfSeq
  <2> QED BY <1>1, <1>5, <2>1, SubSeqProperties
<1>7. DOMAIN v = 1 .. m
  BY <1>6
<1>8. \A i \in 1 .. m : i \in 1 .. Len(row)
  BY <1>1, <1>5
<1> HIDE DEF v
<1>9. IsInjective(v) /\ ToSet(v) \subseteq ToSet(row)
  BY <1>1, <1>6, <1>7, <1>8 DEF IsInjective, ToSet
<1> QED BY <1>2, <1>6, <1>9 DEF row

\* free: memory that nothing refers to.
FreedCells(c, G) == [c EXCEPT !.cells = [e \in Cell |-> [c.cells[e] EXCEPT !.mem = IF e \in G THEN "free" ELSE @]]]

\* free() of unlinked cells leaves the container whole.
LEMMA FreedIs ==
  ASSUME NEW c, Whole(c), NEW G, \A e \in Cell : e \in G => c.cells[e].mem = "unlinked"
  PROVE  LET f == FreedCells(c, G)
         IN  /\ Whole(f)
             /\ \A e \in Cell : /\ f.cells[e].key = c.cells[e].key /\ f.cells[e].charge = c.cells[e].charge /\ f.cells[e].valid = c.cells[e].valid
                                /\ f.cells[e].refs = c.cells[e].refs
                                /\ f.cells[e].mem = IF e \in G THEN "free" ELSE c.cells[e].mem
             /\ f.tables = c.tables
<1> DEFINE f == FreedCells(c, G)
           M(e) == IF e \in G THEN "free" ELSE c.cells[e].mem
<1>1. c \in Containers /\ TablesRight(c, {}) /\ OrdersRight(c) /\ UsedRight(c) /\ CellsRight(c)
  BY DEF Whole, WholeBut
<1>2. c.cells \in [Cell -> CellRecord] /\ \A e \in Cell : c.cells[e] \in CellRecord
  BY <1>1, ContainerIs
<1>3. f.tables = c.tables /\ f.orders = c.orders /\ f.used = c.used /\ f.cells = [e \in Cell |-> [c.cells[e] EXCEPT !.mem = M(e)]]
  BY <1>1 DEF FreedCells, Containers
<1>4. \A e \in Cell : M(e) \in {"free", "live", "unlinked"}
  BY <1>2 DEF CellRecord
<1>5. f.cells \in [Cell -> CellRecord]
  <2>1. ASSUME NEW e \in Cell PROVE [c.cells[e] EXCEPT !.mem = M(e)] \in CellRecord
    <3> DEFINE m == M(e)
    <3>1. m \in {"free", "live", "unlinked"}
      BY <1>4
    <3> HIDE DEF m
    <3>2. [c.cells[e] EXCEPT !.mem = m] \in CellRecord
      BY <1>2, <3>1 DEF CellRecord
    <3> QED BY <3>2 DEF m
  <2> HIDE DEF M, f
  <2> QED BY <1>3, <2>1
<1>6. f \in Containers
  <2> DEFINE cs == [e \in Cell |-> [c.cells[e] EXCEPT !.mem = M(e)]]
  <2>1. f = [c EXCEPT !.cells = cs]
    BY DEF FreedCells
  <2>2. cs \in [Cell -> CellRecord]
    <3> HIDE DEF f, cs
    <3> QED BY <1>3, <1>5 DEF cs
  <2> HIDE DEF cs, f
  <2> QED BY <1>1, <2>1, <2>2 DEF Containers
<1>7. ASSUME NEW e \in Cell
      PROVE  /\ f.cells[e].key = c.cells[e].key /\ f.cells[e].charge = c.cells[e].charge /\ f.cells[e].valid = c.cells[e].valid
             /\ f.cells[e].refs = c.cells[e].refs /\ f.cells[e].mem = M(e)
  <2>1. f.cells[e] = [c.cells[e] EXCEPT !.mem = M(e)]
    <3> HIDE DEF f, M
    <3> QED BY <1>3
  <2> HIDE DEF f, M
  <2> QED BY <1>2, <2>1 DEF CellRecord
<1>8. \A e \in Cell : M(e) = "live" <=> c.cells[e].mem = "live"
  OBVIOUS
<1> HIDE DEF f, M
<1>9. KeysOfCells(f) = KeysOfCells(c) /\ Charges(f) = Charges(c) /\ \A e \in Cell : Home(f, e) = Home(c, e) /\ (LastUse(f, e) <=> LastUse(c, e))
  BY <1>7 DEF KeysOfCells, Charges, Home, LastUse
<1>10. \A s : ValidIn(f, s) = ValidIn(c, s)
  BY <1>7, <1>9 DEF ValidIn
<1>11. \A s : IdleIn(f, s) = IdleIn(c, s)
  <2>1. \A s : ValidIn(c, s) \subseteq Cell
    BY DEF ValidIn
  <2> QED BY <1>9, <1>10, <2>1 DEF IdleIn
<1>12. \A s : InUse(f, s) = InUse(c, s)
  BY <1>7, <1>8, <1>9 DEF InUse
<1>13. TablesRight(f, {}) /\ OrdersRight(f) /\ UsedRight(f)
  BY <1>1, <1>3, <1>9, <1>10, <1>11, <1>12 DEF TablesRight, OrdersRight, UsedRight
<1>14. CellsRight(f)
  BY <1>1, <1>7, <1>8 DEF CellsRight
<1> QED BY <1>3, <1>6, <1>7, <1>13, <1>14 DEF Whole, WholeBut, f, M

-----------------------------------------------------------------------------
(***************************************************************************)
(* The threads.                                                            *)
(***************************************************************************)
Frame == [doing : {"idle", "release", "evict", "prune"}, shard : Shard, size : Nat, cell : Cell \cup {NoCell}, garbage : SUBSET Cell]

One(p) == IF p THEN 1 ELSE 0
Holding(us, e) == {t \in User : us[t].cell = e}

\* The table's reference and one for each handle.
RefsCounted(c, us) == \A e \in Cell : c.cells[e].refs = One(c.cells[e].valid) + Cardinality(Holding(us, e))

\* What is unlinked is to be freed by one thread.
GarbageRight(c, us) ==
  /\ \A t \in User : \A e \in us[t].garbage : c.cells[e].mem = "unlinked"
  /\ \A e \in Cell : c.cells[e].mem = "unlinked" => \E t \in User : e \in us[t].garbage
  /\ \A t, u \in User : \A e \in Cell : e \in us[t].garbage /\ e \in us[u].garbage => t = u

Framed(us) == us \in [User -> Frame] /\ \A t \in User : us[t].doing = "release" <=> us[t].cell # NoCell

Held(c, us) == Whole(c) /\ Framed(us) /\ RefsCounted(c, us) /\ GarbageRight(c, us)

\* A step of t that leaves it with the frame f.
Accounted(c, d, g, f) ==
  \A e \in Cell :
     /\ d.cells[e].refs - One(d.cells[e].valid) = c.cells[e].refs - One(c.cells[e].valid) + One(f.cell = e) - One(g.cell = e)
     /\ d.cells[e].mem = "unlinked" => c.cells[e].mem = "unlinked" \/ e \in f.garbage
     /\ e \in f.garbage => d.cells[e].mem = "unlinked" /\ (e \in g.garbage \/ c.cells[e].mem # "unlinked")
     /\ e \in g.garbage => e \in f.garbage \/ d.cells[e].mem # "unlinked"
     /\ c.cells[e].mem = "unlinked" => d.cells[e].mem = "unlinked" \/ e \in g.garbage

\* A thread that changes its frame gives up its handle and gets the one of the new frame.
LEMMA HoldingIs ==
  ASSUME NEW us \in [User -> Frame], NEW t \in User, NEW f \in Frame, NEW e \in Cell
  PROVE  /\ Cardinality(Holding(us, e)) \in Nat
         /\ Cardinality(Holding([us EXCEPT ![t] = f], e)) = Cardinality(Holding(us, e)) + One(f.cell = e) - One(us[t].cell = e)
<1> DEFINE new == [us EXCEPT ![t] = f]
           H == Holding(us, e)
           N == Holding(new, e)
           R == H \ {t}
<1>1. IsFiniteSet(H) /\ IsFiniteSet(R) /\ t \notin R
  BY UserAssumption, FS_Subset DEF Holding
<1>2. new[t] = f /\ \A u \in User \ {t} : new[u] = us[u]
  OBVIOUS
<1> HIDE DEF new
<1>3. Cardinality(R) \in Nat /\ Cardinality(R \cup {t}) = Cardinality(R) + 1
  BY <1>1, FS_CardinalityType, FS_AddElement
<1>4. Cardinality(H) = Cardinality(R) + One(us[t].cell = e)
  <2>1. CASE us[t].cell = e
    <3>1. H = R \cup {t}
      BY <2>1 DEF Holding
    <3> QED BY <1>3, <2>1, <3>1 DEF One
  <2>2. CASE us[t].cell # e
    <3>1. H = R
      BY <2>2 DEF Holding
    <3> QED BY <1>3, <2>2, <3>1 DEF One
  <2> QED BY <2>1, <2>2
<1>5. Cardinality(N) = Cardinality(R) + One(f.cell = e)
  <2>1. CASE f.cell = e
    <3>1. N = R \cup {t}
      BY <1>2, <2>1 DEF Holding
    <3> QED BY <1>3, <2>1, <3>1 DEF One
  <2>2. CASE f.cell # e
    <3>1. N = R
      BY <1>2, <2>2 DEF Holding
    <3> QED BY <1>3, <2>2, <3>1 DEF One
  <2> QED BY <2>1, <2>2
<1>6. One(f.cell = e) \in {0, 1} /\ One(us[t].cell = e) \in {0, 1}
  BY DEF One
<1> HIDE DEF H, N, R
<1>7. Cardinality(H) \in Nat /\ Cardinality(N) = Cardinality(H) + One(f.cell = e) - One(us[t].cell = e)
  BY <1>3, <1>4, <1>5, <1>6
<1> QED BY <1>7 DEF H, N, new

\* Such a step keeps the invariant.
LEMMA AccountedHolds ==
  ASSUME NEW c, NEW us, Held(c, us), NEW t \in User, NEW d, Whole(d), NEW f \in Frame, f.doing = "release" <=> f.cell # NoCell,
         Accounted(c, d, us[t], f)
  PROVE  Held(d, [us EXCEPT ![t] = f])
<1> DEFINE new == [us EXCEPT ![t] = f]
<1>1. us \in [User -> Frame]
  BY DEF Held, Framed
<1>2. new \in [User -> Frame] /\ new[t] = f /\ \A u \in User \ {t} : new[u] = us[u]
  BY <1>1
<1>3. \A e \in Cell : Cardinality(Holding(us, e)) \in Nat /\ Cardinality(Holding(new, e)) = Cardinality(Holding(us, e)) + One(f.cell = e) - One(us[t].cell = e)
  BY <1>1, HoldingIs
<1> HIDE DEF new
<1>4. Framed(new)
  BY <1>2 DEF Held, Framed
<1>5. RefsCounted(d, new)
  <2> SUFFICES ASSUME NEW e \in Cell PROVE d.cells[e].refs = One(d.cells[e].valid) + Cardinality(Holding(new, e))
    BY DEF RefsCounted
  <2> DEFINE a == c.cells[e].refs
             b == d.cells[e].refs
             va == One(c.cells[e].valid)
             vb == One(d.cells[e].valid)
             h == Cardinality(Holding(us, e))
             n == Cardinality(Holding(new, e))
             x == One(f.cell = e)
             y == One(us[t].cell = e)
  <2>1. va \in Int /\ vb \in Int /\ x \in Int /\ y \in Int
    BY DEF One
  <2>2. b - vb = a - va + x - y
    BY DEF Accounted
  <2>3. a = va + h
    BY DEF Held, RefsCounted
  <2>4. h \in Int /\ n = h + x - y
    BY <1>3
  <2>5. b \in Int
    BY ContainerIs DEF Whole, WholeBut
  <2> HIDE DEF a, b, va, vb, h, n, x, y
  <2>6. b = vb + n
    BY <2>1, <2>2, <2>3, <2>4, <2>5
  <2> QED BY <2>6 DEF b, vb, n
<1>6. GarbageRight(d, new)
  <2>1. \A u \in User : us[u].garbage \subseteq Cell
    BY <1>1 DEF Frame
  <2>2. f.garbage \subseteq Cell
    BY DEF Frame
  <2>3. \A u \in User : \A e \in us[u].garbage : c.cells[e].mem = "unlinked"
    BY DEF Held, GarbageRight
  <2>4. \A e \in Cell : c.cells[e].mem = "unlinked" => \E u \in User : e \in us[u].garbage
    BY DEF Held, GarbageRight
  <2>5. \A u, v \in User : \A e \in Cell : e \in us[u].garbage /\ e \in us[v].garbage => u = v
    BY DEF Held, GarbageRight
  <2>6. \A u \in User : \A e \in new[u].garbage : d.cells[e].mem = "unlinked"
    <3> SUFFICES ASSUME NEW u \in User, NEW e \in new[u].garbage PROVE d.cells[e].mem = "unlinked"
      OBVIOUS
    <3>1. CASE u = t
      BY <1>2, <2>2, <3>1 DEF Accounted
    <3>2. CASE u # t
      <4>1. e \in us[u].garbage /\ e \in Cell /\ c.cells[e].mem = "unlinked"
        BY <1>2, <2>1, <2>3, <3>2
      <4> QED BY <2>5, <3>2, <4>1 DEF Accounted
    <3> QED BY <3>1, <3>2
  <2>7. \A e \in Cell : d.cells[e].mem = "unlinked" => \E u \in User : e \in new[u].garbage
    <3> SUFFICES ASSUME NEW e \in Cell, d.cells[e].mem = "unlinked", e \notin f.garbage PROVE \E u \in User : e \in new[u].garbage
      BY <1>2
    <3>1. c.cells[e].mem = "unlinked" /\ e \notin us[t].garbage
      BY DEF Accounted
    <3> QED BY <1>2, <2>4, <3>1
  <2>8. \A u, v \in User : \A e \in Cell : e \in new[u].garbage /\ e \in new[v].garbage => u = v
    <3> SUFFICES ASSUME NEW u \in User, NEW e \in Cell, e \in f.garbage, u # t, e \in us[u].garbage PROVE FALSE
      BY <1>2, <2>5
    <3> QED BY <2>3, <2>5 DEF Accounted
  <2> QED BY <2>6, <2>7, <2>8 DEF GarbageRight
<1> QED BY <1>4, <1>5, <1>6 DEF Held, new

\* What a thread holds is in use, and valid entries with no handle are those with one reference.
LEMMA HeldCells ==
  ASSUME NEW c, NEW us, Held(c, us)
  PROVE  /\ \A t \in User : us[t].cell # NoCell =>
               /\ us[t].cell \in Cell /\ c.cells[us[t].cell].mem = "live"
               /\ c.cells[us[t].cell].valid => c.cells[us[t].cell].refs # 1
         /\ \A e \in Cell : /\ c.cells[e].valid => c.cells[e].mem = "live"
                            /\ c.cells[e].mem # "live" => c.cells[e].refs = 0 /\ ~c.cells[e].valid
<1>1. us \in [User -> Frame] /\ c \in Containers /\ CellsRight(c)
  BY DEF Held, Framed, Whole, WholeBut
<1>2. ASSUME NEW t \in User, us[t].cell # NoCell
      PROVE  /\ us[t].cell \in Cell /\ c.cells[us[t].cell].mem = "live"
             /\ c.cells[us[t].cell].valid => c.cells[us[t].cell].refs # 1
  <2> DEFINE e == us[t].cell
             h == Cardinality(Holding(us, e))
  <2>1. us[t] \in Frame /\ e \in Cell
    BY <1>1, <1>2 DEF Frame
  <2>2. IsFiniteSet(Holding(us, e)) /\ t \in Holding(us, e)
    BY UserAssumption, FS_Subset DEF Holding
  <2>3. h \in Nat /\ h # 0
    BY <2>2, FS_CardinalityType, FS_EmptySet
  <2>4. c.cells[e].refs = One(c.cells[e].valid) + h
    BY <2>1 DEF Held, RefsCounted
  <2> HIDE DEF h, e
  <2>5. c.cells[e].refs # 0 /\ (c.cells[e].valid => c.cells[e].refs # 1)
    BY <2>3, <2>4 DEF One
  <2>6. c.cells[e].mem = "live"
    BY <1>1, <2>1, <2>5 DEF CellsRight
  <2> QED BY <2>1, <2>5, <2>6 DEF e
<1>3. \A e \in Cell : /\ c.cells[e].valid => c.cells[e].mem = "live"
                      /\ c.cells[e].mem # "live" => c.cells[e].refs = 0 /\ ~c.cells[e].valid
  BY <1>1 DEF CellsRight
<1> QED BY <1>2, <1>3

\* The frame of a thread between its calls.
LEMMA IdleIs == 0 \in Shard /\ Idle \in Frame /\ Idle.doing = "idle" /\ Idle.cell = NoCell /\ Idle.garbage = {} /\ Idle.size = 0 /\ Idle.shard = 0
<1>1. 0 \in Shard
  BY ShardCountAssumption DEF Shard
<1> QED BY <1>1 DEF Idle, Frame

\* add keeps the invariant: the entry it replaces is garbage unless a handle is on it.
LEMMA AddHolds ==
  ASSUME Held(container, users), NEW t \in User, NEW k \in UsedKey, NEW size \in Size, AddKey(t, k, size)
  PROVE  Held(container', users')
<1>1. PICK e \in Cell : \E memory \in BOOLEAN :
        /\ container.cells[e].mem = "free"
        /\ container' = InsertEntry(container, e, k, size, memory)
        /\ Call(t, [Idle EXCEPT !.doing = "release", !.cell = e, !.garbage = Garbage(container, {Find(container, k)})])
  BY DEF AddKey
<1>2. PICK memory \in BOOLEAN :
        /\ container.cells[e].mem = "free"
        /\ container' = InsertEntry(container, e, k, size, memory)
        /\ Call(t, [Idle EXCEPT !.doing = "release", !.cell = e, !.garbage = Garbage(container, {Find(container, k)})])
  BY <1>1
<1> DEFINE old == Find(container, k)
           G == Garbage(container, {old})
           f == [Idle EXCEPT !.doing = "release", !.cell = e, !.garbage = G]
           d == container'
<1>3. k \in TableKey /\ size \in Nat /\ Whole(container) /\ users \in [User -> Frame]
  BY UsedKeyAssumption, SizeAssumption DEF TableKey, Held, Framed
<1>4. old # NoCell => old \in Cell /\ container.cells[old].valid
  BY <1>3, FindGives
<1>5. /\ Whole(d) /\ IsNew(d, e, k, size) /\ old # e
      /\ old # NoCell => IsLost(container, d, old)
      /\ \A x \in Cell \ {e, old} : d.cells[x] = container.cells[x]
  BY <1>2, <1>3, InsertedIs
<1>6. \A x \in Cell : x \in G <=> x = old /\ LastUse(container, x)
  BY <1>3, <1>4, HeldCells, CellAssumption DEF Garbage
<1>7. G \subseteq Cell
  BY <1>4 DEF Garbage
<1> HIDE DEF G
<1>8. f \in Frame /\ f.doing = "release" /\ f.cell = e /\ f.garbage = G /\ e # NoCell
  BY <1>7, IdleIs, CellAssumption DEF Frame
<1>9. users[t] = Idle /\ users' = [users EXCEPT ![t] = f]
  BY <1>2 DEF Call, Ready, G
<1>10. users[t].cell = NoCell /\ users[t].garbage = {}
  BY <1>9, IdleIs
<1> HIDE DEF f, old
<1>11. Accounted(container, d, users[t], f)
  <2> SUFFICES ASSUME NEW x \in Cell
      PROVE  /\ d.cells[x].refs - One(d.cells[x].valid) = container.cells[x].refs - One(container.cells[x].valid) + One(f.cell = x) - One(users[t].cell = x)
             /\ d.cells[x].mem = "unlinked" => container.cells[x].mem = "unlinked" \/ x \in G
             /\ x \in G => d.cells[x].mem = "unlinked" /\ container.cells[x].mem # "unlinked"
             /\ container.cells[x].mem = "unlinked" => d.cells[x].mem = "unlinked"
    BY <1>8, <1>10 DEF Accounted
  <2>0. x # NoCell /\ d.cells[x].refs \in Int /\ container.cells[x].refs \in Int
    BY <1>3, <1>5, ContainerIs, CellAssumption DEF Whole, WholeBut
  <2>1. CASE x = e
    <3>1. container.cells[x].refs = 0 /\ ~container.cells[x].valid /\ container.cells[x].mem = "free"
      BY <1>2, <2>1, HeldCells
    <3> QED BY <1>5, <1>6, <1>8, <1>10, <2>0, <2>1, <3>1 DEF IsNew, One
  <2>2. CASE x = old
    <3>1. container.cells[x].valid /\ container.cells[x].mem = "live" /\ IsLost(container, d, x) /\ x # e
      BY <1>4, <1>5, <2>0, <2>2, HeldCells
    <3>2. d.cells[x].mem = "unlinked" <=> LastUse(container, x)
      BY <3>1 DEF IsLost
    <3> QED BY <1>6, <1>8, <1>10, <2>0, <2>2, <3>1, <3>2 DEF IsLost, One
  <2>3. CASE x # e /\ x # old
    <3>1. d.cells[x] = container.cells[x] /\ x \notin G
      BY <1>5, <1>6, <2>3
    <3> QED BY <1>8, <1>10, <2>0, <2>3, <3>1 DEF One
  <2> QED BY <2>1, <2>2, <2>3
<1> QED BY <1>5, <1>8, <1>9, <1>11, AccountedHolds

\* touch keeps the invariant.
LEMMA TouchHolds ==
  ASSUME Held(container, users), NEW t \in User, NEW k \in UsedKey, TouchKey(t, k)
  PROVE  Held(container', users')
<1> DEFINE e == Find(container, k)
           f == [Idle EXCEPT !.doing = "release", !.cell = e]
           d == container'
<1>1. e # NoCell /\ d = Referenced(container, e) /\ users[t] = Idle /\ users' = [users EXCEPT ![t] = f]
  BY DEF TouchKey, Call, Ready
<1>2. k \in TableKey /\ Whole(container) /\ users \in [User -> Frame]
  BY UsedKeyAssumption DEF TableKey, Held, Framed
<1>3. e \in Cell /\ container.cells[e].valid
  BY <1>1, <1>2, FindGives
<1> HIDE DEF e
<1>4. f \in Frame /\ f.doing = "release" /\ f.cell = e /\ f.garbage = {}
  BY <1>3, IdleIs DEF Frame
<1>5. Whole(d) /\ CellCounted(container, d, e, container.cells[e].refs + 1, "live")
  BY <1>1, <1>2, <1>3, ReferencedIs
<1>6. users[t].cell = NoCell /\ users[t].garbage = {} /\ container.cells[e].mem = "live"
  BY <1>1, <1>3, IdleIs, HeldCells
<1> HIDE DEF f
<1>7. Accounted(container, d, users[t], f)
  <2> SUFFICES ASSUME NEW x \in Cell
      PROVE  /\ d.cells[x].refs - One(d.cells[x].valid) = container.cells[x].refs - One(container.cells[x].valid) + One(f.cell = x) - One(users[t].cell = x)
             /\ d.cells[x].mem = container.cells[x].mem
    BY <1>4, <1>6 DEF Accounted
  <2>1. x # NoCell /\ d.cells[x].refs \in Int /\ container.cells[x].refs \in Int
    BY <1>2, <1>5, ContainerIs, CellAssumption DEF Whole, WholeBut
  <2>2. CASE x = e
    BY <1>4, <1>5, <1>6, <2>1, <2>2 DEF CellCounted, One
  <2>3. CASE x # e
    BY <1>4, <1>5, <1>6, <2>1, <2>3 DEF CellCounted, OtherCells, One
  <2> QED BY <2>2, <2>3
<1> QED BY <1>1, <1>3, <1>4, <1>5, <1>7, AccountedHolds, CellAssumption

\* The release of a handle keeps the invariant: the last one on a lost entry makes it garbage.
LEMMA ReleaseHolds ==
  ASSUME Held(container, users), NEW t \in User, ReleaseHandle(t)
  PROVE  Held(container', users')
<1> DEFINE e == users[t].cell
           G == Garbage(container, {e})
           f == [Idle EXCEPT !.garbage = G]
           d == container'
<1>1. users[t].doing = "release" /\ users[t].garbage = {} /\ d = ReleaseEntry(container, e) /\ users' = [users EXCEPT ![t] = f]
  BY DEF ReleaseHandle
<1>2. Whole(container) /\ users \in [User -> Frame] /\ e # NoCell
  BY <1>1 DEF Held, Framed
<1>3. e \in Cell /\ container.cells[e].mem = "live" /\ (container.cells[e].valid => container.cells[e].refs # 1)
  BY <1>2, HeldCells
<1>4. G \subseteq Cell /\ \A x \in Cell : x \in G <=> x = e /\ LastUse(container, e)
  BY <1>2, <1>3 DEF Garbage
<1>5. Whole(d) /\ CellCounted(container, d, e, container.cells[e].refs - 1, IF LastUse(container, e) THEN "unlinked" ELSE "live")
  BY <1>1, <1>2, <1>3, ReleasedIs
<1> HIDE DEF G
<1>6. f \in Frame /\ f.doing = "idle" /\ f.cell = NoCell /\ f.garbage = G
  BY <1>4, IdleIs DEF Frame
<1> HIDE DEF f
<1>7. Accounted(container, d, users[t], f)
  <2> SUFFICES ASSUME NEW x \in Cell
      PROVE  /\ d.cells[x].refs - One(d.cells[x].valid) = container.cells[x].refs - One(container.cells[x].valid) + One(f.cell = x) - One(users[t].cell = x)
             /\ d.cells[x].mem = "unlinked" => container.cells[x].mem = "unlinked" \/ x \in G
             /\ x \in G => d.cells[x].mem = "unlinked" /\ container.cells[x].mem # "unlinked"
             /\ container.cells[x].mem = "unlinked" => d.cells[x].mem = "unlinked"
    BY <1>1, <1>6 DEF Accounted
  <2>1. x # NoCell /\ d.cells[x].refs \in Int /\ container.cells[x].refs \in Int
    BY <1>2, <1>5, ContainerIs, CellAssumption DEF Whole, WholeBut
  <2>2. CASE x = e
    BY <1>3, <1>4, <1>5, <1>6, <2>1, <2>2 DEF CellCounted, One
  <2>3. CASE x # e
    BY <1>4, <1>5, <1>6, <2>1, <2>3 DEF CellCounted, OtherCells, One
  <2> QED BY <2>2, <2>3
<1> QED BY <1>1, <1>5, <1>6, <1>7, AccountedHolds

\* remove keeps the invariant.
LEMMA RemoveHolds ==
  ASSUME Held(container, users), NEW t \in User, NEW k \in UsedKey, RemoveKey(t, k)
  PROVE  Held(container', users')
<1> DEFINE e == Find(container, k)
           G == Garbage(container, {e})
           f == [Idle EXCEPT !.garbage = G]
           d == container'
<1>1. e # NoCell /\ d = EraseEntry(container, e) /\ users[t] = Idle /\ users' = [users EXCEPT ![t] = f]
  BY DEF RemoveKey, Call, Ready
<1>2. k \in TableKey /\ Whole(container) /\ users \in [User -> Frame]
  BY UsedKeyAssumption DEF TableKey, Held, Framed
<1>3. e \in Cell /\ container.cells[e].valid
  BY <1>1, <1>2, FindGives
<1>4. container.cells[e].mem = "live"
  BY <1>3, HeldCells
<1>5. G \subseteq Cell /\ \A x \in Cell : x \in G <=> x = e /\ LastUse(container, e)
  BY <1>1, <1>3, <1>4 DEF Garbage
<1>6. Whole(d) /\ CellLost(container, d, e)
  BY <1>1, <1>2, <1>3, EraseIs
<1> HIDE DEF e, G
<1>7. f \in Frame /\ f.doing = "idle" /\ f.cell = NoCell /\ f.garbage = G
  BY <1>5, IdleIs DEF Frame
<1>8. users[t].cell = NoCell /\ users[t].garbage = {}
  BY <1>1, IdleIs
<1> HIDE DEF f
<1>9. Accounted(container, d, users[t], f)
  <2> SUFFICES ASSUME NEW x \in Cell
      PROVE  /\ d.cells[x].refs - One(d.cells[x].valid) = container.cells[x].refs - One(container.cells[x].valid) + One(f.cell = x) - One(users[t].cell = x)
             /\ d.cells[x].mem = "unlinked" => container.cells[x].mem = "unlinked" \/ x \in G
             /\ x \in G => d.cells[x].mem = "unlinked" /\ container.cells[x].mem # "unlinked"
             /\ container.cells[x].mem = "unlinked" => d.cells[x].mem = "unlinked"
    BY <1>7, <1>8 DEF Accounted
  <2>1. x # NoCell /\ d.cells[x].refs \in Int /\ container.cells[x].refs \in Int
    BY <1>2, <1>6, ContainerIs, CellAssumption DEF Whole, WholeBut
  <2>2. CASE x = e
    BY <1>3, <1>4, <1>5, <1>6, <1>7, <1>8, <2>1, <2>2 DEF CellLost, One
  <2>3. CASE x # e
    BY <1>5, <1>6, <1>7, <1>8, <2>1, <2>3 DEF CellLost, OtherCells, One
  <2> QED BY <2>2, <2>3
<1> QED BY <1>1, <1>6, <1>7, <1>9, AccountedHolds

\* Oldest entries of one shard.
Picked(c, s, es) == es \in Seq(Cell) /\ IsInjective(es) /\ ToSet(es) \subseteq ToSet(c.orders[s])

\* The victims are valid, have no handle, and are the only entries that an eviction changes.
LEMMA PickedIs ==
  ASSUME NEW c, Whole(c), NEW s \in Shard, NEW es, Picked(c, s, es)
  PROVE  /\ ToSet(es) \subseteq Cell /\ \A e \in ToSet(es) : c.cells[e].valid /\ LastUse(c, e)
         /\ Whole(EvictEntries(c, es)) /\ Gone(c, EvictEntries(c, es), ToSet(es))
<1>1. \A e \in ToSet(es) : e \in Cell /\ c.cells[e].valid /\ LastUse(c, e)
  BY DEF Picked, Whole, WholeBut, OrdersRight, IdleIn, ValidIn
<1>2. es \in Seq(Cell) /\ IsInjective(es)
  BY DEF Picked
<1> QED BY <1>1, <1>2, EvictedIs

\* An eviction keeps the invariant: all victims are garbage of the thread that evicts.
LEMMA EvictionHolds ==
  ASSUME Held(container, users), NEW t \in User, users[t].cell = NoCell, NEW s \in Shard, NEW es, Picked(container, s, es),
         container' = EvictEntries(container, es),
         NEW f \in Frame, f.doing # "release", f.cell = NoCell, f.garbage = users[t].garbage \cup ToSet(es), users' = [users EXCEPT ![t] = f]
  PROVE  Held(container', users')
<1> DEFINE S == ToSet(es)
           d == container'
<1>1. Whole(container)
  BY DEF Held
<1>2. S \subseteq Cell /\ (\A e \in S : container.cells[e].valid /\ LastUse(container, e)) /\ Whole(d) /\ Gone(container, d, S)
  BY <1>1, PickedIs
<1>3. \A e \in S : container.cells[e].mem = "live"
  BY <1>2, HeldCells
<1>4. \A e \in users[t].garbage : container.cells[e].mem = "unlinked"
  BY DEF Held, GarbageRight
<1> HIDE DEF S
<1>5. f.garbage = users[t].garbage \cup S
  BY DEF S
<1>6. Accounted(container, d, users[t], f)
  <2> SUFFICES ASSUME NEW x \in Cell
      PROVE  /\ d.cells[x].refs - One(d.cells[x].valid) = container.cells[x].refs - One(container.cells[x].valid)
             /\ d.cells[x].mem = "unlinked" <=> container.cells[x].mem = "unlinked" \/ x \in S
             /\ x \in S => container.cells[x].mem # "unlinked"
    <3>2. \A x1 \in Cell : d.cells[x1].refs \in Int /\ container.cells[x1].refs \in Int /\ One(d.cells[x1].valid) \in Int /\ One(container.cells[x1].valid) \in Int
      BY <1>1, <1>2, ContainerIs DEF Whole, WholeBut, One
    <3>3. \A x1 \in Cell : One(f.cell = x1) = 0 /\ One(users[t].cell = x1) = 0
      BY CellAssumption DEF One
    <3> QED BY <1>4, <1>5, <3>2, <3>3 DEF Accounted
  <2>1. d.cells[x].refs \in Int /\ container.cells[x].refs \in Int
    BY <1>1, <1>2, ContainerIs DEF Whole, WholeBut
  <2>2. CASE x \in S
    <3>1. IsLost(container, d, x) /\ container.cells[x].valid /\ LastUse(container, x) /\ container.cells[x].mem = "live"
      BY <1>2, <1>3, <2>2 DEF Gone
    <3> QED BY <2>1, <2>2, <3>1 DEF IsLost, One
  <2>3. CASE x \notin S
    <3>1. d.cells[x] = container.cells[x]
      BY <1>2, <2>3 DEF Gone
    <3> QED BY <2>1, <2>3, <3>1 DEF One
  <2> QED BY <2>2, <2>3
<1> QED BY <1>2, <1>6, AccountedHolds

\* The victims for a size are entries of the list, each once.
LEMMA VictimsPicked ==
  ASSUME NEW c, Whole(c), NEW s \in Shard, NEW size
  PROVE  Picked(c, s, Victims(c, s, size))
BY VictimsAre DEF Picked

\* So is the whole list.
LEMMA OrderPicked ==
  ASSUME NEW c, Whole(c), NEW s \in Shard
  PROVE  Picked(c, s, c.orders[s])
<1>1. c.orders[s] \in Seq(Cell)
  BY ContainerIs DEF Whole, WholeBut
<1> QED BY <1>1 DEF Picked, Whole, WholeBut, OrdersRight

\* evict_for keeps the invariant.
LEMMA EvictForHolds ==
  ASSUME Held(container, users), NEW t \in User, NEW k \in UsedKey, NEW size \in Size, EvictForKey(t, k, size)
  PROVE  Held(container', users')
<1> DEFINE s == ShardOf(k)
           es == Victims(container, s, size)
           S == ToSet(es)
           f == [Idle EXCEPT !.garbage = S]
<1>1. container' = EvictEntries(container, es) /\ users[t] = Idle /\ users' = [users EXCEPT ![t] = f]
  BY DEF EvictForKey, Call, Ready
<1>2. k \in TableKey /\ Whole(container)
  BY UsedKeyAssumption DEF TableKey, Held
<1>3. s \in Shard
  BY <1>2, ContainerIs DEF Whole, WholeBut
<1>4. Picked(container, s, es)
  BY <1>2, <1>3, VictimsPicked
<1>5. S \subseteq Cell
  BY <1>2, <1>3, <1>4, PickedIs
<1>6. users[t].cell = NoCell /\ users[t].garbage = {}
  BY <1>1, IdleIs
<1> HIDE DEF s, es
<1>7. f \in Frame /\ f.doing # "release" /\ f.cell = NoCell /\ f.garbage = users[t].garbage \cup ToSet(es)
  <2> HIDE DEF S
  <2>1. f \in Frame /\ f.doing = "idle" /\ f.cell = NoCell /\ f.garbage = S
    BY <1>5, IdleIs DEF Frame
  <2> QED BY <1>6, <2>1 DEF S
<1> HIDE DEF f
<1> QED BY <1>1, <1>3, <1>4, <1>6, <1>7, EvictionHolds

\* So does what evict and clear do in one shard.
LEMMA InShardHolds ==
  ASSUME Held(container, users), NEW t \in User, users[t].doing \in {"evict", "prune"}, NEW es, Picked(container, users[t].shard, es), InShard(t, es)
  PROVE  Held(container', users')
<1> DEFINE s == users[t].shard
           G == users[t].garbage \cup ToSet(es)
           next == s + 1
           f == IF next = ShardCount THEN [Idle EXCEPT !.garbage = G] ELSE [users[t] EXCEPT !.garbage = G, !.shard = next]
<1>1. container' = EvictEntries(container, es) /\ users' = [users EXCEPT ![t] = f]
  BY DEF InShard
<1>2. users[t] \in Frame /\ Whole(container) /\ users[t].cell = NoCell
  BY DEF Held, Framed
<1>3. s \in Shard /\ users[t].garbage \subseteq Cell
  BY <1>2 DEF Frame
<1>4. ToSet(es) \subseteq Cell
  BY <1>2, <1>3, PickedIs
<1>5. G \subseteq Cell
  BY <1>3, <1>4
<1>6. f \in Frame /\ f.doing # "release" /\ f.cell = NoCell /\ f.garbage = users[t].garbage \cup ToSet(es)
  <2>1. f.garbage = G /\ f \in Frame /\ f.doing # "release" /\ f.cell = NoCell
    <3> HIDE DEF G
    <3>1. CASE next = ShardCount
      <4> DEFINE i == [Idle EXCEPT !.garbage = G]
      <4>1. f = i
        BY <3>1
      <4>2. i \in Frame /\ i.doing = "idle" /\ i.cell = NoCell /\ i.garbage = G
        BY <1>5, IdleIs DEF Frame
      <4> QED BY <4>1, <4>2
    <3>2. CASE next # ShardCount
      <4> DEFINE i == [users[t] EXCEPT !.garbage = G, !.shard = next]
      <4>1. f = i
        BY <3>2
      <4>2. next \in Shard
        BY <1>3, <3>2, ShardCountAssumption DEF Shard
      <4> HIDE DEF next
      <4>3. i \in Frame /\ i.doing = users[t].doing /\ i.cell = users[t].cell /\ i.garbage = G
        BY <1>2, <1>5, <4>2 DEF Frame
      <4> QED BY <1>2, <4>1, <4>3
    <3> QED BY <3>1, <3>2
  <2> QED BY <2>1 DEF G
<1> HIDE DEF f, s
<1>7. Picked(container, s, es)
  BY DEF s
<1> QED BY <1>1, <1>2, <1>3, <1>6, <1>7, EvictionHolds

\* So does the beginning of such a call.
LEMMA StartHolds ==
  ASSUME Held(container, users), NEW t \in User, container' = container,
         NEW f \in Frame, f.doing # "release", f.cell = NoCell, f.garbage = {}, users[t] = Idle, users' = [users EXCEPT ![t] = f]
  PROVE  Held(container', users')
<1>1. users[t].cell = NoCell /\ users[t].garbage = {} /\ Whole(container)
  BY IdleIs DEF Held
<1>2. \A x \in Cell : container.cells[x].refs \in Int /\ One(container.cells[x].valid) \in Int
  BY <1>1, ContainerIs DEF Whole, WholeBut, One
<1>3. \A x \in Cell : One(f.cell = x) = 0 /\ One(users[t].cell = x) = 0
  BY <1>1, CellAssumption DEF One
<1>4. Accounted(container, container', users[t], f)
  BY <1>1, <1>2, <1>3 DEF Accounted
<1> QED BY <1>1, <1>4, AccountedHolds

\* So do the calls to free().
LEMMA FreeHolds ==
  ASSUME Held(container, users), NEW t \in User, FreeEntries(t)
  PROVE  Held(container', users')
<1> DEFINE G == users[t].garbage
           f == [users[t] EXCEPT !.garbage = {}]
           d == container'
<1>1. Whole(container) /\ users \in [User -> Frame] /\ users[t] \in Frame
  BY DEF Held, Framed
<1>2. d = FreedCells(container, G) /\ users' = [users EXCEPT ![t] = f]
  BY <1>1 DEF FreeEntries, FreedCells
<1>3. \A e \in Cell : e \in G => container.cells[e].mem = "unlinked"
  BY DEF Held, GarbageRight
<1>4. /\ Whole(d)
      /\ \A e \in Cell : /\ d.cells[e].valid = container.cells[e].valid
                         /\ d.cells[e].refs = container.cells[e].refs
                         /\ d.cells[e].mem = IF e \in G THEN "free" ELSE container.cells[e].mem
  <2> HIDE DEF G, d
  <2> QED BY <1>1, <1>2, <1>3, FreedIs
<1>5. f \in Frame /\ f.doing = users[t].doing /\ f.cell = users[t].cell /\ f.garbage = {}
  BY <1>1 DEF Frame
<1>6. f.doing = "release" <=> f.cell # NoCell
  BY <1>5 DEF Held, Framed
<1> HIDE DEF f
<1>7. \A x \in Cell : container.cells[x].refs \in Int /\ One(container.cells[x].valid) \in Int /\ One(f.cell = x) \in Int
  BY <1>1, ContainerIs DEF Whole, WholeBut, One
<1>8. Accounted(container, d, users[t], f)
  BY <1>4, <1>5, <1>7 DEF Accounted
<1> QED BY <1>2, <1>4, <1>5, <1>6, <1>8, AccountedHolds

\* A container without entries is whole.
LEMMA EmptyWhole == Whole(EmptyContainer)
<1> DEFINE k0 == CHOOSE k \in DOMAIN KeyHash : TRUE
           r == [key |-> k0, charge |-> 0, valid |-> FALSE, refs |-> 0, mem |-> "free"]
           c == EmptyContainer
<1>1. k0 \in TableKey
  BY UsedKeyAssumption DEF TableKey
<1> HIDE DEF k0
<1>2. r \in CellRecord
  BY <1>1 DEF CellRecord
<1>3. EmptyChains(4) \in Lists(4) /\ \A keyOf : WellFiled(EmptyChains(4), 4, keyOf) /\ Entries(EmptyChains(4)) = {}
  BY EmptyIs
<1>4. EmptyHandles \in Handles /\ EmptyHandles.length = 4 /\ EmptyHandles.elems = 0 /\ EmptyHandles.list = EmptyChains(4)
  BY <1>3 DEF EmptyHandles, Handles
<1>5. /\ c.tables = [s \in Shard |-> EmptyHandles] /\ c.orders = [s \in Shard |-> <<>>] /\ c.used = [s \in Shard |-> 0]
      /\ c.cells = [e \in Cell |-> r]
  BY DEF EmptyContainer, k0
<1>6. c \in Containers
  <2>1. c.tables \in [Shard -> Handles]
    BY <1>4, <1>5
  <2>2. c.orders \in [Shard -> Seq(Cell)]
    BY <1>5
  <2>3. c.used \in [Shard -> Int]
    BY <1>5
  <2>4. c.cells \in [Cell -> CellRecord]
    BY <1>2, <1>5
  <2>5. c = [tables |-> c.tables, orders |-> c.orders, used |-> c.used, cells |-> c.cells]
    BY DEF EmptyContainer
  <2> HIDE DEF c
  <2> QED BY <2>1, <2>2, <2>3, <2>4, <2>5 DEF Containers
<1>7. \A e \in Cell : c.cells[e].refs = 0 /\ c.cells[e].mem = "free" /\ c.cells[e].valid = FALSE
  BY <1>5
<1> HIDE DEF c
<1>8. \A s \in Shard : ValidIn(c, s) = {} /\ IdleIn(c, s) = {} /\ InUse(c, s) = {}
  BY <1>7 DEF ValidIn, IdleIn, InUse
<1>9. TablesRight(c, {})
  <2> SUFFICES ASSUME NEW s \in Shard PROVE Right(c.tables[s], KeysOfCells(c)) /\ Entries(c.tables[s].list) = {}
    BY <1>8 DEF TablesRight
  <2>1. c.tables[s] = EmptyHandles
    BY <1>5
  <2> QED BY <1>3, <1>4, <2>1, FS_EmptySet DEF Right
<1>10. OrdersRight(c)
  BY <1>5, <1>8 DEF OrdersRight, ToSet, IsInjective
<1>11. UsedRight(c)
  BY <1>5, <1>8, SumEmpty DEF UsedRight
<1>12. CellsRight(c)
  BY <1>7 DEF CellsRight
<1> QED BY <1>6, <1>9, <1>10, <1>11, <1>12 DEF Whole, WholeBut, c

\* The invariant holds at the beginning.
LEMMA InitHolds ==
  ASSUME ShardedInit
  PROVE  Held(container, users)
<1>1. container = EmptyContainer /\ users = [t \in User |-> Idle]
  BY DEF ShardedInit, ThreadsIdle
<1>2. Whole(container)
  BY <1>1, EmptyWhole
<1>3. users \in [User -> Frame] /\ \A t \in User : users[t].doing = "idle" /\ users[t].cell = NoCell /\ users[t].garbage = {}
  BY <1>1, IdleIs
<1>4. Framed(users)
  BY <1>3 DEF Framed
<1>5. \A e \in Cell : container.cells[e].refs = 0 /\ container.cells[e].mem = "free" /\ container.cells[e].valid = FALSE
  BY <1>1 DEF EmptyContainer
<1>6. \A e \in Cell : Holding(users, e) = {}
  BY <1>3, CellAssumption DEF Holding
<1>7. RefsCounted(container, users)
  BY <1>5, <1>6, FS_EmptySet DEF RefsCounted, One
<1>8. GarbageRight(container, users)
  BY <1>3, <1>5 DEF GarbageRight
<1> QED BY <1>2, <1>4, <1>7, <1>8 DEF Held

\* Every step keeps the invariant.
LEMMA NextHolds ==
  ASSUME Held(container, users), [ShardedNext]_shardVars
  PROVE  Held(container', users')
<1>1. CASE UNCHANGED shardVars
  BY <1>1 DEF shardVars
<1>2. CASE ShardedNext
  <2>1. PICK t \in User : \/ \E k \in UsedKey, size \in Size : AddKey(t, k, size) \/ EvictForKey(t, k, size)
                          \/ \E k \in UsedKey : TouchKey(t, k) \/ RemoveKey(t, k)
                          \/ \E size \in Size : StartEvict(t, size)
                          \/ StartPrune(t) \/ EvictInShard(t) \/ PruneShard(t)
                          \/ ReleaseHandle(t) \/ FreeEntries(t)
    BY <1>2 DEF ShardedNext
  <2>2. Whole(container) /\ users[t] \in Frame
    BY DEF Held, Framed
  <2>3. users[t].shard \in Shard
    BY <2>2 DEF Frame
  <2>4. CASE \E k \in UsedKey, size \in Size : AddKey(t, k, size) \/ EvictForKey(t, k, size)
    BY <2>4, AddHolds, EvictForHolds
  <2>5. CASE \E k \in UsedKey : TouchKey(t, k) \/ RemoveKey(t, k)
    BY <2>5, TouchHolds, RemoveHolds
  <2>6. CASE \E size \in Size : StartEvict(t, size)
    <3>1. PICK size \in Size : StartEvict(t, size)
      BY <2>6
    <3> DEFINE f == [Idle EXCEPT !.doing = "evict", !.size = size]
    <3>2. container' = container /\ users[t] = Idle /\ users' = [users EXCEPT ![t] = f]
      BY <3>1 DEF StartEvict, Call, Ready
    <3>3. f \in Frame /\ f.doing # "release" /\ f.cell = NoCell /\ f.garbage = {}
      BY IdleIs, SizeAssumption DEF Frame
    <3> HIDE DEF f
    <3> QED BY <3>2, <3>3, StartHolds
  <2>7. CASE StartPrune(t)
    <3> DEFINE f == [Idle EXCEPT !.doing = "prune"]
    <3>1. container' = container /\ users[t] = Idle /\ users' = [users EXCEPT ![t] = f]
      BY <2>7 DEF StartPrune, Call, Ready
    <3>2. f \in Frame /\ f.doing # "release" /\ f.cell = NoCell /\ f.garbage = {}
      BY IdleIs DEF Frame
    <3> HIDE DEF f
    <3> QED BY <3>1, <3>2, StartHolds
  <2>8. CASE EvictInShard(t)
    <3>1. Picked(container, users[t].shard, Victims(container, users[t].shard, users[t].size))
      BY <2>2, <2>3, VictimsPicked
    <3> QED BY <2>8, <3>1, InShardHolds DEF EvictInShard
  <2>9. CASE PruneShard(t)
    <3>1. Picked(container, users[t].shard, container.orders[users[t].shard])
      BY <2>2, <2>3, OrderPicked
    <3> QED BY <2>9, <3>1, InShardHolds DEF PruneShard
  <2>10. CASE ReleaseHandle(t)
    BY <2>10, ReleaseHolds
  <2>11. CASE FreeEntries(t)
    BY <2>11, FreeHolds
  <2> QED BY <2>1, <2>4, <2>5, <2>6, <2>7, <2>8, <2>9, <2>10, <2>11
<1> QED BY <1>1, <1>2

\* What the runs check follows from the invariant.
LEMMA HeldSound ==
  ASSUME Held(container, users)
  PROVE  ShardsSound
<1> DEFINE c == container
<1>1. Whole(c) /\ c \in Containers
  BY DEF Held, Whole, WholeBut
<1>2. ASSUME NEW s \in Shard
      PROVE  /\ Files(c.tables[s], KeysOfCells(c))
             /\ InTable(s) = {e \in LiveIn(s) : c.cells[e].valid}
             /\ ToSet(c.orders[s]) = {e \in InTable(s) : LastUse(c, e)}
             /\ c.used[s] = SumFunctionOnSet([e \in Cell |-> c.cells[e].charge], LiveIn(s))
  <2>1. /\ Right(c.tables[s], KeysOfCells(c)) /\ Entries(c.tables[s].list) = ValidIn(c, s)
        /\ ToSet(c.orders[s]) = IdleIn(c, s)
        /\ c.used[s] = SumFunctionOnSet(Charges(c), InUse(c, s))
        /\ \A e \in Cell : c.cells[e].valid => c.cells[e].mem = "live"
    BY <1>1 DEF Whole, WholeBut, TablesRight, OrdersRight, UsedRight, CellsRight
  <2>2. KeysOfCells(c) \in [Cell -> TableKey]
    BY <1>1, ContainerIs
  <2>3. Files(c.tables[s], KeysOfCells(c))
    BY <2>1, <2>2, RightFiles
  <2>4. InTable(s) = ValidIn(c, s)
    BY <2>1 DEF InTable, Entries
  <2>5. LiveIn(s) = InUse(c, s)
    BY DEF LiveIn, InUse
  <2>6. InTable(s) = {e \in LiveIn(s) : c.cells[e].valid}
    BY <2>1, <2>4, <2>5 DEF ValidIn, InUse
  <2>7. ToSet(c.orders[s]) = {e \in InTable(s) : LastUse(c, e)}
    BY <2>1, <2>4 DEF IdleIn
  <2> QED BY <2>1, <2>3, <2>5, <2>6, <2>7 DEF Charges
<1>3. ASSUME NEW e \in Cell
      PROVE  Cardinality({t \in User : e \in users[t].garbage}) = (IF c.cells[e].mem = "unlinked" THEN 1 ELSE 0)
  <2> DEFINE T == {t \in User : e \in users[t].garbage}
  <2>1. CASE c.cells[e].mem = "unlinked"
    <3>1. PICK t \in User : e \in users[t].garbage
      BY <2>1 DEF Held, GarbageRight
    <3>2. T = {t}
      BY <3>1 DEF Held, GarbageRight
    <3> QED BY <2>1, <3>2, FS_Singleton
  <2>2. CASE c.cells[e].mem # "unlinked"
    <3>1. T = {}
      BY <2>2 DEF Held, GarbageRight
    <3> QED BY <2>2, <3>1, FS_EmptySet
  <2> QED BY <2>1, <2>2
<1> QED BY <1>2, <1>3 DEF ShardsSound

\* In every reachable state of all shards, for any hash values, number of shards,
\* threads, cells and sizes, and whatever growth of a table fails: each entry is
\* found in the chain that its hash selects, and no chain has its key twice; the
\* tables, the LRU lists, the reference counts and the usage of each shard agree;
\* and what the threads have taken out is freed by one of them, once.
THEOREM ShardedSound == ShardedSpec => []ShardsSound
<1> DEFINE SInv == Held(container, users)
<1>1. ShardedInit => SInv
  BY InitHolds
<1>2. SInv /\ [ShardedNext]_shardVars => SInv'
  BY NextHolds
<1>3. SInv => ShardsSound
  BY HeldSound
<1> QED BY <1>1, <1>2, <1>3, PTL DEF ShardedSpec

-----------------------------------------------------------------------------
(***************************************************************************)
(* The promises of the policy.                                             *)
(***************************************************************************)
\* The keys of the valid entries, and the handles on these.
Stored(c) == {k \in TableKey : \E e \in Cell : c.cells[e].valid /\ c.cells[e].key = k}
HandledAs(c, us, t, k) == us[t].cell \in Cell /\ c.cells[us[t].cell].valid /\ c.cells[us[t].cell].key = k
Handled(c, us) == {p \in User \X TableKey : HandledAs(c, us, p[1], p[2])}

\* What the policy sees, from the cells and the handles alone.
LEMMA ViewIs ==
  ASSUME NEW c, NEW us, Held(c, us)
  PROVE  /\ {k \in DOMAIN KeyHash : Find(c, k) # NoCell} = Stored(c)
         /\ {<<t, c.cells[us[t].cell].key>> : t \in {u \in User : us[u].cell # NoCell /\ Find(c, c.cells[us[u].cell].key) = us[u].cell}} = Handled(c, us)
<1>1. Whole(c) /\ c \in Containers
  BY DEF Held, Whole, WholeBut
<1>2. \A k \in TableKey : /\ Find(c, k) # NoCell => Find(c, k) \in Cell /\ c.cells[Find(c, k)].valid /\ c.cells[Find(c, k)].key = k
                   /\ \A e \in Cell : c.cells[e].valid /\ c.cells[e].key = k => Find(c, k) = e
  BY <1>1, FindGives
<1>3. \A e \in Cell : e # NoCell /\ c.cells[e].key \in TableKey
  BY <1>1, ContainerIs, CellAssumption
<1>4. {k \in DOMAIN KeyHash : Find(c, k) # NoCell} = Stored(c)
  BY <1>2, <1>3 DEF Stored, TableKey
<1>5. \A t \in User : us[t].cell # NoCell => us[t].cell \in Cell
  BY HeldCells
<1> DEFINE Kept == {u \in User : us[u].cell # NoCell /\ Find(c, c.cells[us[u].cell].key) = us[u].cell}
<1>6. \A t \in User : t \in Kept <=> us[t].cell \in Cell /\ c.cells[us[t].cell].valid
  BY <1>2, <1>3, <1>5
<1>7. \A t \in Kept : t \in User /\ us[t].cell \in Cell /\ c.cells[us[t].cell].key \in TableKey
  BY <1>3, <1>5
<1> HIDE DEF Kept
<1>8. {<<t, c.cells[us[t].cell].key>> : t \in Kept} = Handled(c, us)
  <2>1. ASSUME NEW t \in Kept PROVE <<t, c.cells[us[t].cell].key>> \in Handled(c, us)
    BY <2>1, <1>6, <1>7 DEF Handled, HandledAs
  <2>2. ASSUME NEW p \in Handled(c, us) PROVE p[1] \in Kept /\ p = <<p[1], c.cells[us[p[1]].cell].key>>
    BY <1>6 DEF Handled, HandledAs
  <2> QED BY <2>1, <2>2
<1> QED BY <1>4, <1>8 DEF Kept

\* No two valid entries have the same key.
LEMMA OneCellPerKey ==
  ASSUME NEW c, Whole(c), NEW x \in Cell, NEW y \in Cell, c.cells[x].valid, c.cells[y].valid, c.cells[x].key = c.cells[y].key
  PROVE  x = y
<1>1. c.cells[x].key \in TableKey
  BY ContainerIs DEF Whole, WholeBut
<1> QED BY <1>1, FindGives

\* The steps, on the keys and the handles.
\* t gets the frame f.
MovesTo(us, vs, t, f) == vs = [us EXCEPT ![t] = f]

\* An added entry is held by its thread; handles on the entry before it no longer count.
LEMMA AddView ==
  ASSUME NEW c, NEW us, Held(c, us), NEW t \in User, us[t].cell = NoCell, NEW k \in TableKey, NEW e \in Cell, c.cells[e].mem = "free",
         NEW d, NEW size, IsNew(d, e, k, size), Find(c, k) # e, Find(c, k) # NoCell => IsLost(c, d, Find(c, k)),
         \A x \in Cell \ {e, Find(c, k)} : d.cells[x] = c.cells[x],
         NEW f \in Frame, f.cell = e, NEW vs, MovesTo(us, vs, t, f)
  PROVE  /\ Stored(d) = Stored(c) \cup {k}
         /\ \A j \in TableKey : <<t, j>> \notin Handled(c, us)
         /\ Handled(d, vs) = {p \in Handled(c, us) : p[2] # k} \cup {<<t, k>>}
<1> DEFINE old == Find(c, k)
<1>1. Whole(c) /\ us \in [User -> Frame]
  BY DEF Held, Framed
<1>2. /\ old # NoCell => old \in Cell /\ c.cells[old].valid /\ c.cells[old].key = k
      /\ \A x \in Cell : c.cells[x].valid /\ c.cells[x].key = k => old = x
  BY <1>1, FindGives
<1>3. d.cells[e].valid /\ d.cells[e].key = k /\ ~c.cells[e].valid
  BY HeldCells DEF IsNew
<1>4. \A x \in Cell : x = old => ~d.cells[x].valid
  BY CellAssumption DEF IsLost
<1>5. \A x \in Cell : x # e => (d.cells[x].valid <=> c.cells[x].valid /\ c.cells[x].key # k)
  <2> SUFFICES ASSUME NEW x \in Cell, x # e PROVE d.cells[x].valid <=> c.cells[x].valid /\ c.cells[x].key # k
    OBVIOUS
  <2>1. CASE x = old
    BY <1>2, <1>4, <2>1, CellAssumption
  <2>2. CASE x # old
    <3>1. d.cells[x] = c.cells[x]
      BY <2>2
    <3> QED BY <1>2, <2>2, <3>1
  <2> QED BY <2>1, <2>2
<1>6. \A x \in Cell : x # e /\ d.cells[x].valid => d.cells[x].key = c.cells[x].key
  BY <1>4
<1> HIDE DEF old
<1>7. Stored(d) = Stored(c) \cup {k}
  <2>1. ASSUME NEW j \in TableKey, j # k PROVE j \in Stored(d) <=> j \in Stored(c)
    BY <2>1, <1>3, <1>5, <1>6 DEF Stored
  <2>2. k \in Stored(d)
    BY <1>3 DEF Stored
  <2> QED BY <2>1, <2>2 DEF Stored
<1>8. vs[t].cell = e /\ \A u \in User \ {t} : vs[u] = us[u]
  BY <1>1 DEF MovesTo
<1>9. \A u \in User : us[u].cell \in Cell => us[u].cell # e
  BY HeldCells, CellAssumption
<1>10. \A u \in User \ {t}, j \in TableKey : HandledAs(d, vs, u, j) <=> HandledAs(c, us, u, j) /\ j # k
  BY <1>5, <1>6, <1>8, <1>9 DEF HandledAs
<1>11. \A j \in TableKey : HandledAs(d, vs, t, j) <=> j = k
  BY <1>3, <1>8 DEF HandledAs
<1>12. \A j \in TableKey : ~HandledAs(c, us, t, j)
  BY CellAssumption DEF HandledAs
<1>13. Handled(d, vs) = {p \in Handled(c, us) : p[2] # k} \cup {<<t, k>>}
  <2> DEFINE H == {p \in Handled(c, us) : p[2] # k} \cup {<<t, k>>}
  <2>1. ASSUME NEW p \in User \X TableKey PROVE p \in Handled(d, vs) <=> p \in H
    <3>1. PICK u \in User, j \in TableKey : p = <<u, j>>
      OBVIOUS
    <3>2. (p \in Handled(d, vs) <=> HandledAs(d, vs, u, j)) /\ (p \in H <=> (HandledAs(c, us, u, j) /\ j # k) \/ (u = t /\ j = k))
      BY <3>1 DEF Handled
    <3> QED BY <1>10, <1>11, <1>12, <3>2
  <2>2. H \subseteq User \X TableKey /\ Handled(d, vs) \subseteq User \X TableKey
    BY DEF Handled
  <2> QED BY <2>1, <2>2
<1>14. \A j \in TableKey : <<t, j>> \notin Handled(c, us)
  BY <1>12 DEF Handled
<1> QED BY <1>7, <1>13, <1>14

\* Cells keep their keys and stay valid or not.
SameView(c, d) == \A e \in Cell : d.cells[e].valid = c.cells[e].valid /\ d.cells[e].key = c.cells[e].key

\* Then the policy sees the same.
LEMMA SameStored ==
  ASSUME NEW c, NEW d, SameView(c, d)
  PROVE  /\ Stored(d) = Stored(c)
         /\ \A us, t, k : HandledAs(d, us, t, k) <=> HandledAs(c, us, t, k)
         /\ \A us : Handled(d, us) = Handled(c, us)
<1>1. \A us, t, k : HandledAs(d, us, t, k) <=> HandledAs(c, us, t, k)
  BY DEF SameView, HandledAs
<1> QED BY <1>1 DEF SameView, Stored, Handled

\* A touched key is held by the thread.
LEMMA TouchView ==
  ASSUME NEW c, NEW us, Held(c, us), NEW t \in User, us[t].cell = NoCell, NEW k \in TableKey, NEW e \in Cell, c.cells[e].valid, c.cells[e].key = k,
         NEW d, SameView(c, d), NEW f \in Frame, f.cell = e, NEW vs, MovesTo(us, vs, t, f)
  PROVE  /\ Stored(d) = Stored(c) /\ k \in Stored(c)
         /\ \A j \in TableKey : <<t, j>> \notin Handled(c, us)
         /\ Handled(d, vs) = Handled(c, us) \cup {<<t, k>>}
<1>1. us \in [User -> Frame]
  BY DEF Held, Framed
<1>2. vs[t].cell = e /\ \A u \in User \ {t} : vs[u] = us[u]
  BY <1>1 DEF MovesTo
<1>3. Stored(d) = Stored(c) /\ Handled(d, vs) = Handled(c, vs)
  BY SameStored
<1>4. \A u \in User \ {t}, j \in TableKey : HandledAs(c, vs, u, j) <=> HandledAs(c, us, u, j)
  BY <1>2 DEF HandledAs
<1>5. \A j \in TableKey : HandledAs(c, vs, t, j) <=> j = k
  BY <1>2 DEF HandledAs
<1>6. \A j \in TableKey : ~HandledAs(c, us, t, j)
  BY CellAssumption DEF HandledAs
<1>7. Handled(c, vs) = Handled(c, us) \cup {<<t, k>>}
  <2> DEFINE H == Handled(c, us) \cup {<<t, k>>}
  <2>1. ASSUME NEW p \in User \X TableKey PROVE p \in Handled(c, vs) <=> p \in H
    <3>1. PICK u \in User, j \in TableKey : p = <<u, j>>
      OBVIOUS
    <3>2. (p \in Handled(c, vs) <=> HandledAs(c, vs, u, j)) /\ (p \in H <=> HandledAs(c, us, u, j) \/ (u = t /\ j = k))
      BY <3>1 DEF Handled
    <3> QED BY <1>4, <1>5, <1>6, <3>2
  <2>2. H \subseteq User \X TableKey /\ Handled(c, vs) \subseteq User \X TableKey
    BY DEF Handled
  <2> QED BY <2>1, <2>2
<1>8. \A j \in TableKey : <<t, j>> \notin Handled(c, us)
  BY <1>6 DEF Handled
<1> QED BY <1>3, <1>7, <1>8 DEF Stored

\* A released handle no longer counts.
LEMMA ReleaseView ==
  ASSUME NEW c, NEW us, Held(c, us), NEW t \in User,
         NEW d, SameView(c, d), NEW f \in Frame, f.cell = NoCell, NEW vs, MovesTo(us, vs, t, f)
  PROVE  /\ Stored(d) = Stored(c)
         /\ Handled(d, vs) = {p \in Handled(c, us) : p[1] # t}
<1>1. us \in [User -> Frame]
  BY DEF Held, Framed
<1>2. vs[t].cell = NoCell /\ \A u \in User \ {t} : vs[u] = us[u]
  BY <1>1 DEF MovesTo
<1>3. Stored(d) = Stored(c) /\ Handled(d, vs) = Handled(c, vs)
  BY SameStored
<1>4. \A u \in User \ {t}, j \in TableKey : HandledAs(c, vs, u, j) <=> HandledAs(c, us, u, j)
  BY <1>2 DEF HandledAs
<1>5. \A j \in TableKey : ~HandledAs(c, vs, t, j)
  BY <1>2, CellAssumption DEF HandledAs
<1>6. Handled(c, vs) = {p \in Handled(c, us) : p[1] # t}
  BY <1>4, <1>5 DEF Handled
<1> QED BY <1>3, <1>6

\* Entries of S are lost, one that is held or all that are not.
KeysIn(c, S) == {c.cells[e].key : e \in S}
SomeValid(c, S) == S \subseteq Cell /\ \A e \in S : c.cells[e].valid
SameHandles(us, vs) == \A u \in User : vs[u].cell = us[u].cell

\* The keys of lost entries, and the handles on them, no longer count.
LEMMA GoneView ==
  ASSUME NEW c, NEW us, Held(c, us), NEW S, SomeValid(c, S), NEW d, Gone(c, d, S), NEW vs, SameHandles(us, vs)
  PROVE  LET T == KeysIn(c, S)
         IN  /\ T \subseteq Stored(c) /\ Stored(d) = Stored(c) \ T
             /\ Handled(d, vs) = {p \in Handled(c, us) : p[2] \notin T}
<1> DEFINE T == KeysIn(c, S)
<1>0. /\ S \in SUBSET Cell /\ (\A e \in S : c.cells[e].valid) /\ T = {c.cells[e].key : e \in S}
      /\ \A u \in User : vs[u].cell = us[u].cell
  BY DEF SomeValid, KeysIn, SameHandles
<1> HIDE DEF T
<1>1. Whole(c) /\ c \in Containers
  BY DEF Held, Whole, WholeBut
<1>2. T \subseteq Stored(c)
  BY <1>0, <1>1, ContainerIs DEF Stored
<1>3. \A x, y \in Cell : c.cells[x].valid /\ c.cells[y].valid /\ c.cells[x].key = c.cells[y].key => x = y
  BY <1>1, OneCellPerKey
<1>4. \A x \in Cell : d.cells[x].valid => x \notin S
  BY <1>0 DEF Gone, IsLost
<1>5. \A x \in Cell : x \notin S => d.cells[x] = c.cells[x]
  BY <1>0 DEF Gone
<1>6. \A x \in Cell : d.cells[x].valid <=> c.cells[x].valid /\ c.cells[x].key \notin T
  BY <1>0, <1>3, <1>4, <1>5
<1>7. \A x \in Cell : d.cells[x].valid => d.cells[x].key = c.cells[x].key
  BY <1>4, <1>5
<1>8. Stored(d) = Stored(c) \ T
  BY <1>6, <1>7 DEF Stored
<1>9. \A u \in User, k \in TableKey : HandledAs(d, vs, u, k) <=> HandledAs(c, us, u, k) /\ k \notin T
  BY <1>0, <1>6, <1>7 DEF HandledAs
<1>10. Handled(d, vs) = {p \in Handled(c, us) : p[2] \notin T}
  BY <1>9 DEF Handled
<1> QED BY <1>2, <1>8, <1>10 DEF T

\* What the abstract policy sees before and after a step.
LEMMA StepView ==
  ASSUME Held(container, users), Held(container', users')
  PROVE  /\ StoredKeys = Stored(container) /\ HandlesOut = Handled(container, users)
         /\ StoredKeys' = Stored(container') /\ HandlesOut' = Handled(container', users')
<1>1. StoredKeys = Stored(container) /\ HandlesOut = Handled(container, users)
  BY ViewIs DEF StoredKeys, HandlesOut, Protecting, KeyHeld
<1>2. /\ {k \in DOMAIN KeyHash : Find(container', k) # NoCell} = Stored(container')
      /\ {<<t, container'.cells[users'[t].cell].key>> : t \in {u \in User : users'[u].cell # NoCell /\ Find(container', container'.cells[users'[u].cell].key) = users'[u].cell}} = Handled(container', users')
  BY ViewIs
<1>3. StoredKeys' = Stored(container') /\ HandlesOut' = Handled(container', users')
  BY <1>2 DEF StoredKeys, HandlesOut, Protecting, KeyHeld
<1> QED BY <1>1, <1>3

\* A step that changes neither the entries nor the handles.
LEMMA SameStep ==
  ASSUME Held(container, users), Held(container', users'), SameView(container, container'), \A t \in User : users'[t].cell = users[t].cell
  PROVE  UNCHANGED Promise!vars
<1>1. \A t, k : t \in User => (HandledAs(container, users', t, k) <=> HandledAs(container, users, t, k))
  BY DEF HandledAs
<1>2. Handled(container, users') = Handled(container, users)
  BY <1>1 DEF Handled
<1>3. Stored(container') = Stored(container) /\ Handled(container', users') = Handled(container, users')
  BY SameStored
<1>4. StoredKeys' = StoredKeys /\ HandlesOut' = HandlesOut
  BY <1>2, <1>3, StepView
<1> QED BY <1>4 DEF Promise!vars

\* add is Add of the policy.
LEMMA AddKeeps ==
  ASSUME Held(container, users), Held(container', users'), NEW t \in User, NEW k \in UsedKey, NEW size \in Size, AddKey(t, k, size)
  PROVE  Promise!Next
<1>1. PICK e \in Cell : \E memory \in BOOLEAN :
        /\ container.cells[e].mem = "free"
        /\ container' = InsertEntry(container, e, k, size, memory)
        /\ Call(t, [Idle EXCEPT !.doing = "release", !.cell = e, !.garbage = Garbage(container, {Find(container, k)})])
  BY DEF AddKey
<1>2. PICK memory \in BOOLEAN :
        /\ container.cells[e].mem = "free"
        /\ container' = InsertEntry(container, e, k, size, memory)
        /\ Call(t, [Idle EXCEPT !.doing = "release", !.cell = e, !.garbage = Garbage(container, {Find(container, k)})])
  BY <1>1
<1> DEFINE f == [Idle EXCEPT !.doing = "release", !.cell = e, !.garbage = Garbage(container, {Find(container, k)})]
<1>3. k \in TableKey /\ size \in Nat /\ Whole(container) /\ users \in [User -> Frame]
  BY UsedKeyAssumption, SizeAssumption DEF TableKey, Held, Framed
<1>4. Find(container, k) # NoCell => Find(container, k) \in Cell
  BY <1>3, FindGives
<1>5. Garbage(container, {Find(container, k)}) \subseteq Cell
  BY <1>4 DEF Garbage
<1>6. f \in Frame /\ f.cell = e
  <2> DEFINE G == Garbage(container, {Find(container, k)})
  <2> HIDE DEF G
  <2>1. G \subseteq Cell
    BY <1>5 DEF G
  <2>2. [Idle EXCEPT !.doing = "release", !.cell = e, !.garbage = G] \in Frame /\ [Idle EXCEPT !.doing = "release", !.cell = e, !.garbage = G].cell = e
    BY <2>1, IdleIs DEF Frame
  <2> QED BY <2>2 DEF G
<1>7. users[t].cell = NoCell /\ users' = [users EXCEPT ![t] = f]
  BY <1>2, IdleIs DEF Call, Ready
<1> HIDE DEF f
<1>8. /\ IsNew(container', e, k, size) /\ Find(container, k) # e
      /\ Find(container, k) # NoCell => IsLost(container, container', Find(container, k))
      /\ \A x \in Cell \ {e, Find(container, k)} : container'.cells[x] = container.cells[x]
  BY <1>2, <1>3, InsertedIs
<1>9. /\ Stored(container') = Stored(container) \cup {k}
      /\ \A j \in TableKey : <<t, j>> \notin Handled(container, users)
      /\ Handled(container', users') = {p \in Handled(container, users) : p[2] # k} \cup {<<t, k>>}
  <2>1. MovesTo(users, users', t, f)
    BY <1>7 DEF MovesTo
  <2> QED BY <1>2, <1>3, <1>6, <1>7, <1>8, <2>1, AddView
<1>10. Promise!Add(t, k)
  BY <1>9, StepView DEF Promise!Add, Promise!Holding, TableKey
<1> QED BY <1>3, <1>10 DEF Promise!Next, TableKey

\* touch is Touch of the policy.
LEMMA TouchKeeps ==
  ASSUME Held(container, users), Held(container', users'), NEW t \in User, NEW k \in UsedKey, TouchKey(t, k)
  PROVE  Promise!Next
<1> DEFINE e == Find(container, k)
           f == [Idle EXCEPT !.doing = "release", !.cell = e]
<1>1. e # NoCell /\ container' = Referenced(container, e) /\ users[t] = Idle /\ users' = [users EXCEPT ![t] = f]
  BY DEF TouchKey, Call, Ready
<1>2. k \in TableKey /\ Whole(container) /\ users \in [User -> Frame]
  BY UsedKeyAssumption DEF TableKey, Held, Framed
<1>3. e \in Cell /\ container.cells[e].valid /\ container.cells[e].key = k
  BY <1>1, <1>2, FindGives
<1> HIDE DEF e
<1>4. f \in Frame /\ f.cell = e /\ users[t].cell = NoCell
  BY <1>1, <1>3, IdleIs DEF Frame
<1>5. CellCounted(container, container', e, container.cells[e].refs + 1, "live")
  BY <1>1, <1>2, <1>3, ReferencedIs
<1>6. SameView(container, container')
  BY <1>5 DEF CellCounted, OtherCells, SameView
<1> HIDE DEF f
<1>7. /\ Stored(container') = Stored(container) /\ k \in Stored(container)
      /\ \A j \in TableKey : <<t, j>> \notin Handled(container, users)
      /\ Handled(container', users') = Handled(container, users) \cup {<<t, k>>}
  <2>1. MovesTo(users, users', t, f)
    BY <1>1 DEF MovesTo
  <2> QED BY <1>2, <1>3, <1>4, <1>6, <2>1, TouchView
<1>8. Promise!Touch(t, k)
  BY <1>7, StepView DEF Promise!Touch, Promise!Holding, TableKey
<1> QED BY <1>2, <1>8 DEF Promise!Next, TableKey

\* The release of a handle is Release of the policy, or nothing when its entry is lost.
LEMMA ReleaseKeeps ==
  ASSUME Held(container, users), Held(container', users'), NEW t \in User, ReleaseHandle(t)
  PROVE  UNCHANGED Promise!vars \/ Promise!Next
<1> DEFINE e == users[t].cell
           G == Garbage(container, {e})
           f == [Idle EXCEPT !.garbage = G]
<1>1. users[t].doing = "release" /\ container' = ReleaseEntry(container, e) /\ users' = [users EXCEPT ![t] = f]
  BY DEF ReleaseHandle
<1>2. Whole(container) /\ users \in [User -> Frame] /\ e # NoCell
  BY <1>1 DEF Held, Framed
<1>3. e \in Cell /\ container.cells[e].mem = "live" /\ (container.cells[e].valid => container.cells[e].refs # 1)
  BY <1>2, HeldCells
<1>4. G \subseteq Cell
  BY <1>3 DEF Garbage
<1>5. CellCounted(container, container', e, container.cells[e].refs - 1, IF LastUse(container, e) THEN "unlinked" ELSE "live")
  BY <1>1, <1>2, <1>3, ReleasedIs
<1>6. SameView(container, container')
  BY <1>5 DEF CellCounted, OtherCells, SameView
<1> HIDE DEF G
<1>7. f \in Frame /\ f.cell = NoCell
  BY <1>4, IdleIs DEF Frame
<1> HIDE DEF f
<1>8. /\ Stored(container') = Stored(container)
      /\ Handled(container', users') = {p \in Handled(container, users) : p[1] # t}
  <2>1. MovesTo(users, users', t, f)
    BY <1>1 DEF MovesTo
  <2> QED BY <1>6, <1>7, <2>1, ReleaseView
<1>9. CASE \E k \in TableKey : <<t, k>> \in Handled(container, users)
  <2>1. Promise!Release(t)
    BY <1>8, <1>9, StepView DEF Promise!Release, Promise!Holding, TableKey
  <2> QED BY <2>1 DEF Promise!Next
<1>10. CASE ~\E k \in TableKey : <<t, k>> \in Handled(container, users)
  <2>1. \A p \in Handled(container, users) : p[1] # t
    BY <1>10 DEF Handled
  <2>2. StoredKeys' = StoredKeys /\ HandlesOut' = HandlesOut
    BY <1>8, <2>1, StepView
  <2> QED BY <2>2 DEF Promise!vars
<1> QED BY <1>9, <1>10

\* remove is Remove of the policy.
LEMMA RemoveKeeps ==
  ASSUME Held(container, users), Held(container', users'), NEW t \in User, NEW k \in UsedKey, RemoveKey(t, k)
  PROVE  Promise!Next
<1> DEFINE e == Find(container, k)
           G == Garbage(container, {e})
           f == [Idle EXCEPT !.garbage = G]
<1>1. e # NoCell /\ container' = EraseEntry(container, e) /\ users[t] = Idle /\ users' = [users EXCEPT ![t] = f]
  BY DEF RemoveKey, Call, Ready
<1>2. k \in TableKey /\ Whole(container) /\ users \in [User -> Frame]
  BY UsedKeyAssumption DEF TableKey, Held, Framed
<1>3. e \in Cell /\ container.cells[e].valid /\ container.cells[e].key = k
  BY <1>1, <1>2, FindGives
<1>4. CellLost(container, container', e)
  BY <1>1, <1>2, <1>3, EraseIs
<1> HIDE DEF e, G
<1>5. Gone(container, container', {e})
  BY <1>4 DEF CellLost, OtherCells, Gone, IsLost
<1>6. f.cell = NoCell /\ users[t].cell = NoCell
  BY <1>1, IdleIs
<1> HIDE DEF f
<1>7. SameHandles(users, users')
  BY <1>1, <1>2, <1>6 DEF SameHandles
<1>8. SomeValid(container, {e}) /\ KeysIn(container, {e}) = {k}
  BY <1>3 DEF SomeValid, KeysIn
<1>9. /\ k \in Stored(container) /\ Stored(container') = Stored(container) \ {k}
      /\ Handled(container', users') = {p \in Handled(container, users) : p[2] # k}
  BY <1>5, <1>7, <1>8, GoneView
<1>10. Promise!Remove(k)
  BY <1>9, StepView DEF Promise!Remove
<1> QED BY <1>2, <1>10 DEF Promise!Next, TableKey

\* The victims of one shard are Evict of the policy: none of them has a handle.
LEMMA EvictionKeeps ==
  ASSUME Held(container, users), Held(container', users'), NEW s \in Shard, NEW es, Picked(container, s, es),
         container' = EvictEntries(container, es), SameHandles(users, users')
  PROVE  UNCHANGED Promise!vars \/ Promise!Next
<1> DEFINE S == ToSet(es)
           T == KeysIn(container, S)
<1>1. Whole(container)
  BY DEF Held
<1>2. S \subseteq Cell /\ (\A e \in S : container.cells[e].valid /\ LastUse(container, e)) /\ Gone(container, container', S)
  BY <1>1, PickedIs
<1> HIDE DEF S, T
<1>3. SomeValid(container, S)
  BY <1>2 DEF SomeValid
<1>4. /\ T \subseteq Stored(container) /\ Stored(container') = Stored(container) \ T
      /\ Handled(container', users') = {p \in Handled(container, users) : p[2] \notin T}
  BY <1>2, <1>3, GoneView DEF T
<1>5. ASSUME NEW k \in T, NEW t \in User PROVE <<t, k>> \notin Handled(container, users)
  <2> SUFFICES ASSUME <<t, k>> \in Handled(container, users) PROVE FALSE
    OBVIOUS
  <2>1. PICK e \in S : container.cells[e].key = k
    BY DEF T, KeysIn
  <2> DEFINE x == users[t].cell
  <2>2. x \in Cell /\ container.cells[x].valid /\ container.cells[x].key = k
    BY DEF Handled, HandledAs
  <2>3. container.cells[x].refs # 1
    BY <2>2, HeldCells, CellAssumption
  <2>4. x = e
    BY <1>1, <1>2, <2>1, <2>2, OneCellPerKey
  <2> QED BY <1>2, <2>3, <2>4 DEF LastUse
<1>6. Handled(container', users') = Handled(container, users)
  <2>1. \A p \in Handled(container, users) : p[2] \notin T
    BY <1>5 DEF Handled
  <2> QED BY <1>4, <2>1
<1>7. CASE T = {}
  <2>1. StoredKeys' = StoredKeys /\ HandlesOut' = HandlesOut
    BY <1>4, <1>6, <1>7, StepView
  <2> QED BY <2>1 DEF Promise!vars
<1>8. CASE T # {}
  <2>1. T \subseteq Promise!Evictable
    BY <1>4, <1>5, StepView DEF Promise!Evictable
  <2>2. Promise!Evict(T)
    BY <1>4, <1>6, <1>8, <2>1, StepView DEF Promise!Evict
  <2>3. T \in SUBSET DOMAIN KeyHash
    BY <1>4 DEF Stored, TableKey
  <2> QED BY <2>2, <2>3 DEF Promise!Next
<1> QED BY <1>7, <1>8

\* evict_for keeps the promises.
LEMMA EvictForKeeps ==
  ASSUME Held(container, users), Held(container', users'), NEW t \in User, NEW k \in UsedKey, NEW size \in Size, EvictForKey(t, k, size)
  PROVE  UNCHANGED Promise!vars \/ Promise!Next
<1> DEFINE s == ShardOf(k)
           es == Victims(container, s, size)
           S == ToSet(es)
           f == [Idle EXCEPT !.garbage = S]
<1>1. container' = EvictEntries(container, es) /\ users[t] = Idle /\ users' = [users EXCEPT ![t] = f]
  BY DEF EvictForKey, Call, Ready
<1>2. k \in TableKey /\ Whole(container) /\ users \in [User -> Frame]
  BY UsedKeyAssumption DEF TableKey, Held, Framed
<1>3. s \in Shard
  BY <1>2, ContainerIs DEF Whole, WholeBut
<1>4. Picked(container, s, es)
  BY <1>2, <1>3, VictimsPicked
<1> HIDE DEF s, es, S
<1>5. f.cell = NoCell /\ users[t].cell = NoCell
  BY <1>1, IdleIs
<1> HIDE DEF f
<1>6. SameHandles(users, users')
  BY <1>1, <1>2, <1>5 DEF SameHandles
<1> QED BY <1>1, <1>3, <1>4, <1>6, EvictionKeeps

\* So does what evict and clear do in one shard.
LEMMA InShardKeeps ==
  ASSUME Held(container, users), Held(container', users'), NEW t \in User, users[t].doing \in {"evict", "prune"},
         NEW es, Picked(container, users[t].shard, es), InShard(t, es)
  PROVE  UNCHANGED Promise!vars \/ Promise!Next
<1> DEFINE s == users[t].shard
           G == users[t].garbage \cup ToSet(es)
           next == s + 1
           f == IF next = ShardCount THEN [Idle EXCEPT !.garbage = G] ELSE [users[t] EXCEPT !.garbage = G, !.shard = next]
<1>1. container' = EvictEntries(container, es) /\ users' = [users EXCEPT ![t] = f]
  BY DEF InShard
<1>2. users \in [User -> Frame] /\ users[t] \in Frame /\ users[t].cell = NoCell
  BY DEF Held, Framed
<1>3. s \in Shard
  BY <1>2 DEF Frame
<1>4. f.cell = NoCell
  <2> HIDE DEF G, next
  <2>1. CASE next = ShardCount
    <3> DEFINE i == [Idle EXCEPT !.garbage = G]
    <3>1. f = i
      BY <2>1
    <3>2. i.cell = NoCell
      BY IdleIs
    <3> QED BY <3>1, <3>2
  <2>2. CASE next # ShardCount
    <3> DEFINE i == [users[t] EXCEPT !.garbage = G, !.shard = next]
    <3>1. f = i
      BY <2>2
    <3>2. i.cell = NoCell
      BY <1>2 DEF Frame
    <3> QED BY <3>1, <3>2
  <2> QED BY <2>1, <2>2
<1> HIDE DEF f
<1>5. SameHandles(users, users')
  BY <1>1, <1>2, <1>4 DEF SameHandles
<1> QED BY <1>1, <1>3, <1>5, EvictionKeeps

\* free() is nothing to the policy.
LEMMA FreeKeeps ==
  ASSUME Held(container, users), Held(container', users'), NEW t \in User, FreeEntries(t)
  PROVE  UNCHANGED Promise!vars
<1> DEFINE G == users[t].garbage
           f == [users[t] EXCEPT !.garbage = {}]
<1>1. Whole(container) /\ users \in [User -> Frame] /\ users[t] \in Frame
  BY DEF Held, Framed
<1>2. container' = FreedCells(container, G) /\ users' = [users EXCEPT ![t] = f]
  BY <1>1 DEF FreeEntries, FreedCells
<1>3. \A e \in Cell : e \in G => container.cells[e].mem = "unlinked"
  BY DEF Held, GarbageRight
<1>4. SameView(container, container')
  <2> HIDE DEF G
  <2> QED BY <1>1, <1>2, <1>3, FreedIs DEF SameView
<1>5. f.cell = users[t].cell
  BY <1>1 DEF Frame
<1> HIDE DEF f
<1>6. \A u \in User : users'[u].cell = users[u].cell
  BY <1>1, <1>2, <1>5
<1> QED BY <1>4, <1>6, SameStep

\* Every step is one of the policy, or nothing to it.
LEMMA NextKeeps ==
  ASSUME Held(container, users), Held(container', users'), ShardedNext
  PROVE  UNCHANGED Promise!vars \/ Promise!Next
<1>1. PICK t \in User : \/ \E k \in UsedKey, size \in Size : AddKey(t, k, size) \/ EvictForKey(t, k, size)
                        \/ \E k \in UsedKey : TouchKey(t, k) \/ RemoveKey(t, k)
                        \/ \E size \in Size : StartEvict(t, size)
                        \/ StartPrune(t) \/ EvictInShard(t) \/ PruneShard(t)
                        \/ ReleaseHandle(t) \/ FreeEntries(t)
  BY DEF ShardedNext
<1>2. Whole(container) /\ users \in [User -> Frame] /\ users[t] \in Frame
  BY DEF Held, Framed
<1>3. users[t].shard \in Shard
  BY <1>2 DEF Frame
<1>4. CASE \E k \in UsedKey, size \in Size : AddKey(t, k, size) \/ EvictForKey(t, k, size)
  BY <1>4, AddKeeps, EvictForKeeps
<1>5. CASE \E k \in UsedKey : TouchKey(t, k) \/ RemoveKey(t, k)
  BY <1>5, TouchKeeps, RemoveKeeps
<1>6. CASE StartPrune(t) \/ \E size \in Size : StartEvict(t, size)
  <2>1. container' = container /\ users[t] = Idle /\ users'[t].cell = NoCell /\ \A u \in User \ {t} : users'[u] = users[u]
    <3>1. CASE StartPrune(t)
      <4> DEFINE f == [Idle EXCEPT !.doing = "prune"]
      <4>1. container' = container /\ users[t] = Idle /\ users' = [users EXCEPT ![t] = f]
        BY <3>1 DEF StartPrune, Call, Ready
      <4>2. f.cell = NoCell
        BY IdleIs
      <4> HIDE DEF f
      <4> QED BY <1>2, <4>1, <4>2
    <3>2. ASSUME NEW size \in Size, StartEvict(t, size)
          PROVE  container' = container /\ users[t] = Idle /\ users'[t].cell = NoCell /\ \A u \in User \ {t} : users'[u] = users[u]
      <4> DEFINE f == [Idle EXCEPT !.doing = "evict", !.size = size]
      <4>1. container' = container /\ users[t] = Idle /\ users' = [users EXCEPT ![t] = f]
        BY <3>2 DEF StartEvict, Call, Ready
      <4>2. f.cell = NoCell
        BY IdleIs
      <4> HIDE DEF f
      <4> QED BY <1>2, <4>1, <4>2
    <3> QED BY <1>6, <3>1, <3>2
  <2>2. \A u \in User : users'[u].cell = users[u].cell
    BY <2>1, IdleIs
  <2>3. SameView(container, container')
    BY <2>1 DEF SameView
  <2> QED BY <2>2, <2>3, SameStep
<1>7. CASE EvictInShard(t)
  <2>1. Picked(container, users[t].shard, Victims(container, users[t].shard, users[t].size))
    BY <1>2, <1>3, VictimsPicked
  <2> QED BY <1>7, <2>1, InShardKeeps DEF EvictInShard
<1>8. CASE PruneShard(t)
  <2>1. Picked(container, users[t].shard, container.orders[users[t].shard])
    BY <1>2, <1>3, OrderPicked
  <2> QED BY <1>8, <2>1, InShardKeeps DEF PruneShard
<1>9. CASE ReleaseHandle(t)
  BY <1>9, ReleaseKeeps
<1>10. CASE FreeEntries(t)
  BY <1>10, FreeKeeps
<1> QED BY <1>1, <1>4, <1>5, <1>6, <1>7, <1>8, <1>9, <1>10

\* Every step of a thread, in any shard, is a step that eviction_policy.h allows or
\* leaves its view alone: an eviction that goes from shard to shard between the
\* calls of other threads takes no entry that one of them holds, and loses no key
\* that was not asked for.
THEOREM ShardedKeepsPromise == ShardedSpec => ShardsKeepPromise
<1> DEFINE SInv == Held(container, users)
<1>1. ShardedInit => SInv
  BY InitHolds
<1>2. SInv /\ [ShardedNext]_shardVars => SInv'
  BY NextHolds
<1>3. SInv /\ SInv' /\ [ShardedNext]_shardVars => [UNCHANGED Promise!vars \/ Promise!Next]_shardVars
  BY NextKeeps
<1> QED BY <1>1, <1>2, <1>3, PTL DEF ShardedSpec, ShardsKeepPromise

\* At the beginning no key is tracked.
LEMMA InitView == ShardedInit => Promise!Init
<1> SUFFICES ASSUME ShardedInit PROVE Promise!Init
  OBVIOUS
<1>1. container = EmptyContainer /\ users = [t \in User |-> Idle]
  BY DEF ShardedInit, ThreadsIdle
<1>2. \A e \in Cell : ~container.cells[e].valid
  BY <1>1 DEF EmptyContainer
<1>3. Held(container, users)
  BY InitHolds
<1>4. StoredKeys = Stored(container) /\ HandlesOut = Handled(container, users)
  BY <1>3, ViewIs DEF StoredKeys, HandlesOut, Protecting, KeyHeld
<1> QED BY <1>2, <1>4 DEF Promise!Init, Stored, Handled, HandledAs

\* LruEvictionPolicy over all shards, with hash tables that grow and threads that
\* interleave between the shards, implements the abstract policy.
THEOREM ShardedImplementsPolicy == ShardedSpec => Promise!Spec
<1> DEFINE SInv == Held(container, users)
<1>1. ShardedInit => SInv /\ Promise!Init
  BY InitHolds, InitView
<1>2. SInv /\ [ShardedNext]_shardVars => SInv'
  BY NextHolds
<1>3. SInv /\ SInv' /\ [ShardedNext]_shardVars => [Promise!Next]_(Promise!vars)
  <2> SUFFICES ASSUME SInv, SInv', [ShardedNext]_shardVars PROVE [Promise!Next]_(Promise!vars)
    OBVIOUS
  <2>1. CASE UNCHANGED shardVars
    BY <2>1 DEF shardVars, Promise!vars, StoredKeys, HandlesOut, Protecting, KeyHeld
  <2>2. CASE ShardedNext
    BY <2>2, NextKeeps
  <2> QED BY <2>1, <2>2
<1> QED BY <1>1, <1>2, <1>3, PTL DEF ShardedSpec, Promise!Spec
=============================================================================
