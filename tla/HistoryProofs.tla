---------------------------- MODULE HistoryProofs -----------------------------
(***************************************************************************)
(* Proofs about History for rings of every size: the pins are distinct and *)
(* the head of the ring is never pinned, so adding a file never destroys a *)
(* pinned record; places and slots correspond one to one; and the ring     *)
(* implements the list of places of HistoryList.                           *)
(***************************************************************************)
EXTENDS History, FiniteSetTheorems, TLAPS

Free == {k \in Slot : ~occupy_by_pin(k)}
Pinned == {w \in Page : VALID_PIN(w)}

\* The head of the ring is the last slot the backward scan reaches.
LEMMA HeadIsFarthest ==
  ASSUME nstart \in Slot
  PROVE  ScannedBefore(nstart) = Free \ {nstart}
<1>1. ASSUME NEW k \in Slot
      PROVE  distance_to_startp(k) < distance_to_startp(nstart) <=> k # nstart
  BY <1>1, HistoryAssumption DEF distance_to_startp, Slot
<1>2. QED
  BY <1>1 DEF ScannedBefore, Free

\* The pinned slots are at most as many as the pinned places.
LEMMA FreeIsLarge ==
  ASSUME TypeOK
  PROVE  /\ IsFiniteSet(Free) /\ IsFiniteSet(Pinned)
         /\ Cardinality(Free) \in Nat /\ Cardinality(Pinned) \in Nat
         /\ Cardinality(Free) >= MAX_HISTORY - Cardinality(Pinned)
<1> DEFINE Occ == {k \in Slot : occupy_by_pin(k)}
           f == [w \in Pinned |-> PIN[w].ni]
<1>1. IsFiniteSet(Page) /\ IsFiniteSet(Slot) /\ Cardinality(Slot) = MAX_HISTORY
  BY HistoryAssumption, FS_Interval DEF Page, Slot
<1>2. IsFiniteSet(Pinned) /\ IsFiniteSet(Free)
  BY <1>1, FS_Subset DEF Pinned, Free
<1>3. f \in Surjection(Pinned, Occ)
  <2>1. ASSUME NEW w \in Pinned
        PROVE  PIN[w].ni \in Occ
    BY DEF Pinned, occupy_by_pin, TypeOK, PinEntry
  <2>2. ASSUME NEW k \in Occ
        PROVE  \E w \in Pinned : f[w] = k
    BY DEF Pinned, occupy_by_pin
  <2>3. QED
    BY <2>1, <2>2 DEF Surjection
<1>4. Cardinality(Occ) <= Cardinality(Pinned)
  BY <1>2, <1>3, FS_Surjection
<1>5. Free = Slot \ Occ /\ Slot \cap Occ = Occ
  BY DEF Free
<1>6. Cardinality(Free) = MAX_HISTORY - Cardinality(Occ)
  BY <1>1, <1>5, FS_Difference
<1>7. IsFiniteSet(Occ)
  BY <1>1, FS_Subset
<1>8. Cardinality(Occ) \in Nat /\ Cardinality(Free) \in Nat /\ Cardinality(Pinned) \in Nat
  BY <1>2, <1>7, FS_CardinalityType
<1>9. QED
  BY <1>2, <1>4, <1>6, <1>8, HistoryAssumption

\* The scan for an unpinned place of the first page ends before it comes to the head.
LEMMA ScanStopsBeforeHead ==
  ASSUME TypeOK, HeadNotPinned,
         NEW wi \in Page, ~VALID_PIN(wi), NEW ni \in Slot, IsNIndex(wi, ni)
  PROVE  ni # nstart
<1> DEFINE Lower == {w \in Page : w < wi /\ VALID_PIN(w)}
           Upper == wi + 1 .. VIEW_HISTORY - 1
<1> SUFFICES ASSUME ni = nstart
             PROVE  FALSE
  OBVIOUS
<1>1. Cardinality(ScannedBefore(nstart)) + Cardinality(Lower) = wi
  BY DEF IsNIndex, pined_before
<1>2. nstart \in Slot /\ nstart \in Free /\ wi \in Int /\ 0 <= wi /\ wi < VIEW_HISTORY
  BY HistoryAssumption DEF TypeOK, HeadNotPinned, Free, Page
<1>3. Cardinality(ScannedBefore(nstart)) = Cardinality(Free) - 1
  BY <1>2, HeadIsFarthest, FreeIsLarge, FS_RemoveElement
<1>4. IsFiniteSet(Upper) /\ Cardinality(Upper) = VIEW_HISTORY - 1 - wi
  BY <1>2, HistoryAssumption, FS_Interval
<1>5. IsFiniteSet(Page)
  BY HistoryAssumption, FS_Interval DEF Page
<1>6. IsFiniteSet(Lower)
  BY <1>5, FS_Subset
<1>7. Pinned \subseteq Lower \cup Upper
  BY HistoryAssumption DEF Pinned, Page
<1>8. /\ IsFiniteSet(Lower \cup Upper)
      /\ Cardinality(Lower \cup Upper)
           = Cardinality(Lower) + Cardinality(Upper) - Cardinality(Lower \cap Upper)
  BY <1>4, <1>6, FS_Union
<1>9. Cardinality(Pinned) <= Cardinality(Lower \cup Upper)
  BY <1>7, <1>8, FS_Subset
<1>10. IsFiniteSet(Lower \cap Upper)
  BY <1>6, FS_Intersection
<1>11. /\ Cardinality(Lower) \in Nat /\ Cardinality(Lower \cap Upper) \in Nat
       /\ Cardinality(Lower \cup Upper) \in Nat
  BY <1>6, <1>8, <1>10, FS_CardinalityType
<1> HIDE DEF Lower, Upper
<1>12. QED
  BY <1>1, <1>2, <1>3, <1>4, <1>8, <1>9, <1>11, FreeIsLarge, HistoryAssumption

-----------------------------------------------------------------------------
(* The inductive invariant.  PinsDistinct alone is not inductive, because  *)
(* pinning needs a slot that is not yet taken; HeadNotPinned needs the     *)
(* counting argument of ScanStopsBeforeHead, which rests on TypeOK.        *)
HistoryInv == TypeOK /\ PinsDistinct /\ HeadNotPinned

LEMMA InitHistoryInv == Init => HistoryInv
<1> SUFFICES ASSUME Init PROVE HistoryInv
  OBVIOUS
<1>1. TypeOK
  BY HistoryAssumption DEF Init, InitPin, TypeOK, PinEntry, Slot, Page, Record
<1>2. \A w \in Page : ~VALID_PIN(w)
  BY HistoryAssumption DEF Init, InitPin, VALID_PIN, Page
<1>3. QED
  BY <1>1, <1>2 DEF HistoryInv, PinsDistinct, HeadNotPinned, occupy_by_pin

\* No step but a pin changes which slots are taken.
LEMMA AddKeepsInv ==
  ASSUME HistoryInv, NEW file \in Name, history_add(file)
  PROVE  HistoryInv'
<1>1. PICK nj \in Slot : IsNextFree(nj) /\ nstart' = nj
  BY DEF history_add, inc_start
<1>2. PIN' = PIN /\ \A w : VALID_PIN(w)' <=> VALID_PIN(w)
  BY DEF history_add, VALID_PIN
<1>3. TypeOK'
  BY <1>1, <1>2 DEF history_add, HistoryInv, TypeOK, Record
<1>4. PinsDistinct'
  BY <1>2 DEF HistoryInv, PinsDistinct
<1>5. HeadNotPinned'
  BY <1>1, <1>2 DEF HeadNotPinned, IsNextFree, occupy_by_pin
<1>6. QED
  BY <1>3, <1>4, <1>5 DEF HistoryInv

LEMMA DeleteKeepsInv ==
  ASSUME HistoryInv, NEW wi \in Slot, history_delete(wi)
  PROVE  HistoryInv'
<1>1. nstart' = nstart /\ PIN' = PIN /\ \A w : VALID_PIN(w)' <=> VALID_PIN(w)
  BY DEF history_delete, VALID_PIN
<1>2. TypeOK'
  BY <1>1 DEF history_delete, HistoryInv, TypeOK, Record
<1>3. PinsDistinct' /\ HeadNotPinned'
  BY <1>1 DEF HistoryInv, PinsDistinct, HeadNotPinned, occupy_by_pin
<1>4. QED
  BY <1>2, <1>3 DEF HistoryInv

\* Pinning takes a slot that is neither taken nor the head.
LEMMA PinKeepsInv ==
  ASSUME HistoryInv, NEW wi \in Slot, history_pin(wi)
  PROVE  HistoryInv'
<1>1. wi \in Page /\ nstart' = nstart /\ his_files' = his_files
  BY DEF history_pin
<1>2. PICK ni \in Slot : IsNIndex(wi, ni) /\ PIN' = [PIN EXCEPT ![wi] = [wi |-> wi, ni |-> ni]]
  BY DEF history_pin
<1>3. TypeOK'
  BY <1>1, <1>2 DEF HistoryInv, TypeOK, PinEntry
<1>4. /\ VALID_PIN(wi)' /\ PIN'[wi].ni = ni
      /\ \A w \in Page : w # wi => PIN'[w] = PIN[w] /\ (VALID_PIN(w)' <=> VALID_PIN(w))
  BY <1>1, <1>2 DEF HistoryInv, TypeOK, VALID_PIN
<1>5. ni # nstart
  <2>1. CASE VALID_PIN(wi)
    BY <1>1, <1>2, <2>1 DEF HistoryInv, HeadNotPinned, occupy_by_pin, IsNIndex
  <2>2. CASE ~VALID_PIN(wi)
    BY <1>1, <1>2, <2>2, ScanStopsBeforeHead DEF HistoryInv
  <2>3. QED
    BY <2>1, <2>2
<1>6. \A w \in Page : w # wi /\ VALID_PIN(w) => PIN[w].ni # ni
  BY <1>1, <1>2 DEF IsNIndex, occupy_by_pin, HistoryInv, PinsDistinct
<1>7. PinsDistinct'
  BY <1>4, <1>6 DEF HistoryInv, PinsDistinct
<1>8. HeadNotPinned'
  BY <1>1, <1>4, <1>5 DEF HistoryInv, HeadNotPinned, occupy_by_pin
<1>9. QED
  BY <1>3, <1>7, <1>8 DEF HistoryInv

LEMMA UnpinKeepsInv ==
  ASSUME HistoryInv, NEW wi \in Slot, history_unpin(wi)
  PROVE  HistoryInv'
<1>1. wi \in Page /\ nstart' = nstart /\ his_files' = his_files
  BY DEF history_unpin, VALID_PIN
<1>2. PIN' = [PIN EXCEPT ![wi].wi = -1]
  BY DEF history_unpin
<1>3. TypeOK'
  BY <1>1, <1>2 DEF HistoryInv, TypeOK, PinEntry
<1>4. \A w \in Page : PIN'[w].ni = PIN[w].ni /\ (VALID_PIN(w)' => VALID_PIN(w))
  BY <1>1, <1>2 DEF HistoryInv, TypeOK, VALID_PIN, Page, PinEntry
<1>5. PinsDistinct' /\ HeadNotPinned'
  BY <1>1, <1>4 DEF HistoryInv, PinsDistinct, HeadNotPinned, occupy_by_pin
<1>6. QED
  BY <1>3, <1>5 DEF HistoryInv

LEMMA StepKeepsInv == HistoryInv /\ [Next]_vars => HistoryInv'
<1> SUFFICES ASSUME HistoryInv, [Next]_vars PROVE HistoryInv'
  OBVIOUS
<1>1. CASE \E file \in Name : history_add(file)
  BY <1>1, AddKeepsInv
<1>2. CASE \E wi \in Slot : history_delete(wi)
  BY <1>2, DeleteKeepsInv
<1>3. CASE \E wi \in Slot : history_pin(wi)
  BY <1>3, PinKeepsInv
<1>4. CASE \E wi \in Slot : history_unpin(wi)
  BY <1>4, UnpinKeepsInv
<1>5. CASE UNCHANGED vars
  BY <1>5 DEF vars, HistoryInv, TypeOK, PinsDistinct, HeadNotPinned, occupy_by_pin, VALID_PIN
<1>6. QED
  BY <1>1, <1>2, <1>3, <1>4, <1>5 DEF Next

-----------------------------------------------------------------------------
(* Every operation keeps the types, the distinct pins and the free head.   *)
THEOREM HistoryInvariant == Spec => []HistoryInv
<1>1. QED
  BY InitHistoryInv, StepKeepsInv, PTL DEF Spec

(* The variables of history.c keep their types.                            *)
THEOREM TypeCorrect == Spec => []TypeOK
<1>1. HistoryInv => TypeOK
  BY DEF HistoryInv
<1>2. QED
  BY <1>1, HistoryInvariant, PTL

(* No two places are ever pinned to one slot.                              *)
THEOREM PinsStayDistinct == Spec => []PinsDistinct
<1>1. HistoryInv => PinsDistinct
  BY DEF HistoryInv
<1>2. QED
  BY <1>1, HistoryInvariant, PTL

(* The slot history_add is about to overwrite is never a pinned one.       *)
THEOREM HeadNeverPinned == Spec => []HeadNotPinned
<1>1. HistoryInv => HeadNotPinned
  BY DEF HistoryInv
<1>2. QED
  BY <1>1, HistoryInvariant, PTL

(* Adding a file changes the record of no pinned place.                    *)
THEOREM AddKeepsPinnedRecords == Spec => PinnedRecordsKeptByAdd
<1>1. HistoryInv /\ [Next]_vars => [nstart' # nstart => PinnedRecordsKept]_vars
  <2> SUFFICES ASSUME HistoryInv, Next, nstart' # nstart,
                      NEW w \in Page, VALID_PIN(w)
               PROVE  VALID_PIN(w)' /\ his_files'[PIN'[w].ni] = his_files[PIN[w].ni]
    BY DEF PinnedRecordsKept
  <2>1. PICK file \in Name : history_add(file)
    BY DEF Next, history_delete, history_pin, history_unpin
  <2>2. PIN' = PIN /\ his_files' = [his_files EXCEPT ![nstart] = file]
    BY <2>1 DEF history_add
  <2>3. PIN[w].ni # nstart /\ PIN[w].ni \in Slot
    BY DEF HistoryInv, HeadNotPinned, occupy_by_pin, TypeOK, PinEntry
  <2>4. QED
    BY <2>2, <2>3 DEF VALID_PIN, HistoryInv, TypeOK
<1>2. QED
  BY <1>1, HistoryInvariant, PTL DEF Spec, PinnedRecordsKeptByAdd

-----------------------------------------------------------------------------
(***************************************************************************)
(* The rank of an element: how many elements of a finite set lie below it, *)
(* in the order of a numbering d that gives no number twice.               *)
(***************************************************************************)
Numbers(d, S) ==
  /\ IsFiniteSet(S)
  /\ \A k \in S : d[k] \in Int
  /\ \A a, b \in S : d[a] = d[b] => a = b

Below(d, S, k) == {j \in S : d[j] < d[k]}
RankOf(d, S, k) == Cardinality(Below(d, S, k))

LEMMA BelowFinite ==
  ASSUME NEW d, NEW S, Numbers(d, S), NEW k \in S
  PROVE  /\ IsFiniteSet(Below(d, S, k)) /\ IsFiniteSet(S)
         /\ RankOf(d, S, k) \in Nat /\ Cardinality(S) \in Nat
         /\ RankOf(d, S, k) < Cardinality(S)
<1>1. IsFiniteSet(S) /\ Below(d, S, k) \in SUBSET S /\ k \notin Below(d, S, k)
  BY DEF Numbers, Below
<1>2. /\ IsFiniteSet(Below(d, S, k))
      /\ Cardinality(Below(d, S, k)) <= Cardinality(S)
      /\ Cardinality(Below(d, S, k)) # Cardinality(S)
  BY <1>1, FS_Subset
<1>3. Cardinality(Below(d, S, k)) \in Nat /\ Cardinality(S) \in Nat
  BY <1>1, <1>2, FS_CardinalityType
<1>4. QED
  BY <1>1, <1>2, <1>3 DEF RankOf

\* Ranks are in the order of the numbers, so no two elements have one rank.
LEMMA RankGrows ==
  ASSUME NEW d, NEW S, Numbers(d, S), NEW a \in S, NEW b \in S, d[a] < d[b]
  PROVE  RankOf(d, S, a) < RankOf(d, S, b)
<1>1. d[a] \in Int /\ d[b] \in Int /\ \A j \in S : d[j] \in Int
  BY DEF Numbers
<1>2. Below(d, S, a) \in SUBSET Below(d, S, b) /\ a \in Below(d, S, b) /\ a \notin Below(d, S, a)
  BY <1>1 DEF Below
<1>3. /\ Cardinality(Below(d, S, a)) <= Cardinality(Below(d, S, b))
      /\ Cardinality(Below(d, S, a)) # Cardinality(Below(d, S, b))
  BY <1>2, BelowFinite, FS_Subset
<1>4. RankOf(d, S, a) \in Nat /\ RankOf(d, S, b) \in Nat
  BY BelowFinite
<1>5. QED
  BY <1>3, <1>4 DEF RankOf

LEMMA RankOrder ==
  ASSUME NEW d, NEW S, Numbers(d, S), NEW a \in S, NEW b \in S
  PROVE  /\ RankOf(d, S, a) < RankOf(d, S, b) <=> d[a] < d[b]
         /\ RankOf(d, S, a) = RankOf(d, S, b) => a = b
<1>1. d[a] \in Int /\ d[b] \in Int /\ (d[a] = d[b] => a = b)
  BY DEF Numbers
<1>2. RankOf(d, S, a) \in Int /\ RankOf(d, S, b) \in Int
  BY BelowFinite
<1>3. CASE d[a] < d[b]
  BY <1>1, <1>2, <1>3, RankGrows
<1>4. CASE d[b] < d[a]
  BY <1>1, <1>2, <1>4, RankGrows
<1>5. CASE a = b
  BY <1>1, <1>2, <1>5
<1>6. QED
  BY <1>1, <1>3, <1>4, <1>5

\* Each number below the size of the set is the rank of some element.
LEMMA RankTaken ==
  ASSUME NEW d, NEW S, Numbers(d, S), NEW r \in 0 .. Cardinality(S) - 1
  PROVE  \E k \in S : RankOf(d, S, k) = r
<1> DEFINE Ranks == 0 .. Cardinality(S) - 1
           rank == [k \in S |-> RankOf(d, S, k)]
<1>1. IsFiniteSet(S) /\ Cardinality(S) \in Nat
  BY FS_CardinalityType DEF Numbers
<1>2. rank \in [S -> Ranks]
  <2>1. ASSUME NEW k \in S PROVE RankOf(d, S, k) \in Ranks
    BY <1>1, BelowFinite
  <2>2. QED
    BY <2>1
<1>3. \A a, b \in S : rank[a] = rank[b] => a = b
  BY RankOrder
<1>4. rank \in Injection(S, Ranks)
  BY <1>2, <1>3 DEF Injection, IsInjective
<1>5. IsFiniteSet(Ranks) /\ Cardinality(Ranks) = Cardinality(S)
  BY <1>1, FS_Interval
<1>6. rank \in Surjection(S, Ranks)
  BY <1>4, <1>5, FS_Injection
<1>7. QED
  BY <1>6 DEF Surjection

\* Without x the elements above x lose one rank and the others keep theirs.
LEMMA RankWithout ==
  ASSUME NEW d, NEW S, Numbers(d, S), NEW x \in S, NEW k \in S, k # x
  PROVE  /\ Numbers(d, S \ {x})
         /\ RankOf(d, S \ {x}, k)
              = IF d[x] < d[k] THEN RankOf(d, S, k) - 1 ELSE RankOf(d, S, k)
<1>1. Numbers(d, S \ {x})
  BY FS_RemoveElement DEF Numbers
<1>2. Below(d, S \ {x}, k) = Below(d, S, k) \ {x}
  BY DEF Below
<1>3. x \in Below(d, S, k) <=> d[x] < d[k]
  BY DEF Below
<1>4. IsFiniteSet(Below(d, S, k)) /\ Cardinality(Below(d, S, k)) \in Nat
  BY BelowFinite DEF RankOf
<1>5. CASE d[x] < d[k]
  <2>1. Cardinality(Below(d, S, k) \ {x}) = Cardinality(Below(d, S, k)) - 1
    BY <1>3, <1>4, <1>5, FS_RemoveElement
  <2>2. QED
    BY <1>1, <1>2, <1>5, <2>1 DEF RankOf
<1>6. CASE ~(d[x] < d[k])
  <2>1. Below(d, S, k) \ {x} = Below(d, S, k)
    BY <1>3, <1>6
  <2>2. QED
    BY <1>1, <1>2, <1>6, <2>1 DEF RankOf
<1>7. QED
  BY <1>5, <1>6

LEMMA NumbersSubset ==
  ASSUME NEW d, NEW S, Numbers(d, S), NEW T \in SUBSET S
  PROVE  Numbers(d, T)
<1>1. QED
  BY FS_Subset DEF Numbers

-----------------------------------------------------------------------------
(***************************************************************************)
(* Places and slots. The unpinned slots, ordered by their distance from    *)
(* the head, and the unpinned places, ordered by number, are equally many; *)
(* the scan of n_index_form_w pairs those of equal rank.                   *)
(***************************************************************************)
LEMMA DistancesDiffer ==
  ASSUME nstart \in Slot, NEW a \in Slot, NEW b \in Slot
  PROVE  /\ distance_to_startp(a) \in Int
         /\ distance_to_startp(a) = distance_to_startp(b) => a = b
<1>1. QED
  BY HistoryAssumption DEF distance_to_startp, Slot

Distances == [k \in Slot |-> distance_to_startp(k)]

LEMMA SlotsNumbered ==
  ASSUME TypeOK
  PROVE  /\ Numbers(Distances, Slot) /\ Numbers(Distances, Free)
         /\ \A k \in Free : RankOf(Distances, Free, k) = Cardinality(ScannedBefore(k))
<1>1. IsFiniteSet(Slot) /\ Free \in SUBSET Slot /\ nstart \in Slot
  BY HistoryAssumption, FS_Interval DEF Slot, Free, TypeOK
<1>2. Numbers(Distances, Slot)
  BY <1>1, DistancesDiffer DEF Numbers, Distances
<1>3. ASSUME NEW k \in Free
      PROVE  Below(Distances, Free, k) = ScannedBefore(k)
  BY <1>1 DEF Below, ScannedBefore, Distances, Free
<1>4. QED
  BY <1>1, <1>2, <1>3, NumbersSubset DEF RankOf

\* With distinct pins exactly one slot is taken for each pinned place.
LEMMA FreeIsExact ==
  ASSUME TypeOK, PinsDistinct
  PROVE  Cardinality(Free) = MAX_HISTORY - Cardinality(Pinned)
<1> DEFINE Occ == {k \in Slot : occupy_by_pin(k)}
           f == [w \in Pinned |-> PIN[w].ni]
<1>1. IsFiniteSet(Slot) /\ Cardinality(Slot) = MAX_HISTORY
  BY HistoryAssumption, FS_Interval DEF Slot
<1>2. IsFiniteSet(Occ)
  BY <1>1, FS_Subset
<1>3. f \in Injection(Pinned, Occ)
  <2>1. \A w \in Pinned : PIN[w].ni \in Occ
    BY DEF Pinned, occupy_by_pin, TypeOK, PinEntry
  <2>2. \A v, w \in Pinned : f[v] = f[w] => v = w
    BY DEF Pinned, PinsDistinct
  <2>3. QED
    BY <2>1, <2>2 DEF Injection, IsInjective
<1>4. Cardinality(Pinned) <= Cardinality(Occ)
  BY <1>2, <1>3, FS_Injection
<1>5. Free = Slot \ Occ /\ Slot \cap Occ = Occ
  BY DEF Free
<1>6. Cardinality(Free) = MAX_HISTORY - Cardinality(Occ)
  BY <1>1, <1>5, FS_Difference
<1>7. Cardinality(Occ) \in Nat
  BY <1>2, FS_CardinalityType
<1>8. QED
  BY <1>4, <1>6, <1>7, FreeIsLarge, HistoryAssumption

\* Each number below the count of unpinned slots is the rank of one unpinned slot.
LEMMA EveryRankIsTaken ==
  ASSUME TypeOK, NEW r \in 0 .. Cardinality(Free) - 1
  PROVE  \E k \in Free : Cardinality(ScannedBefore(k)) = r
<1>1. QED
  BY SlotsNumbered, RankTaken

-----------------------------------------------------------------------------
PinnedBelow(wi) == {w \in Page : w < wi /\ VALID_PIN(w)}

\* The pins below a place are at most as many as the places below it.
LEMMA PinsBelow ==
  ASSUME NEW wi \in Slot
  PROVE  /\ IsFiniteSet(PinnedBelow(wi)) /\ pined_before(wi) \in Nat
         /\ pined_before(wi) <= wi
<1>1. wi \in Nat /\ PinnedBelow(wi) \in SUBSET (0 .. wi - 1)
  BY HistoryAssumption DEF PinnedBelow, Page, Slot
<1>2. /\ IsFiniteSet(0 .. wi - 1)
      /\ Cardinality(0 .. wi - 1) = wi
  BY <1>1, FS_Interval
<1>3. IsFiniteSet(PinnedBelow(wi)) /\ Cardinality(PinnedBelow(wi)) <= wi
  BY <1>1, <1>2, FS_Subset
<1>4. pined_before(wi) = Cardinality(PinnedBelow(wi))
  BY DEF pined_before, PinnedBelow
<1>5. QED
  BY <1>3, <1>4, FS_CardinalityType

\* The rank of an unpinned place is less than the number of unpinned slots.
LEMMA PlaceHasRank ==
  ASSUME TypeOK, PinsDistinct, NEW wi \in Slot, ~VALID_PIN(wi)
  PROVE  wi - pined_before(wi) \in 0 .. Cardinality(Free) - 1
<1> DEFINE Above == wi + 1 .. MAX_HISTORY - 1
<1>1. wi \in Nat /\ wi < MAX_HISTORY
  BY HistoryAssumption DEF Slot
<1>2. IsFiniteSet(Above) /\ Cardinality(Above) = MAX_HISTORY - 1 - wi
  BY <1>1, HistoryAssumption, FS_Interval
<1>3. Pinned \in SUBSET (PinnedBelow(wi) \cup Above)
  BY <1>1, HistoryAssumption DEF Pinned, PinnedBelow, Page
<1>4. /\ IsFiniteSet(PinnedBelow(wi) \cup Above)
      /\ Cardinality(PinnedBelow(wi) \cup Above)
           = Cardinality(PinnedBelow(wi)) + Cardinality(Above) - Cardinality(PinnedBelow(wi) \cap Above)
  BY <1>2, PinsBelow, FS_Union
<1>5. Cardinality(Pinned) <= Cardinality(PinnedBelow(wi) \cup Above)
  BY <1>3, <1>4, FS_Subset
<1>6. Cardinality(PinnedBelow(wi) \cap Above) \in Nat
  BY PinsBelow, FS_Intersection, FS_CardinalityType
<1>7. pined_before(wi) = Cardinality(PinnedBelow(wi))
  BY DEF pined_before, PinnedBelow
<1>8. Cardinality(PinnedBelow(wi) \cup Above) \in Nat
  BY <1>4, FS_CardinalityType
<1> HIDE DEF Above
<1>9. QED
  BY <1>1, <1>2, <1>4, <1>5, <1>6, <1>7, <1>8, PinsBelow, FreeIsExact, FreeIsLarge, HistoryAssumption

\* A later unpinned place has a greater rank.
LEMMA RanksGrow ==
  ASSUME NEW wi \in Slot, NEW wj \in Slot, ~VALID_PIN(wi), wi < wj
  PROVE  wi - pined_before(wi) < wj - pined_before(wj)
<1> DEFINE Between == wi + 1 .. wj - 1
<1>1. wi \in Nat /\ wj \in Nat
  BY HistoryAssumption DEF Slot
<1>2. IsFiniteSet(Between) /\ Cardinality(Between) = wj - 1 - wi
  <2>1. wi + 1 \in Int /\ wj - 1 \in Int /\ wi + 1 <= wj
    BY <1>1
  <2>2. /\ IsFiniteSet(Between)
        /\ Cardinality(Between) = IF wi + 1 > wj - 1 THEN 0 ELSE (wj - 1) - (wi + 1) + 1
    BY <2>1, FS_Interval
  <2> HIDE DEF Between
  <2>3. QED
    BY <1>1, <2>1, <2>2
<1>3. PinnedBelow(wj) \in SUBSET (PinnedBelow(wi) \cup Between)
  BY <1>1, HistoryAssumption DEF PinnedBelow, Page
<1>4. /\ IsFiniteSet(PinnedBelow(wi) \cup Between)
      /\ Cardinality(PinnedBelow(wi) \cup Between)
           = Cardinality(PinnedBelow(wi)) + Cardinality(Between) - Cardinality(PinnedBelow(wi) \cap Between)
  BY <1>2, PinsBelow, FS_Union
<1>5. Cardinality(PinnedBelow(wj)) <= Cardinality(PinnedBelow(wi) \cup Between)
  BY <1>3, <1>4, FS_Subset
<1>6. Cardinality(PinnedBelow(wi) \cap Between) \in Nat
  BY PinsBelow, FS_Intersection, FS_CardinalityType
<1>7. /\ pined_before(wi) = Cardinality(PinnedBelow(wi))
      /\ pined_before(wj) = Cardinality(PinnedBelow(wj))
  BY DEF pined_before, PinnedBelow
<1>8. /\ Cardinality(PinnedBelow(wi)) \in Nat /\ Cardinality(PinnedBelow(wj)) \in Nat
      /\ Cardinality(PinnedBelow(wi) \cup Between) \in Nat
  BY <1>4, <1>7, PinsBelow, FS_CardinalityType
<1> HIDE DEF Between
<1>9. QED
  BY <1>1, <1>2, <1>4, <1>5, <1>6, <1>7, <1>8

-----------------------------------------------------------------------------
LEMMA InvImpliesPlacesMatch == HistoryInv => PlacesMatchSlots
<1> SUFFICES ASSUME HistoryInv PROVE PlacesMatchSlots
  OBVIOUS
<1> USE DEF HistoryInv
<1>1. ASSUME NEW wi \in Slot
      PROVE  \E ni \in Slot : IsNIndex(wi, ni)
  <2>1. CASE VALID_PIN(wi)
    BY <2>1 DEF IsNIndex, VALID_PIN, TypeOK, PinEntry
  <2>2. CASE ~VALID_PIN(wi)
    <3>1. PICK k \in Free : Cardinality(ScannedBefore(k)) = wi - pined_before(wi)
      BY <2>2, PlaceHasRank, EveryRankIsTaken
    <3>2. k \in Slot /\ ~occupy_by_pin(k)
      BY DEF Free
    <3>3. wi \in Int /\ pined_before(wi) \in Int
      BY PinsBelow, HistoryAssumption DEF Slot
    <3>4. Cardinality(ScannedBefore(k)) + pined_before(wi) = wi
      BY <3>1, <3>3
    <3>5. IsNIndex(wi, k)
      BY <2>2, <3>2, <3>4 DEF IsNIndex
    <3>6. QED
      BY <3>2, <3>5
  <2>3. QED
    BY <2>1, <2>2
<1>2. ASSUME NEW wi \in Slot, NEW wj \in Slot, NEW ni \in Slot,
             IsNIndex(wi, ni), IsNIndex(wj, ni)
      PROVE  wi = wj
  <2>1. CASE VALID_PIN(wi) /\ VALID_PIN(wj)
    BY <1>2, <2>1 DEF IsNIndex, PinsDistinct, VALID_PIN
  <2>2. ~(VALID_PIN(wi) /\ ~VALID_PIN(wj)) /\ ~(VALID_PIN(wj) /\ ~VALID_PIN(wi))
    BY <1>2 DEF IsNIndex, occupy_by_pin, VALID_PIN
  <2>3. CASE ~VALID_PIN(wi) /\ ~VALID_PIN(wj)
    <3>1. ni \in Free
      BY <1>2, <2>3 DEF IsNIndex, Free
    <3>2. IsFiniteSet(ScannedBefore(ni))
      BY FreeIsLarge, FS_Subset DEF ScannedBefore, Free
    <3>3. Cardinality(ScannedBefore(ni)) \in Nat
      BY <3>2, FS_CardinalityType
    <3>4. /\ Cardinality(ScannedBefore(ni)) + pined_before(wi) = wi
          /\ Cardinality(ScannedBefore(ni)) + pined_before(wj) = wj
      BY <1>2, <2>3 DEF IsNIndex
    <3>5. pined_before(wi) \in Nat /\ pined_before(wj) \in Nat /\ wi \in Int /\ wj \in Int
      BY PinsBelow, HistoryAssumption DEF Slot
    <3>6. wi - pined_before(wi) = wj - pined_before(wj)
      BY <3>3, <3>4, <3>5
    <3>7. ~(wi < wj)
      BY <2>3, <3>5, <3>6, RanksGrow
    <3>8. ~(wj < wi)
      BY <2>3, <3>5, <3>6, RanksGrow
    <3>9. QED
      BY <3>5, <3>7, <3>8
  <2>4. QED
    BY <2>1, <2>2, <2>3
<1>3. QED
  BY <1>1, <1>2 DEF PlacesMatchSlots

(* Every place shows a record and no slot is shown at two places, so the   *)
(* unbounded loop of n_index_form_w always ends, for every ring size.      *)
THEOREM PlacesAlwaysMatchSlots == Spec => []PlacesMatchSlots
<1>1. QED
  BY InvImpliesPlacesMatch, HistoryInvariant, PTL

-----------------------------------------------------------------------------
(***************************************************************************)
(* The ring implements the list.  The slots are numbered by their distance *)
(* from the head, the places by themselves.                                *)
(***************************************************************************)
Places == [w \in Slot |-> w]

\* The list counts with the same operator as the ring.
LEMMA ListCounts == ASSUME NEW S PROVE List!Cardinality(S) = Cardinality(S)
<1>1. QED
  BY DEF List!Cardinality, Cardinality

LEMMA PlacesNumbered ==
  /\ List!Place = Slot /\ List!Page = Page /\ Page \in SUBSET Slot
  /\ \A p : Numbers(Places, Slot \ p)
  /\ \A p : \A w \in Slot \ p : List!Rank(w, p) = RankOf(Places, Slot \ p, w)
<1>1. List!Place = Slot /\ List!Page = Page /\ Page \in SUBSET Slot
  BY HistoryAssumption DEF List!Place, List!Page, Slot, Page
<1>2. IsFiniteSet(Slot) /\ \A w \in Slot : w \in Int
  BY HistoryAssumption, FS_Interval DEF Slot
<1>3. Numbers(Places, Slot)
  BY <1>2 DEF Numbers, Places
<1>4. ASSUME NEW p, NEW w \in Slot \ p
      PROVE  List!Rank(w, p) = RankOf(Places, Slot \ p, w)
  <2>1. {v \in List!Unpinned(p) : v < w} = Below(Places, Slot \ p, w)
    BY <1>1 DEF List!Unpinned, Below, Places
  <2>2. QED
    BY <2>1, ListCounts DEF List!Rank, RankOf
<1>5. QED
  BY <1>1, <1>3, <1>4, NumbersSubset

\* As many places as slots are unpinned.
LEMMA UnpinnedAreFree ==
  ASSUME TypeOK, PinsDistinct
  PROVE  Cardinality(Slot \ Pinned) = Cardinality(Free) /\ Cardinality(Free) \in Nat
<1>1. IsFiniteSet(Slot) /\ Cardinality(Slot) = MAX_HISTORY
  BY HistoryAssumption, FS_Interval DEF Slot
<1>2. Slot \cap Pinned = Pinned
  BY PlacesNumbered DEF Pinned
<1>3. Cardinality(Slot \ Pinned) = MAX_HISTORY - Cardinality(Pinned)
  BY <1>1, <1>2, FS_Difference, ZenonT(30)
<1>4. QED
  BY <1>3, FreeIsExact, FreeIsLarge

\* The place of a rank.
LEMMA PlaceAtRank ==
  ASSUME NEW p, NEW r \in 0 .. Cardinality(Slot \ p) - 1
  PROVE  /\ List!AtRank(r, p) \in Slot \ p
         /\ List!Rank(List!AtRank(r, p), p) = r
<1>1. \E w \in Slot \ p : RankOf(Places, Slot \ p, w) = r
  BY PlacesNumbered, RankTaken
<1>2. List!Unpinned(p) = Slot \ p
  BY PlacesNumbered DEF List!Unpinned
<1>3. \E w \in List!Unpinned(p) : List!Rank(w, p) = r
  BY <1>1, <1>2, PlacesNumbered
<1>4. QED
  BY <1>2, <1>3 DEF List!AtRank

\* An unpinned place shows the unpinned slot of its own rank.
SlotOf(w, ni) ==
  IF w \in Pinned THEN ni = PIN[w].ni
  ELSE ni \in Free /\ RankOf(Distances, Free, ni) = List!Rank(w, Pinned)

LEMMA PlaceBehindPins ==
  ASSUME NEW w \in Slot \ Pinned
  PROVE  List!Rank(w, Pinned) \in Nat /\ List!Rank(w, Pinned) + pined_before(w) = w
<1>1. w \in Nat /\ w < MAX_HISTORY
  BY HistoryAssumption DEF Slot
<1>2. /\ IsFiniteSet(0 .. w - 1) /\ Cardinality(0 .. w - 1) = w
  BY <1>1, FS_Interval
<1>3. {v \in List!Unpinned(Pinned) : v < w} = (0 .. w - 1) \ PinnedBelow(w)
  <2>1. List!Unpinned(Pinned) = Slot \ Pinned
    BY PlacesNumbered DEF List!Unpinned
  <2>2. \A v : v \in Slot /\ v < w <=> v \in 0 .. w - 1
    BY <1>1, HistoryAssumption DEF Slot
  <2>3. \A v \in 0 .. w - 1 : v \in PinnedBelow(w) <=> v \in Pinned
    BY <1>1, HistoryAssumption DEF PinnedBelow, Pinned, Slot, Page
  <2>4. QED
    BY <2>1, <2>2, <2>3
<1>4. (0 .. w - 1) \cap PinnedBelow(w) = PinnedBelow(w)
  BY <1>1, HistoryAssumption DEF PinnedBelow, Page
<1>5. List!Rank(w, Pinned) = w - pined_before(w)
  <2>1. pined_before(w) = Cardinality(PinnedBelow(w))
    BY DEF pined_before, PinnedBelow
  <2>2. List!Rank(w, Pinned) = Cardinality((0 .. w - 1) \ PinnedBelow(w))
    BY <1>3, ListCounts DEF List!Rank
  <2>3. Cardinality((0 .. w - 1) \ PinnedBelow(w))
          = Cardinality(0 .. w - 1) - Cardinality((0 .. w - 1) \cap PinnedBelow(w))
    BY <1>2, FS_Difference
  <2>4. QED
    BY <1>2, <1>4, <2>1, <2>2, <2>3
<1>6. QED
  BY <1>1, <1>5, PinsBelow

LEMMA ScanFindsSlotOf ==
  ASSUME TypeOK, NEW w \in Slot, NEW ni \in Slot
  PROVE  IsNIndex(w, ni) <=> SlotOf(w, ni)
<1>1. w \in Pinned <=> VALID_PIN(w)
  BY DEF Pinned, VALID_PIN
<1>2. CASE VALID_PIN(w)
  BY <1>1, <1>2 DEF IsNIndex, SlotOf
<1>3. CASE ~VALID_PIN(w)
  <2>1. ni \in Free <=> ~occupy_by_pin(ni)
    BY DEF Free
  <2>2. CASE ni \in Free
    <3>1. RankOf(Distances, Free, ni) = Cardinality(ScannedBefore(ni)) /\ RankOf(Distances, Free, ni) \in Nat
      BY <2>2, SlotsNumbered, BelowFinite
    <3>2. /\ List!Rank(w, Pinned) \in Nat /\ pined_before(w) \in Nat
          /\ List!Rank(w, Pinned) + pined_before(w) = w
      BY <1>1, <1>3, PlaceBehindPins, PinsBelow
    <3>3. Cardinality(ScannedBefore(ni)) = List!Rank(w, Pinned)
            <=> Cardinality(ScannedBefore(ni)) + pined_before(w) = w
      BY <3>1, <3>2
    <3>4. QED
      BY <1>1, <1>3, <2>1, <2>2, <3>1, <3>3 DEF IsNIndex, SlotOf
  <2>3. CASE ni \notin Free
    BY <1>1, <1>3, <2>1, <2>3 DEF IsNIndex, SlotOf
  <2>4. QED
    BY <2>2, <2>3
<1>4. QED
  BY <1>2, <1>3

\* So a place shows the record of SlotOf, which is one slot, and of no other place.
LEMMA PlaceShowsSlotOf ==
  HistoryInv =>
    /\ \A w \in Slot : \E ni \in Slot : SlotOf(w, ni)
    /\ \A w, ni \in Slot : SlotOf(w, ni) => history_get(w) = his_files[ni]
    /\ \A v, w, ni \in Slot : SlotOf(v, ni) /\ SlotOf(w, ni) => v = w
    /\ \A w, ni, nj \in Slot : SlotOf(w, ni) /\ SlotOf(w, nj) => ni = nj
<1> SUFFICES ASSUME HistoryInv
    PROVE /\ \A w \in Slot : \E ni \in Slot : SlotOf(w, ni)
          /\ \A w, ni \in Slot : SlotOf(w, ni) => history_get(w) = his_files[ni]
          /\ \A v, w, ni \in Slot : SlotOf(v, ni) /\ SlotOf(w, ni) => v = w
          /\ \A w, ni, nj \in Slot : SlotOf(w, ni) /\ SlotOf(w, nj) => ni = nj
  OBVIOUS
<1>1. PlacesMatchSlots /\ TypeOK
  BY InvImpliesPlacesMatch DEF HistoryInv
<1>2. ASSUME NEW w \in Slot, NEW ni \in Slot, NEW nj \in Slot, SlotOf(w, ni), SlotOf(w, nj)
      PROVE  ni = nj
  <2>1. CASE w \in Pinned
    BY <1>2, <2>1 DEF SlotOf
  <2>2. CASE w \notin Pinned
    BY <1>1, <1>2, <2>2, SlotsNumbered, RankOrder DEF SlotOf
  <2>3. QED
    BY <2>1, <2>2
<1>3. \A w \in Slot : \E ni \in Slot : SlotOf(w, ni)
  BY <1>1, ScanFindsSlotOf DEF PlacesMatchSlots
<1>4. \A v, w, ni \in Slot : SlotOf(v, ni) /\ SlotOf(w, ni) => v = w
  BY <1>1, ScanFindsSlotOf DEF PlacesMatchSlots
<1>5. ASSUME NEW w \in Slot, NEW ni \in Slot, SlotOf(w, ni)
      PROVE  history_get(w) = his_files[ni]
  <2>1. IsNIndex(w, ni)
    BY <1>1, <1>5, ScanFindsSlotOf
  <2>2. n_index_form_w(w) \in Slot /\ IsNIndex(w, n_index_form_w(w))
    BY <2>1 DEF n_index_form_w
  <2>3. SlotOf(w, n_index_form_w(w))
    BY <1>1, <2>2, ScanFindsSlotOf
  <2>4. QED
    BY <1>2, <1>5, <2>2, <2>3 DEF history_get
<1>6. QED
  BY <1>2, <1>3, <1>4, <1>5

-----------------------------------------------------------------------------
\* What the places show, as the list has it.
Shown == [w \in Slot |-> history_get(w)]

ShownByScan == \A w, ni \in Slot : SlotOf(w, ni) => Shown[w] = his_files[ni]

LEMMA InvImpliesShown == HistoryInv => ShownByScan
<1>1. QED
  BY PlaceShowsSlotOf DEF ShownByScan, Shown

\* The head has the last rank and the next unpinned slot above it the last but one.
LEMMA RanksAtHead ==
  ASSUME HistoryInv, NEW nj \in Slot, IsNextFree(nj)
  PROVE  /\ nstart \in Free /\ nj \in Free
         /\ RankOf(Distances, Free, nstart) = Cardinality(Free) - 1
         /\ RankOf(Distances, Free, nj)
              = IF Cardinality(Free) = 1 THEN 0 ELSE Cardinality(Free) - 2
<1>1. nstart \in Slot /\ nstart \in Free /\ nj \in Free /\ TypeOK
  BY DEF HistoryInv, TypeOK, HeadNotPinned, Free, IsNextFree
<1>2. ASSUME NEW k \in Free, k # nstart PROVE Distances[k] < Distances[nstart]
  BY <1>1, <1>2, HistoryAssumption DEF Distances, distance_to_startp, Free, Slot
<1>3. Below(Distances, Free, nstart) = Free \ {nstart}
  <2>1. ~(Distances[nstart] < Distances[nstart])
    BY <1>1, SlotsNumbered DEF Numbers
  <2>2. QED
    BY <1>2, <2>1 DEF Below
<1>4. RankOf(Distances, Free, nstart) = Cardinality(Free) - 1
  BY <1>1, <1>3, FreeIsLarge, FS_RemoveElement DEF RankOf
<1>5. CASE nj = nstart
  <2>1. ASSUME NEW k \in Free PROVE k = nstart
    <3>1. StepsUp(nj) <= StepsUp(k) /\ k \in Slot
      BY DEF IsNextFree, Free
    <3>2. QED
      BY <1>1, <1>5, <3>1, HistoryAssumption DEF StepsUp, Slot
  <2>2. Free = {nstart}
    BY <1>1, <2>1
  <2>3. Cardinality(Free) = 1
    BY <2>2, FS_Singleton
  <2>4. QED
    BY <1>1, <1>4, <1>5, <2>3
<1>6. CASE nj # nstart
  <2>1. ASSUME NEW k \in Free, k # nstart, k # nj PROVE Distances[k] < Distances[nj]
    <3>1. StepsUp(nj) <= StepsUp(k) /\ k \in Slot
      BY DEF IsNextFree, Free
    <3>2. QED
      BY <1>1, <1>6, <2>1, <3>1, HistoryAssumption DEF StepsUp, Slot, Distances, distance_to_startp
  <2>2. Distances[nj] < Distances[nstart] /\ Distances[nj] \in Int /\ Distances[nstart] \in Int
    BY <1>1, <1>2, <1>6, SlotsNumbered DEF Numbers
  <2>3. ~(Distances[nstart] < Distances[nj]) /\ ~(Distances[nj] < Distances[nj])
    BY <2>2
  <2>4. Below(Distances, Free, nj) = (Free \ {nstart}) \ {nj}
    BY <2>1, <2>3 DEF Below
  <2>5. /\ IsFiniteSet(Free \ {nstart}) /\ nj \in Free \ {nstart}
        /\ Cardinality(Free \ {nstart}) = Cardinality(Free) - 1
    BY <1>1, <1>6, FreeIsLarge, FS_RemoveElement
  <2>6. RankOf(Distances, Free, nj) = Cardinality(Free) - 1 - 1
    BY <2>4, <2>5, FS_RemoveElement DEF RankOf
  <2>7. RankOf(Distances, Free, nj) \in Nat /\ Cardinality(Free) \in Nat
    BY <1>1, SlotsNumbered, BelowFinite
  <2>8. QED
    BY <1>1, <1>4, <2>6, <2>7
<1>7. QED
  BY <1>5, <1>6

\* The new record has the first rank, the other unpinned slots one more than before.
LEMMA AddShiftsRanks ==
  ASSUME HistoryInv, NEW file \in Name, history_add(file)
  PROVE  /\ RankOf(Distances', Free, nstart) = 0
         /\ \A k \in Free \ {nstart} :
              RankOf(Distances', Free, k) = RankOf(Distances, Free, k) + 1
<1>1. PICK nj \in Slot : IsNextFree(nj) /\ nstart' = nj
  BY DEF history_add, inc_start
<1>2. nstart \in Slot /\ nstart \in Free /\ nj \in Free /\ TypeOK
  BY <1>1, RanksAtHead DEF HistoryInv, TypeOK
<1>3. ASSUME NEW k \in Free
      PROVE  k \in Slot /\ StepsUp(nj) <= StepsUp(k)
  BY <1>1 DEF IsNextFree, Free
<1>4. ASSUME NEW k \in Free \ {nstart}
      PROVE  /\ Distances'[nstart] < Distances'[k]
             /\ ~(Distances'[k] < Distances'[nstart])
             /\ ~(Distances[nstart] < Distances[k])
  BY <1>1, <1>2, <1>3, HistoryAssumption, SMTT(30) DEF StepsUp, Slot, Distances, distance_to_startp
<1>5. ~(Distances'[nstart] < Distances'[nstart])
  BY <1>1, <1>2, HistoryAssumption DEF Slot, Distances, distance_to_startp
<1>6. ASSUME NEW j \in Free \ {nstart}, NEW k \in Free \ {nstart}
      PROVE  Distances'[j] < Distances'[k] <=> Distances[j] < Distances[k]
  <2>1. j \in Slot /\ k \in Slot /\ StepsUp(nj) <= StepsUp(j) /\ StepsUp(nj) <= StepsUp(k)
    BY <1>3
  <2>2. QED
    BY <1>1, <1>2, <2>1, HistoryAssumption DEF StepsUp, Slot, Distances, distance_to_startp
<1>7. Below(Distances', Free, nstart) = {}
  BY <1>4, <1>5 DEF Below
<1>8. ASSUME NEW k \in Free \ {nstart}
      PROVE  RankOf(Distances', Free, k) = RankOf(Distances, Free, k) + 1
  <2>1. Below(Distances', Free, k) = Below(Distances, Free, k) \cup {nstart}
    BY <1>2, <1>4, <1>6 DEF Below
  <2>2. nstart \notin Below(Distances, Free, k)
    BY <1>4 DEF Below
  <2>3. IsFiniteSet(Below(Distances, Free, k))
    BY <1>2, SlotsNumbered, BelowFinite
  <2>4. QED
    BY <2>1, <2>2, <2>3, FS_AddElement DEF RankOf
<1>9. QED
  BY <1>7, <1>8, FS_EmptySet DEF RankOf

-----------------------------------------------------------------------------
\* SlotOf in the state after the step, of a place and a slot named in the state before it.
SlotOfAfter(w, ni) ==
  IF w \in Pinned' THEN ni = PIN'[w].ni
  ELSE ni \in Free' /\ RankOf(Distances', Free', ni) = List!Rank(w, Pinned')

LEMMA ShownAfter ==
  ASSUME HistoryInv', NEW w \in Slot, NEW ni \in Slot, SlotOfAfter(w, ni)
  PROVE  Shown'[w] = his_files'[ni]
<1>1. (HistoryInv => ShownByScan)'
  BY InvImpliesShown, PTL
<1>2. SlotOf(w, ni)'
  BY DEF SlotOf, SlotOfAfter
<1>3. QED
  BY <1>1, <1>2 DEF ShownByScan

\* The new file is at the first unpinned place and the others are pushed back.
LEMMA AddImplementsAdd ==
  ASSUME HistoryInv, HistoryInv', NEW file \in Name, history_add(file)
  PROVE  List!Add(file)
<1>1. TypeOK /\ PinsDistinct /\ HeadNotPinned /\ ShownByScan
  BY InvImpliesShown DEF HistoryInv
<1>2. /\ PIN' = PIN /\ Pinned' = Pinned /\ Free' = Free
      /\ his_files' = [his_files EXCEPT ![nstart] = file]
  BY DEF history_add, Pinned, Free, occupy_by_pin, VALID_PIN
<1>3. nstart \in Slot /\ nstart \in Free /\ his_files \in [Slot -> Record]
      /\ RankOf(Distances, Free, nstart) = Cardinality(Free) - 1
  <2>1. PICK nj \in Slot : IsNextFree(nj)
    BY DEF history_add, inc_start
  <2>2. QED
    BY <1>1, <2>1, RanksAtHead DEF TypeOK
<1>4. ASSUME NEW w \in Pinned PROVE Shown'[w] = Shown[w]
  <2>1. w \in Slot /\ PIN[w].ni \in Slot /\ PIN[w].ni # nstart
    BY <1>1, PlacesNumbered DEF Pinned, HeadNotPinned, occupy_by_pin, TypeOK, PinEntry
  <2>2. SlotOf(w, PIN[w].ni) /\ SlotOfAfter(w, PIN[w].ni)
    BY <1>2, <2>1 DEF SlotOf, SlotOfAfter
  <2>3. Shown[w] = his_files[PIN[w].ni] /\ Shown'[w] = his_files'[PIN[w].ni]
    BY <1>1, <2>1, <2>2, ShownAfter DEF ShownByScan
  <2>4. QED
    BY <1>2, <1>3, <2>1, <2>3
<1>5. ASSUME NEW w \in Slot \ Pinned, List!Rank(w, Pinned) = 0
      PROVE  Shown'[w] = file
  <2>1. SlotOfAfter(w, nstart)
    BY <1>2, <1>3, <1>5, AddShiftsRanks DEF SlotOfAfter
  <2>2. QED
    BY <1>2, <1>3, <2>1, ShownAfter
<1>6. ASSUME NEW w \in Slot \ Pinned, List!Rank(w, Pinned) # 0
      PROVE  Shown'[w] = Shown[List!AtRank(List!Rank(w, Pinned) - 1, Pinned)]
  <2> DEFINE r == List!Rank(w, Pinned)
             v == List!AtRank(r - 1, Pinned)
  <2>1. r \in Nat /\ r < Cardinality(Free) /\ Cardinality(Free) \in Nat
    BY <1>1, PlacesNumbered, UnpinnedAreFree, BelowFinite
  <2>2. r - 1 \in 0 .. Cardinality(Slot \ Pinned) - 1
    BY <1>1, <1>6, <2>1, UnpinnedAreFree
  <2>3. v \in Slot \ Pinned /\ List!Rank(v, Pinned) = r - 1
    BY <2>2, PlaceAtRank
  <2> HIDE DEF v, r
  <2>4. PICK nv \in Slot : SlotOf(v, nv)
    BY <2>3, PlaceShowsSlotOf
  <2>5. nv \in Free /\ RankOf(Distances, Free, nv) = r - 1
    BY <2>3, <2>4 DEF SlotOf
  <2>6. nv # nstart
    BY <1>3, <2>1, <2>5
  <2>7. RankOf(Distances', Free, nv) = r
    BY <2>1, <2>5, <2>6, AddShiftsRanks
  <2>8. SlotOfAfter(w, nv)
    BY <1>2, <2>5, <2>7 DEF r, SlotOfAfter
  <2>9. Shown'[w] = his_files'[nv] /\ Shown[v] = his_files[nv]
    BY <1>1, <2>3, <2>4, <2>8, ShownAfter DEF ShownByScan
  <2>10. Shown'[w] = Shown[v]
    BY <1>2, <1>3, <2>6, <2>9
  <2>11. QED
    BY <2>10 DEF v, r
<1>7. Shown' = [w \in Slot |->
                  IF w \in Pinned THEN Shown[w]
                  ELSE IF List!Rank(w, Pinned) = 0 THEN file
                  ELSE Shown[List!AtRank(List!Rank(w, Pinned) - 1, Pinned)]]
  <2>1. Shown' = [w \in Slot |-> Shown'[w]]
    BY DEF Shown
  <2>2. QED
    BY <1>4, <1>5, <1>6, <2>1
<1>8. \A w \in Page : Shown[w] # file
  BY PlacesNumbered DEF history_add, OnFirstPage, Shown
<1>9. QED
  BY <1>2, <1>7, <1>8, PlacesNumbered DEF List!Add, Shown, Pinned

\* The record that fills the hole is the one of the last unpinned place but one.
LEMMA DeleteImplementsDelete ==
  ASSUME HistoryInv, HistoryInv', NEW wi \in Slot, history_delete(wi)
  PROVE  List!Delete(wi)
<1>1. TypeOK /\ PinsDistinct /\ ShownByScan
  BY InvImpliesShown DEF HistoryInv
<1>2. PICK ni \in Slot, nj \in Slot :
        /\ IsNIndex(wi, ni) /\ IsNextFree(nj)
        /\ his_files' = [his_files EXCEPT ![ni] = his_files[nj], ![nj] = Empty]
  BY DEF history_delete
<1>3. nstart' = nstart /\ PIN' = PIN /\ Pinned' = Pinned /\ Free' = Free /\ Distances' = Distances
  BY DEF history_delete, Pinned, Free, occupy_by_pin, VALID_PIN, Distances, distance_to_startp
<1>4. SlotOf(wi, ni)
  BY <1>1, <1>2, ScanFindsSlotOf
<1> DEFINE c == Cardinality(Free)
           last == Cardinality(Slot \ Pinned) - 1
           filler == List!AtRank(IF last = 0 THEN 0 ELSE last - 1, Pinned)
<1>5. c \in Nat /\ last = c - 1 /\ last \in Nat /\ Cardinality(Slot \ Pinned) = last + 1
  <2>1. RankOf(Distances, Free, nj) \in Nat /\ RankOf(Distances, Free, nj) < c
    BY <1>1, <1>2, RanksAtHead, SlotsNumbered, BelowFinite
  <2>2. QED
    BY <1>1, <2>1, UnpinnedAreFree
<1>6. filler \in Slot \ Pinned /\ List!Rank(filler, Pinned) = IF last = 0 THEN 0 ELSE last - 1
  <2>1. (IF last = 0 THEN 0 ELSE last - 1) \in 0 .. Cardinality(Slot \ Pinned) - 1
    <3> HIDE DEF c, last
    <3>1. QED
      BY <1>5
  <2>2. QED
    BY <2>1, PlaceAtRank
<1>7. nj \in Free /\ RankOf(Distances, Free, nj) = IF last = 0 THEN 0 ELSE last - 1
  <2>1. nj \in Free /\ RankOf(Distances, Free, nj) = IF c = 1 THEN 0 ELSE c - 2
    BY <1>2, RanksAtHead
  <2> HIDE DEF c, last
  <2>2. QED
    BY <1>5, <2>1
<1>8. SlotOf(filler, nj)
  BY <1>6, <1>7 DEF SlotOf
<1>9. ASSUME NEW v \in Slot
      PROVE  Shown'[v] = [Shown EXCEPT ![wi] = Shown[filler], ![filler] = Empty][v]
  <2>1. PICK nv \in Slot : SlotOf(v, nv)
    BY PlaceShowsSlotOf
  <2>2. Shown'[v] = his_files'[nv]
    BY <1>3, <2>1, ShownAfter DEF SlotOf, SlotOfAfter
  <2>3. Shown[v] = his_files[nv] /\ Shown[filler] = his_files[nj]
    BY <1>1, <1>6, <1>8, <2>1 DEF ShownByScan
  <2>4. nv = ni <=> v = wi
    BY <1>4, <2>1, PlaceShowsSlotOf
  <2>5. nv = nj <=> v = filler
    BY <1>6, <1>8, <2>1, PlaceShowsSlotOf
  <2>6. Shown'[v] = IF nv = nj THEN Empty ELSE IF nv = ni THEN his_files[nj] ELSE his_files[nv]
    BY <1>1, <1>2, <2>2 DEF TypeOK
  <2>7. [Shown EXCEPT ![wi] = Shown[filler], ![filler] = Empty][v]
          = IF v = filler THEN Empty ELSE IF v = wi THEN Shown[filler] ELSE Shown[v]
    BY DEF Shown
  <2>8. QED
    BY <2>3, <2>4, <2>5, <2>6, <2>7
<1>10. Shown' = [Shown EXCEPT ![wi] = Shown[filler], ![filler] = Empty]
  <2> HIDE DEF filler
  <2>1. Shown' = [w \in Slot |-> Shown'[w]]
    BY DEF Shown
  <2>2. DOMAIN Shown = Slot
    BY DEF Shown
  <2>3. QED
    BY <1>9, <2>1, <2>2, Zenon
<1>11. filler \in List!Unpinned(Pinned)
  BY <1>6, PlacesNumbered DEF List!Unpinned
<1>12. QED
  <2> HIDE DEF filler
  <2>1. QED
    BY <1>3, <1>10, <1>11 DEF List!Delete, Shown, Pinned

\* The order of the unpinned places is the order of the slots they show.
LEMMA PlacesInSlotOrder ==
  ASSUME HistoryInv, NEW v \in Slot \ Pinned, NEW w \in Slot \ Pinned,
         NEW nv \in Slot, NEW nw \in Slot, SlotOf(v, nv), SlotOf(w, nw)
  PROVE  Distances[nv] < Distances[nw] <=> Places[v] < Places[w]
<1>1. nv \in Free /\ nw \in Free
      /\ RankOf(Distances, Free, nv) = RankOf(Places, Slot \ Pinned, v)
      /\ RankOf(Distances, Free, nw) = RankOf(Places, Slot \ Pinned, w)
  BY PlacesNumbered DEF SlotOf
<1>2. Numbers(Distances, Free) /\ Numbers(Places, Slot \ Pinned)
  BY SlotsNumbered, PlacesNumbered DEF HistoryInv
<1>3. QED
  BY <1>1, <1>2, RankOrder

\* Pinning a place takes its slot from the unpinned ones and moves no record.
LEMMA PinImplementsPin ==
  ASSUME HistoryInv, HistoryInv', NEW wi \in Slot, history_pin(wi)
  PROVE  List!Pin(wi)
<1>1. TypeOK /\ PinsDistinct /\ ShownByScan
  BY InvImpliesShown DEF HistoryInv
<1>2. PICK ni \in Slot : IsNIndex(wi, ni) /\ PIN' = [PIN EXCEPT ![wi] = [wi |-> wi, ni |-> ni]]
  BY DEF history_pin
<1>3. wi \in Page /\ his_files' = his_files /\ nstart' = nstart /\ Distances' = Distances
  BY DEF history_pin, Distances, distance_to_startp
<1>4. SlotOf(wi, ni)
  BY <1>1, <1>2, ScanFindsSlotOf
<1>5. PIN'[wi].ni = ni /\ PIN'[wi].wi = wi /\ \A w \in Page : w # wi => PIN'[w] = PIN[w]
  BY <1>1, <1>2, <1>3 DEF TypeOK
<1>6. Pinned' = Pinned \cup {wi}
  BY <1>3, <1>5 DEF Pinned, VALID_PIN
<1>7. Free' = Free \ {ni}
  <2>1. ASSUME NEW k \in Slot
        PROVE  occupy_by_pin(k)' <=> occupy_by_pin(k) \/ k = ni
    <3>1. CASE wi \in Pinned
      <4>1. PIN[wi].ni = ni /\ PIN[wi].wi = wi
        BY <1>4, <3>1 DEF SlotOf, Pinned, VALID_PIN
      <4>2. \A w \in Page : PIN'[w].ni = PIN[w].ni /\ PIN'[w].wi = PIN[w].wi
        BY <1>5, <4>1
      <4>3. QED
        BY <1>3, <4>1, <4>2 DEF occupy_by_pin, VALID_PIN
    <3>2. CASE wi \notin Pinned
      <4>1. PIN[wi].wi # wi
        BY <1>3, <3>2 DEF Pinned, VALID_PIN
      <4>2. QED
        BY <1>3, <1>5, <4>1 DEF occupy_by_pin, VALID_PIN
    <3>3. QED
      BY <3>1, <3>2
  <2>2. QED
    BY <2>1 DEF Free
<1>8. ASSUME NEW v \in Slot PROVE Shown'[v] = Shown[v]
  <2>1. PICK nv \in Slot : SlotOf(v, nv)
    BY PlaceShowsSlotOf
  <2>2. SlotOfAfter(v, nv)
    <3>1. CASE v = wi
      <4>1. nv = ni
        BY <1>4, <2>1, <3>1, PlaceShowsSlotOf
      <4>2. QED
        BY <1>5, <1>6, <3>1, <4>1 DEF SlotOfAfter
    <3>2. CASE v # wi /\ v \in Pinned
      BY <1>5, <1>6, <2>1, <3>2 DEF SlotOf, SlotOfAfter, Pinned
    <3>3. CASE v # wi /\ v \notin Pinned
      <4>1. nv # ni
        BY <1>4, <2>1, <3>3, PlaceShowsSlotOf
      <4>2. nv \in Free /\ RankOf(Distances, Free, nv) = List!Rank(v, Pinned)
        BY <2>1, <3>3 DEF SlotOf
      <4>3. Numbers(Distances, Free) /\ Numbers(Places, Slot \ Pinned)
        BY <1>1, SlotsNumbered, PlacesNumbered
      <4>4. CASE wi \in Pinned
        <5>1. ni \notin Free
          BY <1>4, <4>4 DEF SlotOf, Free, occupy_by_pin, Pinned
        <5>2. Pinned' = Pinned /\ Free' = Free
          BY <1>6, <1>7, <4>4, <5>1
        <5>3. QED
          BY <1>3, <3>3, <4>2, <5>2 DEF SlotOfAfter
      <4>5. CASE wi \notin Pinned
        <5>1. ni \in Free
          BY <1>4, <4>5 DEF SlotOf
        <5>2. (Slot \ Pinned) \ {wi} = Slot \ Pinned'
          BY <1>6
        <5>3. RankOf(Distances, Free \ {ni}, nv)
                = IF Distances[ni] < Distances[nv] THEN RankOf(Distances, Free, nv) - 1
                  ELSE RankOf(Distances, Free, nv)
          BY <4>1, <4>2, <4>3, <5>1, RankWithout
        <5>4. RankOf(Places, (Slot \ Pinned) \ {wi}, v)
                = IF Places[wi] < Places[v] THEN RankOf(Places, Slot \ Pinned, v) - 1
                  ELSE RankOf(Places, Slot \ Pinned, v)
          BY <3>3, <4>3, <4>5, RankWithout
        <5>5. Distances[ni] < Distances[nv] <=> Places[wi] < Places[v]
          BY <1>4, <2>1, <3>3, <4>5, PlacesInSlotOrder
        <5>6. /\ RankOf(Places, Slot \ Pinned, v) = List!Rank(v, Pinned)
              /\ RankOf(Places, Slot \ Pinned', v) = List!Rank(v, Pinned')
          BY <1>6, <3>3, PlacesNumbered
        <5>7. RankOf(Distances', Free', nv) = List!Rank(v, Pinned')
          BY <1>3, <1>7, <4>2, <5>2, <5>3, <5>4, <5>5, <5>6
        <5>8. v \notin Pinned' /\ nv \in Free'
          BY <1>6, <1>7, <3>3, <4>1, <4>2
        <5>9. QED
          BY <5>7, <5>8 DEF SlotOfAfter
      <4>6. QED
        BY <4>4, <4>5
    <3>4. QED
      BY <3>1, <3>2, <3>3
  <2>3. QED
    BY <1>1, <1>3, <2>1, <2>2, ShownAfter DEF ShownByScan
<1>9. Shown' = Shown
  <2>1. Shown' = [w \in Slot |-> Shown'[w]] /\ Shown = [w \in Slot |-> Shown[w]]
    BY DEF Shown
  <2>2. QED
    BY <1>8, <2>1
<1>10. QED
  BY <1>6, <1>9 DEF List!Pin, Shown, Pinned

\* Unpinning gives the slot back; its record joins the unpinned ones at the slot's rank.
LEMMA UnpinImplementsUnpin ==
  ASSUME HistoryInv, HistoryInv', NEW wi \in Slot, history_unpin(wi)
  PROVE  List!Unpin(wi)
<1>1. TypeOK /\ PinsDistinct /\ ShownByScan /\ TypeOK' /\ PinsDistinct'
  BY InvImpliesShown DEF HistoryInv
<1>2. /\ wi \in Page /\ PIN[wi].wi = wi /\ PIN' = [PIN EXCEPT ![wi].wi = -1]
      /\ his_files' = his_files /\ nstart' = nstart /\ Distances' = Distances
  BY DEF history_unpin, VALID_PIN, Distances, distance_to_startp
<1>3. PICK ni \in Slot : ni = PIN[wi].ni
  BY <1>1, <1>2 DEF TypeOK, PinEntry
<1>4. /\ PIN'[wi].wi = -1 /\ wi # -1
      /\ \A w \in Page : w # wi => PIN'[w] = PIN[w]
  BY <1>1, <1>2, HistoryAssumption DEF TypeOK, PinEntry, Page
<1>5. wi \in Pinned /\ Pinned' = Pinned \ {wi}
  BY <1>2, <1>4 DEF Pinned, VALID_PIN
<1>6. ni \notin Free /\ Free' = Free \cup {ni}
  <2>1. occupy_by_pin(ni)
    BY <1>2, <1>3 DEF occupy_by_pin, VALID_PIN
  <2>2. ASSUME NEW k \in Slot
        PROVE  occupy_by_pin(k)' <=> occupy_by_pin(k) /\ k # ni
    <3>1. CASE k = ni
      <4>1. \A w \in Page : w # wi /\ PIN[w].wi = w => PIN[w].ni # ni
        BY <1>1, <1>2, <1>3 DEF PinsDistinct, VALID_PIN
      <4>2. QED
        BY <1>4, <3>1, <4>1 DEF occupy_by_pin, VALID_PIN
    <3>2. CASE k # ni
      BY <1>2, <1>3, <1>4, <3>2 DEF occupy_by_pin, VALID_PIN
    <3>3. QED
      BY <3>1, <3>2
  <2>3. QED
    BY <2>1, <2>2 DEF Free
<1>7. Numbers(Distances, Free') /\ Numbers(Distances, Free)
  <2>1. Free' \in SUBSET Slot
    BY DEF Free
  <2>2. QED
    BY <1>1, <2>1, SlotsNumbered, NumbersSubset
<1> DEFINE k == RankOf(Distances, Free', ni)
           Old(r) == List!AtRank(IF r < k THEN r ELSE r - 1, Pinned)
<1>8. /\ Cardinality(Slot \ Pinned) = Cardinality(Free) /\ Cardinality(Free) \in Nat
      /\ Cardinality(Free') = Cardinality(Free) + 1
      /\ Cardinality(Slot \ Pinned') = Cardinality(Free')
      /\ IsFiniteSet(Free)
  <2>1. IsFiniteSet(Free) /\ Cardinality(Free \cup {ni}) = Cardinality(Free) + 1
    BY <1>1, <1>6, FreeIsLarge, FS_AddElement
  <2>2. wi \in Slot \ Pinned' /\ wi \notin Slot \ Pinned
        /\ Slot \ Pinned' = (Slot \ Pinned) \cup {wi}
    BY <1>5
  <2>3. IsFiniteSet(Slot \ Pinned)
    BY PlacesNumbered DEF Numbers
  <2>4. Cardinality(Slot \ Pinned') = Cardinality(Slot \ Pinned) + 1
    BY <2>2, <2>3, FS_AddElement
  <2>5. QED
    BY <1>1, <1>6, <2>1, <2>4, UnpinnedAreFree
<1>9. k \in Nat /\ k <= Cardinality(Free)
  <2>1. k \in Nat /\ k < Cardinality(Free')
    BY <1>6, <1>7, BelowFinite
  <2>2. QED
    BY <1>8, <2>1
<1>10. ASSUME NEW v \in Pinned' PROVE Shown'[v] = Shown[v]
  <2>1. v \in Page /\ v # wi /\ v \in Pinned /\ v \in Slot /\ PIN'[v] = PIN[v]
    BY <1>4, <1>5, PlacesNumbered DEF Pinned
  <2>2. PICK nv \in Slot : SlotOf(v, nv)
    BY <2>1, PlaceShowsSlotOf
  <2>3. SlotOfAfter(v, nv)
    BY <2>1, <2>2 DEF SlotOf, SlotOfAfter
  <2>4. QED
    BY <1>1, <1>2, <2>1, <2>2, <2>3, ShownAfter DEF ShownByScan
<1>11. SlotOf(wi, ni)
  BY <1>3, <1>5 DEF SlotOf
<1>12. ASSUME NEW v \in Slot \ Pinned', List!Rank(v, Pinned') = k
       PROVE  Shown'[v] = Shown[wi]
  <2>1. SlotOfAfter(v, ni)
    BY <1>2, <1>6, <1>12 DEF SlotOfAfter
  <2>2. QED
    BY <1>1, <1>2, <1>11, <2>1, ShownAfter DEF ShownByScan
<1>13. ASSUME NEW v \in Slot \ Pinned', List!Rank(v, Pinned') # k
       PROVE  Shown'[v] = Shown[Old(List!Rank(v, Pinned'))]
  <2> DEFINE r == List!Rank(v, Pinned')
             q == IF r < k THEN r ELSE r - 1
             u == List!AtRank(q, Pinned)
  <2>1. r \in Nat /\ r <= Cardinality(Free)
    <3>1. r \in Nat /\ r < Cardinality(Slot \ Pinned')
      <4>1. v \in Slot \ Pinned' /\ Numbers(Places, Slot \ Pinned')
            /\ List!Rank(v, Pinned') = RankOf(Places, Slot \ Pinned', v)
        BY PlacesNumbered
      <4>2. QED
        BY <4>1, BelowFinite
    <3> HIDE DEF r
    <3>2. QED
      BY <1>8, <3>1
  <2>2. r # k
    BY <1>13
  <2>3. q \in Nat /\ q < Cardinality(Free)
    <3> HIDE DEF r, k
    <3>1. QED
      BY <1>8, <1>9, <2>1, <2>2
  <2>4. u \in Slot \ Pinned /\ List!Rank(u, Pinned) = q
    <3> HIDE DEF q
    <3>1. q \in 0 .. Cardinality(Slot \ Pinned) - 1
      BY <1>8, <2>3
    <3>2. QED
      BY <3>1, PlaceAtRank
  <2>5. PICK nu \in Slot : SlotOf(u, nu)
    BY <2>4, PlaceShowsSlotOf
  <2>6. nu \in Free /\ nu \in Free' /\ nu # ni /\ RankOf(Distances, Free, nu) = q
    BY <1>6, <2>4, <2>5 DEF SlotOf
  <2> DEFINE s == RankOf(Distances, Free', nu)
  <2>7. s \in Nat
    BY <1>7, <2>6, BelowFinite
  <2>8. q = IF Distances[ni] < Distances[nu] THEN s - 1 ELSE s
    <3>1. Free = Free' \ {ni} /\ ni \in Free'
      BY <1>6
    <3>2. RankOf(Distances, Free' \ {ni}, nu)
            = IF Distances[ni] < Distances[nu] THEN RankOf(Distances, Free', nu) - 1
              ELSE RankOf(Distances, Free', nu)
      BY <1>7, <2>6, <3>1, RankWithout
    <3>3. QED
      BY <2>6, <3>1, <3>2
  <2>9. (k < s <=> Distances[ni] < Distances[nu]) /\ k # s
    BY <1>6, <1>7, <2>6, RankOrder
  <2>10. s = r
    <3>1. q = IF k < s THEN s - 1 ELSE s
      BY <2>8, <2>9
    <3> HIDE DEF r, k, s
    <3>2. QED
      BY <1>9, <2>1, <2>2, <2>7, <2>9, <3>1
  <2>11. SlotOfAfter(v, nu)
    BY <1>2, <2>6, <2>10 DEF SlotOfAfter
  <2>12. Shown'[v] = his_files'[nu] /\ Shown[u] = his_files[nu]
    BY <1>1, <2>4, <2>5, <2>11, ShownAfter DEF ShownByScan
  <2>13. QED
    BY <1>2, <2>12
<1>14. k \in 0 .. List!LastRank + 1
  <2>1. List!LastRank = Cardinality(Slot \ Pinned) - 1
    BY PlacesNumbered, ListCounts DEF List!LastRank, List!Unpinned, Pinned
  <2> HIDE DEF k
  <2>2. QED
    BY <1>8, <1>9, <2>1
<1>15. Shown' = [v \in Slot |->
                   IF v \in Pinned' THEN Shown[v]
                   ELSE LET r == List!Rank(v, Pinned') IN
                        IF r = k THEN Shown[wi]
                        ELSE Shown[List!AtRank(IF r < k THEN r ELSE r - 1, Pinned)]]
  <2>1. Shown' = [w \in Slot |-> Shown'[w]]
    BY DEF Shown
  <2> HIDE DEF k
  <2>2. QED
    BY <1>10, <1>12, <1>13, <2>1
<1> HIDE DEF k, Old
<1>16. QED
  BY <1>5, <1>14, <1>15, PlacesNumbered DEF List!Unpin, Shown, Pinned

LEMMA InitImplementsInit == Init => List!Init
<1> SUFFICES ASSUME Init PROVE List!Init
  OBVIOUS
<1>1. HistoryInv
  BY InitHistoryInv
<1>2. Pinned = {}
  BY HistoryAssumption DEF Init, InitPin, VALID_PIN, Page, Pinned
<1>3. ASSUME NEW w \in Slot PROVE Shown[w] = Empty
  <2>1. PICK ni \in Slot : SlotOf(w, ni)
    BY <1>1, PlaceShowsSlotOf
  <2>2. QED
    BY <1>1, <2>1, InvImpliesShown DEF ShownByScan, Init
<1>4. Shown = [w \in Slot |-> Empty]
  BY <1>3 DEF Shown
<1>5. QED
  BY <1>2, <1>4, PlacesNumbered DEF List!Init, Shown, Pinned

\* A step that changes nothing in the ring changes nothing in the list.
LEMMA StutterKeepsList ==
  ASSUME UNCHANGED vars
  PROVE  Shown' = Shown /\ Pinned' = Pinned
<1>1. QED
  BY DEF vars, Shown, Pinned, history_get, n_index_form_w, IsNIndex, VALID_PIN, occupy_by_pin,
         pined_before, ScannedBefore, distance_to_startp

LEMMA StepImplementsStep ==
  HistoryInv /\ HistoryInv' /\ [Next]_vars => [List!Next]_<<Shown, Pinned>>
<1> SUFFICES ASSUME HistoryInv, HistoryInv', [Next]_vars
             PROVE  [List!Next]_<<Shown, Pinned>>
  OBVIOUS
<1>1. CASE \E file \in Name : history_add(file)
  BY <1>1, AddImplementsAdd DEF List!Next
<1>2. CASE \E wi \in Slot : history_delete(wi)
  BY <1>2, DeleteImplementsDelete, PlacesNumbered DEF List!Next
<1>3. CASE \E wi \in Slot : history_pin(wi)
  <2>1. PICK wi \in Slot : history_pin(wi)
    BY <1>3
  <2>2. wi \in List!Page
    BY <2>1, PlacesNumbered DEF history_pin
  <2>3. QED
    BY <2>1, <2>2, PinImplementsPin DEF List!Next
<1>4. CASE \E wi \in Slot : history_unpin(wi)
  <2>1. PICK wi \in Slot : history_unpin(wi)
    BY <1>4
  <2>2. wi \in List!Page
    BY <2>1, PlacesNumbered DEF history_unpin, VALID_PIN
  <2>3. QED
    BY <2>1, <2>2, UnpinImplementsUnpin DEF List!Next
<1>5. CASE UNCHANGED vars
  BY <1>5, StutterKeepsList
<1>6. QED
  BY <1>1, <1>2, <1>3, <1>4, <1>5 DEF Next

(* The ring of history.c, with its moving head and its pins, behaves as    *)
(* the list of places: what n_index_form_w finds after an operation is     *)
(* what the user sees change in the list, for every size of the ring.      *)
THEOREM RingImplementsList == Spec => ImplementsList
<1>1. HistoryInv /\ HistoryInv' /\ [Next]_vars =>
        [List!Next]_<<[w \in Slot |-> history_get(w)], {w \in Page : VALID_PIN(w)}>>
  BY StepImplementsStep DEF Shown, Pinned
<1>2. QED
  BY <1>1, InitImplementsInit, HistoryInvariant, PTL DEF Spec, ImplementsList, List!Spec

===============================================================================
