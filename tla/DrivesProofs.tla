----------------------------- MODULE DrivesProofs -----------------------------
(***************************************************************************)
(* Proofs about Drives, for every number of letters, slots and volumes:    *)
(* the types, and that the file count covers the trees, whatever the       *)
(* threads do; that loaded drives have live trees of their own, when no    *)
(* drive comes or goes and no first scan runs during a rescan.             *)
(***************************************************************************)
EXTENDS Drives, FiniteSetTheorems, SequenceTheorems, WellFoundedInduction, NaturalsInduction, TLAPS

-----------------------------------------------------------------------------
(* The inductive invariant of the types.  A failed readfile counts files   *)
(* that are in no tree yet, so they have to be counted with the trees; a   *)
(* loaded drive has a root unless its database had no entry.               *)

\* A slot s stands for the files that wait in it as the tree -s.
Waiting == UNION {{-s} \X (1 .. tmpList[s]) : s \in Slot}
Counted == FilesInMemory \cup Waiting
CountInv == IsFiniteSet(Counted) /\ (raced \/ Cardinality(Counted) <= ALL_FILE_COUNT)

HasRoot(i) == g_rootVols[i] # NULL
RootsSet ==
  /\ \A i \in Letter : g_loaded[i] => HasRoot(i) \/ i \in hollow
  /\ \A t \in Thread : call[t].at = "publish" => HasRoot(call[t].i)
  /\ \A z \in sizers : HasRoot(z.i)

TypeInv == DrivesTypeOK /\ RootsSet /\ CountInv

-----------------------------------------------------------------------------
(* Counting.                                                               *)

Row(a, r) == {a} \X (1 .. r)

LEMMA PairsCount ==
  ASSUME NEW a, NEW S, IsFiniteSet(S)
  PROVE  IsFiniteSet({a} \X S) /\ Cardinality({a} \X S) = Cardinality(S)
<1>1. IsFiniteSet({a}) /\ Cardinality({a}) = 1
  BY FS_Singleton
<1>2. Cardinality(S) \in Nat
  BY FS_CardinalityType
<1>3. IsFiniteSet({a} \X S) /\ Cardinality({a} \X S) = 1 * Cardinality(S)
  BY <1>1, FS_Product
<1>4. QED
  BY <1>2, <1>3

LEMMA RowCount ==
  ASSUME NEW a, NEW r \in Nat
  PROVE  IsFiniteSet(Row(a, r)) /\ Cardinality(Row(a, r)) = r
<1>1. IsFiniteSet(1 .. r) /\ Cardinality(1 .. r) = r
  BY FS_Interval
<1>2. QED
  BY <1>1, PairsCount DEF Row

\* Adding r files adds at most r to the count.
LEMMA FilesAdded ==
  ASSUME NEW P, NEW Q, NEW R, IsFiniteSet(P), IsFiniteSet(R), Q \subseteq P \cup R
  PROVE  /\ IsFiniteSet(Q) /\ Cardinality(Q) \in Nat /\ Cardinality(P) \in Nat
         /\ Cardinality(Q) <= Cardinality(P) + Cardinality(R)
<1>1. IsFiniteSet(P \cup R) /\ Cardinality(P \cup R) = Cardinality(P) + Cardinality(R) - Cardinality(P \cap R)
  BY FS_Union
<1>2. IsFiniteSet(P \cap R)
  BY FS_Intersection
<1>3. IsFiniteSet(Q) /\ Cardinality(Q) <= Cardinality(P \cup R)
  BY <1>1, FS_Subset
<1>4. /\ Cardinality(P) \in Nat /\ Cardinality(P \cap R) \in Nat /\ Cardinality(Q) \in Nat
      /\ Cardinality(P \cup R) \in Nat /\ Cardinality(R) \in Nat
  BY <1>1, <1>2, <1>3, FS_CardinalityType
<1>5. QED
  BY <1>1, <1>3, <1>4

LEMMA CountAdded ==
  ASSUME NEW P, NEW Q, NEW a, NEW r \in Nat, IsFiniteSet(P), Q \subseteq P \cup Row(a, r)
  PROVE  /\ IsFiniteSet(Q) /\ Cardinality(Q) \in Nat /\ Cardinality(P) \in Nat
         /\ Cardinality(Q) <= Cardinality(P) + r
<1>1. IsFiniteSet(Row(a, r)) /\ Cardinality(Row(a, r)) = r
  BY RowCount
<1>2. QED
  BY <1>1, FilesAdded

\* Taking a tree of r counted files away takes r off the count.
LEMMA CountRemoved ==
  ASSUME NEW P, NEW Q, NEW a, NEW r \in Nat, IsFiniteSet(P),
         Row(a, r) \subseteq P, Q \subseteq P \ Row(a, r)
  PROVE  /\ IsFiniteSet(Q) /\ Cardinality(Q) \in Nat /\ Cardinality(P) \in Nat
         /\ Cardinality(Q) <= Cardinality(P) - r
<1> DEFINE R == Row(a, r)
<1>1. IsFiniteSet(R) /\ Cardinality(R) = r
  BY RowCount
<1>2. P \cap R = R
  OBVIOUS
<1>3. IsFiniteSet(P \ R) /\ Cardinality(P \ R) = Cardinality(P) - Cardinality(P \cap R)
  BY FS_Difference
<1>4. IsFiniteSet(Q) /\ Cardinality(Q) <= Cardinality(P \ R)
  BY <1>3, FS_Subset
<1>5. Cardinality(P) \in Nat /\ Cardinality(Q) \in Nat /\ Cardinality(P \ R) \in Nat
  BY <1>3, <1>4, FS_CardinalityType
<1> HIDE DEF R
<1>6. QED
  BY <1>1, <1>2, <1>3, <1>4, <1>5

LEMMA SlotFacts ==
  /\ DIRVE_COUNT \in Nat \ {0} /\ DIRVE_COUNT_OFFLINE \in Nat /\ DIRVE_COUNT < DIRVE_COUNT_OFFLINE
  /\ Slot = 0 .. DIRVE_COUNT_OFFLINE - 1 /\ Letter \subseteq Slot /\ Offline \subseteq Slot
  /\ Letter \cap Offline = {} /\ 0 \in Letter /\ DIRVE_COUNT \in Offline /\ Slot \subseteq Nat
  /\ Size \in [Volume -> Nat \ {0}] /\ MaxEvents \in Nat
BY DrivesAssumption DEF Slot, Letter, Offline

\* What the pairs of Counted are.
LEMMA CountedElements ==
  ASSUME NEW f
  PROVE  f \in Counted <=>
           \/ \E a \in DOMAIN heap : heap[a].live /\ \E k \in 1 .. heap[a].rows : f = <<a, k>>
           \/ \E s \in Slot : \E k \in 1 .. tmpList[s] : f = <<-s, k>>
BY DEF Counted, FilesInMemory, Waiting

LEMMA CountedNext ==
  ASSUME NEW f
  PROVE  f \in Counted' <=>
           \/ \E a \in DOMAIN heap' : heap'[a].live /\ \E k \in 1 .. heap'[a].rows : f = <<a, k>>
           \/ \E s \in Slot : \E k \in 1 .. tmpList'[s] : f = <<-s, k>>
BY DEF Counted, FilesInMemory, Waiting

Counter == ALL_FILE_COUNT \in Int /\ raced \in BOOLEAN

\* Until two threads count at once, the count moves by as many files as are counted.
LEMMA CountEffect ==
  ASSUME TypeInv, NEW n \in Int, NEW t, Count(n, t)
  PROVE  Counter' /\ (~raced' => ~raced /\ ALL_FILE_COUNT' = ALL_FILE_COUNT + n)
<1>1. ALL_FILE_COUNT \in Int /\ raced \in BOOLEAN
  BY DEF TypeInv, DrivesTypeOK
<1>2. raced' = (raced \/ CountsBeside(t)) /\ raced' \in BOOLEAN
  BY <1>1 DEF Count, CountsBeside
<1>3. ALL_FILE_COUNT' \in Int /\ (~raced' => ALL_FILE_COUNT' = ALL_FILE_COUNT + n)
  BY <1>1 DEF Count
<1>4. QED
  BY <1>1, <1>2, <1>3, Zenon DEF Counter

LEMMA CountKept ==
  ASSUME TypeInv, NEW n \in Int, (UNCHANGED count /\ n = 0) \/ (\E t : Count(n, t)),
         IsFiniteSet(Counted'), Cardinality(Counted') <= Cardinality(Counted) + n
  PROVE  CountInv' /\ Counter'
<1>1. /\ IsFiniteSet(Counted) /\ (raced \/ Cardinality(Counted) <= ALL_FILE_COUNT)
      /\ ALL_FILE_COUNT \in Int /\ raced \in BOOLEAN
  BY DEF TypeInv, CountInv, DrivesTypeOK
<1>2. Cardinality(Counted) \in Nat /\ Cardinality(Counted') \in Nat
  BY <1>1, FS_CardinalityType
<1>3. Counter' /\ (~raced' => ~raced /\ ALL_FILE_COUNT' = ALL_FILE_COUNT + n)
  BY <1>1, CountEffect DEF count, Counter
<1>4. QED
  BY <1>1, <1>2, <1>3 DEF CountInv, Counter

LEMMA CountUnchanged ==
  ASSUME TypeInv, heap' = heap, tmpList' = tmpList, UNCHANGED count
  PROVE  CountInv' /\ Counter'
BY DEF TypeInv, CountInv, Counted, FilesInMemory, Waiting, DrivesTypeOK, Counter, count

Node == [vol : Volume \cup {None}, rows : Nat \ {0}, live : BOOLEAN]

\* The files that do not wait in slot s.
Elsewhere(s) == Counted \ Row(-s, tmpList[s])

LEMMA ElsewhereCount ==
  ASSUME TypeInv, NEW s \in Slot
  PROVE  /\ tmpList[s] \in Nat /\ IsFiniteSet(Elsewhere(s)) /\ Cardinality(Elsewhere(s)) \in Nat
         /\ Cardinality(Counted) \in Nat /\ Cardinality(Elsewhere(s)) <= Cardinality(Counted) - tmpList[s]
<1>1. Row(-s, tmpList[s]) \subseteq Counted
  BY DEF Counted, Waiting, Row
<1>2. IsFiniteSet(Counted) /\ tmpList[s] \in Nat
  BY DEF TypeInv, CountInv, DrivesTypeOK
<1>3. Elsewhere(s) \subseteq Counted \ Row(-s, tmpList[s])
  BY DEF Elsewhere
<1>4. QED
  BY <1>1, <1>2, <1>3, CountRemoved

\* What still waits when slot s holds left files, and no tree has changed, was counted before.
LEMMA StillWaiting ==
  ASSUME TypeInv, NEW s \in Slot, NEW left \in Nat, tmpList' = [tmpList EXCEPT ![s] = left],
         NEW f, \E r \in Slot : \E k \in 1 .. tmpList'[r] : f = <<-r, k>>
  PROVE  f \in Elsewhere(s) \cup Row(-s, left)
<1>1. PICK r \in Slot : \E k \in 1 .. tmpList'[r] : f = <<-r, k>>
  OBVIOUS
<1>2. tmpList \in [Slot -> Nat]
  BY DEF TypeInv, DrivesTypeOK
<1>3. CASE r = s
  BY <1>1, <1>2, <1>3 DEF Row
<1>4. CASE r # s
  <2>1. tmpList'[r] = tmpList[r] /\ -r # -s
    BY <1>2, <1>4, SlotFacts
  <2>2. f \in Counted
    BY <1>1, <2>1, CountedElements
  <2>3. QED
    BY <1>1, <2>1, <2>2 DEF Elsewhere, Row
<1>5. QED
  BY <1>3, <1>4

LEMMA TreeIsElsewhere ==
  ASSUME TypeInv, NEW s \in Slot, NEW a \in DOMAIN heap, heap[a].live, NEW k \in 1 .. heap[a].rows
  PROVE  <<a, k>> \in Elsewhere(s)
<1>1. heap \in Seq(Node) /\ a \in Nat \ {0}
  BY DEF TypeInv, DrivesTypeOK, Node
<1>2. <<a, k>> \in Counted
  BY CountedElements
<1>3. QED
  BY <1>1, <1>2, SlotFacts DEF Elsewhere, Row

\* A database with entries: some go into the tree, the others wait.
LEMMA EntriesCounted ==
  ASSUME TypeInv, NEW s \in Slot, NEW v \in Volume \cup {None}, NEW fresh \in BOOLEAN, NEW t,
         HeaderRead(v, fresh), db[v].rows > 0, ReadEntries(s, v, fresh, t)
  PROVE  CountInv' /\ Counter'
<1>1. PICK found \in 0 .. tmpList[s] :
        heap' = Append(heap, Tree(v, IF Accepted(v, fresh) THEN db[v].rows + found ELSE 1))
  BY DEF ReadEntries
<1> DEFINE rows == IF Accepted(v, fresh) THEN db[v].rows + found ELSE 1
           left == IF Accepted(v, fresh) THEN 0 ELSE tmpList[s] + db[v].rows - 1
           b == Len(heap) + 1
           M == Elsewhere(s) \cup Row(-s, left)
<1>2. /\ heap' = Append(heap, Tree(v, rows)) /\ tmpList' = [tmpList EXCEPT ![s] = left]
      /\ Count(db[v].rows, t)
  BY <1>1 DEF ReadEntries
<1>3. /\ db[v].rows \in Nat /\ tmpList[s] \in Nat /\ rows \in Nat /\ left \in Nat
      /\ rows + left <= db[v].rows + tmpList[s] /\ heap \in Seq(Node) /\ tmpList \in [Slot -> Nat]
  <2>1. v \in Volume /\ db[v] \in DbFile /\ tmpList[s] \in Nat
    BY DEF TypeInv, DrivesTypeOK, HeaderRead
  <2>2. db[v].rows \in Nat /\ db[v].rows >= 1
    BY <2>1 DEF DbFile, NoDb, Opened
  <2>3. rows \in Nat /\ left \in Nat /\ rows + left <= db[v].rows + tmpList[s]
    BY <2>1, <2>2
  <2>4. heap \in Seq(Node) /\ tmpList \in [Slot -> Nat]
    BY DEF TypeInv, DrivesTypeOK, Node
  <2> HIDE DEF rows, left
  <2>5. QED
    BY <2>1, <2>2, <2>3, <2>4
<1>4. ASSUME NEW f \in Counted'
      PROVE  f \in M \cup Row(b, rows)
  <2> HIDE DEF rows, left
  <2>1. /\ DOMAIN heap = 1 .. Len(heap) /\ DOMAIN heap' = 1 .. b /\ heap'[b] = Tree(v, rows)
        /\ \A a \in 1 .. Len(heap) : heap'[a] = heap[a]
    BY <1>2, <1>3
  <2>2. CASE \E a \in DOMAIN heap' : heap'[a].live /\ \E k \in 1 .. heap'[a].rows : f = <<a, k>>
    <3>1. PICK a \in DOMAIN heap' : heap'[a].live /\ \E k \in 1 .. heap'[a].rows : f = <<a, k>>
      BY <2>2
    <3>2. CASE a = b
      BY <3>1, <3>2, <2>1 DEF Tree, Row
    <3>3. CASE a # b
      <4>1. a \in DOMAIN heap /\ heap'[a] = heap[a]
        BY <1>3, <2>1, <3>3
      <4>2. QED
        BY <3>1, <4>1, TreeIsElsewhere
    <3>4. QED
      BY <3>2, <3>3
  <2>3. CASE \E r \in Slot : \E k \in 1 .. tmpList'[r] : f = <<-r, k>>
    BY <1>2, <1>3, <2>3, StillWaiting
  <2>4. QED
    BY <2>2, <2>3, CountedNext
<1> HIDE DEF rows, left, b, M
<1>5. IsFiniteSet(M) /\ Cardinality(M) \in Nat /\ Cardinality(M) <= Cardinality(Elsewhere(s)) + left
  <2>1. M \subseteq Elsewhere(s) \cup Row(-s, left) /\ IsFiniteSet(Elsewhere(s))
    BY ElsewhereCount DEF M
  <2>2. QED
    BY <1>3, <2>1, CountAdded
<1>6. Counted' \subseteq M \cup Row(b, rows)
  BY <1>4
<1>7. IsFiniteSet(Counted') /\ Cardinality(Counted') \in Nat /\ Cardinality(Counted') <= Cardinality(M) + rows
  BY <1>3, <1>5, <1>6, CountAdded
<1>8. Cardinality(Counted') <= Cardinality(Counted) + db[v].rows
  <2>1. /\ Cardinality(Elsewhere(s)) \in Nat /\ Cardinality(Counted) \in Nat
        /\ Cardinality(Elsewhere(s)) <= Cardinality(Counted) - tmpList[s]
    BY ElsewhereCount
  <2>2. db[v].rows \in Nat /\ tmpList[s] \in Nat /\ rows + left <= db[v].rows + tmpList[s]
    BY <1>3
  <2>3. Cardinality(Counted') <= Cardinality(Elsewhere(s)) + (left + rows)
    BY <1>3, <1>5, <1>7, <2>1
  <2>4. left \in Nat /\ rows \in Nat /\ Cardinality(Counted') \in Nat
    BY <1>3, <1>7
  <2>5. QED
    BY <2>1, <2>2, <2>3, <2>4
<1>9. QED
  BY <1>2, <1>3, <1>7, <1>8, CountKept

\* A database without an entry: files that waited may join the tree the slot has.
LEMMA NoEntryCounted ==
  ASSUME TypeInv, NEW s \in Slot, ReadNoEntry(s)
  PROVE  CountInv' /\ Counter'
<1> DEFINE a == g_rootVols[s]
<1>1. /\ heap \in Seq(Node) /\ DOMAIN heap = 1 .. Len(heap) /\ tmpList[s] \in Nat
      /\ a \in 0 .. Len(heap) /\ \A c \in DOMAIN heap : heap[c].rows \in Nat
  <2>1. heap \in Seq(Node) /\ tmpList[s] \in Nat /\ a \in 0 .. Len(heap)
    BY DEF TypeInv, DrivesTypeOK, Node
  <2>2. \A c \in DOMAIN heap : heap[c] \in Node
    BY <2>1
  <2>3. QED
    BY <2>1, <2>2 DEF Node
<1>2. tmpList' = [tmpList EXCEPT ![s] = 0] /\ UNCHANGED count
  BY DEF ReadNoEntry
<1>3. PICK found \in 0 .. tmpList[s] :
        /\ DOMAIN heap' = DOMAIN heap
        /\ \A c \in DOMAIN heap : /\ heap'[c].live = heap[c].live
                                  /\ heap'[c].rows = IF c = a THEN heap[c].rows + found ELSE heap[c].rows
  <2>1. CASE a = NULL
    BY <1>1, <2>1 DEF ReadNoEntry, NULL
  <2>2. CASE a # NULL
    <3>1. PICK found \in 0 .. tmpList[s] : heap' = [heap EXCEPT ![a].rows = @ + found]
      BY <2>2 DEF ReadNoEntry
    <3>2. heap \in [1 .. Len(heap) -> Node] /\ a \in 1 .. Len(heap)
      BY <1>1, <2>2 DEF NULL
    <3>3. \A c \in DOMAIN heap : /\ heap'[c].live = heap[c].live
                                /\ heap'[c].rows = IF c = a THEN heap[c].rows + found ELSE heap[c].rows
      BY <3>1, <3>2 DEF Node
    <3>4. QED
      BY <3>1, <3>2, <3>3
  <2>3. QED
    BY <2>1, <2>2
<1> DEFINE more == {a} \X (heap[a].rows + 1 .. heap[a].rows + found)
           R == IF a \in DOMAIN heap THEN more ELSE {}
<1>4. ASSUME NEW f \in Counted'
      PROVE  f \in Elsewhere(s) \cup R
  <2>1. CASE \E c \in DOMAIN heap' : heap'[c].live /\ \E k \in 1 .. heap'[c].rows : f = <<c, k>>
    <3>0. PICK c \in DOMAIN heap' : heap'[c].live /\ \E k \in 1 .. heap'[c].rows : f = <<c, k>>
      BY <2>1
    <3>1. PICK k \in 1 .. heap'[c].rows : heap'[c].live /\ f = <<c, k>>
      BY <3>0
    <3>2. c \in DOMAIN heap /\ heap[c].live /\ heap[c].rows \in Nat /\ found \in Nat
      BY <1>1, <1>3, <3>1
    <3>3. CASE k \in 1 .. heap[c].rows
      BY <3>1, <3>2, <3>3, TreeIsElsewhere
    <3>4. CASE k \notin 1 .. heap[c].rows
      <4>1. c = a /\ k \in heap[a].rows + 1 .. heap[a].rows + found
        BY <1>3, <3>1, <3>2, <3>4
      <4>2. QED
        BY <3>1, <3>2, <4>1
    <3>5. QED
      BY <3>3, <3>4
  <2>2. CASE \E r \in Slot : \E k \in 1 .. tmpList'[r] : f = <<-r, k>>
    <3>1. f \in Elsewhere(s) \cup Row(-s, 0)
      BY <1>2, <2>2, StillWaiting
    <3>2. Row(-s, 0) = {}
      BY DEF Row
    <3>3. QED
      BY <3>1, <3>2
  <2>3. QED
    BY <2>1, <2>2, CountedNext
<1>5. IsFiniteSet(R) /\ Cardinality(R) <= found
  <2>1. CASE a \in DOMAIN heap
    <3> DEFINE r == heap[a].rows
    <3>1. r \in Nat /\ found \in Nat
      BY <1>1, <2>1
    <3> HIDE DEF r, a
    <3>2. IsFiniteSet(r + 1 .. r + found) /\ Cardinality(r + 1 .. r + found) = found
      BY <3>1, FS_Interval
    <3>4. IsFiniteSet({a} \X (r + 1 .. r + found)) /\ Cardinality({a} \X (r + 1 .. r + found)) = found
      BY <3>2, PairsCount
    <3>5. QED
      BY <2>1, <3>1, <3>4 DEF r
  <2>2. CASE a \notin DOMAIN heap
    BY <1>1, <2>2, FS_EmptySet
  <2>3. QED
    BY <2>1, <2>2
<1>6. Counted' \subseteq Elsewhere(s) \cup R
  BY <1>4
<1> HIDE DEF R
<1>7. /\ IsFiniteSet(Counted') /\ Cardinality(Counted') \in Nat /\ Cardinality(Elsewhere(s)) \in Nat
      /\ Cardinality(Counted') <= Cardinality(Elsewhere(s)) + Cardinality(R)
  BY <1>5, <1>6, ElsewhereCount, FilesAdded
<1>8. Cardinality(R) \in Nat
  BY <1>5, FS_CardinalityType
<1>9. Cardinality(Counted') <= Cardinality(Counted) + 0
  BY <1>1, <1>5, <1>7, <1>8, ElsewhereCount
<1>10. QED
  BY <1>2, <1>7, <1>9, CountKept

LEMMA ReadCounted ==
  ASSUME TypeInv, NEW s \in Slot, NEW v \in Volume \cup {None}, NEW fresh \in BOOLEAN, NEW t,
         readfile(s, v, fresh, t)
  PROVE  CountInv' /\ Counter'
<1>1. CASE HeaderRead(v, fresh) /\ db[v].rows > 0 /\ ReadEntries(s, v, fresh, t)
  BY <1>1, EntriesCounted
<1>2. CASE ReadNoEntry(s)
  BY <1>2, NoEntryCounted
<1>3. CASE UNCHANGED <<heap, g_rootVols, tmpList, hollow, count>>
  BY <1>3, CountUnchanged
<1>4. QED
  BY <1>1, <1>2, <1>3 DEF readfile

LEMMA FreeCounted ==
  ASSUME TypeInv, NEW a \in 0 .. Len(heap), ~Freed(a), NEW t, deleteFile(a, t), tmpList' = tmpList
  PROVE  CountInv' /\ Counter'
<1>1. CASE a = NULL
  BY <1>1, CountUnchanged DEF deleteFile
<1>2. CASE a # NULL
  <2> DEFINE r == heap[a].rows
  <2>1. heap \in Seq(Node) /\ a \in DOMAIN heap /\ DOMAIN heap = 1 .. Len(heap)
    BY <1>2 DEF TypeInv, DrivesTypeOK, NULL, Node
  <2>2. r \in Nat /\ heap[a].live
    <3>1. heap[a] \in Node
      BY <2>1
    <3>2. QED
      BY <1>2, <3>1 DEF Freed, Node
  <2>3. heap' = [heap EXCEPT ![a].live = FALSE] /\ Count(-r, t)
    BY <1>2 DEF deleteFile
  <2>4. Row(a, r) \subseteq Counted
    BY <2>1, <2>2 DEF Counted, FilesInMemory, Row
  <2>5. /\ DOMAIN heap' = DOMAIN heap /\ ~heap'[a].live
        /\ \A c \in DOMAIN heap : c # a => heap'[c] = heap[c]
    BY <2>1, <2>3 DEF Node
  <2>6. ASSUME NEW f \in Counted'
        PROVE  f \in Counted \ (Row(a, r))
    <3>1. CASE \E c \in DOMAIN heap' : heap'[c].live /\ \E k \in 1 .. heap'[c].rows : f = <<c, k>>
      <4>1. PICK c \in DOMAIN heap' : heap'[c].live /\ \E k \in 1 .. heap'[c].rows : f = <<c, k>>
        BY <3>1
      <4>2. c # a /\ c \in DOMAIN heap /\ heap'[c] = heap[c]
        BY <4>1, <2>5
      <4>3. f \in Counted
        BY <4>1, <4>2, CountedElements
      <4>4. QED
        BY <4>1, <4>2, <4>3 DEF Row
    <3>2. CASE \E s \in Slot : \E k \in 1 .. tmpList'[s] : f = <<-s, k>>
      <4>1. PICK s \in Slot : \E k \in 1 .. tmpList[s] : f = <<-s, k>>
        BY <3>2
      <4>2. f \in Counted
        BY <4>1, CountedElements
      <4>3. -s # a
        BY <2>1, SlotFacts
      <4>4. QED
        BY <4>1, <4>2, <4>3 DEF Row
    <3>3. QED
      BY <3>1, <3>2, CountedNext
  <2>7. IsFiniteSet(Counted)
    BY DEF TypeInv, CountInv
  <2> HIDE DEF r
  <2>8. Counted' \subseteq Counted \ Row(a, r)
    BY <2>6
  <2>9. /\ IsFiniteSet(Counted') /\ Cardinality(Counted') \in Nat /\ Cardinality(Counted) \in Nat
        /\ Cardinality(Counted') <= Cardinality(Counted) - r
    BY <2>2, <2>4, <2>7, <2>8, CountRemoved
  <2>10. -r \in Int /\ Cardinality(Counted') <= Cardinality(Counted) + (-r)
    BY <2>2, <2>9
  <2>11. QED
    BY <2>3, <2>9, <2>10, CountKept
<1>3. QED
  BY <1>1, <1>2

LEMMA ScanCounted ==
  ASSUME TypeInv, NEW tree \in Node, heap' = Append(heap, tree), tmpList' = tmpList,
         NEW t, Count(tree.rows, t)
  PROVE  CountInv' /\ Counter'
<1> DEFINE b == Len(heap) + 1
<1>1. heap \in Seq(Node) /\ tree.rows \in Nat
  BY DEF TypeInv, DrivesTypeOK, Node
<1>2. /\ DOMAIN heap = 1 .. Len(heap) /\ DOMAIN heap' = 1 .. b /\ heap'[b] = tree
      /\ \A a \in 1 .. Len(heap) : heap'[a] = heap[a]
  BY <1>1
<1>3. ASSUME NEW f \in Counted'
      PROVE  f \in Counted \cup Row(b, tree.rows)
  <2>1. CASE \E a \in DOMAIN heap' : heap'[a].live /\ \E k \in 1 .. heap'[a].rows : f = <<a, k>>
    <3>1. PICK a \in DOMAIN heap' : heap'[a].live /\ \E k \in 1 .. heap'[a].rows : f = <<a, k>>
      BY <2>1
    <3>2. CASE a = b
      BY <3>1, <3>2, <1>2 DEF Row
    <3>3. CASE a # b
      <4>1. a \in DOMAIN heap /\ heap'[a] = heap[a]
        BY <1>1, <1>2, <3>3
      <4>2. QED
        BY <3>1, <4>1, CountedElements
    <3>4. QED
      BY <3>2, <3>3
  <2>2. CASE \E s \in Slot : \E k \in 1 .. tmpList'[s] : f = <<-s, k>>
    BY <2>2, CountedElements
  <2>3. QED
    BY <2>1, <2>2, CountedNext
<1>4. IsFiniteSet(Counted)
  BY DEF TypeInv, CountInv
<1>5. Counted' \subseteq Counted \cup Row(b, tree.rows)
  BY <1>3
<1>6. /\ IsFiniteSet(Counted') /\ Cardinality(Counted') \in Nat /\ Cardinality(Counted) \in Nat
      /\ Cardinality(Counted') <= Cardinality(Counted) + tree.rows
  BY <1>1, <1>4, <1>5, CountAdded
<1>7. QED
  BY <1>1, <1>6, CountKept

\* resetMap forgets files that were counted; nothing is left when the process has ended.
LEMMA ForgottenCounted ==
  ASSUME TypeInv, UNCHANGED count, heap' = heap,
         NEW i \in Slot, tmpList' = [tmpList EXCEPT ![i] = 0]
  PROVE  CountInv' /\ Counter'
<1>1. tmpList \in [Slot -> Nat]
  BY DEF TypeInv, DrivesTypeOK
<1>2. ASSUME NEW f \in Counted'
      PROVE  f \in Counted
  <2>1. CASE \E s \in Slot : \E k \in 1 .. tmpList'[s] : f = <<-s, k>>
    <3>1. PICK s \in Slot : \E k \in 1 .. tmpList'[s] : f = <<-s, k>>
      BY <2>1
    <3>2. s # i /\ tmpList'[s] = tmpList[s]
      BY <3>1, <1>1
    <3>3. QED
      BY <3>1, <3>2, CountedElements
  <2>2. QED
    BY <2>1, CountedNext, CountedElements
<1>3. IsFiniteSet(Counted)
  BY DEF TypeInv, CountInv
<1>4. Counted' \in SUBSET Counted
  BY <1>2
<1>5. IsFiniteSet(Counted') /\ Cardinality(Counted') <= Cardinality(Counted)
  BY <1>3, <1>4, FS_Subset
<1>6. Cardinality(Counted) \in Nat /\ Cardinality(Counted') \in Nat
  BY <1>3, <1>5, FS_CardinalityType
<1>7. Cardinality(Counted') <= Cardinality(Counted) + 0
  BY <1>5, <1>6
<1>8. QED
  BY <1>5, <1>7, CountKept

LEMMA NothingCounted ==
  ASSUME heap' = <<>>, ALL_FILE_COUNT' = 0, raced' = FALSE, tmpList' = [s \in Slot |-> 0]
  PROVE  CountInv' /\ Counter'
<1>1. Counted' = {}
  BY CountedNext
<1>2. IsFiniteSet(Counted') /\ Cardinality(Counted') <= ALL_FILE_COUNT' /\ ALL_FILE_COUNT' \in Int
  BY <1>1, FS_EmptySet
<1>3. raced' \in BOOLEAN
  BY Zenon
<1>4. QED
  BY <1>2, <1>3, Zenon DEF CountInv, Counter

-----------------------------------------------------------------------------
(* Trees that come and go.                                                 *)

Heap ==
  /\ heap \in Seq(Node) /\ g_rootVols \in [Slot -> 0 .. Len(heap)] /\ tmpList \in [Slot -> Nat]
  /\ hollow \subseteq Slot

\* A new tree, which no slot had, is put in slot s.
NewTree(s) ==
  /\ \E tree \in Node : /\ tree.live /\ heap' = Append(heap, tree)
                        /\ g_rootVols' = [g_rootVols EXCEPT ![s] = Len(heap) + 1]
  /\ hollow' = hollow \ {s}

\* No tree is put in slot s: its tree may have grown.
NoTree(s) ==
  /\ heap' \in Seq(Node) /\ Len(heap') = Len(heap) /\ g_rootVols' = g_rootVols
  /\ \A a \in 1 .. Len(heap) : heap'[a].live = heap[a].live
  /\ hollow' = hollow \cup {s}

LEMMA NewTreeFacts ==
  ASSUME heap \in Seq(Node), g_rootVols \in [Slot -> 0 .. Len(heap)], NEW s \in Slot, NewTree(s)
  PROVE  /\ heap' \in Seq(Node) /\ g_rootVols' \in [Slot -> 0 .. Len(heap')]
         /\ Len(heap) \in Nat /\ Len(heap') = Len(heap) + 1
         /\ \A a \in 1 .. Len(heap) : heap'[a] = heap[a]
         /\ g_rootVols'[s] = Len(heap) + 1 /\ heap'[g_rootVols'[s]].live
         /\ \A r \in Slot : r # s => g_rootVols'[r] = g_rootVols[r]
<1>1. PICK tree \in Node : /\ tree.live /\ heap' = Append(heap, tree)
                           /\ g_rootVols' = [g_rootVols EXCEPT ![s] = Len(heap) + 1]
  BY DEF NewTree
<1>2. /\ heap' \in Seq(Node) /\ Len(heap) \in Nat /\ Len(heap') = Len(heap) + 1
      /\ \A a \in 1 .. Len(heap) : heap'[a] = heap[a]
      /\ heap'[Len(heap) + 1] = tree
  BY <1>1
<1>3. QED
  BY <1>1, <1>2

LEMMA FreeFacts ==
  ASSUME heap \in Seq(Node), NEW a \in 0 .. Len(heap), NEW t, deleteFile(a, t)
  PROVE  /\ heap' \in Seq(Node) /\ Len(heap') = Len(heap)
         /\ \A b \in 1 .. Len(heap) : b # a => heap'[b] = heap[b]
<1>1. CASE a = NULL
  BY <1>1 DEF deleteFile
<1>2. CASE a # NULL
  <2>1. heap' = [heap EXCEPT ![a].live = FALSE] /\ a \in 1 .. Len(heap)
    BY <1>2 DEF deleteFile, NULL
  <2>2. /\ heap' \in [1 .. Len(heap) -> Node]
        /\ \A b \in 1 .. Len(heap) : b # a => heap'[b] = heap[b]
    <3>1. heap \in [1 .. Len(heap) -> Node] /\ heap[a] \in Node
      BY <2>1
    <3>2. [heap[a] EXCEPT !.live = FALSE] \in Node
      BY <3>1 DEF Node
    <3>3. heap' = [heap EXCEPT ![a] = [heap[a] EXCEPT !.live = FALSE]]
      BY <2>1
    <3>4. QED
      BY <3>1, <3>2, <3>3
  <2>3. Len(heap') = Len(heap) /\ heap' \in Seq(Node)
    BY <2>2
  <2>4. QED
    BY <2>2, <2>3
<1>3. QED
  BY <1>1, <1>2

LEMMA NoEntryFacts ==
  ASSUME TypeInv, NEW s \in Slot, ReadNoEntry(s)
  PROVE  NoTree(s)
<1> DEFINE a == g_rootVols[s]
<1>1. heap \in Seq(Node) /\ a \in 0 .. Len(heap) /\ tmpList[s] \in Nat
  BY DEF TypeInv, DrivesTypeOK, Node
<1>2. CASE a = NULL
  BY <1>1, <1>2 DEF ReadNoEntry, NoTree
<1>3. CASE a # NULL
  <2>1. PICK found \in 0 .. tmpList[s] : heap' = [heap EXCEPT ![a].rows = @ + found]
    BY <1>3 DEF ReadNoEntry
  <2>2. heap \in [1 .. Len(heap) -> Node] /\ a \in 1 .. Len(heap) /\ heap[a] \in Node /\ found \in Nat
    BY <1>1, <1>3 DEF NULL
  <2>3. [heap[a] EXCEPT !.rows = @ + found] \in Node
    BY <2>2 DEF Node
  <2>4. heap' = [heap EXCEPT ![a] = [heap[a] EXCEPT !.rows = @ + found]]
    BY <2>1
  <2>5. /\ heap' \in [1 .. Len(heap) -> Node]
        /\ \A b \in 1 .. Len(heap) : heap'[b].live = heap[b].live
    BY <2>2, <2>3, <2>4 DEF Node
  <2>6. Len(heap') = Len(heap) /\ heap' \in Seq(Node)
    BY <2>5
  <2>7. QED
    BY <2>5, <2>6 DEF ReadNoEntry, NoTree
<1>4. QED
  BY <1>2, <1>3

LEMMA ReadEffect ==
  ASSUME TypeInv, NEW s \in Slot, NEW v \in Volume \cup {None}, NEW fresh \in BOOLEAN, NEW t,
         readfile(s, v, fresh, t)
  PROVE  /\ tmpList' \in [Slot -> Nat]
         /\ \/ NewTree(s)
            \/ NoTree(s)
            \/ ~Accepted(v, fresh) /\ UNCHANGED <<heap, g_rootVols, hollow>>
<1>1. CASE HeaderRead(v, fresh) /\ db[v].rows > 0 /\ ReadEntries(s, v, fresh, t)
  <2>1. v \in Volume /\ db[v] \in DbFile /\ tmpList \in [Slot -> Nat]
    BY <1>1 DEF TypeInv, DrivesTypeOK, HeaderRead
  <2>2. db[v].rows \in Nat /\ db[v].rows >= 1
    BY <1>1, <2>1 DEF DbFile, NoDb, Opened
  <2>3. PICK found \in 0 .. tmpList[s] :
          heap' = Append(heap, Tree(v, IF Accepted(v, fresh) THEN db[v].rows + found ELSE 1))
    BY <1>1 DEF ReadEntries
  <2> DEFINE rows == IF Accepted(v, fresh) THEN db[v].rows + found ELSE 1
  <2>4. rows \in Nat \ {0}
    BY <2>1, <2>2
  <2>5. Tree(v, rows) \in Node /\ Tree(v, rows).live
    BY <2>4 DEF Tree, Node
  <2>6. tmpList' \in [Slot -> Nat]
    BY <1>1, <2>1, <2>2 DEF ReadEntries
  <2>7. heap' = Append(heap, Tree(v, rows)) /\ g_rootVols' = [g_rootVols EXCEPT ![s] = Len(heap) + 1]
        /\ hollow' = hollow \ {s}
    BY <1>1, <2>3 DEF ReadEntries
  <2> HIDE DEF rows
  <2>8. QED
    BY <2>5, <2>6, <2>7 DEF NewTree
<1>2. CASE ReadNoEntry(s)
  <2>1. tmpList' \in [Slot -> Nat]
    BY <1>2 DEF ReadNoEntry, TypeInv, DrivesTypeOK
  <2>2. QED
    BY <1>2, <2>1, NoEntryFacts
<1>3. CASE ~HeaderRead(v, fresh) /\ UNCHANGED <<heap, g_rootVols, tmpList, hollow, count>>
  BY <1>3 DEF HeaderRead, Accepted, TypeInv, DrivesTypeOK
<1>4. QED
  BY <1>1, <1>2, <1>3 DEF readfile

-----------------------------------------------------------------------------
(* The types, part by part.                                                *)

Outside ==
  /\ present \in [Letter -> Volume \cup {None}] /\ events \in 0 .. MaxEvents
  /\ messages \in Seq([i : Letter, add : BOOLEAN])
Arrays ==
  /\ g_bVols \in [Letter -> BOOLEAN] /\ g_loaded \in [Slot -> BOOLEAN]
  /\ g_VolsInfo \in [Slot -> Volume \cup {None}]
Phase == phase \in {"off", "load", "scan", "on", "stop"} /\ todo \subseteq Letter
CallRec == [at : CallAt, i : Letter, v : Volume \cup {None}]
SizerRec(n) == [root : 1 .. n, at : SizerAt, i : Letter, v : Volume \cup {None}]
Calls == call \in [Thread -> CallRec] /\ sizers \subseteq SizerRec(Len(heap))
Loader ==
  /\ offline \in [asked : BOOLEAN, names : SUBSET Volume, slot : DIRVE_COUNT .. DIRVE_COUNT_OFFLINE,
                   reading : Volume \cup {None}]
  /\ offline.slot = DIRVE_COUNT_OFFLINE => offline.names = {} /\ offline.reading = None
Files == db \in [Volume -> DbFile]
Faults == fault \in {"none", "freed", "slot"}

LEMMA TypeParts ==
  TypeInv <=> /\ Outside /\ Arrays /\ Heap /\ Phase /\ Calls /\ Loader /\ Files /\ Faults
              /\ Counter /\ RootsSet /\ CountInv
<1>1. TypeInv => /\ Outside /\ Arrays /\ Heap /\ Phase /\ Calls /\ Loader /\ Files /\ Faults
                 /\ Counter /\ RootsSet /\ CountInv
  BY DEF TypeInv, DrivesTypeOK, Outside, Arrays, Heap, Phase, Calls, Loader, Files, Faults, Counter,
         CallRec, SizerRec, Node
<1>2. CountInv /\ Counter => raced \/ ALL_FILE_COUNT \in Nat
  <2>1. IsFiniteSet(Counted) => Cardinality(Counted) \in Nat
    BY FS_CardinalityType
  <2>2. QED
    BY <2>1 DEF CountInv, Counter
<1>3. QED
  BY <1>1, <1>2 DEF TypeInv, DrivesTypeOK, Outside, Arrays, Heap, Phase, Calls, Loader, Files, Faults, Counter,
                    CallRec, SizerRec, Node

LEMMA TypePartsNext ==
  ASSUME Outside', Arrays', Heap', Phase', Calls', Loader', Files', Faults', Counter', RootsSet', CountInv'
  PROVE  TypeInv'
BY TypeParts, PTL

\* The slots that have a root keep one, and the threads that rely on it are the same.
LEMMA RootsSetKept ==
  ASSUME TypeInv, \A i \in Letter : g_rootVols[i] # NULL => g_rootVols'[i] # NULL,
         \A i \in Letter : i \in hollow => g_rootVols'[i] # NULL \/ i \in hollow',
         \A i \in Letter : g_loaded'[i] => g_loaded[i] \/ g_rootVols'[i] # NULL \/ i \in hollow',
         \A t \in Thread : \/ call'[t] = call[t] \/ call'[t].at # "publish"
                           \/ g_rootVols'[call'[t].i] # NULL,
         \A z \in sizers' : g_rootVols'[z.i] # NULL \/ \E y \in sizers : y.i = z.i
  PROVE  RootsSet'
<1>1. /\ \A i \in Letter : g_loaded[i] => g_rootVols[i] # NULL \/ i \in hollow
      /\ \A t \in Thread : call[t].at = "publish" => g_rootVols[call[t].i] # NULL
      /\ \A z \in sizers : g_rootVols[z.i] # NULL
      /\ \A t \in Thread : call[t].i \in Letter
      /\ \A z \in sizers : z.i \in Letter
  BY DEF TypeInv, RootsSet, DrivesTypeOK, HasRoot
<1>2. \A i \in Letter : g_loaded'[i] => g_rootVols'[i] # NULL \/ i \in hollow'
  BY <1>1
<1>3. \A t \in Thread : call'[t].at = "publish" => g_rootVols'[call'[t].i] # NULL
  BY <1>1
<1>4. \A z \in sizers' : g_rootVols'[z.i] # NULL
  BY <1>1
<1>5. QED
  BY <1>2, <1>3, <1>4 DEF RootsSet, HasRoot

LEMMA RootsSetSame ==
  ASSUME TypeInv, UNCHANGED <<g_rootVols, g_loaded, hollow, call, sizers>>
  PROVE  RootsSet'
BY DEF TypeInv, RootsSet, HasRoot

\* Neither a new tree nor a database without an entry takes a root away.
LEMMA RootsKeep ==
  ASSUME Heap, NEW s \in Slot, NewTree(s) \/ NoTree(s), tmpList' \in [Slot -> Nat]
  PROVE  /\ Heap' /\ \A r \in Slot : g_rootVols[r] # NULL => g_rootVols'[r] # NULL
         /\ g_rootVols'[s] # NULL \/ s \in hollow'
         /\ \A r \in hollow : g_rootVols'[r] # NULL \/ r \in hollow'
         /\ sizers \subseteq SizerRec(Len(heap)) => sizers \subseteq SizerRec(Len(heap'))
<1>1. heap \in Seq(Node) /\ g_rootVols \in [Slot -> 0 .. Len(heap)] /\ hollow \subseteq Slot
  BY DEF Heap
<1>2. CASE NewTree(s)
  <2>1. Heap' /\ g_rootVols'[s] # NULL /\ \A r \in Slot : g_rootVols[r] # NULL => g_rootVols'[r] # NULL
    BY <1>1, <1>2, NewTreeFacts DEF Heap, HasRoot, NULL, NewTree
  <2>2. Len(heap) \in Nat /\ Len(heap') = Len(heap) + 1
    BY <1>1, <1>2, NewTreeFacts
  <2>3. SizerRec(Len(heap)) \subseteq SizerRec(Len(heap'))
    BY <2>2 DEF SizerRec
  <2>4. hollow' = hollow \ {s}
    BY <1>2 DEF NewTree
  <2>5. QED
    BY <2>1, <2>3, <2>4
<1>3. CASE NoTree(s)
  BY <1>1, <1>3 DEF NoTree, Heap
<1>4. QED
  BY <1>2, <1>3

-----------------------------------------------------------------------------
LEMMA InitTypeInv == Init => TypeInv
<1> SUFFICES ASSUME Init PROVE TypeInv
  OBVIOUS
<1>1. heap = <<>> /\ tmpList = [s \in Slot |-> 0] /\ ALL_FILE_COUNT = 0 /\ raced = FALSE
  BY DEF Init
<1>2. Counted = {}
  BY <1>1, CountedElements
<1>3. CountInv
  BY <1>1, <1>2, FS_EmptySet DEF CountInv
<1>0. Counter
  <2>1. raced \in BOOLEAN
    BY <1>1, Zenon
  <2>2. ALL_FILE_COUNT \in Int
    BY <1>1
  <2>3. QED
    BY <2>1, <2>2, Zenon DEF Counter
<1>4. Outside /\ Arrays /\ Heap /\ Phase /\ Loader /\ Faults
  BY SlotFacts DEF Init, Outside, Arrays, Heap, Phase, Loader, Faults, OfflineIdle, NULL, None
<1>5. Calls
  BY SlotFacts DEF Init, Calls, CallRec, CallAt, Idle, None
<1>6. Files
  <2>1. ASSUME NEW v \in Volume
        PROVE  db[v] \in DbFile
    BY SlotFacts DEF Init, DbFile, Whole
  <2>2. QED
    BY <2>1 DEF Init, Files
<1>7. RootsSet
  BY SlotFacts DEF Init, RootsSet, Idle
<1>8. QED
  BY <1>0, <1>3, <1>4, <1>5, <1>6, <1>7, TypeParts

-----------------------------------------------------------------------------
(* Every step keeps TypeInv.                                               *)

LEMMA AtCall ==
  ASSUME call \in [Thread -> CallRec], NEW t \in Thread, NEW at \in CallAt, NEW i \in Letter,
         call' = At(t, at, i)
  PROVE  /\ call' \in [Thread -> CallRec] /\ call'[t] = [at |-> at, i |-> i, v |-> None]
         /\ \A u \in Thread : u # t => call'[u] = call[u]
BY DEF At, CallRec

LEMMA ReturnCall ==
  ASSUME call \in [Thread -> CallRec], NEW t \in Thread, call' = Return(t)
  PROVE  /\ call' \in [Thread -> CallRec] /\ call'[t] = Idle
         /\ \A u \in Thread : u # t => call'[u] = call[u]
BY SlotFacts DEF Return, Idle, CallRec, CallAt

LEMMA FailTypes ==
  ASSUME TypeInv, NEW why \in {"freed", "slot"}, Fail(why)
  PROVE  TypeInv'
<1>1. Outside' /\ Arrays' /\ Heap' /\ Phase' /\ Calls' /\ Loader' /\ Files' /\ Faults'
  BY TypeParts DEF Fail, outside, memory, threads, Outside, Arrays, Heap, Phase, Calls, Loader, Files, Faults
<1>2. RootsSet'
  BY RootsSetSame DEF Fail, memory, threads
<1>3. CountInv' /\ Counter'
  BY CountUnchanged DEF Fail, memory, count
<1>4. QED
  BY <1>1, <1>2, <1>3, TypePartsNext

LEMMA InitDrivesTypes == TypeInv /\ InitDrives => TypeInv'
<1> SUFFICES ASSUME TypeInv, InitDrives PROVE TypeInv'
  OBVIOUS
<1>1. Outside' /\ Heap' /\ Calls' /\ Loader' /\ Files' /\ Faults'
  BY TypeParts DEF InitDrives, outside, Outside, Heap, Calls, Loader, Files, Faults
<1>2. Arrays' /\ Phase'
  BY TypeParts DEF InitDrives, Outside, Arrays, Phase
<1>3. RootsSet'
  BY RootsSetSame DEF InitDrives
<1>4. CountInv' /\ Counter'
  BY CountUnchanged DEF InitDrives
<1>5. QED
  BY <1>1, <1>2, <1>3, <1>4, TypePartsNext

LEMMA LoadDbTypes ==
  ASSUME TypeInv, NEW i \in Letter, NEW v \in Volume \cup {None}, NEW fresh \in BOOLEAN, NEW t,
         load_online_db(i, v, fresh, t)
  PROVE  /\ Heap' /\ g_loaded' \in [Slot -> BOOLEAN] /\ CountInv' /\ Counter'
         /\ \A j \in Letter : g_rootVols[j] # NULL => g_rootVols'[j] # NULL
         /\ \A j \in Letter : j \in hollow => g_rootVols'[j] # NULL \/ j \in hollow'
         /\ \A j \in Letter : g_loaded'[j] => g_loaded[j] \/ g_rootVols'[j] # NULL \/ j \in hollow'
         /\ sizers \subseteq SizerRec(Len(heap'))
<1>1. readfile(i, v, fresh, t) /\ i \in Slot /\ Heap /\ Arrays /\ Calls
  BY SlotFacts, TypeParts DEF load_online_db
<1>2. CountInv' /\ Counter'
  BY <1>1, ReadCounted
<1>3. /\ tmpList' \in [Slot -> Nat]
      /\ NewTree(i) \/ NoTree(i) \/ (~Accepted(v, fresh) /\ UNCHANGED <<heap, g_rootVols, hollow>>)
  BY <1>1, ReadEffect
<1>4. CASE NewTree(i) \/ NoTree(i)
  <2>1. /\ Heap' /\ \A r \in Slot : g_rootVols[r] # NULL => g_rootVols'[r] # NULL
        /\ g_rootVols'[i] # NULL \/ i \in hollow'
        /\ \A r \in hollow : g_rootVols'[r] # NULL \/ r \in hollow'
        /\ sizers \subseteq SizerRec(Len(heap'))
    BY <1>1, <1>3, <1>4, RootsKeep DEF Calls
  <2>2. /\ g_loaded' \in [Slot -> BOOLEAN]
        /\ \A j \in Letter : g_loaded'[j] => g_loaded[j] \/ j = i
    BY <1>1, SlotFacts DEF load_online_db, Arrays
  <2>3. QED
    BY <1>2, <2>1, <2>2, SlotFacts
<1>5. CASE ~Accepted(v, fresh) /\ UNCHANGED <<heap, g_rootVols, hollow>>
  <2>1. g_loaded' = g_loaded
    BY <1>5 DEF load_online_db
  <2>2. QED
    BY <1>1, <1>2, <1>3, <1>5, <2>1 DEF Heap, Arrays, Calls
<1>6. QED
  BY <1>3, <1>4, <1>5

LEMMA LoadOnlineTypes == TypeInv /\ LoadOnline => TypeInv'
<1> SUFFICES ASSUME TypeInv, LoadOnline PROVE TypeInv'
  OBVIOUS
<1>1. PICK i \in todo, fresh \in BOOLEAN :
        load_online_db(i, g_VolsInfo[i], fresh, "gigaso_init") /\ todo' = todo \ {i}
  BY DEF LoadOnline
<1>2. i \in Letter /\ g_VolsInfo[i] \in Volume \cup {None}
  BY SlotFacts, TypeParts DEF Phase, Arrays
<1>3. /\ Heap' /\ g_loaded' \in [Slot -> BOOLEAN] /\ CountInv' /\ Counter'
      /\ \A j \in Letter : g_rootVols[j] # NULL => g_rootVols'[j] # NULL
      /\ \A j \in Letter : j \in hollow => g_rootVols'[j] # NULL \/ j \in hollow'
      /\ \A j \in Letter : g_loaded'[j] => g_loaded[j] \/ g_rootVols'[j] # NULL \/ j \in hollow'
      /\ sizers \subseteq SizerRec(Len(heap'))
  BY <1>1, <1>2, LoadDbTypes
<1>4. Outside' /\ Arrays' /\ Phase' /\ Calls' /\ Loader' /\ Files' /\ Faults'
  BY <1>1, <1>3, TypeParts DEF LoadOnline, outside, Outside, Arrays, Phase, Calls, Loader, Files, Faults
<1>5. RootsSet'
  BY <1>3, RootsSetKept DEF LoadOnline
<1>6. QED
  BY <1>3, <1>4, <1>5, TypePartsNext

LEMMA StartTypes == TypeInv /\ (StartScanAll \/ StartDriveChangeMonitorThread \/ Stop) => TypeInv'
<1> SUFFICES ASSUME TypeInv, StartScanAll \/ StartDriveChangeMonitorThread \/ Stop PROVE TypeInv'
  OBVIOUS
<1>1. UNCHANGED <<present, messages, db, memory, call, sizers, offline, fault>>
  BY DEF StartScanAll, StartDriveChangeMonitorThread, Stop, Event, outside
<1>2. Arrays' /\ Heap' /\ Calls' /\ Loader' /\ Files' /\ Faults'
  BY <1>1, TypeParts DEF memory, Arrays, Heap, Calls, Loader, Files, Faults
<1>3. events' = events \/ (events' = events + 1 /\ events < MaxEvents)
  BY DEF StartScanAll, StartDriveChangeMonitorThread, Stop, Event, outside
<1>4. Outside'
  BY <1>1, <1>3, TypeParts, SlotFacts DEF Outside
<1>5. Phase'
  BY TypeParts DEF StartScanAll, StartDriveChangeMonitorThread, Stop, Phase, ValidDrives
<1>6. RootsSet'
  BY <1>1, RootsSetSame DEF memory
<1>7. CountInv' /\ Counter'
  BY <1>1, CountUnchanged DEF memory, count
<1>8. QED
  BY <1>2, <1>4, <1>5, <1>6, <1>7, TypePartsNext

LEMMA NextTypes == TypeInv /\ (NextScan \/ NextSave) => TypeInv'
<1> SUFFICES ASSUME TypeInv, NextScan \/ NextSave PROVE TypeInv'
  OBVIOUS
<1>1. UNCHANGED <<outside, db, memory, phase, sizers, offline, fault>>
  BY DEF NextScan, NextSave
<1>2. Outside' /\ Arrays' /\ Heap' /\ Loader' /\ Files' /\ Faults'
  BY <1>1, TypeParts DEF outside, memory, Outside, Arrays, Heap, Loader, Files, Faults
<1>3. PICK t \in Thread, at \in {"check", "save"}, i \in todo : call' = At(t, at, i) /\ todo' = todo \ {i}
  BY DEF NextScan, NextSave, Thread
<1>4. i \in Letter /\ Phase'
  BY <1>1, <1>3, TypeParts DEF Phase
<1>5. call \in [Thread -> CallRec] /\ at \in CallAt
  BY TypeParts DEF Calls, CallAt
<1>6. /\ call' \in [Thread -> CallRec] /\ call'[t] = [at |-> at, i |-> i, v |-> None]
      /\ \A u \in Thread : u # t => call'[u] = call[u]
  BY <1>3, <1>4, <1>5, AtCall
<1>7. Calls'
  BY <1>1, <1>6, TypeParts DEF Calls, memory
<1>8. RootsSet'
  BY <1>1, <1>3, <1>6, RootsSetKept DEF memory
<1>9. CountInv' /\ Counter'
  BY <1>1, CountUnchanged DEF memory, count
<1>10. QED
  BY <1>2, <1>4, <1>7, <1>8, <1>9, TypePartsNext

LEMMA ScanCheckTypes == ASSUME TypeInv, NEW t \in Thread, ScanCheck(t) PROVE TypeInv'
<1> DEFINE i == call[t].i
<1>1. call[t] \in CallRec /\ i \in Letter /\ i \in Slot /\ call \in [Thread -> CallRec]
  BY TypeParts, SlotFacts DEF Calls, CallRec
<1>2. UNCHANGED <<outside, phase, todo, offline, db, g_bVols, g_loaded, g_VolsInfo, g_rootVols, heap,
                  hollow, count, sizers, fault>>
  BY DEF ScanCheck, Step
<1>3. Outside' /\ Arrays' /\ Phase' /\ Loader' /\ Files' /\ Faults'
  BY <1>2, TypeParts DEF outside, Outside, Arrays, Phase, Loader, Files, Faults
<1>4. Heap'
  BY <1>1, <1>2, TypeParts DEF Heap, ScanCheck
<1>5. /\ call' \in [Thread -> CallRec] /\ call'[t].at \in {"idle", "fill"}
      /\ \A u \in Thread : u # t => call'[u] = call[u]
  <2>1. CASE g_loaded[i]
    BY <1>1, <2>1, ReturnCall DEF ScanCheck, Idle
  <2>2. CASE ~g_loaded[i]
    <3>1. call' = At(t, "fill", i) /\ "fill" \in CallAt
      BY <2>2 DEF ScanCheck, CallAt
    <3>2. /\ call' \in [Thread -> CallRec] /\ call'[t] = [at |-> "fill", i |-> i, v |-> None]
          /\ \A u \in Thread : u # t => call'[u] = call[u]
      BY <1>1, <3>1, AtCall
    <3>3. QED
      BY <3>2
  <2>3. QED
    BY <2>1, <2>2
<1>6. Calls'
  BY <1>2, <1>5, TypeParts DEF Calls
<1>7. RootsSet'
  BY <1>2, <1>5, RootsSetKept
<1>8. CountInv' /\ Counter'
  BY <1>1, <1>2, CountUnchanged, ForgottenCounted DEF ScanCheck
<1>9. QED
  BY <1>3, <1>4, <1>6, <1>7, <1>8, TypePartsNext

\* The tree that a scan of drive i makes.
Scanned(i) == Tree(Found(i), IF Found(i) = None THEN 1 ELSE Size[Found(i)])

LEMMA ScannedNode ==
  ASSUME TypeInv, NEW i \in Letter
  PROVE  Scanned(i) \in Node /\ Scanned(i).live
<1>1. Found(i) \in Volume \cup {None}
  BY TypeParts, SlotFacts DEF Found, Outside, None
<1>2. QED
  BY <1>1, SlotFacts DEF Scanned, Tree, Node

LEMMA ScanFillTypes == ASSUME TypeInv, NEW t \in Thread, ScanFill(t) PROVE TypeInv' /\ NewTree(call[t].i)
<1> DEFINE i == call[t].i
<1>1. call[t] \in CallRec /\ i \in Letter /\ i \in Slot /\ call \in [Thread -> CallRec]
  BY TypeParts, SlotFacts DEF Calls, CallRec
<1>2. UNCHANGED <<outside, phase, todo, offline, db, g_bVols, g_loaded, g_VolsInfo, tmpList, fault>>
  BY DEF ScanFill, Step
<1>3. /\ heap' = Append(heap, Scanned(i)) /\ g_rootVols' = [g_rootVols EXCEPT ![i] = Len(heap) + 1]
      /\ hollow' = hollow \ {i} /\ Count(Scanned(i).rows, t) /\ call' = At(t, "publish", i)
      /\ sizers' \subseteq sizers \cup {[root |-> Len(heap) + 1, at |-> "walk", i |-> i, v |-> None]}
  BY DEF ScanFill, Scanned
<1>4. NewTree(i)
  BY <1>1, <1>3, ScannedNode DEF NewTree
<1>5. Outside' /\ Arrays' /\ Phase' /\ Loader' /\ Files' /\ Faults'
  BY <1>2, TypeParts DEF outside, Outside, Arrays, Phase, Loader, Files, Faults
<1>6. /\ Heap' /\ g_rootVols'[i] # NULL /\ \A r \in Slot : g_rootVols[r] # NULL => g_rootVols'[r] # NULL
      /\ \A r \in hollow : g_rootVols'[r] # NULL \/ r \in hollow'
      /\ sizers \subseteq SizerRec(Len(heap'))
  BY <1>1, <1>2, <1>3, <1>4, RootsKeep, TypeParts DEF Heap, Calls
<1>7. /\ call' \in [Thread -> CallRec] /\ call'[t] = [at |-> "publish", i |-> i, v |-> None]
      /\ \A u \in Thread : u # t => call'[u] = call[u]
  BY <1>1, <1>3, AtCall DEF CallAt
<1>8. Len(heap) \in Nat /\ Len(heap') = Len(heap) + 1
  BY <1>1, <1>4, NewTreeFacts, TypeParts DEF Heap
<1>9. [root |-> Len(heap) + 1, at |-> "walk", i |-> i, v |-> None] \in SizerRec(Len(heap'))
  BY <1>1, <1>8 DEF SizerRec, SizerAt
<1>10. Calls'
  BY <1>3, <1>6, <1>7, <1>9 DEF Calls
<1>11. RootsSet'
  <2>1. \A z \in sizers' : g_rootVols'[z.i] # NULL \/ \E y \in sizers : y.i = z.i
    BY <1>3, <1>6
  <2>2. QED
    BY <1>2, <1>6, <1>7, <2>1, RootsSetKept, SlotFacts
<1>12. CountInv' /\ Counter'
  BY <1>1, <1>2, <1>3, ScannedNode, ScanCounted
<1>13. QED
  BY <1>4, <1>5, <1>6, <1>10, <1>11, <1>12, TypePartsNext

LEMMA ScanPublishTypes == ASSUME TypeInv, NEW t \in Thread, ScanPublish(t) PROVE TypeInv'
<1> DEFINE i == call[t].i
<1>1. /\ call[t] \in CallRec /\ i \in Letter /\ i \in Slot /\ call \in [Thread -> CallRec]
      /\ call[t].at = "publish"
  BY TypeParts, SlotFacts DEF Calls, CallRec, ScanPublish, Step
<1>2. UNCHANGED <<outside, phase, todo, offline, db, g_bVols, g_VolsInfo, g_rootVols, heap, hollow,
                  count, tmpList, sizers, fault>>
  BY DEF ScanPublish, Step
<1>3. Outside' /\ Phase' /\ Loader' /\ Files' /\ Faults' /\ Heap'
  BY <1>2, TypeParts DEF outside, Outside, Phase, Loader, Files, Faults, Heap
<1>4. g_loaded' = [g_loaded EXCEPT ![i] = TRUE]
  BY DEF ScanPublish
<1>5. Arrays' /\ \A j \in Slot : g_loaded'[j] => g_loaded[j] \/ j = i
  BY <1>1, <1>2, <1>4, TypeParts DEF Arrays
<1>6. /\ call' \in [Thread -> CallRec] /\ call'[t].at \in {"idle", "save"}
      /\ \A u \in Thread : u # t => call'[u] = call[u]
  <2>1. CASE IsNtfs(i)
    BY <1>1, <2>1, ReturnCall DEF ScanPublish, Idle
  <2>2. CASE ~IsNtfs(i)
    <3>1. call' = At(t, "save", i) /\ "save" \in CallAt
      BY <2>2 DEF ScanPublish, CallAt
    <3>2. /\ call' \in [Thread -> CallRec] /\ call'[t] = [at |-> "save", i |-> i, v |-> None]
          /\ \A u \in Thread : u # t => call'[u] = call[u]
      BY <1>1, <3>1, AtCall
    <3>3. QED
      BY <3>2
  <2>3. QED
    BY <2>1, <2>2
<1>7. Calls'
  BY <1>2, <1>6, TypeParts DEF Calls
<1>8. g_rootVols[i] # NULL
  BY <1>1 DEF TypeInv, RootsSet, HasRoot
<1>9. RootsSet'
  BY <1>2, <1>5, <1>6, <1>8, RootsSetKept, SlotFacts
<1>10. CountInv' /\ Counter'
  BY <1>2, CountUnchanged
<1>11. QED
  BY <1>3, <1>5, <1>7, <1>9, <1>10, TypePartsNext

LEMMA SaveOpenTypes == ASSUME TypeInv, NEW t \in Thread, SaveOpen(t) PROVE TypeInv'
<1> DEFINE i == call[t].i
<1>1. call[t] \in CallRec /\ i \in Letter /\ i \in Slot /\ call \in [Thread -> CallRec]
  BY TypeParts, SlotFacts DEF Calls, CallRec
<1>2. UNCHANGED <<outside, phase, todo, offline, memory, sizers, fault>>
  BY DEF SaveOpen, Step
<1>3. Outside' /\ Arrays' /\ Heap' /\ Phase' /\ Loader' /\ Faults'
  BY <1>2, TypeParts DEF outside, memory, Outside, Arrays, Heap, Phase, Loader, Faults
<1>4. CountInv' /\ Counter'
  BY <1>2, CountUnchanged DEF memory, count
<1>5. CASE call' = Return(t) /\ UNCHANGED db
  <2>1. /\ call' \in [Thread -> CallRec] /\ call'[t] = Idle
        /\ \A u \in Thread : u # t => call'[u] = call[u]
    BY <1>1, <1>5, ReturnCall
  <2>2. Calls' /\ Files'
    BY <1>2, <1>5, <2>1, TypeParts DEF Calls, Files, memory
  <2>3. RootsSet'
    BY <1>2, <2>1, RootsSetKept DEF memory, Idle
  <2>4. QED
    BY <1>3, <1>4, <2>2, <2>3, TypePartsNext
<1>6. CASE /\ g_loaded[i]
           /\ call' = [call EXCEPT ![t] = [at |-> "write", i |-> i, v |-> g_VolsInfo[i]]]
           /\ db' = [db EXCEPT ![g_VolsInfo[i]] = Opened]
  <2>1. g_VolsInfo[i] \in Volume \cup {None}
    BY <1>1, TypeParts DEF Arrays
  <2>2. [at |-> "write", i |-> i, v |-> g_VolsInfo[i]] \in CallRec
    BY <1>1, <2>1 DEF CallRec, CallAt
  <2>3. /\ call' \in [Thread -> CallRec] /\ call'[t].at = "write"
        /\ \A u \in Thread : u # t => call'[u] = call[u]
    BY <1>1, <1>6, <2>2
  <2>4. Calls' /\ Files'
    BY <1>2, <1>6, <2>3, TypeParts DEF Calls, Files, memory, DbFile
  <2>5. RootsSet'
    BY <1>2, <2>1, <2>3, RootsSetKept DEF memory
  <2>6. QED
    BY <1>3, <1>4, <2>4, <2>5, TypePartsNext
<1>7. QED
  BY <1>5, <1>6 DEF SaveOpen

LEMMA WrittenIsDb ==
  ASSUME TypeInv, NEW i \in Letter
  PROVE  Written(i) \in DbFile
<1>1. CASE g_rootVols[i] = NULL
  BY <1>1 DEF Written, Whole, DbFile
<1>2. CASE g_rootVols[i] # NULL
  <2>1. g_rootVols[i] \in 1 .. Len(heap) /\ heap \in Seq(Node)
    BY <1>2, TypeParts, SlotFacts, SMTT(30) DEF Heap, NULL
  <2>2. heap[g_rootVols[i]] \in Node
    BY <2>1
  <2>3. QED
    BY <1>2, <2>2 DEF Written, Whole, DbFile, Node
<1>3. QED
  BY <1>1, <1>2

LEMMA SaveWriteTypes == ASSUME TypeInv, NEW t \in Thread, SaveWrite(t) PROVE TypeInv'
<1> DEFINE i == call[t].i
<1>1. /\ call[t] \in CallRec /\ i \in Letter /\ i \in Slot /\ call \in [Thread -> CallRec]
      /\ call[t].at = "write"
  BY TypeParts, SlotFacts DEF Calls, CallRec, SaveWrite
<1>2. CASE Freed(g_rootVols[i])
  BY <1>2, FailTypes DEF SaveWrite
<1>3. CASE ~Freed(g_rootVols[i])
  <2>1. /\ UNCHANGED <<outside, phase, todo, offline, memory, sizers, fault>> /\ call' = Return(t)
        /\ db' = [db EXCEPT ![call[t].v] = Written(i)]
    BY <1>3 DEF SaveWrite, Step
  <2>2. Outside' /\ Arrays' /\ Heap' /\ Phase' /\ Loader' /\ Faults'
    BY <2>1, TypeParts DEF outside, memory, Outside, Arrays, Heap, Phase, Loader, Faults
  <2>3. CountInv' /\ Counter'
    BY <2>1, CountUnchanged DEF memory, count
  <2>4. Written(i) \in DbFile
    BY <1>1, WrittenIsDb
  <2>5. /\ call' \in [Thread -> CallRec] /\ call'[t] = Idle
        /\ \A u \in Thread : u # t => call'[u] = call[u]
    BY <1>1, <2>1, ReturnCall
  <2>6. Calls' /\ Files'
    BY <2>1, <2>4, <2>5, TypeParts DEF Calls, Files, memory
  <2>7. RootsSet'
    BY <2>1, <2>5, RootsSetKept DEF memory, Idle
  <2>8. QED
    BY <2>2, <2>3, <2>6, <2>7, TypePartsNext
<1>4. QED
  BY <1>2, <1>3

\* The threads of init_size_time_all.
LEMMA SizerTypes ==
  ASSUME TypeInv, NEW z \in sizers, SizerWalk(z) \/ SizerOpen(z) \/ SizerWrite(z)
  PROVE  TypeInv'
<1>1. z \in SizerRec(Len(heap)) /\ z.i \in Letter /\ g_rootVols[z.i] # NULL
  BY TypeParts DEF Calls, SizerRec, RootsSet, HasRoot
<1>2. CASE Fail("freed")
  BY <1>2, FailTypes
<1>3. ASSUME NEW w \in SUBSET SizerRec(Len(heap)), \A y \in w : y.i = z.i, SizerStep(z, w), Files'
      PROVE  TypeInv'
  <2>1. UNCHANGED <<outside, memory, phase, todo, call, offline, fault>> /\ sizers' = (sizers \ {z}) \cup w
    BY <1>3 DEF SizerStep
  <2>2. Outside' /\ Arrays' /\ Heap' /\ Phase' /\ Loader' /\ Faults'
    BY <2>1, TypeParts DEF outside, memory, Outside, Arrays, Heap, Phase, Loader, Faults
  <2>3. Calls'
    BY <2>1, TypeParts DEF Calls, memory
  <2>4. RootsSet'
    BY <1>3, <2>1, RootsSetKept DEF memory
  <2>5. CountInv' /\ Counter'
    BY <2>1, CountUnchanged DEF memory, count
  <2>6. QED
    BY <1>3, <2>2, <2>3, <2>4, <2>5, TypePartsNext
<1>4. CASE SizerStep(z, {[z EXCEPT !.at = "save"]}) /\ UNCHANGED db
  <2>1. [z EXCEPT !.at = "save"] \in SizerRec(Len(heap)) /\ [z EXCEPT !.at = "save"].i = z.i
    BY <1>1 DEF SizerRec, SizerAt
  <2>2. Files'
    BY <1>4, TypeParts DEF Files
  <2>3. QED
    BY <1>3, <1>4, <2>1, <2>2
<1>5. CASE SizerStep(z, {}) /\ Files'
  BY <1>3, <1>5
<1>6. CASE /\ g_loaded[z.i]
           /\ SizerStep(z, {[z EXCEPT !.at = "write", !.v = g_VolsInfo[z.i]]})
           /\ db' = [db EXCEPT ![g_VolsInfo[z.i]] = Opened]
  <2>1. g_VolsInfo[z.i] \in Volume \cup {None}
    BY <1>1, TypeParts, SlotFacts DEF Arrays
  <2>2. /\ [z EXCEPT !.at = "write", !.v = g_VolsInfo[z.i]] \in SizerRec(Len(heap))
        /\ [z EXCEPT !.at = "write", !.v = g_VolsInfo[z.i]].i = z.i
    BY <1>1, <2>1 DEF SizerRec, SizerAt
  <2>3. Files'
    BY <1>6, TypeParts DEF Files, DbFile
  <2>4. QED
    BY <1>3, <1>6, <2>2, <2>3
<1>7. CASE SizerWalk(z)
  BY <1>2, <1>4, <1>7 DEF SizerWalk
<1>8. CASE SizerOpen(z)
  <2>1. UNCHANGED db => Files'
    BY TypeParts DEF Files
  <2>2. QED
    BY <1>5, <1>6, <1>8, <2>1 DEF SizerOpen
<1>9. CASE SizerWrite(z)
  <2>1. db' = [db EXCEPT ![z.v] = Written(z.i)] => Files'
    BY <1>1, WrittenIsDb, TypeParts DEF Files
  <2>2. QED
    BY <1>2, <1>5, <1>9, <2>1 DEF SizerWrite
<1>10. QED
  BY <1>7, <1>8, <1>9

LEMMA EventTypes ==
  ASSUME TypeInv, Event
  PROVE  Outside'
BY TypeParts, SlotFacts DEF Event, Outside

LEMMA RescanTypes == ASSUME TypeInv, NEW i \in Letter, rescan(i) PROVE TypeInv'
<1>1. /\ UNCHANGED <<db, g_bVols, g_VolsInfo, g_rootVols, heap, tmpList, hollow, count, phase, todo,
                     sizers, offline, fault>>
      /\ g_loaded' = [g_loaded EXCEPT ![i] = FALSE] /\ call' = At("rescan_t", "free", i) /\ Event
  BY DEF rescan
<1>2. Outside' /\ Arrays' /\ Heap' /\ Phase' /\ Loader' /\ Files' /\ Faults'
  BY <1>1, EventTypes, TypeParts DEF Arrays, Heap, Phase, Loader, Files, Faults
<1>3. "rescan_t" \in Thread /\ "free" \in CallAt /\ call \in [Thread -> CallRec]
  BY TypeParts DEF Thread, CallAt, Calls
<1>4. /\ call' \in [Thread -> CallRec] /\ call'["rescan_t"] = [at |-> "free", i |-> i, v |-> None]
      /\ \A u \in Thread : u # "rescan_t" => call'[u] = call[u]
  BY <1>1, <1>3, AtCall
<1>5. Calls'
  BY <1>1, <1>4, TypeParts DEF Calls
<1>6. \A j \in Slot : g_loaded'[j] => g_loaded[j]
  BY <1>1, TypeParts DEF Arrays
<1>7. RootsSet'
  BY <1>1, <1>4, <1>6, RootsSetKept, SlotFacts
<1>8. CountInv' /\ Counter'
  BY <1>1, CountUnchanged
<1>9. QED
  BY <1>2, <1>5, <1>7, <1>8, TypePartsNext

LEMMA RescanFreeTypes == TypeInv /\ RescanFree => TypeInv'
<1> SUFFICES ASSUME TypeInv, RescanFree PROVE TypeInv'
  OBVIOUS
<1> DEFINE i == call["rescan_t"].i
           a == g_rootVols[i]
<1>1. /\ "rescan_t" \in Thread /\ "check" \in CallAt /\ i \in Letter /\ i \in Slot
      /\ call \in [Thread -> CallRec] /\ a \in 0 .. Len(heap) /\ heap \in Seq(Node)
  BY TypeParts, SlotFacts DEF Calls, CallRec, Thread, CallAt, Heap
<1>2. CASE Freed(a)
  BY <1>2, FailTypes DEF RescanFree
<1>3. CASE ~Freed(a)
  <2>1. /\ UNCHANGED <<outside, phase, todo, offline, db, g_bVols, g_loaded, g_VolsInfo, g_rootVols, tmpList,
                       hollow, sizers, fault>>
        /\ deleteFile(a, "rescan_t") /\ call' = At("rescan_t", "check", i)
    BY <1>3 DEF RescanFree, Step
  <2>2. heap' \in Seq(Node) /\ Len(heap') = Len(heap)
    BY <1>1, <2>1, FreeFacts
  <2>3. Outside' /\ Arrays' /\ Heap' /\ Phase' /\ Loader' /\ Files' /\ Faults'
    BY <2>1, <2>2, TypeParts DEF outside, Outside, Arrays, Heap, Phase, Loader, Files, Faults
  <2>4. /\ call' \in [Thread -> CallRec] /\ call'["rescan_t"] = [at |-> "check", i |-> i, v |-> None]
        /\ \A u \in Thread : u # "rescan_t" => call'[u] = call[u]
    BY <1>1, <2>1, AtCall
  <2>5. Calls'
    BY <2>1, <2>2, <2>4, TypeParts DEF Calls
  <2>6. RootsSet'
    BY <2>1, <2>4, RootsSetKept
  <2>7. CountInv' /\ Counter'
    BY <1>1, <1>3, <2>1, FreeCounted
  <2>8. QED
    BY <2>3, <2>5, <2>6, <2>7, TypePartsNext
<1>4. QED
  BY <1>2, <1>3

LEMMA LoadOfflineDbTypes == TypeInv /\ LoadOfflineDb => TypeInv'
<1> SUFFICES ASSUME TypeInv, LoadOfflineDb PROVE TypeInv'
  OBVIOUS
<1>1. UNCHANGED <<db, memory, phase, todo, call, sizers, fault>> /\ Event
  BY DEF LoadOfflineDb
<1>2. Outside' /\ Arrays' /\ Heap' /\ Phase' /\ Calls' /\ Files' /\ Faults'
  BY <1>1, EventTypes, TypeParts DEF memory, Arrays, Heap, Phase, Calls, Files, Faults
<1>3. Loader'
  <2>1. offline' = [asked |-> TRUE, names |-> {v \in Volume : db[v].end # "none"},
                    slot |-> DIRVE_COUNT, reading |-> None]
    BY DEF LoadOfflineDb
  <2>2. QED
    BY <2>1, SlotFacts DEF Loader, None
<1>4. RootsSet'
  BY <1>1, RootsSetSame DEF memory
<1>5. CountInv' /\ Counter'
  BY <1>1, CountUnchanged DEF memory, count
<1>6. QED
  BY <1>2, <1>3, <1>4, <1>5, TypePartsNext

LEMMA OfflineLoadedTypes == TypeInv /\ OfflineLoaded => TypeInv'
<1> SUFFICES ASSUME TypeInv, OfflineLoaded PROVE TypeInv'
  OBVIOUS
<1>1. UNCHANGED <<outside, db, g_bVols, g_VolsInfo, g_rootVols, heap, tmpList, hollow, count, phase, todo,
                  call, sizers, fault>>
  BY DEF OfflineLoaded
<1>2. offline.slot \in Offline /\ offline.slot \in DIRVE_COUNT .. DIRVE_COUNT_OFFLINE - 1
  BY TypeParts, SlotFacts DEF Loader, OfflineLoaded, Offline
<1>3. Outside' /\ Heap' /\ Phase' /\ Calls' /\ Files' /\ Faults'
  BY <1>1, TypeParts DEF outside, Outside, Heap, Phase, Calls, Files, Faults
<1>4. g_loaded' = [g_loaded EXCEPT ![offline.slot] = TRUE]
  BY DEF OfflineLoaded
<1>5. Arrays' /\ \A j \in Letter : g_loaded'[j] = g_loaded[j]
  BY <1>1, <1>2, <1>4, TypeParts, SlotFacts DEF Arrays
<1>6. Loader'
  <2> DEFINE names == IF offline.slot + 1 >= DIRVE_COUNT_OFFLINE THEN {} ELSE offline.names
  <2>1. offline' = [asked |-> offline.asked, names |-> names, slot |-> offline.slot + 1, reading |-> None]
    BY TypeParts DEF Loader, OfflineLoaded
  <2>2. /\ names \in SUBSET Volume /\ offline.asked \in BOOLEAN
        /\ offline.slot + 1 \in DIRVE_COUNT .. DIRVE_COUNT_OFFLINE
        /\ offline.slot + 1 = DIRVE_COUNT_OFFLINE => names = {}
    BY <1>2, TypeParts, SlotFacts DEF Loader
  <2> HIDE DEF names
  <2>3. QED
    BY <2>1, <2>2 DEF Loader
<1>7. RootsSet'
  BY <1>1, <1>5, RootsSetKept
<1>8. CountInv' /\ Counter'
  BY <1>1, CountUnchanged
<1>9. QED
  BY <1>3, <1>5, <1>6, <1>7, <1>8, TypePartsNext

LEMMA VisitDbTypes == ASSUME TypeInv, NEW v \in Volume, VisitDb(v) PROVE TypeInv'
<1> DEFINE s == offline.slot
<1>1. UNCHANGED <<outside, db, phase, todo, call, sizers, fault, g_bVols, g_loaded>>
  BY DEF VisitDb, memory
<1>2. s \in Offline /\ s \in Slot
  BY TypeParts, SlotFacts DEF Loader, VisitDb, Offline
<1>3. Outside' /\ Phase' /\ Files' /\ Faults'
  BY <1>1, TypeParts DEF outside, Outside, Phase, Files, Faults
<1>4. Loader'
  <2> DEFINE reading == IF ~LoadedName(v) /\ Accepted(v, TRUE) THEN v ELSE None
  <2>1. offline' = [asked |-> offline.asked, names |-> offline.names \ {v}, slot |-> s, reading |-> reading]
    BY TypeParts DEF Loader, VisitDb
  <2>2. /\ offline.names \in SUBSET Volume /\ offline.asked \in BOOLEAN /\ reading \in Volume \cup {None}
        /\ s \in DIRVE_COUNT .. DIRVE_COUNT_OFFLINE /\ s # DIRVE_COUNT_OFFLINE
    <3>1. offline.names \in SUBSET Volume /\ offline.asked \in BOOLEAN /\ s \in DIRVE_COUNT .. DIRVE_COUNT_OFFLINE
      BY TypeParts DEF Loader
    <3>2. s # DIRVE_COUNT_OFFLINE
      BY <1>2, SlotFacts DEF Offline
    <3>3. reading \in Volume \cup {None}
      OBVIOUS
    <3>4. QED
      BY <3>1, <3>2, <3>3
  <2> HIDE DEF reading
  <2>3. QED
    BY <2>1, <2>2 DEF Loader
<1>5. CASE LoadedName(v)
  <2>1. UNCHANGED memory
    BY <1>5 DEF VisitDb
  <2>2. Arrays' /\ Heap' /\ Calls'
    BY <1>1, <2>1, TypeParts DEF memory, Arrays, Heap, Calls
  <2>3. RootsSet'
    BY <1>1, <2>1, RootsSetSame DEF memory
  <2>4. CountInv' /\ Counter'
    BY <2>1, CountUnchanged DEF memory, count
  <2>5. QED
    BY <1>3, <1>4, <2>2, <2>3, <2>4, TypePartsNext
<1>6. CASE ~LoadedName(v)
  <2>1. /\ readfile(s, v, TRUE, "load_offline_dbs_t")
        /\ g_VolsInfo' = [g_VolsInfo EXCEPT ![s] = v] \/ g_VolsInfo' = g_VolsInfo
    BY <1>6 DEF VisitDb
  <2>2. Arrays'
    BY <1>1, <1>2, <2>1, TypeParts DEF Arrays
  <2>3. CountInv' /\ Counter'
    BY <1>2, <2>1, ReadCounted
  <2>4. tmpList' \in [Slot -> Nat] /\ (NewTree(s) \/ NoTree(s) \/ UNCHANGED <<heap, g_rootVols, hollow>>)
    BY <1>2, <2>1, ReadEffect
  <2>5. /\ Heap' /\ \A r \in Slot : g_rootVols[r] # NULL => g_rootVols'[r] # NULL
        /\ \A r \in hollow : g_rootVols'[r] # NULL \/ r \in hollow'
        /\ sizers \subseteq SizerRec(Len(heap'))
    BY <1>2, <2>4, TypeParts, RootsKeep DEF Heap, Calls
  <2>6. Calls'
    BY <1>1, <2>5, TypeParts DEF Calls
  <2>7. RootsSet'
    BY <1>1, <2>5, RootsSetKept, SlotFacts
  <2>8. QED
    BY <1>3, <1>4, <2>2, <2>3, <2>5, <2>6, <2>7, TypePartsNext
<1>7. QED
  BY <1>5, <1>6

LEMMA DelOfflineTypes == ASSUME TypeInv, NEW s \in Slot, del_offline_db(s) PROVE TypeInv'
<1> DEFINE a == g_rootVols[s]
<1>1. a \in 0 .. Len(heap) /\ heap \in Seq(Node)
  BY TypeParts DEF Heap
<1>2. CASE Freed(a)
  BY <1>2, FailTypes DEF del_offline_db
<1>3. CASE ~Freed(a)
  <2>1. /\ UNCHANGED <<outside, g_bVols, g_VolsInfo, g_rootVols, tmpList, hollow, threads, fault>>
        /\ deleteFile(a, "command_exec") /\ g_loaded' = [g_loaded EXCEPT ![s] = FALSE]
        /\ db' = db \/ db' = [db EXCEPT ![g_VolsInfo[s]] = NoDb]
    BY <1>3 DEF del_offline_db
  <2>2. heap' \in Seq(Node) /\ Len(heap') = Len(heap)
    BY <1>1, <2>1, FreeFacts
  <2>3. Outside' /\ Heap' /\ Phase' /\ Calls' /\ Loader' /\ Faults'
    BY <2>1, <2>2, TypeParts DEF outside, threads, Outside, Heap, Phase, Calls, Loader, Faults
  <2>4. Arrays' /\ \A j \in Slot : g_loaded'[j] => g_loaded[j]
    BY <2>1, TypeParts DEF Arrays
  <2>5. Files'
    BY <2>1, TypeParts DEF Files, DbFile
  <2>6. RootsSet'
    BY <2>1, <2>4, RootsSetKept, SlotFacts DEF threads
  <2>7. CountInv' /\ Counter'
    BY <1>1, <1>3, <2>1, FreeCounted
  <2>8. QED
    BY <2>3, <2>4, <2>5, <2>6, <2>7, TypePartsNext
<1>4. QED
  BY <1>2, <1>3

LEMMA DriveEventTypes ==
  ASSUME TypeInv, NEW i \in Letter, (\E v \in Volume : PlugIn(i, v)) \/ Unplug(i)
  PROVE  TypeInv'
<1>1. PICK w \in Volume \cup {None}, add \in BOOLEAN :
        DriveEvent /\ present' = [present EXCEPT ![i] = w] /\ Notify(i, add)
  BY DEF PlugIn, Unplug
<1>2. UNCHANGED <<db, memory, threads, fault>> /\ events < MaxEvents /\ events' = events + 1
  BY <1>1 DEF DriveEvent
<1>3. messages' \in Seq([i : Letter, add : BOOLEAN])
  <2> DEFINE M == [i : Letter, add : BOOLEAN]
             m == [i |-> i, add |-> add]
  <2>1. messages \in Seq(M) /\ m \in M
    BY TypeParts DEF Outside
  <2>2. messages' = messages \/ messages' = Append(messages, m)
    BY <1>1 DEF Notify
  <2> HIDE DEF M, m
  <2>3. messages' \in Seq(M)
    BY <2>1, <2>2
  <2>4. QED
    BY <2>3 DEF M
<1>4. Outside'
  BY <1>1, <1>2, <1>3, TypeParts, SlotFacts DEF Outside
<1>5. Arrays' /\ Heap' /\ Phase' /\ Calls' /\ Loader' /\ Files' /\ Faults'
  BY <1>2, TypeParts DEF memory, threads, Arrays, Heap, Phase, Calls, Loader, Files, Faults
<1>6. RootsSet'
  BY <1>2, RootsSetSame DEF memory, threads
<1>7. CountInv' /\ Counter'
  BY <1>2, CountUnchanged DEF memory, count
<1>8. QED
  BY <1>4, <1>5, <1>6, <1>7, TypePartsNext

LEMMA MessageTypes ==
  ASSUME TypeInv, NEW add \in BOOLEAN, Message(add)
  PROVE  /\ Outside' /\ Head(messages).i \in Letter
         /\ Len(messages) \in Nat \ {0} /\ Head(messages) = messages[1]
         /\ Len(messages') = Len(messages) - 1
         /\ \A n \in 1 .. Len(messages') : messages'[n] = messages[n + 1]
<1>1. messages \in Seq([i : Letter, add : BOOLEAN]) /\ messages # <<>> /\ messages' = Tail(messages)
  BY TypeParts DEF Outside, Message
<1> DEFINE M == [i : Letter, add : BOOLEAN]
<1>2. /\ Head(messages) \in M /\ Tail(messages) \in Seq(M)
      /\ Len(messages) \in Nat \ {0} /\ Head(messages) = messages[1]
      /\ Len(Tail(messages)) = Len(messages) - 1
      /\ \A n \in 1 .. Len(messages) - 1 : Tail(messages)[n] = messages[n + 1]
  <2>1. messages \in Seq(M)
    BY <1>1
  <2> HIDE DEF M
  <2>2. QED
    BY <1>1, <2>1
<1>3. QED
  BY <1>1, <1>2, TypeParts DEF Outside, Message

LEMMA DriveAddedTypes == TypeInv /\ DriveAdded => TypeInv'
<1> SUFFICES ASSUME TypeInv, DriveAdded PROVE TypeInv'
  OBVIOUS
<1> DEFINE i == Head(messages).i
<1>1. /\ Message(TRUE) /\ g_bVols' = [g_bVols EXCEPT ![i] = TRUE]
      /\ g_VolsInfo' = [g_VolsInfo EXCEPT ![i] = present[i]]
      /\ call' = At("listener", "check", i) /\ UNCHANGED fault
  BY DEF DriveAdded
<1>2. UNCHANGED <<present, events, db, phase, todo, sizers, offline>> /\ Outside' /\ i \in Letter /\ i \in Slot
  BY <1>1, MessageTypes, SlotFacts DEF Message
<1>3. present[i] \in Volume \cup {None}
  BY <1>2, TypeParts DEF Outside
<1>4. PICK fresh \in BOOLEAN : load_online_db(i, present[i], fresh, "listener")
  BY DEF DriveAdded
<1> HIDE DEF i
<1>5. /\ Heap' /\ g_loaded' \in [Slot -> BOOLEAN] /\ CountInv' /\ Counter'
      /\ \A j \in Letter : g_rootVols[j] # NULL => g_rootVols'[j] # NULL
      /\ \A j \in Letter : j \in hollow => g_rootVols'[j] # NULL \/ j \in hollow'
      /\ \A j \in Letter : g_loaded'[j] => g_loaded[j] \/ g_rootVols'[j] # NULL \/ j \in hollow'
      /\ sizers \subseteq SizerRec(Len(heap'))
  BY <1>2, <1>3, <1>4, LoadDbTypes
<1>6. Arrays' /\ Phase' /\ Loader' /\ Files' /\ Faults'
  BY <1>1, <1>2, <1>3, <1>5, TypeParts DEF Arrays, Phase, Loader, Files, Faults
<1>7. "listener" \in Thread /\ "check" \in CallAt /\ call \in [Thread -> CallRec]
  BY TypeParts DEF Thread, CallAt, Calls
<1>8. /\ call' \in [Thread -> CallRec] /\ call'["listener"] = [at |-> "check", i |-> i, v |-> None]
      /\ \A u \in Thread : u # "listener" => call'[u] = call[u]
  BY <1>1, <1>2, <1>7, AtCall
<1>9. Calls'
  BY <1>2, <1>5, <1>8 DEF Calls
<1>10. RootsSet'
  BY <1>2, <1>5, <1>8, RootsSetKept
<1>11. QED
  BY <1>2, <1>5, <1>6, <1>9, <1>10, TypePartsNext

LEMMA MinOfNats ==
  ASSUME NEW S \in SUBSET Nat, S # {}
  PROVE  Min(S) \in S /\ \A y \in S : Min(S) <= y
<1>1. \E x \in S : \A y \in S : ~(<<y, x>> \in OpToRel(<, Nat))
  BY NatLessThanWellFounded, WFMin
<1>2. PICK x \in S : \A y \in S : ~(<<y, x>> \in OpToRel(<, Nat))
  BY <1>1
<1>3. ASSUME NEW y \in S PROVE x <= y
  <2>1. <<y, x>> \in Nat \X Nat /\ ~(y < x)
    BY <1>2 DEF OpToRel
  <2>2. QED
    BY <2>1
<1>4. QED
  BY <1>3 DEF Min

LEMMA NextOfflineSlot ==
  ASSUME FreeSlots # {}
  PROVE  Min(FreeSlots) \in Offline /\ ~g_loaded[Min(FreeSlots)]
<1>1. FreeSlots \in SUBSET Nat
  BY SlotFacts DEF FreeSlots
<1>2. Min(FreeSlots) \in FreeSlots
  BY <1>1, MinOfNats
<1>3. QED
  BY <1>2 DEF FreeSlots

LEMMA DriveRemovedTypes == TypeInv /\ DriveRemoved => TypeInv'
<1> SUFFICES ASSUME TypeInv, DriveRemoved PROVE TypeInv'
  OBVIOUS
<1> DEFINE i == Head(messages).i
           off_id == Min(FreeSlots)
<1>1. Message(FALSE) /\ g_bVols' = [g_bVols EXCEPT ![i] = FALSE] /\ UNCHANGED <<heap, count, tmpList, call>>
  BY DEF DriveRemoved
<1>2. UNCHANGED <<present, events, db, phase, todo, sizers, offline>> /\ Outside' /\ i \in Letter /\ i \in Slot
  BY <1>1, MessageTypes, SlotFacts DEF Message
<1>3. Phase' /\ Calls' /\ Loader' /\ Files'
  BY <1>1, <1>2, TypeParts DEF Phase, Calls, Loader, Files
<1>4. CountInv' /\ Counter'
  BY <1>1, CountUnchanged
<1>5. CASE FreeSlots = {}
  <2>1. /\ fault' = "slot" /\ g_loaded' = [g_loaded EXCEPT ![i] = FALSE]
        /\ UNCHANGED <<g_VolsInfo, g_rootVols, hollow>>
    BY <1>5 DEF DriveRemoved
  <2> HIDE DEF i
  <2>2. Arrays' /\ Heap' /\ Faults' /\ \A j \in Slot : g_loaded'[j] => g_loaded[j]
    BY <1>1, <1>2, <2>1, TypeParts DEF Arrays, Heap, Faults
  <2>3. RootsSet'
    BY <1>1, <1>2, <2>1, <2>2, RootsSetKept, SlotFacts
  <2>4. QED
    BY <1>2, <1>3, <1>4, <2>2, <2>3, TypePartsNext
<1>6. CASE FreeSlots # {}
  <2>1. /\ g_loaded' = [g_loaded EXCEPT ![i] = FALSE, ![off_id] = TRUE]
        /\ g_VolsInfo' = [g_VolsInfo EXCEPT ![off_id] = g_VolsInfo[i]]
        /\ g_rootVols' = [g_rootVols EXCEPT ![off_id] = g_rootVols[i]]
        /\ hollow' = (hollow \ {off_id}) \cup (IF i \in hollow THEN {off_id} ELSE {})
        /\ UNCHANGED fault
    BY <1>6 DEF DriveRemoved
  <2>2. off_id \in Offline /\ off_id \in Slot
    BY <1>6, NextOfflineSlot, SlotFacts
  <2> HIDE DEF i, off_id
  <2>3. Arrays' /\ Heap' /\ Faults'
    BY <1>1, <1>2, <2>1, <2>2, TypeParts DEF Arrays, Heap, Faults
  <2>4. \A j \in Letter : /\ g_loaded'[j] => g_loaded[j]
                          /\ g_rootVols'[j] = g_rootVols[j] /\ (j \in hollow => j \in hollow')
    BY <1>2, <2>1, <2>2, TypeParts, SlotFacts DEF Arrays, Heap
  <2>5. RootsSet'
    BY <1>1, <1>2, <2>4, RootsSetKept
  <2>6. QED
    BY <1>2, <1>3, <1>4, <2>3, <2>5, TypePartsNext
<1>7. QED
  BY <1>5, <1>6

LEMMA EndProcessTypes == TypeInv /\ (Exit \/ Crash) => TypeInv'
<1> SUFFICES ASSUME TypeInv, Exit \/ Crash PROVE TypeInv'
  OBVIOUS
<1>1. EndProcess /\ (events' = events \/ (events < MaxEvents /\ events' = events + 1))
  BY DEF Exit, Crash
<1>2. CountInv' /\ Counter'
  BY <1>1, NothingCounted DEF EndProcess
<1>3. Outside'
  BY <1>1, TypeParts, SlotFacts DEF EndProcess, Outside
<1>4. Arrays' /\ Heap' /\ Phase' /\ Loader' /\ Faults'
  BY <1>1, TypeParts, SlotFacts DEF EndProcess, Arrays, Heap, Phase, Loader, Faults, OfflineIdle, NULL, None
<1>5. Calls'
  BY <1>1, SlotFacts DEF EndProcess, Calls, CallRec, CallAt, Idle, None
<1>6. RootsSet'
  BY <1>1, SlotFacts DEF EndProcess, RootsSet, Idle
<1>7. Files'
  <2>1. ASSUME NEW v \in Volume
        PROVE  db'[v] \in DbFile
    <3>1. db[v] \in DbFile /\ Size[v] \in Nat
      BY TypeParts, SlotFacts DEF Files
    <3>2. db'[v] \in Torn(Size[v]) \/ db'[v] = db[v]
      BY <1>1 DEF EndProcess
    <3>3. Torn(Size[v]) \subseteq DbFile
      BY <3>1 DEF Torn, DbFile, Opened
    <3>4. QED
      BY <3>1, <3>2, <3>3
  <2>2. QED
    BY <1>1, <2>1 DEF EndProcess, Files
<1>8. QED
  BY <1>2, <1>3, <1>4, <1>5, <1>6, <1>7, TypePartsNext

LEMMA TypeInvStep == TypeInv /\ [Next]_vars => TypeInv'
<1> SUFFICES ASSUME TypeInv, [Next]_vars PROVE TypeInv'
  OBVIOUS
<1>1. CASE UNCHANGED vars
  <2>1. UNCHANGED <<outside, db, memory, threads, fault>>
    BY <1>1 DEF vars
  <2>2. Outside' /\ Arrays' /\ Heap' /\ Phase' /\ Calls' /\ Loader' /\ Files' /\ Faults'
    BY <2>1, TypeParts DEF outside, memory, threads, Outside, Arrays, Heap, Phase, Calls, Loader, Files, Faults
  <2>3. RootsSet' /\ CountInv' /\ Counter'
    BY <2>1, RootsSetSame, CountUnchanged DEF memory, count, threads
  <2>4. QED
    BY <2>2, <2>3, TypePartsNext
<1>2. CASE InitDrives \/ LoadOnline \/ StartScanAll \/ NextScan \/ StartDriveChangeMonitorThread
  BY <1>2, InitDrivesTypes, LoadOnlineTypes, StartTypes, NextTypes
<1>3. ASSUME NEW t \in Thread, ScanCheck(t) \/ ScanFill(t) \/ ScanPublish(t) \/ SaveOpen(t) \/ SaveWrite(t)
      PROVE  TypeInv'
  BY <1>3, ScanCheckTypes, ScanFillTypes, ScanPublishTypes, SaveOpenTypes, SaveWriteTypes
<1>4. ASSUME NEW z \in sizers, SizerWalk(z) \/ SizerOpen(z) \/ SizerWrite(z)
      PROVE  TypeInv'
  BY <1>4, SizerTypes
<1>5. ASSUME NEW i \in Letter, rescan(i)
      PROVE  TypeInv'
  BY <1>5, RescanTypes
<1>6. CASE RescanFree \/ LoadOfflineDb \/ OfflineLoaded
  BY <1>6, RescanFreeTypes, LoadOfflineDbTypes, OfflineLoadedTypes
<1>7. ASSUME NEW v \in Volume, VisitDb(v)
      PROVE  TypeInv'
  BY <1>7, VisitDbTypes
<1>8. ASSUME NEW s \in Slot, del_offline_db(s)
      PROVE  TypeInv'
  BY <1>8, DelOfflineTypes
<1>9. CASE SearchOffline
  BY <1>9, FailTypes DEF SearchOffline
<1>10. ASSUME NEW i \in Letter, (\E v \in Volume : PlugIn(i, v)) \/ Unplug(i)
       PROVE  TypeInv'
  BY <1>10, DriveEventTypes
<1>11. CASE DriveAdded \/ DriveRemoved \/ Stop \/ NextSave \/ Exit \/ Crash
  BY <1>11, DriveAddedTypes, DriveRemovedTypes, StartTypes, NextTypes, EndProcessTypes
<1>12. QED
  BY <1>1, <1>2, <1>3, <1>4, <1>5, <1>6, <1>7, <1>8, <1>9, <1>10, <1>11 DEF Next

LEMMA TypeInvHolds == Spec => []TypeInv
BY InitTypeInv, TypeInvStep, PTL DEF Spec

(* Every array, file, tree and thread keeps its type in every interleaving *)
(* of scans, rescans, saves, drive messages, offline loads, crashes and    *)
(* restarts: the offline loader never has a slot beyond the last while it  *)
(* has files, and the count of files never becomes negative while one      *)
(* thread counts at a time, for any number of letters, slots and volumes.  *)
THEOREM DrivesTypeCorrect == Spec => []DrivesTypeOK
<1>1. TypeInv => DrivesTypeOK
  BY DEF TypeInv
<1>2. QED
  BY <1>1, TypeInvHolds, PTL

(* ALL_FILE_COUNT, by which a search sizes its list of results, is never   *)
(* less than the number of files of all trees in memory until two threads  *)
(* have counted at the same time: a database read in part, a tree freed,   *)
(* or a drive scanned again never make the count fall behind, in whatever  *)
(* order the threads go.                                                   *)
THEOREM DrivesCountCovers == Spec => []CountCoversTrees
<1>1. TypeInv => CountCoversTrees
  <2> SUFFICES ASSUME TypeInv, ~raced PROVE Cardinality(FilesInMemory) <= ALL_FILE_COUNT
    BY DEF CountCoversTrees
  <2>1. IsFiniteSet(Counted) /\ Cardinality(Counted) <= ALL_FILE_COUNT /\ ALL_FILE_COUNT \in Int
    BY TypeParts DEF CountInv, Counter
  <2>2. FilesInMemory \in SUBSET Counted
    BY DEF Counted
  <2>3. IsFiniteSet(FilesInMemory) /\ Cardinality(FilesInMemory) <= Cardinality(Counted)
    BY <2>1, <2>2, FS_Subset
  <2>4. Cardinality(FilesInMemory) \in Nat /\ Cardinality(Counted) \in Nat
    BY <2>1, <2>3, FS_CardinalityType
  <2>5. QED
    BY <2>1, <2>3, <2>4
<1>2. QED
  BY <1>1, TypeInvHolds, PTL
=============================================================================
