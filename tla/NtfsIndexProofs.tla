--------------------------- MODULE NtfsIndexProofs ---------------------------
(***************************************************************************)
(* Proofs about NtfsIndex for any number of volumes and files, whether or  *)
(* not changes overlap: the variables keep their types and the tree stays  *)
(* well formed.  Then, for one volume whose files are changed one at a     *)
(* time, that the index follows the volume: what is left of the journal,   *)
(* replayed, leads from the tree in memory to the files on disk, and       *)
(* ALL_FILE_COUNT, which one thread changes, counts the tree.              *)
(*                                                                         *)
(* What a step does to the memory is stated first for an arbitrary heap h, *)
(* field by field; the steps of the specification apply it to heap.        *)
(***************************************************************************)
EXTENDS NtfsIndex, FiniteSetTheorems, SequenceTheorems, WellFoundedInduction, NaturalsInduction, TLAPS

-----------------------------------------------------------------------------
(* Sequences.                                                              *)

LEMMA RemoveAtFacts ==
  ASSUME NEW s \in Seq(Nat), NEW n \in 1 .. Len(s)
  PROVE  /\ RemoveAt(s, n) \in Seq(Nat)
         /\ Len(RemoveAt(s, n)) = Len(s) - 1
         /\ \A k \in 1 .. Len(s) - 1 : RemoveAt(s, n)[k] = IF k < n THEN s[k] ELSE s[k + 1]
<1> DEFINE u == SubSeq(s, 1, n - 1)
           v == SubSeq(s, n + 1, Len(s))
<1>1. /\ u \in Seq(Nat) /\ Len(u) = n - 1 /\ \A k \in 1 .. n - 1 : u[k] = s[k]
  BY LenProperties, SubSeqProperties
<1>2. /\ v \in Seq(Nat) /\ Len(v) = Len(s) - n /\ \A k \in 1 .. Len(s) - n : v[k] = s[n + k]
  BY LenProperties, SubSeqProperties
<1> HIDE DEF u, v
<1>0. Len(s) \in Nat /\ n \in Nat
  BY LenProperties
<1>6. u \o v \in Seq(Nat) /\ Len(u \o v) = Len(u) + Len(v)
  BY <1>1, <1>2, ConcatProperties
<1>3. u \o v \in Seq(Nat) /\ Len(u \o v) = Len(s) - 1
  BY <1>0, <1>1, <1>2, <1>6
<1>4. ASSUME NEW k \in 1 .. Len(s) - 1
      PROVE  (u \o v)[k] = IF k < n THEN s[k] ELSE s[k + 1]
  <2>1. k \in 1 .. Len(u) + Len(v)
    BY <1>0, <1>1, <1>2
  <2>3. (u \o v)[k] = IF k <= Len(u) THEN u[k] ELSE v[k - Len(u)]
    BY <1>1, <1>2, <2>1, ConcatProperties
  <2>4. k \in Nat /\ Len(u) = n - 1 /\ Len(s) \in Nat /\ n \in Nat /\ 1 <= k /\ k <= Len(s) - 1
    BY <1>0, <1>1
  <2>5. CASE k < n
    <3>1. k <= Len(u) /\ k \in 1 .. n - 1
      BY <2>4, <2>5
    <3>2. QED
      BY <1>1, <2>3, <2>5, <3>1
  <2>6. CASE ~(k < n)
    <3>1. ~(k <= Len(u)) /\ k - Len(u) \in 1 .. Len(s) - n /\ n + (k - Len(u)) = k + 1
      BY <2>4, <2>6
    <3>2. v[k - Len(u)] = s[n + (k - Len(u))]
      BY <1>2, <3>1
    <3>3. QED
      BY <2>3, <2>6, <3>1, <3>2
  <2>2. QED
    BY <2>5, <2>6
<1>5. QED
  BY <1>3, <1>4 DEF RemoveAt, u, v

\* Without its n-th element an injective sequence has all its elements but that one.
LEMMA RemoveAtRange ==
  ASSUME NEW s \in Seq(Nat), IsInjective(s), NEW n \in DOMAIN s
  PROVE  /\ RemoveAt(s, n) \in Seq(Nat) /\ IsInjective(RemoveAt(s, n))
         /\ Range(RemoveAt(s, n)) = Range(s) \ {s[n]}
<1> DEFINE t == RemoveAt(s, n)
<1>1. DOMAIN s = 1 .. Len(s) /\ Len(s) \in Nat /\ n \in 1 .. Len(s)
  BY LenProperties
<1>2. /\ t \in Seq(Nat) /\ Len(t) = Len(s) - 1
      /\ \A k \in 1 .. Len(s) - 1 : t[k] = IF k < n THEN s[k] ELSE s[k + 1]
  BY <1>1, RemoveAtFacts
<1> HIDE DEF t
<1>3. DOMAIN t = 1 .. Len(s) - 1
  BY <1>2, LenProperties
<1>4. IsInjective(t)
  <2> SUFFICES ASSUME NEW j \in 1 .. Len(s) - 1, NEW k \in 1 .. Len(s) - 1, t[j] = t[k] PROVE j = k
    BY <1>3 DEF IsInjective
  <2>1. j \in DOMAIN s /\ k \in DOMAIN s /\ j + 1 \in DOMAIN s /\ k + 1 \in DOMAIN s
    BY <1>1
  <2>2. \A x, y \in DOMAIN s : s[x] = s[y] => x = y
    BY DEF IsInjective
  <2>3. PICK x \in DOMAIN s : x = (IF j < n THEN j ELSE j + 1) /\ t[j] = s[x]
    BY <1>2, <2>1
  <2>4. PICK y \in DOMAIN s : y = (IF k < n THEN k ELSE k + 1) /\ t[k] = s[y]
    BY <1>2, <2>1
  <2>5. x = y
    BY <2>2, <2>3, <2>4
  <2>6. QED
    BY <1>1, <2>3, <2>4, <2>5
<1>5. Range(t) = Range(s) \ {s[n]}
  <2>1. ASSUME NEW k \in 1 .. Len(s) - 1
        PROVE  t[k] \in Range(s) \ {s[n]}
    <3>1. k \in DOMAIN s /\ k + 1 \in DOMAIN s
      BY <1>1
    <3>2. t[k] = IF k < n THEN s[k] ELSE s[k + 1]
      BY <1>2
    <3>3. \E j \in DOMAIN s : t[k] = s[j] /\ j # n
      BY <1>1, <3>1, <3>2
    <3>4. QED
      BY <3>3 DEF IsInjective, Range
  <2>2. ASSUME NEW j \in DOMAIN s, s[j] # s[n]
        PROVE  \E k \in DOMAIN t : t[k] = s[j]
    <3>1. CASE j < n
      <4>0. j \in 1 .. Len(s) - 1
        BY <1>1, <3>1
      <4>1. j \in 1 .. Len(s) - 1 /\ t[j] = s[j]
        BY <1>2, <3>1, <4>0
      <4>2. QED
        BY <1>3, <4>1
    <3>2. CASE j > n
      <4>0. /\ j \in Nat /\ n \in Nat /\ 1 <= n /\ j <= Len(s) /\ Len(s) \in Nat
        BY <1>1
      <4>3. j - 1 \in 1 .. Len(s) - 1 /\ ~(j - 1 < n) /\ (j - 1) + 1 = j
        BY <3>2, <4>0
      <4>4. t[j - 1] = IF j - 1 < n THEN s[j - 1] ELSE s[(j - 1) + 1]
        BY <1>2, <4>3
      <4>1. j - 1 \in 1 .. Len(s) - 1 /\ t[j - 1] = s[j]
        BY <4>3, <4>4
      <4>2. QED
        BY <1>3, <4>1
    <3>3. QED
      BY <1>1, <2>2, <3>1, <3>2
  <2>3. QED
    BY <1>3, <2>1, <2>2 DEF Range
<1>6. QED
  BY <1>2, <1>4, <1>5 DEF t

LEMMA AppendRange ==
  ASSUME NEW s \in Seq(Nat), NEW x \in Nat
  PROVE  /\ Append(s, x) \in Seq(Nat) /\ Range(Append(s, x)) = Range(s) \cup {x}
         /\ IsInjective(s) /\ x \notin Range(s) => IsInjective(Append(s, x))
         /\ DOMAIN s = 1 .. Len(s) /\ DOMAIN Append(s, x) = 1 .. Len(s) + 1 /\ Len(s) \in Nat
         /\ Append(s, x)[Len(s) + 1] = x /\ \A k \in DOMAIN s : Append(s, x)[k] = s[k]
<1> DEFINE t == Append(s, x)
<1>1. /\ t \in Seq(Nat) /\ Len(t) = Len(s) + 1 /\ Len(s) \in Nat
      /\ DOMAIN t = 1 .. Len(s) + 1 /\ DOMAIN s = 1 .. Len(s)
      /\ t[Len(s) + 1] = x /\ \A k \in 1 .. Len(s) : t[k] = s[k]
  BY AppendProperties, LenProperties
<1> HIDE DEF t
<1>2. Range(t) = Range(s) \cup {x}
  <2>1. Range(t) \subseteq Range(s) \cup {x}
    BY <1>1, SMTT(30) DEF Range
  <2>2. ASSUME NEW k \in DOMAIN s PROVE s[k] \in Range(t)
    BY <1>1 DEF Range
  <2>3. x \in Range(t)
    BY <1>1 DEF Range
  <2>4. QED
    BY <2>1, <2>2, <2>3 DEF Range
<1>3. ASSUME IsInjective(s), x \notin Range(s) PROVE IsInjective(t)
  <2>1. \A j, k \in DOMAIN s : s[j] = s[k] => j = k
    BY <1>3 DEF IsInjective
  <2>2. \A k \in DOMAIN s : s[k] # x
    BY <1>3 DEF Range
  <2>3. \A k \in DOMAIN t : (k \in DOMAIN s /\ t[k] = s[k]) \/ (k = Len(s) + 1 /\ t[k] = x)
    BY <1>1
  <2>4. \A j, k \in DOMAIN t : t[j] = t[k] => j = k
    BY <2>1, <2>2, <2>3
  <2>5. QED
    BY <2>4 DEF IsInjective
<1>4. QED
  BY <1>1, <1>2, <1>3 DEF t

LEMMA LeastNat ==
  ASSUME NEW S \in SUBSET Nat, S # {}
  PROVE  \E n \in S : \A m \in S : n <= m
<1>1. PICK x \in S : \A y \in S : ~(<<y, x>> \in OpToRel(<, Nat))
  BY NatLessThanWellFounded, WFMin
<1>2. ASSUME NEW y \in S PROVE x <= y
  <2>1. <<y, x>> \in Nat \X Nat /\ ~(y < x)
    BY <1>1 DEF OpToRel
  <2>2. QED
    BY <2>1
<1>3. QED
  BY <1>2

-----------------------------------------------------------------------------
(* Heaps.                                                                  *)

Typed(h) ==
  /\ h \in Seq(EntryRecord)
  /\ \A a \in DOMAIN h :
       /\ h[a].parent \in DOMAIN h \cup {NULL}
       /\ h[a].dir = (h[a].frn \in Dirs) /\ Range(h[a].children) \subseteq DOMAIN h

WellFormed(h) ==
  \A p \in DOMAIN h : h[p].live =>
    /\ IsInjective(h[p].children)
    /\ \A c \in Range(h[p].children) : h[c].live /\ h[c].parent = p

NoSelfParent(h) == \A a \in DOMAIN h : h[a].parent # a

LiveEntries(h) == {a \in DOMAIN h : h[a].live}

\* g differs from h in parents and children only.
SameEntries(h, g) ==
  /\ g \in Seq(EntryRecord) /\ DOMAIN g = DOMAIN h
  /\ \A x \in DOMAIN h : /\ g[x].frn = h[x].frn /\ g[x].name = h[x].name
                         /\ g[x].dir = h[x].dir /\ g[x].live = h[x].live

LEMMA HeapFacts ==
  ASSUME NEW h, Typed(h)
  PROVE  /\ h \in Seq(EntryRecord) /\ Len(h) \in Nat /\ DOMAIN h = 1 .. Len(h)
         /\ \A x \in DOMAIN h : /\ x \in Nat \ {0} /\ h[x] \in EntryRecord
                                /\ h[x].frn \in Frn \cup {ROOT_NUMBER}
                                /\ h[x].children \in Seq(Nat) /\ h[x].live \in BOOLEAN
                                /\ Range(h[x].children) \subseteq DOMAIN h
<1>1. h \in Seq(EntryRecord) /\ Len(h) \in Nat /\ DOMAIN h = 1 .. Len(h)
  BY LenProperties DEF Typed
<1>2. ASSUME NEW x \in DOMAIN h PROVE h[x] \in EntryRecord
  BY <1>1, ElementOfSeq
<1>3. QED
  BY <1>1, <1>2, SMTT(30) DEF Typed, EntryRecord

LEMMA SeqOfFunction ==
  ASSUME NEW n \in Nat, NEW h \in [1 .. n -> EntryRecord]
  PROVE  h \in Seq(EntryRecord) /\ Len(h) = n
<1>1. QED
  BY IsASeq, LenProperties

LEMMA FirstChildFacts ==
  ASSUME NEW h, Typed(h), NEW p \in DOMAIN h, NEW k, FirstChild(h, p, k) # 0
  PROVE  /\ FirstChild(h, p, k) \in DOMAIN h[p].children
         /\ h[h[p].children[FirstChild(h, p, k)]].frn = k
         /\ \A m \in DOMAIN h[p].children : m < FirstChild(h, p, k) => h[h[p].children[m]].frn # k
<1> DEFINE at == {n \in DOMAIN h[p].children : h[h[p].children[n]].frn = k}
<1>1. DOMAIN h[p].children \in SUBSET Nat
  BY HeapFacts, LenProperties
<1>2. at # {} /\ FirstChild(h, p, k) = CHOOSE n \in at : \A m \in at : n <= m
  BY DEF FirstChild
<1>3. \E n \in at : \A m \in at : n <= m
  BY <1>1, <1>2, LeastNat
<1>4. FirstChild(h, p, k) \in at /\ \A m \in at : FirstChild(h, p, k) <= m
  BY <1>2, <1>3
<1>5. QED
  BY <1>1, <1>4

LEMMA FirstChildIs ==
  ASSUME NEW h, Typed(h), NEW p \in DOMAIN h, NEW k, NEW n \in DOMAIN h[p].children,
         h[h[p].children[n]].frn = k,
         \A m \in DOMAIN h[p].children : m < n => h[h[p].children[m]].frn # k
  PROVE  FirstChild(h, p, k) = n
<1> DEFINE at == {j \in DOMAIN h[p].children : h[h[p].children[j]].frn = k}
<1>1. DOMAIN h[p].children \in SUBSET Nat
  BY HeapFacts, LenProperties
<1>2. at # {}
  OBVIOUS
<1>3. FirstChild(h, p, k) # 0
  <2>1. PICK j \in at : \A m \in at : j <= m
    BY <1>1, <1>2, LeastNat
  <2>2. FirstChild(h, p, k) \in at
    BY <1>2, <2>1 DEF FirstChild
  <2>3. 0 \notin DOMAIN h[p].children
    BY HeapFacts, LenProperties
  <2>4. QED
    BY <2>2, <2>3
<1>4. QED
  BY <1>1, <1>3, FirstChildFacts

\* a is the child of the live entry p that a lookup of its number returns.
Found(h, p, a) ==
  /\ p \in DOMAIN h /\ a \in DOMAIN h /\ h[p].live
  /\ FirstChild(h, p, h[a].frn) # 0
  /\ h[p].children[FirstChild(h, p, h[a].frn)] = a

\* g is h with a put at the end of the vector of p, or taken out of it.
Attached(h, g, p, a) ==
  /\ SameEntries(h, g)
  /\ g[a].parent = p /\ \A x \in DOMAIN h : x # a => g[x].parent = h[x].parent
  /\ g[p].children = Append(h[p].children, a)
  /\ \A x \in DOMAIN h : x # p => g[x].children = h[x].children

Detached(h, g, p, a) ==
  /\ SameEntries(h, g)
  /\ \A x \in DOMAIN h : g[x].parent = h[x].parent
  /\ IsInjective(g[p].children) /\ Range(g[p].children) = Range(h[p].children) \ {a}
  /\ \A x \in DOMAIN h : x # p => g[x].children = h[x].children

LEMMA AddChildrenRows ==
  ASSUME NEW h, Typed(h), NEW p \in DOMAIN h, NEW a \in DOMAIN h, p # a
  PROVE  Attached(h, addChildren(h, p, a), p, a)
<1> DEFINE ra == [h[a] EXCEPT !.parent = p]
           rp == [h[p] EXCEPT !.children = Append(h[p].children, a)]
           h1 == [h EXCEPT ![a] = ra]
           g == [h1 EXCEPT ![p] = rp]
<1>1. /\ Len(h) \in Nat /\ h \in [1 .. Len(h) -> EntryRecord] /\ DOMAIN h = 1 .. Len(h)
      /\ a \in Nat /\ p \in Nat
  BY HeapFacts
<1>2. Append(h[p].children, a) \in Seq(Nat)
  BY <1>1, HeapFacts, AppendRange
<1>3. /\ ra \in EntryRecord /\ ra.frn = h[a].frn /\ ra.name = h[a].name /\ ra.dir = h[a].dir
      /\ ra.live = h[a].live /\ ra.parent = p /\ ra.children = h[a].children
  BY <1>1 DEF EntryRecord
<1>4. /\ rp \in EntryRecord /\ rp.frn = h[p].frn /\ rp.name = h[p].name /\ rp.dir = h[p].dir
      /\ rp.live = h[p].live /\ rp.parent = h[p].parent /\ rp.children = Append(h[p].children, a)
  BY <1>1, <1>2 DEF EntryRecord
<1>5. addChildren(h, p, a) = g
  BY <1>1 DEF addChildren
<1> HIDE DEF ra, rp
<1>6. /\ g \in [1 .. Len(h) -> EntryRecord] /\ g[a] = ra /\ g[p] = rp
      /\ \A x \in DOMAIN h : x # a /\ x # p => g[x] = h[x]
  BY <1>1, <1>3, <1>4
<1> HIDE DEF g
<1>7. SameEntries(h, g)
  BY <1>1, <1>3, <1>4, <1>6, SeqOfFunction DEF SameEntries
<1>8. QED
  BY <1>3, <1>4, <1>5, <1>6, <1>7 DEF Attached

LEMMA DeleteFromVectorRows ==
  ASSUME NEW h, Typed(h), NEW p, NEW a, Found(h, p, a), IsInjective(h[p].children)
  PROVE  Detached(h, delete_file_from_parent_vector(h, a, p), p, a)
<1>0. PICK n \in DOMAIN h[p].children : n = FirstChild(h, p, h[a].frn) /\ h[p].children[n] = a
  BY FirstChildFacts DEF Found
<1>9. p \in DOMAIN h /\ a \in DOMAIN h
  BY DEF Found
<1> DEFINE rp == [h[p] EXCEPT !.children = RemoveAt(h[p].children, n)]
           g == [h EXCEPT ![p] = rp]
<1>1. /\ Len(h) \in Nat /\ h \in [1 .. Len(h) -> EntryRecord] /\ DOMAIN h = 1 .. Len(h)
      /\ h[p].children \in Seq(Nat)
  BY <1>9, HeapFacts
<1>2. n # 0
  BY <1>1, LenProperties
<1>3. /\ RemoveAt(h[p].children, n) \in Seq(Nat) /\ IsInjective(RemoveAt(h[p].children, n))
      /\ Range(RemoveAt(h[p].children, n)) = Range(h[p].children) \ {a}
  BY <1>0, <1>1, RemoveAtRange
<1>4. /\ rp \in EntryRecord /\ rp.frn = h[p].frn /\ rp.name = h[p].name /\ rp.dir = h[p].dir
      /\ rp.live = h[p].live /\ rp.parent = h[p].parent /\ rp.children = RemoveAt(h[p].children, n)
  BY <1>1, <1>3, <1>9, ZenonT(30) DEF EntryRecord
<1>5. delete_file_from_parent_vector(h, a, p) = g
  BY <1>0, <1>2 DEF delete_file_from_parent_vector
<1> HIDE DEF rp
<1>6. /\ g \in [1 .. Len(h) -> EntryRecord] /\ g[p] = rp
      /\ \A x \in DOMAIN h : x # p => g[x] = h[x]
  BY <1>1, <1>4, <1>9
<1> HIDE DEF g
<1>7. SameEntries(h, g)
  BY <1>1, <1>4, <1>6, <1>9, SeqOfFunction DEF SameEntries
<1>8. QED
  BY <1>3, <1>4, <1>5, <1>6, <1>7 DEF Detached

-----------------------------------------------------------------------------
(* What the operations on the tree keep.                                   *)

Sound(h) == Typed(h) /\ WellFormed(h) /\ NoSelfParent(h)

\* Entries stay where they are in memory and keep their numbers.
SameNumbers(h, g) == DOMAIN h \subseteq DOMAIN g /\ \A x \in DOMAIN h : g[x].frn = h[x].frn

LEMMA FoundFacts ==
  ASSUME NEW h, Sound(h), NEW p, NEW a, Found(h, p, a)
  PROVE  /\ a \in Range(h[p].children) /\ h[a].live /\ h[a].parent = p /\ p # a
         /\ IsInjective(h[p].children)
<1>1. a \in Range(h[p].children)
  BY FirstChildFacts DEF Sound, Found, Range
<1>2. QED
  BY <1>1 DEF Sound, Found, WellFormed, NoSelfParent

\* A lookup that succeeds has found an entry of the directory.
LEMMA LookupFinds ==
  ASSUME NEW h, Typed(h), NEW p \in DOMAIN h, h[p].live, NEW k, FirstChild(h, p, k) # 0
  PROVE  /\ Found(h, p, h[p].children[FirstChild(h, p, k)])
         /\ h[h[p].children[FirstChild(h, p, k)]].frn = k
<1>1. FirstChild(h, p, k) \in DOMAIN h[p].children
  BY FirstChildFacts
<1>2. h[h[p].children[FirstChild(h, p, k)]].frn = k
  BY FirstChildFacts
<1>3. h[p].children[FirstChild(h, p, k)] \in DOMAIN h
  BY <1>1, HeapFacts DEF Range
<1>4. QED
  BY <1>2, <1>3 DEF Found

LEMMA AppendedRows ==
  ASSUME NEW h, Typed(h), NEW e \in EntryRecord,
         e.parent \in DOMAIN h \cup {NULL}, e.dir = (e.frn \in Dirs), Range(e.children) \subseteq DOMAIN h
  PROVE  LET g == Append(h, e)
         IN /\ Typed(g) /\ DOMAIN g = 1 .. Len(h) + 1 /\ DOMAIN h = 1 .. Len(h) /\ Len(h) \in Nat
            /\ g[Len(h) + 1] = e /\ \A x \in DOMAIN h : g[x] = h[x]
<1> DEFINE g == Append(h, e)
<1>1. h \in Seq(EntryRecord) /\ Len(h) \in Nat /\ DOMAIN h = 1 .. Len(h)
  BY HeapFacts
<1>2. /\ g \in Seq(EntryRecord) /\ DOMAIN g = 1 .. Len(h) + 1
      /\ g[Len(h) + 1] = e /\ \A x \in 1 .. Len(h) : g[x] = h[x]
  BY <1>1, AppendProperties, LenProperties
<1> HIDE DEF g
<1>3. ASSUME NEW x \in DOMAIN g
      PROVE  /\ g[x].parent \in DOMAIN g \cup {NULL}
             /\ g[x].dir = (g[x].frn \in Dirs) /\ Range(g[x].children) \subseteq DOMAIN g
  <2>1. DOMAIN h \subseteq DOMAIN g
    BY <1>1, <1>2
  <2>2. CASE x = Len(h) + 1
    BY <1>2, <2>1, <2>2
  <2>3. CASE x \in DOMAIN h
    BY <1>1, <1>2, <2>1, <2>3 DEF Typed
  <2>4. QED
    BY <1>1, <1>2, <2>2, <2>3
<1>4. Typed(g)
  BY <1>2, <1>3 DEF Typed
<1>5. QED
  BY <1>1, <1>2, <1>4 DEF g

\* malloc and initFileEntry: a new entry with no parent and no children.
LEMMA NewEntrySound ==
  ASSUME NEW h, Sound(h), NEW e \in EntryRecord,
         e.parent = NULL, e.dir = (e.frn \in Dirs), e.children = <<>>, e.live
  PROVE  LET g == Append(h, e)
         IN /\ Sound(g) /\ SameNumbers(h, g) /\ DOMAIN g = 1 .. Len(h) + 1 /\ g[Len(h) + 1] = e
            /\ LiveEntries(g) = LiveEntries(h) \cup {Len(h) + 1}
<1> DEFINE g == Append(h, e)
<1>1. Range(e.children) = {}
  BY DEF Range
<1>2. /\ Typed(g) /\ DOMAIN g = 1 .. Len(h) + 1 /\ DOMAIN h = 1 .. Len(h) /\ Len(h) \in Nat
      /\ g[Len(h) + 1] = e /\ \A x \in DOMAIN h : g[x] = h[x]
  BY <1>1, AppendedRows DEF Sound
<1> HIDE DEF g
<1>3. \A x \in DOMAIN g : x \in DOMAIN h \/ x = Len(h) + 1
  BY <1>2
<1>4. WellFormed(g)
  <2> SUFFICES ASSUME NEW p \in DOMAIN g, g[p].live
               PROVE  /\ IsInjective(g[p].children)
                      /\ \A c \in Range(g[p].children) : g[c].live /\ g[c].parent = p
    BY DEF WellFormed
  <2>1. CASE p \in DOMAIN h
    <3>1. \A c \in Range(h[p].children) : c \in DOMAIN h
      BY <2>1, HeapFacts DEF Sound
    <3>2. QED
      BY <1>2, <2>1, <3>1 DEF Sound, WellFormed
  <2>2. CASE p = Len(h) + 1
    BY <1>1, <1>2, <2>2 DEF IsInjective
  <2>3. QED
    BY <1>3, <2>1, <2>2
<1>5. NoSelfParent(g)
  BY <1>2, <1>3 DEF Sound, NoSelfParent, NULL
<1>6. LiveEntries(g) = LiveEntries(h) \cup {Len(h) + 1}
  BY <1>2, <1>3 DEF LiveEntries
<1>7. SameNumbers(h, g)
  BY <1>2 DEF SameNumbers
<1>8. QED
  BY <1>2, <1>4, <1>5, <1>6, <1>7 DEF Sound, g

\* attachParent: an entry that is in no vector becomes a child of q.
LEMMA AttachSound ==
  ASSUME NEW h, Typed(h), NoSelfParent(h), NEW q \in DOMAIN h, NEW a \in DOMAIN h, q # a,
         h[q].live, h[a].live,
         \A p \in DOMAIN h : h[p].live =>
           /\ IsInjective(h[p].children) /\ a \notin Range(h[p].children)
           /\ \A c \in Range(h[p].children) : h[c].live /\ h[c].parent = p
  PROVE  LET g == addChildren(h, q, a)
         IN Sound(g) /\ SameEntries(h, g)
<1> DEFINE g == addChildren(h, q, a)
<1>1. /\ SameEntries(h, g)
      /\ g[a].parent = q /\ \A x \in DOMAIN h : x # a => g[x].parent = h[x].parent
      /\ g[q].children = Append(h[q].children, a)
      /\ \A x \in DOMAIN h : x # q => g[x].children = h[x].children
  BY AddChildrenRows DEF Attached
<1> HIDE DEF g
<1>2. h[q].children \in Seq(Nat) /\ a \in Nat
  BY HeapFacts
<1>3. Range(g[q].children) = Range(h[q].children) \cup {a} /\ IsInjective(g[q].children)
  BY <1>1, <1>2, AppendRange
<1>4. Typed(g)
  <2>1. ASSUME NEW x \in DOMAIN h PROVE Range(g[x].children) \subseteq DOMAIN h
    <3>1. Range(h[x].children) \subseteq DOMAIN h
      BY HeapFacts
    <3>2. CASE x = q
      BY <1>3, <3>1, <3>2
    <3>3. CASE x # q
      BY <1>1, <3>1, <3>3
    <3>4. QED
      BY <3>2, <3>3
  <2>2. \A x \in DOMAIN h : g[x].parent \in DOMAIN h \cup {NULL}
    BY <1>1 DEF Typed
  <2>3. QED
    BY <1>1, <2>1, <2>2 DEF Typed, SameEntries
<1>5. WellFormed(g)
  <2> SUFFICES ASSUME NEW p \in DOMAIN h, h[p].live
               PROVE  /\ IsInjective(g[p].children)
                      /\ \A c \in Range(g[p].children) : g[c].live /\ g[c].parent = p
    BY <1>1 DEF WellFormed, SameEntries
  <2>1. \A c \in Range(h[p].children) : c \in DOMAIN h /\ c # a
    BY HeapFacts
  <2>2. \A c \in Range(h[p].children) : g[c].live /\ g[c].parent = p
    BY <1>1, <2>1 DEF SameEntries
  <2>3. g[a].live /\ g[a].parent = q
    BY <1>1 DEF SameEntries
  <2>5. CASE p = q
    BY <1>3, <2>2, <2>3, <2>5
  <2>6. CASE p # q
    <3>1. g[p].children = h[p].children /\ IsInjective(h[p].children)
      BY <1>1, <2>6 DEF WellFormed
    <3>2. QED
      BY <2>2, <3>1
  <2>4. QED
    BY <2>5, <2>6
<1>6. NoSelfParent(g)
  BY <1>1 DEF NoSelfParent, SameEntries
<1>7. QED
  BY <1>1, <1>4, <1>5, <1>6 DEF Sound, g

\* genFileEntryOne for a record the parent of which is in the tree.
LEMMA CreateSound ==
  ASSUME NEW h, Sound(h), NEW p \in DOMAIN h, h[p].live, NEW e \in EntryRecord,
         e.parent = NULL, e.dir = (e.frn \in Dirs), e.children = <<>>, e.live
  PROVE  LET g == addChildren(Append(h, e), p, Len(h) + 1)
         IN /\ Sound(g) /\ SameNumbers(h, g) /\ DOMAIN g = 1 .. Len(h) + 1 /\ g[Len(h) + 1].frn = e.frn
            /\ LiveEntries(g) = LiveEntries(h) \cup {Len(h) + 1}
<1> DEFINE h1 == Append(h, e)
           b == Len(h) + 1
           g == addChildren(h1, p, b)
<1>1. /\ Sound(h1) /\ SameNumbers(h, h1) /\ DOMAIN h1 = 1 .. b /\ h1[b] = e
      /\ LiveEntries(h1) = LiveEntries(h) \cup {b}
  BY NewEntrySound
<1>2. /\ DOMAIN h = 1 .. Len(h) /\ Len(h) \in Nat /\ \A x \in DOMAIN h : h1[x] = h[x]
  <2>1. Range(e.children) = {}
    BY DEF Range
  <2>2. QED
    BY <2>1, AppendedRows DEF Sound
<1>3. b \in DOMAIN h1 /\ b \notin DOMAIN h /\ p \in DOMAIN h1 /\ p # b
  BY <1>1, <1>2
<1> HIDE DEF h1, b
<1>4. ASSUME NEW q \in DOMAIN h1, h1[q].live
      PROVE  b \notin Range(h1[q].children)
  <2>1. CASE q = b
    BY <1>1, <2>1 DEF Range
  <2>2. CASE q \in DOMAIN h
    BY <1>2, <1>3, <2>2, HeapFacts DEF Sound
  <2>3. q \in DOMAIN h \/ q = b
    BY <1>1, <1>2 DEF b
  <2>4. QED
    BY <2>1, <2>2, <2>3
<1>5. Sound(g) /\ SameEntries(h1, g)
  BY <1>1, <1>2, <1>3, <1>4, AttachSound DEF Sound, WellFormed
<1> HIDE DEF g
<1>6. LiveEntries(g) = LiveEntries(h1) /\ SameNumbers(h, g) /\ DOMAIN g = DOMAIN h1 /\ g[b].frn = e.frn
  BY <1>1, <1>3, <1>5 DEF SameEntries, LiveEntries, SameNumbers
<1>7. QED
  BY <1>1, <1>5, <1>6 DEF g, b, h1

LEMMA MoveSound ==
  ASSUME NEW h, Sound(h), NEW p, NEW a, Found(h, p, a), NEW q \in DOMAIN h, h[q].live, q # a
  PROVE  LET g == addChildren(delete_file_from_parent_vector(h, a, p), q, a)
         IN Sound(g) /\ SameEntries(h, g)
<1> DEFINE h1 == delete_file_from_parent_vector(h, a, p)
           g == addChildren(h1, q, a)
<1>1. p \in DOMAIN h /\ a \in DOMAIN h /\ h[p].live
  BY DEF Found
<1>2. a \in Range(h[p].children) /\ h[a].live /\ h[a].parent = p /\ p # a /\ IsInjective(h[p].children)
  BY FoundFacts
<1>3. /\ SameEntries(h, h1)
      /\ \A x \in DOMAIN h : h1[x].parent = h[x].parent
      /\ IsInjective(h1[p].children) /\ Range(h1[p].children) = Range(h[p].children) \ {a}
      /\ \A x \in DOMAIN h : x # p => h1[x].children = h[x].children
  <2>1. Detached(h, h1, p, a)
    BY <1>2, DeleteFromVectorRows DEF Sound
  <2>2. QED
    BY <2>1 DEF Detached
<1> HIDE DEF h1
<1>4. Typed(h1)
  <2>1. \A x \in DOMAIN h : Range(h1[x].children) \subseteq DOMAIN h
    BY <1>3, HeapFacts DEF Sound
  <2>2. QED
    BY <1>3, <2>1 DEF Typed, SameEntries, Sound
<1>5. NoSelfParent(h1)
  BY <1>3 DEF NoSelfParent, SameEntries, Sound
<1>6. ASSUME NEW x \in DOMAIN h1, h1[x].live
      PROVE  /\ IsInjective(h1[x].children) /\ a \notin Range(h1[x].children)
             /\ \A c \in Range(h1[x].children) : h1[c].live /\ h1[c].parent = x
  <2>1. x \in DOMAIN h /\ h[x].live
    BY <1>3, <1>6 DEF SameEntries
  <2>2. /\ IsInjective(h[x].children)
        /\ \A c \in Range(h[x].children) : c \in DOMAIN h /\ h[c].live /\ h[c].parent = x
    BY <2>1, HeapFacts DEF Sound, WellFormed
  <2>3. \A c \in Range(h[x].children) : h1[c].live /\ h1[c].parent = x
    BY <1>3, <2>2 DEF SameEntries
  <2>4. QED
    BY <1>2, <1>3, <2>1, <2>2, <2>3
<1>7. q \in DOMAIN h1 /\ a \in DOMAIN h1 /\ h1[q].live /\ h1[a].live
  BY <1>1, <1>2, <1>3 DEF SameEntries
<1>8. Sound(g) /\ SameEntries(h1, g)
  BY <1>4, <1>5, <1>6, <1>7, AttachSound
<1> HIDE DEF g
<1>9. SameEntries(h, g)
  BY <1>3, <1>8 DEF SameEntries
<1>10. QED
  BY <1>8, <1>9 DEF g, h1

\* renameFile: a copy with the new name takes the place and the children of a.
RenamedHeap(h, p, a, n) ==
  LET b == Len(h) + 1
      copied == addChildren(Append(h, [h[a] EXCEPT !.name = n]), p, b)
      d == [delete_file_from_parent_vector(copied, a, p) EXCEPT ![a].live = FALSE]
  IN [x \in DOMAIN d |-> IF x \in Range(h[a].children) THEN [d[x] EXCEPT !.parent = b] ELSE d[x]]

\* g is h with the copy in the place of a.
Renamed(h, g, p, a, n) ==
  /\ DOMAIN g = DOMAIN h \cup {Len(h) + 1}
  /\ g[Len(h) + 1].frn = h[a].frn /\ g[Len(h) + 1].name = n
  /\ g[Len(h) + 1].parent = p /\ g[Len(h) + 1].children = h[a].children
  /\ \A x \in DOMAIN h :
       /\ g[x].frn = h[x].frn /\ g[x].name = h[x].name
       /\ g[x].parent = IF x \in Range(h[a].children) THEN Len(h) + 1 ELSE h[x].parent
       /\ x # p => g[x].children = h[x].children
  /\ Range(g[p].children) = (Range(h[p].children) \cup {Len(h) + 1}) \ {a}

LEMMA RenameSound ==
  ASSUME NEW h, Sound(h), NEW p, NEW a, Found(h, p, a), NEW n \in Name
  PROVE  /\ Sound(RenamedHeap(h, p, a, n)) /\ SameNumbers(h, RenamedHeap(h, p, a, n))
         /\ Renamed(h, RenamedHeap(h, p, a, n), p, a, n)
         /\ LiveEntries(RenamedHeap(h, p, a, n)) = (LiveEntries(h) \ {a}) \cup {Len(h) + 1}
<1> DEFINE b == Len(h) + 1
           e == [h[a] EXCEPT !.name = n]
           h1 == Append(h, e)
           copied == addChildren(h1, p, b)
           h2 == delete_file_from_parent_vector(copied, a, p)
           d == [h2 EXCEPT ![a].live = FALSE]
           g == [x \in DOMAIN d |-> IF x \in Range(h[a].children) THEN [d[x] EXCEPT !.parent = b] ELSE d[x]]
<1>1. p \in DOMAIN h /\ a \in DOMAIN h /\ h[p].live /\ Typed(h)
  BY DEF Found, Sound
<1>2. a \in Range(h[p].children) /\ h[a].live /\ h[a].parent = p /\ p # a /\ IsInjective(h[p].children)
  BY FoundFacts
<1>3. h[a] \in EntryRecord /\ DOMAIN h = 1 .. Len(h) /\ Len(h) \in Nat
  BY <1>1, HeapFacts
<1>4. /\ e \in EntryRecord /\ e.frn = h[a].frn /\ e.children = h[a].children /\ e.dir = h[a].dir
      /\ e.live /\ e.parent = p /\ e.name = n
  BY <1>2, <1>3 DEF EntryRecord
<1> HIDE DEF e
<1>5. /\ Typed(h1) /\ DOMAIN h1 = 1 .. b /\ h1[b] = e /\ \A x \in DOMAIN h : h1[x] = h[x]
  <2>1. e.dir = (e.frn \in Dirs) /\ Range(e.children) \subseteq DOMAIN h
    BY <1>1, <1>4 DEF Typed
  <2>2. QED
    BY <1>1, <1>4, <2>1, AppendedRows
<1>6. b \in DOMAIN h1 /\ b \notin DOMAIN h /\ DOMAIN h \subseteq DOMAIN h1 /\ b # 0 /\ b \in Nat
  BY <1>3, <1>5
<1>7. \A x \in DOMAIN h1 : x \in DOMAIN h \/ x = b
  BY <1>3, <1>5
<1> HIDE DEF h1, b
<1>8. /\ SameEntries(h1, copied)
      /\ copied[b].parent = p /\ \A x \in DOMAIN h : copied[x].parent = h[x].parent
      /\ copied[p].children = Append(h[p].children, b)
      /\ \A x \in DOMAIN h : x # p => copied[x].children = h[x].children
      /\ copied[b].children = h[a].children
  <2>1. Attached(h1, copied, p, b)
    BY <1>1, <1>5, <1>6, AddChildrenRows
  <2>2. p # b /\ a # b /\ a # p /\ \A x \in DOMAIN h : x # b /\ x \in DOMAIN h1
    BY <1>1, <1>2, <1>6
  <2>3. /\ h1[p].children = h[p].children /\ h1[b].children = h[a].children
        /\ \A x \in DOMAIN h : h1[x].parent = h[x].parent /\ h1[x].children = h[x].children
    BY <1>1, <1>4, <1>5
  <2> HIDE DEF copied
  <2>4. SameEntries(h1, copied) /\ copied[b].parent = p /\ copied[p].children = Append(h[p].children, b)
    BY <2>1, <2>3 DEF Attached
  <2>5. \A x \in DOMAIN h : copied[x].parent = h[x].parent
    BY <2>1, <2>2, <2>3 DEF Attached
  <2>6. \A x \in DOMAIN h : x # p => copied[x].children = h[x].children
    BY <2>1, <2>2, <2>3 DEF Attached
  <2>7. copied[b].children = h[a].children
    BY <1>6, <2>1, <2>2, <2>3 DEF Attached
  <2>8. QED
    BY <2>4, <2>5, <2>6, <2>7
<1> HIDE DEF copied
<1>9. /\ DOMAIN copied = DOMAIN h1 /\ copied \in Seq(EntryRecord)
      /\ \A x \in DOMAIN h : /\ copied[x].frn = h[x].frn /\ copied[x].dir = h[x].dir
                             /\ copied[x].live = h[x].live /\ copied[x].name = h[x].name
      /\ copied[b].frn = h[a].frn /\ copied[b].dir = h[a].dir /\ copied[b].live /\ copied[b].name = n
  BY <1>4, <1>5, <1>6, <1>8 DEF SameEntries
\* b comes after a in the vector of p, so find_if meets a first.
<1>10. /\ h[p].children \in Seq(Nat) /\ b \notin Range(h[p].children)
       /\ \A x \in DOMAIN h : Range(h[x].children) \subseteq DOMAIN h
  BY <1>1, <1>6, HeapFacts
<1>11. /\ Range(copied[p].children) = Range(h[p].children) \cup {b} /\ IsInjective(copied[p].children)
       /\ DOMAIN h[p].children = 1 .. Len(h[p].children) /\ Len(h[p].children) \in Nat
       /\ DOMAIN copied[p].children = 1 .. Len(h[p].children) + 1
       /\ \A k \in DOMAIN h[p].children : copied[p].children[k] = h[p].children[k]
  BY <1>2, <1>6, <1>8, <1>10, AppendRange
<1>12. Typed(copied)
  <2>1. ASSUME NEW x \in DOMAIN copied
        PROVE  /\ copied[x].parent \in DOMAIN copied \cup {NULL}
               /\ copied[x].dir = (copied[x].frn \in Dirs) /\ Range(copied[x].children) \subseteq DOMAIN copied
    <3>1. CASE x = b
      BY <1>1, <1>6, <1>8, <1>9, <1>10, <3>1 DEF Typed
    <3>2. CASE x = p
      <4>1. p \in DOMAIN h /\ copied[p].parent = h[p].parent
            /\ copied[p].frn = h[p].frn /\ copied[p].dir = h[p].dir
        BY <1>1, <1>8, <1>9
      <4>2. /\ h[p].parent \in DOMAIN h \cup {NULL} /\ h[p].dir = (h[p].frn \in Dirs)
            /\ Range(h[p].children) \subseteq DOMAIN h
        BY <4>1 DEF Typed, Sound
      <4>3. Range(copied[p].children) \subseteq DOMAIN copied
        BY <1>6, <1>9, <1>11, <4>2
      <4>4. QED
        BY <1>6, <1>9, <3>2, <4>1, <4>2, <4>3
    <3>3. CASE x \in DOMAIN h /\ x # p
      BY <1>1, <1>6, <1>8, <1>9, <1>10, <3>3, ZenonT(30) DEF Typed
    <3>4. QED
      BY <1>7, <1>9, <3>1, <3>2, <3>3
  <2>2. QED
    BY <1>9, <2>1 DEF Typed
<1>13. PICK k \in DOMAIN copied[p].children :
         copied[p].children[k] = a /\ FirstChild(copied, p, copied[a].frn) = k
  <2>1. PICK k \in DOMAIN h[p].children :
          /\ h[p].children[k] = a
          /\ \A m \in DOMAIN h[p].children : m < k => h[h[p].children[m]].frn # h[a].frn
    BY <1>1, FirstChildFacts DEF Found
  <2>2. k \in DOMAIN copied[p].children /\ copied[p].children[k] = a
    BY <1>11, <2>1
  <2>3. ASSUME NEW m \in DOMAIN copied[p].children, m < k
        PROVE  copied[copied[p].children[m]].frn # copied[a].frn
    <3>1. m \in DOMAIN h[p].children
      BY <1>11, <2>1, <2>3
    <3>2. copied[p].children[m] = h[p].children[m] /\ h[p].children[m] \in DOMAIN h
      BY <1>1, <1>10, <1>11, <3>1 DEF Range
    <3>3. QED
      BY <1>1, <1>9, <2>1, <2>3, <3>1, <3>2
  <2>4. p \in DOMAIN copied
    BY <1>1, <1>6, <1>9
  <2>5. FirstChild(copied, p, copied[a].frn) = k
    BY <1>12, <2>2, <2>3, <2>4, FirstChildIs
  <2>6. QED
    BY <2>2, <2>5
<1>14. /\ SameEntries(copied, h2)
       /\ \A x \in DOMAIN copied : h2[x].parent = copied[x].parent
       /\ IsInjective(h2[p].children) /\ Range(h2[p].children) = Range(copied[p].children) \ {a}
       /\ \A x \in DOMAIN copied : x # p => h2[x].children = copied[x].children
  <2>1. p \in DOMAIN copied /\ a \in DOMAIN copied /\ k # 0
    BY <1>1, <1>6, <1>9, <1>11
  <2>2. Found(copied, p, a)
    BY <1>1, <1>9, <1>13, <2>1 DEF Found
  <2>3. Detached(copied, h2, p, a)
    BY <1>11, <1>12, <2>2, DeleteFromVectorRows
  <2>4. QED
    BY <2>3 DEF Detached
<1> HIDE DEF h2
<1>15. h2 \in [1 .. b -> EntryRecord] /\ a \in 1 .. b
  <2>1. h2 \in Seq(EntryRecord) /\ DOMAIN h2 = 1 .. b
    BY <1>5, <1>9, <1>14 DEF SameEntries
  <2>2. QED
    BY <1>1, <1>5, <1>6, <2>1, LenProperties
<1>16. d = [h2 EXCEPT ![a] = [h2[a] EXCEPT !.live = FALSE]]
  BY <1>15
<1>17. g = [x \in DOMAIN d |-> IF x \in Range(h[a].children) THEN [d[x] EXCEPT !.parent = b] ELSE d[x]]
  OBVIOUS
<1> HIDE DEF d, g
<1>18. ASSUME NEW x \in 1 .. b
       PROVE  /\ g[x] \in EntryRecord /\ g[x].frn = h2[x].frn /\ g[x].dir = h2[x].dir
              /\ g[x].live = (h2[x].live /\ x # a) /\ g[x].children = h2[x].children
              /\ g[x].name = h2[x].name
              /\ g[x].parent = IF x \in Range(h[a].children) THEN b ELSE h2[x].parent
  <2>1. DOMAIN d = 1 .. b
    BY <1>15, <1>16
  <2>2. h2[x] \in EntryRecord /\ h2[x].live \in BOOLEAN
    BY <1>15 DEF EntryRecord
  <2>3. /\ d[x] \in EntryRecord /\ d[x].frn = h2[x].frn /\ d[x].dir = h2[x].dir
        /\ d[x].live = (h2[x].live /\ x # a) /\ d[x].children = h2[x].children /\ d[x].parent = h2[x].parent
        /\ d[x].name = h2[x].name
    BY <1>15, <1>16, <2>2 DEF EntryRecord
  <2>4. g[x] = IF x \in Range(h[a].children) THEN [d[x] EXCEPT !.parent = b] ELSE d[x]
    BY <1>17, <2>1
  <2>5. QED
    BY <1>6, <2>3, <2>4 DEF EntryRecord
<1>19. g \in Seq(EntryRecord) /\ DOMAIN g = 1 .. b
  <2>1. DOMAIN g = 1 .. b
    BY <1>15, <1>16, <1>17
  <2>2. g \in [1 .. b -> EntryRecord]
    BY <1>17, <1>18, <2>1
  <2>3. QED
    BY <1>6, <2>1, <2>2, SeqOfFunction
\* The rows of g.
<1>20. /\ g[b].live /\ g[b].children = h[a].children /\ g[b].parent = p
       /\ g[b].frn = h[a].frn /\ g[b].dir = h[a].dir /\ g[b].name = n
  <2>1. b \in 1 .. b /\ b \in DOMAIN copied /\ b # a /\ b # p /\ b \notin Range(h[a].children)
    BY <1>1, <1>5, <1>6, <1>9, <1>10
  <2>2. /\ h2[b].live = copied[b].live /\ h2[b].children = copied[b].children
        /\ h2[b].parent = copied[b].parent /\ h2[b].frn = copied[b].frn /\ h2[b].dir = copied[b].dir
        /\ h2[b].name = copied[b].name
    BY <1>14, <2>1 DEF SameEntries
  <2>3. QED
    BY <1>8, <1>9, <1>18, <2>1, <2>2
<1>21. ASSUME NEW x \in DOMAIN h
       PROVE  /\ g[x].frn = h[x].frn /\ g[x].dir = h[x].dir /\ g[x].live = (h[x].live /\ x # a)
              /\ g[x].name = h[x].name
              /\ g[x].parent = IF x \in Range(h[a].children) THEN b ELSE h[x].parent
              /\ x # p => g[x].children = h[x].children
  <2>1. x \in 1 .. b /\ x \in DOMAIN copied
    BY <1>5, <1>6, <1>9
  <2>2. /\ h2[x].frn = copied[x].frn /\ h2[x].dir = copied[x].dir /\ h2[x].live = copied[x].live
        /\ h2[x].parent = copied[x].parent /\ (x # p => h2[x].children = copied[x].children)
        /\ h2[x].name = copied[x].name
    BY <1>14, <2>1 DEF SameEntries
  <2>3. /\ copied[x].frn = h[x].frn /\ copied[x].dir = h[x].dir /\ copied[x].live = h[x].live
        /\ copied[x].parent = h[x].parent /\ (x # p => copied[x].children = h[x].children)
        /\ copied[x].name = h[x].name
    BY <1>8, <1>9
  <2>4. QED
    BY <1>18, <2>1, <2>2, <2>3
<1>22. IsInjective(g[p].children) /\ Range(g[p].children) = (Range(h[p].children) \cup {b}) \ {a}
  BY <1>1, <1>5, <1>6, <1>11, <1>14, <1>18
<1>23. \A x \in DOMAIN g : x \in DOMAIN h \/ x = b
  BY <1>5, <1>7, <1>19
<1>24. DOMAIN h \subseteq DOMAIN g /\ b \in DOMAIN g
  BY <1>5, <1>6, <1>19
<1>25. Typed(g)
  <2>1. ASSUME NEW x \in DOMAIN g
        PROVE  /\ g[x].parent \in DOMAIN g \cup {NULL}
               /\ g[x].dir = (g[x].frn \in Dirs) /\ Range(g[x].children) \subseteq DOMAIN g
    <3>1. CASE x = b
      BY <1>1, <1>10, <1>20, <1>24, <3>1 DEF Typed
    <3>2. CASE x \in DOMAIN h
      <4>1. Range(g[x].children) \subseteq DOMAIN g
        BY <1>10, <1>21, <1>22, <1>24, <3>2
      <4>2. QED
        BY <1>1, <1>21, <1>24, <3>2, <4>1 DEF Typed
    <3>3. QED
      BY <1>23, <3>1, <3>2
  <2>2. QED
    BY <1>19, <2>1 DEF Typed
<1>26. NoSelfParent(g)
  BY <1>1, <1>6, <1>20, <1>21, <1>23 DEF NoSelfParent, Sound
<1>27. WellFormed(g)
  <2> SUFFICES ASSUME NEW x \in DOMAIN g, g[x].live
               PROVE  /\ IsInjective(g[x].children)
                      /\ \A c \in Range(g[x].children) : g[c].live /\ g[c].parent = x
    BY DEF WellFormed
  <2>1. CASE x = b
    <3>1. /\ IsInjective(h[a].children)
          /\ \A c \in Range(h[a].children) : c \in DOMAIN h /\ h[c].live /\ h[c].parent = a
      BY <1>1, <1>2, <1>10 DEF Sound, WellFormed
    <3>2. a \notin Range(h[a].children)
      BY <1>2, <3>1
    <3>3. QED
      BY <1>20, <1>21, <2>1, <3>1, <3>2
  <2>2. CASE x \in DOMAIN h
    <3>1. h[x].live /\ x # a
      BY <1>21, <2>2
    <3>2. /\ IsInjective(h[x].children)
          /\ \A c \in Range(h[x].children) : c \in DOMAIN h /\ h[c].live /\ h[c].parent = x
      BY <1>10, <2>2, <3>1 DEF Sound, WellFormed
    <3>3. \A c \in Range(h[x].children) : c \notin Range(h[a].children)
      BY <1>1, <1>2, <3>1, <3>2 DEF Sound, WellFormed
    <3>4. \A c \in Range(h[x].children) : c # a => g[c].live /\ g[c].parent = x
      BY <1>21, <3>2, <3>3
    <3>5. CASE x = p
      BY <1>20, <1>22, <3>4, <3>5
    <3>6. CASE x # p
      <4>1. a \notin Range(h[x].children)
        BY <1>2, <3>2, <3>6
      <4>2. QED
        BY <1>21, <2>2, <3>2, <3>4, <3>6, <4>1
    <3>7. QED
      BY <3>5, <3>6
  <2>3. QED
    BY <1>23, <2>1, <2>2
<1>28. LiveEntries(g) = (LiveEntries(h) \ {a}) \cup {b}
  BY <1>20, <1>21, <1>23, <1>24 DEF LiveEntries
<1>29. SameNumbers(h, g)
  BY <1>21, <1>24 DEF SameNumbers
<1>30. Renamed(h, g, p, a, n)
  <2>1. DOMAIN g = DOMAIN h \cup {b}
    BY <1>23, <1>24
  <2>2. QED
    BY <1>20, <1>21, <1>22, <2>1 DEF Renamed, b
<1>31. QED
  <2>1. g = RenamedHeap(h, p, a, n)
    BY DEF RenamedHeap, b, g, d, h2, copied, h1, e
  <2>2. QED
    BY <1>25, <1>26, <1>27, <1>28, <1>29, <1>30, <2>1 DEF Sound, b

\* Below(h, a) is closed under children, all live, and entered through a only.
LEMMA BelowFacts ==
  ASSUME NEW h, Sound(h), NEW a \in DOMAIN h, h[a].live
  PROVE  /\ a \in Below(h, a) /\ Below(h, a) \subseteq LiveEntries(h)
         /\ \A c \in Below(h, a) : Range(h[c].children) \subseteq Below(h, a)
         /\ \A p \in LiveEntries(h) \ Below(h, a) : \A c \in Range(h[p].children) : c # a => c \notin Below(h, a)
<1>1. a \in Below(h, a) /\ Below(h, a) \subseteq DOMAIN h
  BY DEF Below
<1>2. \A x \in DOMAIN h : Range(h[x].children) \subseteq DOMAIN h
  BY HeapFacts DEF Sound
<1>3. Below(h, a) \subseteq LiveEntries(h)
  <2>1. LiveEntries(h) \in SUBSET DOMAIN h /\ a \in LiveEntries(h)
    BY DEF LiveEntries
  <2>2. \A c \in LiveEntries(h) : Range(h[c].children) \subseteq LiveEntries(h)
    BY <1>2 DEF LiveEntries, Sound, WellFormed
  <2>3. QED
    BY <2>1, <2>2 DEF Below
<1>4. ASSUME NEW c \in Below(h, a) PROVE Range(h[c].children) \subseteq Below(h, a)
  BY <1>1, <1>2 DEF Below
<1>5. ASSUME NEW p \in LiveEntries(h) \ Below(h, a), NEW c \in Range(h[p].children), c # a
      PROVE  c \notin Below(h, a)
  <2> DEFINE S == Below(h, a) \ {c}
  <2>1. S \in SUBSET DOMAIN h /\ a \in S
    BY <1>1, <1>5
  <2>2. ASSUME NEW x \in S PROVE c \notin Range(h[x].children)
    <3>1. h[x].live /\ x \in DOMAIN h /\ h[p].live /\ p \in DOMAIN h /\ x # p
      BY <1>3, <1>5, <2>2 DEF LiveEntries
    <3>2. QED
      BY <1>5, <3>1 DEF Sound, WellFormed
  <2>3. \A x \in S : Range(h[x].children) \subseteq S
    BY <1>4, <2>2
  <2>4. QED
    BY <2>1, <2>3 DEF Below
<1>6. QED
  BY <1>1, <1>3, <1>4, <1>5

\* deleteFile: a leaves its vector, and all that is below it is freed.
DeletedHeap(h, p, a) ==
  LET h1 == delete_file_from_parent_vector(h, a, p)
  IN [x \in DOMAIN h1 |->
        IF x \in Below(h, a) THEN [h1[x] EXCEPT !.live = FALSE, !.children = <<>>] ELSE h1[x]]

\* g is h without a and what is below it.
Deleted(h, g, a) ==
  /\ DOMAIN g = DOMAIN h
  /\ \A x \in DOMAIN h : g[x].frn = h[x].frn /\ g[x].name = h[x].name /\ g[x].parent = h[x].parent
  /\ \A x \in LiveEntries(h) \ Below(h, a) : Range(g[x].children) = Range(h[x].children) \ {a}

LEMMA DeleteSound ==
  ASSUME NEW h, Sound(h), NEW p, NEW a, Found(h, p, a)
  PROVE  /\ Sound(DeletedHeap(h, p, a)) /\ SameNumbers(h, DeletedHeap(h, p, a))
         /\ Deleted(h, DeletedHeap(h, p, a), a)
         /\ LiveEntries(DeletedHeap(h, p, a)) = LiveEntries(h) \ Below(h, a)
         /\ Below(h, a) \subseteq LiveEntries(h)
<1> DEFINE h1 == delete_file_from_parent_vector(h, a, p)
           gone == Below(h, a)
           g == [x \in DOMAIN h1 |->
                   IF x \in gone THEN [h1[x] EXCEPT !.live = FALSE, !.children = <<>>] ELSE h1[x]]
<1>1. p \in DOMAIN h /\ a \in DOMAIN h /\ h[p].live /\ Typed(h) /\ WellFormed(h) /\ NoSelfParent(h)
  BY DEF Found, Sound
<1>2. a \in Range(h[p].children) /\ h[a].live /\ h[a].parent = p /\ p # a /\ IsInjective(h[p].children)
  BY FoundFacts
<1>3. /\ a \in gone /\ gone \subseteq LiveEntries(h)
      /\ \A x \in LiveEntries(h) \ gone : \A c \in Range(h[x].children) : c # a => c \notin gone
  BY <1>1, <1>2, BelowFacts
<1>4. /\ SameEntries(h, h1)
      /\ \A x \in DOMAIN h : h1[x].parent = h[x].parent
      /\ IsInjective(h1[p].children) /\ Range(h1[p].children) = Range(h[p].children) \ {a}
      /\ \A x \in DOMAIN h : x # p => h1[x].children = h[x].children
  <2>1. Detached(h, h1, p, a)
    BY <1>1, <1>2, DeleteFromVectorRows
  <2>2. QED
    BY <2>1 DEF Detached
<1>5. Len(h) \in Nat /\ DOMAIN h = 1 .. Len(h) /\ \A x \in DOMAIN h : Range(h[x].children) \subseteq DOMAIN h
  BY <1>1, HeapFacts
<1> HIDE DEF h1, gone
<1>6. h1 \in [1 .. Len(h) -> EntryRecord]
  <2>1. h1 \in Seq(EntryRecord) /\ DOMAIN h1 = 1 .. Len(h)
    BY <1>4, <1>5 DEF SameEntries
  <2>2. QED
    BY <1>5, <2>1, LenProperties
<1>7. ASSUME NEW x \in DOMAIN h
      PROVE  /\ g[x] \in EntryRecord /\ g[x].frn = h[x].frn /\ g[x].dir = h[x].dir
             /\ g[x].parent = h[x].parent /\ g[x].live = (h[x].live /\ x \notin gone)
             /\ g[x].name = h[x].name
             /\ g[x].children = IF x \in gone THEN <<>> ELSE h1[x].children
  <2>1. h1[x] \in EntryRecord /\ h1[x].live \in BOOLEAN /\ <<>> \in Seq(Nat)
    BY <1>5, <1>6 DEF EntryRecord
  <2>2. g[x] = IF x \in gone THEN [h1[x] EXCEPT !.live = FALSE, !.children = <<>>] ELSE h1[x]
    BY <1>5, <1>6
  <2> HIDE DEF g
  <2>6. /\ h1[x].frn = h[x].frn /\ h1[x].dir = h[x].dir /\ h1[x].live = h[x].live
        /\ h1[x].parent = h[x].parent /\ h1[x].name = h[x].name
    BY <1>4 DEF SameEntries
  <2>3. CASE x \in gone
    <3>1. g[x] = [h1[x] EXCEPT !.live = FALSE, !.children = <<>>]
      BY <2>2, <2>3
    <3>2. /\ g[x] \in EntryRecord /\ g[x].frn = h1[x].frn /\ g[x].dir = h1[x].dir
          /\ g[x].parent = h1[x].parent /\ g[x].live = FALSE /\ g[x].children = <<>>
          /\ g[x].name = h1[x].name
      BY <2>1, <3>1 DEF EntryRecord
    <3>3. QED
      BY <2>3, <2>6, <3>2
  <2>4. CASE x \notin gone
    BY <1>4, <2>1, <2>2, <2>4 DEF EntryRecord, SameEntries
  <2>5. QED
    BY <2>3, <2>4
<1>8. g \in Seq(EntryRecord) /\ DOMAIN g = DOMAIN h
  <2>1. g \in [1 .. Len(h) -> EntryRecord]
    BY <1>5, <1>6, <1>7
  <2>2. QED
    BY <1>5, <2>1, SeqOfFunction
<1> HIDE DEF g
<1>9. Range(<<>>) = {} /\ IsInjective(<<>>)
  BY DEF Range, IsInjective
<1>10. ASSUME NEW x \in DOMAIN h
       PROVE  Range(g[x].children) \subseteq Range(h[x].children) /\ a \notin Range(h1[x].children) \cap {c \in DOMAIN h : h[x].live}
  <2>1. x # p /\ h[x].live => a \notin Range(h[x].children)
    BY <1>1, <1>2 DEF WellFormed
  <2>2. CASE x = p
    BY <1>4, <1>7, <1>9, <2>2
  <2>3. CASE x # p
    BY <1>4, <1>7, <1>9, <2>1, <2>3
  <2>4. QED
    BY <2>2, <2>3
<1>11. Typed(g)
  <2>1. ASSUME NEW x \in DOMAIN h
        PROVE  /\ g[x].parent \in DOMAIN h \cup {NULL}
               /\ g[x].dir = (g[x].frn \in Dirs) /\ Range(g[x].children) \subseteq DOMAIN h
    <3>1. Range(g[x].children) \subseteq Range(h[x].children) /\ Range(h[x].children) \subseteq DOMAIN h
      BY <1>5, <1>10
    <3>2. h[x].parent \in DOMAIN h \cup {NULL} /\ h[x].dir = (h[x].frn \in Dirs)
      BY <1>1 DEF Typed
    <3>3. QED
      BY <1>7, <3>1, <3>2
  <2>2. QED
    BY <1>8, <2>1 DEF Typed
<1>12. NoSelfParent(g)
  BY <1>1, <1>7, <1>8 DEF NoSelfParent
<1>13. WellFormed(g)
  <2> SUFFICES ASSUME NEW x \in DOMAIN h, g[x].live
               PROVE  /\ IsInjective(g[x].children)
                      /\ \A c \in Range(g[x].children) : g[c].live /\ g[c].parent = x
    BY <1>8 DEF WellFormed
  <2>1. h[x].live /\ x \notin gone /\ g[x].children = h1[x].children /\ x \in LiveEntries(h) \ gone
    BY <1>7 DEF LiveEntries
  <2>2. IsInjective(g[x].children)
    BY <1>1, <1>4, <2>1 DEF WellFormed
  <2>3. ASSUME NEW c \in Range(g[x].children)
        PROVE  g[c].live /\ g[c].parent = x
    <3>1. c \in Range(h[x].children) /\ c \in DOMAIN h /\ c # a
      BY <1>5, <1>10, <2>1, <2>3
    <3>2. h[c].live /\ h[c].parent = x /\ c \notin gone
      BY <1>1, <1>3, <2>1, <3>1 DEF WellFormed
    <3>3. QED
      BY <1>7, <3>1, <3>2
  <2>4. QED
    BY <2>2, <2>3
<1>14. LiveEntries(g) = LiveEntries(h) \ gone /\ SameNumbers(h, g)
  BY <1>7, <1>8 DEF LiveEntries, SameNumbers
<1>15. Deleted(h, g, a)
  <2>1. ASSUME NEW x \in LiveEntries(h) \ gone
        PROVE  Range(g[x].children) = Range(h[x].children) \ {a}
    <3>1. x \in DOMAIN h /\ h[x].live /\ g[x].children = h1[x].children
      BY <1>7, <2>1 DEF LiveEntries
    <3>2. CASE x = p
      BY <1>4, <3>1, <3>2
    <3>3. CASE x # p
      <4>1. a \notin Range(h[x].children)
        BY <1>1, <1>2, <3>1, <3>3 DEF WellFormed
      <4>2. QED
        BY <1>4, <3>1, <3>3, <4>1
    <3>4. QED
      BY <3>2, <3>3
  <2>2. QED
    BY <1>7, <1>8, <2>1 DEF Deleted, gone
<1>16. QED
  <2>1. g = DeletedHeap(h, p, a)
    BY DEF DeletedHeap, g, gone, h1
  <2>2. QED
    BY <1>3, <1>11, <1>12, <1>13, <1>14, <1>15, <2>1 DEF Sound, gone

-----------------------------------------------------------------------------
(* The inductive invariant.                                                *)

\* No record names a file as its own directory.
RecordType == {r \in [frn : Frn, pfrn : Dirs, name : Name, reason : SUBSET Reason] : r.pfrn # r.frn}

\* A file that is on the volume has a name in a directory other than itself, and a file
\* that is open is on the volume: so a record CloseFile writes names a directory.
Volumes ==
  /\ disk \in [Drive -> [Frn -> [exists : BOOLEAN, parent : Dirs \cup {0}, name : Name \cup {0},
                                 renamedByMove : BOOLEAN]]]
  /\ pending \in [Drive -> [Frn -> SUBSET (Reason \ {"rename_old", "close"})]]
  /\ ops \in Nat
  /\ \A i \in Drive, f \in Frn :
       /\ disk[i][f].exists => disk[i][f].parent \in Dirs \ {f} /\ disk[i][f].name \in Name
       /\ pending[i][f] # {} => disk[i][f].exists

Journals == journal \in [Drive -> Seq(RecordType)]

OldType == old \in [frn : Frn \cup {0}, pfrn : Dirs \cup {0}, i : Drive \cup {0}]

\* What DirMaps holds for a number, live or freed, is an entry with that number.  With
\* RecordType it keeps moveFile from making an entry its own parent, which renameFile
\* could not survive.
MapNumbers ==
  /\ DirMaps \in [Drive -> [Dirs -> DOMAIN heap \cup {NULL}]]
  /\ \A i \in Drive, k \in Dirs : DirMaps[i][k] # NULL => heap[DirMaps[i][k]].frn = k

\* Unless the threads of several volumes have changed it at once, ALL_FILE_COUNT is the
\* number of entries that are not freed.
CountIsLive ==
  \/ ALL_FILE_COUNT = Cardinality(LiveEntries(heap))
  \/ ALL_FILE_COUNT = Raced /\ Cardinality(Drive) > 1

IndexInv == Sound(heap) /\ MapNumbers /\ CountIsLive /\ fault \in {"none", "freed", "null", "assert"}

NtfsInv == Volumes /\ Journals /\ OldType /\ IndexInv

LEMMA LiveIsFinite ==
  ASSUME NEW h, Typed(h)
  PROVE  IsFiniteSet(LiveEntries(h)) /\ Cardinality(LiveEntries(h)) \in Nat
<1>1. IsFiniteSet(DOMAIN h)
  <2>1. Len(h) \in Nat /\ DOMAIN h = 1 .. Len(h)
    BY HeapFacts
  <2>2. IsFiniteSet(1 .. Len(h))
    BY <2>1, FS_Interval
  <2>3. QED
    BY <2>1, <2>2
<1>2. LiveEntries(h) \in SUBSET DOMAIN h
  BY DEF LiveEntries
<1>3. QED
  BY <1>1, <1>2, FS_Subset, FS_CardinalityType

LEMMA InvImpliesTypeOK == NtfsInv => TypeOK /\ TreeWellFormed
<1> SUFFICES ASSUME NtfsInv PROVE TypeOK /\ TreeWellFormed
  OBVIOUS
<1>1. Typed(heap) /\ WellFormed(heap)
  BY DEF NtfsInv, IndexInv, Sound
<1>2. ALL_FILE_COUNT \in Nat \cup {Raced}
  BY <1>1, LiveIsFinite DEF NtfsInv, IndexInv, CountIsLive
<1>3. journal \in [Drive -> Seq([frn : Frn, pfrn : Dirs, name : Name, reason : SUBSET Reason])]
  <2>1. RecordType \subseteq [frn : Frn, pfrn : Dirs, name : Name, reason : SUBSET Reason]
    BY DEF RecordType
  <2>2. Seq(RecordType) \subseteq Seq([frn : Frn, pfrn : Dirs, name : Name, reason : SUBSET Reason])
    BY <2>1, SeqMonotonic
  <2>3. QED
    BY <2>2 DEF NtfsInv, Journals
<1>4. TypeOK
  BY <1>1, <1>2, <1>3 DEF NtfsInv, IndexInv, Volumes, OldType, MapNumbers, Typed, TypeOK
<1>5. QED
  BY <1>1, <1>4 DEF WellFormed, TreeWellFormed

LEMMA InitNtfsInv == Init => NtfsInv
<1> SUFFICES ASSUME Init PROVE NtfsInv
  OBVIOUS
<1> DEFINE n == Cardinality(Drive)
           root == [frn |-> ROOT_NUMBER, parent |-> NULL, name |-> 0, dir |-> TRUE, children |-> <<>>, live |-> TRUE]
<1>1. n \in Nat /\ Drive = 1 .. n
  BY NtfsAssumption, FS_CardinalityType
<1>2. heap = [i \in 1 .. n |-> root] /\ DOMAIN heap = 1 .. n
  BY DEF Init
<1>3. root \in EntryRecord /\ root.dir = (root.frn \in Dirs) /\ Range(root.children) = {} /\ IsInjective(root.children)
      /\ root.live /\ root.parent = NULL /\ root.frn = ROOT_NUMBER
  <2>1. <<>> \in Seq(Nat) /\ Range(<<>>) = {} /\ IsInjective(<<>>)
    BY DEF Range, IsInjective
  <2>2. QED
    BY <2>1 DEF EntryRecord, Dirs, NULL
<1> HIDE DEF n, root
<1>4. heap \in Seq(EntryRecord)
  <2>1. heap \in [1 .. n -> EntryRecord]
    BY <1>2, <1>3
  <2>2. QED
    BY <1>1, <2>1, SeqOfFunction
<1>5. Sound(heap)
  <2>1. Typed(heap)
    BY <1>1, <1>2, <1>3, <1>4 DEF Typed
  <2>2. WellFormed(heap)
    BY <1>2, <1>3 DEF WellFormed
  <2>3. NoSelfParent(heap)
    BY <1>1, <1>2, <1>3 DEF NoSelfParent, NULL
  <2>4. QED
    BY <2>1, <2>2, <2>3 DEF Sound
<1>6. MapNumbers
  BY <1>1, <1>2, <1>3 DEF Init, MapNumbers, g_rootVols
<1>7. CountIsLive
  <2>1. LiveEntries(heap) = Drive
    BY <1>1, <1>2, <1>3 DEF LiveEntries
  <2>2. QED
    BY <2>1 DEF Init, CountIsLive
<1>8. IndexInv
  BY <1>5, <1>6, <1>7 DEF Init, IndexInv
<1>9. Volumes
  BY DEF Init, Volumes, Absent
<1>10. Journals /\ OldType
  BY DEF Init, Journals, OldType
<1>11. QED
  BY <1>8, <1>9, <1>10 DEF NtfsInv

-----------------------------------------------------------------------------
(* The volumes.                                                            *)

LEMMA IndexUnchanged == IndexInv /\ UNCHANGED indexVars => IndexInv'
<1>1. QED
  BY DEF IndexInv, indexVars, Sound, Typed, WellFormed, NoSelfParent, MapNumbers, CountIsLive, LiveEntries

\* A record is written at the end of a journal.
LEMMA RecordWritten ==
  ASSUME Journals, NEW i \in Drive, NEW s \in Seq(RecordType),
         journal' = [journal EXCEPT ![i] = journal[i] \o s]
  PROVE  Journals'
<1>1. journal[i] \o s \in Seq(RecordType)
  BY ConcatProperties DEF Journals
<1>2. QED
  BY <1>1 DEF Journals

\* The type and the places of one file change, the others stay as they are.
LEMMA FileChanged ==
  ASSUME Volumes, NEW i \in Drive, NEW f \in Frn,
         NEW e \in [exists : BOOLEAN, parent : Dirs \cup {0}, name : Name \cup {0}, renamedByMove : BOOLEAN],
         NEW w \in SUBSET (Reason \ {"rename_old", "close"}),
         e.exists => e.parent \in Dirs \ {f} /\ e.name \in Name, w # {} => e.exists,
         disk' = [disk EXCEPT ![i] = [disk[i] EXCEPT ![f] = e]],
         pending' = [pending EXCEPT ![i] = [pending[i] EXCEPT ![f] = w]], ops' \in Nat
  PROVE  Volumes'
<1> DEFINE FileType == [exists : BOOLEAN, parent : Dirs \cup {0}, name : Name \cup {0}, renamedByMove : BOOLEAN]
           Open == SUBSET (Reason \ {"rename_old", "close"})
<1>1. disk \in [Drive -> [Frn -> FileType]] /\ pending \in [Drive -> [Frn -> Open]]
  BY DEF Volumes
<1> HIDE DEF FileType, Open
<1>2. disk' \in [Drive -> [Frn -> FileType]] /\ pending' \in [Drive -> [Frn -> Open]]
  BY <1>1 DEF FileType, Open
<1>3. \A j \in Drive, g \in Frn : /\ disk'[j][g] = IF j = i /\ g = f THEN e ELSE disk[j][g]
                                  /\ pending'[j][g] = IF j = i /\ g = f THEN w ELSE pending[j][g]
  BY <1>1
<1>4. \A j \in Drive, g \in Frn :
        /\ disk'[j][g].exists => disk'[j][g].parent \in Dirs \ {g} /\ disk'[j][g].name \in Name
        /\ pending'[j][g] # {} => disk'[j][g].exists
  BY <1>3 DEF Volumes
<1>5. QED
  BY <1>2, <1>4 DEF Volumes, FileType, Open

LEMMA FileFacts ==
  ASSUME Volumes, NEW i \in Drive, NEW f \in Frn
  PROVE  /\ disk[i][f].exists => disk[i][f].parent \in Dirs \ {f} /\ disk[i][f].name \in Name
         /\ disk[i][f].exists \in BOOLEAN /\ disk[i][f].renamedByMove \in BOOLEAN
         /\ disk[i][f] \in [exists : BOOLEAN, parent : Dirs \cup {0}, name : Name \cup {0}, renamedByMove : BOOLEAN]
         /\ pending[i][f] \in SUBSET (Reason \ {"rename_old", "close"})
         /\ pending[i][f] # {} => disk[i][f].exists
         /\ DOMAIN disk = Drive /\ DOMAIN disk[i] = Frn /\ DOMAIN pending = Drive /\ DOMAIN pending[i] = Frn
<1>1. disk[i] \in [Frn -> [exists : BOOLEAN, parent : Dirs \cup {0}, name : Name \cup {0}, renamedByMove : BOOLEAN]]
  BY DEF Volumes
<1>2. pending[i] \in [Frn -> SUBSET (Reason \ {"rename_old", "close"})]
  BY DEF Volumes
<1>3. DOMAIN disk = Drive /\ DOMAIN pending = Drive
  BY DEF Volumes
<1>4. /\ disk[i][f].exists => disk[i][f].parent \in Dirs \ {f} /\ disk[i][f].name \in Name
      /\ pending[i][f] # {} => disk[i][f].exists
  BY DEF Volumes
<1>5. QED
  BY <1>1, <1>2, <1>3, <1>4

LEMMA RecordOf ==
  ASSUME NEW f \in Frn, NEW p \in Dirs \ {f}, NEW n \in Name, NEW reason \in SUBSET Reason
  PROVE  USN_RECORD(f, p, n, reason) \in RecordType
<1>1. QED
  BY DEF USN_RECORD, RecordType

LEMMA OneRecord ==
  ASSUME NEW s \in Seq(RecordType), NEW r \in RecordType
  PROVE  Append(s, r) = s \o <<r>> /\ <<r>> \in Seq(RecordType)
<1>1. Append(s, r) = s \o <<r>>
  BY AppendIsConcat
<1>2. <<r>> \in Seq(RecordType)
  OBVIOUS
<1>3. QED
  BY <1>1, <1>2

LEMMA CreateFileInv ==
  ASSUME NtfsInv, NEW i \in Drive, NEW f \in Frn, NEW p \in Dirs, NEW n \in Name, CreateFile(i, f, p, n)
  PROVE  NtfsInv'
<1> DEFINE e == [exists |-> TRUE, parent |-> p, name |-> n, renamedByMove |-> FALSE]
<1>1. MayChange(i) /\ ~disk[i][f].exists /\ DirExists(i, p)
  BY DEF CreateFile
<1>2. p # f
  BY <1>1, NtfsAssumption DEF DirExists, Frn
<1>3. /\ disk' = [disk EXCEPT ![i] = [disk[i] EXCEPT ![f] = e]]
      /\ pending' = [pending EXCEPT ![i] = [pending[i] EXCEPT ![f] = {"create"}]]
      /\ journal' = [journal EXCEPT ![i] = Append(journal[i], USN_RECORD(f, p, n, {"create"}))]
  BY DEF CreateFile
<1>4. /\ e \in [exists : BOOLEAN, parent : Dirs \cup {0}, name : Name \cup {0}, renamedByMove : BOOLEAN]
      /\ e.parent = p /\ e.name = n /\ e.exists /\ {"create"} \in SUBSET (Reason \ {"rename_old", "close"})
  BY DEF Reason
<1> HIDE DEF e
<1>5. ops' \in Nat
  BY <1>1 DEF MayChange, NtfsInv, Volumes
<1>6. Volumes'
  BY <1>2, <1>3, <1>4, <1>5, FileChanged DEF NtfsInv
<1>7. Journals'
  <2>1. USN_RECORD(f, p, n, {"create"}) \in RecordType
    BY <1>2, RecordOf DEF Reason
  <2>2. journal[i] \in Seq(RecordType)
    BY DEF NtfsInv, Journals
  <2>3. QED
    BY <1>3, <2>1, <2>2, OneRecord, RecordWritten DEF NtfsInv
<1>8. QED
  BY <1>1, <1>6, <1>7, IndexUnchanged DEF MayChange, NtfsInv, OldType

LEMMA RenameFileInv ==
  ASSUME NtfsInv, NEW i \in Drive, NEW f \in Frn, NEW p \in Dirs, NEW n \in Name, RenameFile(i, f, p, n)
  PROVE  NtfsInv'
<1> DEFINE d == disk[i][f]
           e == [exists |-> TRUE, parent |-> p, name |-> n,
                 renamedByMove |-> p # d.parent /\ (d.renamedByMove \/ n # d.name)]
           w == pending[i][f] \cup {"rename_new"}
           r1 == USN_RECORD(f, d.parent, d.name, (pending[i][f] \ {"rename_new"}) \cup {"rename_old"})
           r2 == USN_RECORD(f, p, n, pending[i][f] \cup {"rename_new"})
<1>1. MayChange(i) /\ d.exists /\ p \notin Inside(i, f)
  BY DEF RenameFile
<1>2. p # f
  BY <1>1 DEF Inside
<1>3. /\ disk' = [disk EXCEPT ![i] = [disk[i] EXCEPT ![f] = e]]
      /\ pending' = [pending EXCEPT ![i] = [pending[i] EXCEPT ![f] = w]]
      /\ journal' = [journal EXCEPT ![i] = journal[i] \o <<r1, r2>>]
  BY DEF RenameFile
<1>4. d.parent \in Dirs \ {f} /\ d.name \in Name /\ pending[i][f] \in SUBSET (Reason \ {"rename_old", "close"})
  BY <1>1, FileFacts DEF NtfsInv
<1>5. /\ e \in [exists : BOOLEAN, parent : Dirs \cup {0}, name : Name \cup {0}, renamedByMove : BOOLEAN]
      /\ e.parent = p /\ e.name = n /\ e.exists
  <2>1. (p # d.parent /\ (d.renamedByMove \/ n # d.name)) \in BOOLEAN
    OBVIOUS
  <2>2. QED
    BY <2>1
<1>6. w \in SUBSET (Reason \ {"rename_old", "close"})
  BY <1>4 DEF Reason
<1>7. r1 \in RecordType /\ r2 \in RecordType
  BY <1>2, <1>4, RecordOf DEF Reason
<1> HIDE DEF e, w, r1, r2
<1>8. ops' \in Nat
  BY <1>1 DEF MayChange, NtfsInv, Volumes
<1>9. Volumes'
  BY <1>2, <1>3, <1>5, <1>6, <1>8, FileChanged DEF NtfsInv
<1>10. Journals'
  <2>1. <<r1, r2>> \in Seq(RecordType)
    BY <1>7
  <2>2. QED
    BY <1>3, <2>1, RecordWritten DEF NtfsInv
<1>11. QED
  BY <1>1, <1>9, <1>10, IndexUnchanged DEF MayChange, NtfsInv, OldType

LEMMA DeleteFileInv ==
  ASSUME NtfsInv, NEW i \in Drive, NEW f \in Frn, DeleteFile(i, f)
  PROVE  NtfsInv'
<1> DEFINE w == pending[i][f] \cup {"delete"}
<1>1. MayChange(i) /\ disk[i][f].exists /\ disk' = disk /\ journal' = journal
  BY DEF DeleteFile
<1>2. pending' = [pending EXCEPT ![i] = [pending[i] EXCEPT ![f] = w]]
  BY DEF DeleteFile
<1>3. w \in SUBSET (Reason \ {"rename_old", "close"})
  BY FileFacts DEF NtfsInv, Reason
<1>4. /\ disk[i][f] \in [exists : BOOLEAN, parent : Dirs \cup {0}, name : Name \cup {0}, renamedByMove : BOOLEAN]
      /\ disk[i][f].exists => disk[i][f].parent \in Dirs \ {f} /\ disk[i][f].name \in Name
  BY FileFacts DEF NtfsInv
<1>5. disk' = [disk EXCEPT ![i] = [disk[i] EXCEPT ![f] = disk[i][f]]]
  BY <1>1 DEF NtfsInv, Volumes
<1> HIDE DEF w
<1>6. ops' \in Nat
  BY <1>1 DEF MayChange, NtfsInv, Volumes
<1>7. Volumes'
  BY <1>1, <1>2, <1>3, <1>4, <1>5, <1>6, FileChanged DEF NtfsInv
<1>8. QED
  BY <1>1, <1>7, IndexUnchanged DEF MayChange, NtfsInv, OldType, Journals

LEMMA CloseFileInv ==
  ASSUME NtfsInv, NEW i \in Drive, NEW f \in Frn, CloseFile(i, f)
  PROVE  NtfsInv'
<1> DEFINE d == disk[i][f]
           e == IF "delete" \in pending[i][f] THEN Absent ELSE d
           r == USN_RECORD(f, d.parent, d.name, pending[i][f] \cup {"close"})
<1>1. /\ pending[i][f] # {} /\ UNCHANGED <<ops, indexVars, old>>
      /\ pending' = [pending EXCEPT ![i] = [pending[i] EXCEPT ![f] = {}]]
      /\ journal' = [journal EXCEPT ![i] = Append(journal[i], r)]
  BY DEF CloseFile
<1>2. /\ d.parent \in Dirs \ {f} /\ d.name \in Name /\ pending[i][f] \in SUBSET (Reason \ {"rename_old", "close"})
      /\ d \in [exists : BOOLEAN, parent : Dirs \cup {0}, name : Name \cup {0}, renamedByMove : BOOLEAN]
  BY <1>1, FileFacts DEF NtfsInv
<1>3. disk' = [disk EXCEPT ![i] = [disk[i] EXCEPT ![f] = e]]
  <2>1. disk = [disk EXCEPT ![i] = [disk[i] EXCEPT ![f] = d]]
    BY DEF NtfsInv, Volumes
  <2>2. disk' = IF "delete" \in pending[i][f] THEN [disk EXCEPT ![i] = [disk[i] EXCEPT ![f] = Absent]] ELSE disk
    BY DEF CloseFile
  <2>3. QED
    BY <2>1, <2>2
<1>4. /\ e \in [exists : BOOLEAN, parent : Dirs \cup {0}, name : Name \cup {0}, renamedByMove : BOOLEAN]
      /\ e.exists => e.parent \in Dirs \ {f} /\ e.name \in Name
  BY <1>2 DEF Absent
<1>5. r \in RecordType
  BY <1>2, RecordOf DEF Reason
<1> HIDE DEF e, r
<1>6. {} \in SUBSET (Reason \ {"rename_old", "close"}) /\ ops' \in Nat
  BY <1>1 DEF NtfsInv, Volumes
<1>7. Volumes'
  BY <1>1, <1>3, <1>4, <1>6, FileChanged DEF NtfsInv
<1>8. Journals'
  <2>1. journal[i] \in Seq(RecordType)
    BY DEF NtfsInv, Journals
  <2>2. QED
    BY <1>1, <1>5, <2>1, OneRecord, RecordWritten DEF NtfsInv
<1>9. QED
  BY <1>1, <1>7, <1>8, IndexUnchanged DEF NtfsInv, OldType

-----------------------------------------------------------------------------
(* updateFileEntry.                                                        *)

LEMMA ReadRecordInv ==
  ASSUME NtfsInv, NEW i \in Drive, NEW branch, ReadRecord(i, branch)
  PROVE  /\ Volumes' /\ Journals'
         /\ Head(journal[i]).frn \in Frn /\ Head(journal[i]).name \in Name
         /\ Head(journal[i]).pfrn \in Dirs \ {Head(journal[i]).frn}
<1>1. journal[i] \in Seq(RecordType) /\ journal[i] # <<>>
  BY DEF ReadRecord, NtfsInv, Journals
<1>2. Head(journal[i]) \in RecordType /\ Tail(journal[i]) \in Seq(RecordType)
  BY <1>1, HeadTailProperties
<1>3. Journals'
  BY <1>2 DEF ReadRecord, NtfsInv, Journals
<1>4. Volumes'
  BY DEF ReadRecord, NtfsInv, Volumes, volumeVars
<1>5. QED
  BY <1>2, <1>3, <1>4 DEF RecordType

\* What findFile returns, when it does not run into freed memory, is an entry of its
\* directory with the number that was asked for.
LEMMA FindFileFinds ==
  ASSUME IndexInv, NEW i \in Drive, NEW k, NEW p, ~FindFaults(p, i), findFile(k, p, i) # NULL
  PROVE  /\ Found(heap, heap[findFile(k, p, i)].parent, findFile(k, p, i))
         /\ heap[findFile(k, p, i)].frn = k
<1> DEFINE d == findDir(p, i)
           n == FirstChild(heap, d, k)
<1>1. d # NULL /\ findFile(k, p, i) = ChildOf(d, k)
  BY DEF findFile
<1>2. p \in Dirs /\ d = DirMaps[i][p]
  BY <1>1 DEF findDir
<1>3. d \in DOMAIN heap /\ Typed(heap) /\ Sound(heap)
  BY <1>1, <1>2 DEF IndexInv, MapNumbers, Sound
<1>4. heap[d].live
  BY <1>1 DEF FindFaults, Freed
<1> HIDE DEF d
<1>5. n # 0 /\ findFile(k, p, i) = heap[d].children[n]
  BY <1>1 DEF ChildOf
<1>6. Found(heap, d, heap[d].children[n]) /\ heap[heap[d].children[n]].frn = k
  BY <1>3, <1>4, <1>5, LookupFinds
<1>7. heap[heap[d].children[n]].parent = d
  BY <1>3, <1>6, FoundFacts
<1>8. QED
  BY <1>5, <1>6, <1>7

\* A step that leaves DirMaps alone.
LEMMA HeapChanged ==
  ASSUME IndexInv, Sound(heap'), SameNumbers(heap, heap'), UNCHANGED <<DirMaps, fault>>, CountIsLive'
  PROVE  IndexInv'
<1>1. MapNumbers'
  BY DEF IndexInv, MapNumbers, SameNumbers
<1>2. QED
  BY <1>1 DEF IndexInv

LEMMA FailInv ==
  ASSUME IndexInv, NEW why \in {"freed", "null", "assert"}, Fail(why)
  PROVE  IndexInv'
<1>1. QED
  BY DEF Fail, IndexInv, Sound, Typed, WellFormed, NoSelfParent, MapNumbers, CountIsLive, LiveEntries

LEMMA OnCreateInv ==
  ASSUME NtfsInv, NEW i \in Drive, OnCreate(i)
  PROVE  NtfsInv'
<1> DEFINE r == Head(journal[i])
           a == Len(heap) + 1
           e == [frn |-> r.frn, parent |-> NULL, name |-> r.name, dir |-> r.frn \in DirFrn,
                 children |-> <<>>, live |-> TRUE]
           map == IF e.dir THEN [DirMaps EXCEPT ![i] = [DirMaps[i] EXCEPT ![r.frn] = a]] ELSE DirMaps
           p == map[i][r.pfrn]
<1>1. /\ ReadRecord(i, "create") /\ old' = old /\ IndexInv
      /\ IF Freed(p) THEN Fail("freed")
         ELSE /\ heap' = IF p = NULL THEN Append(heap, e) ELSE addChildren(Append(heap, e), p, a)
              /\ DirMaps' = map /\ Counts(1) /\ UNCHANGED fault
  BY DEF OnCreate, genFileEntryOne, NtfsInv
<1>2. r.frn \in Frn /\ r.name \in Name /\ r.pfrn \in Dirs /\ r.pfrn # r.frn /\ Volumes' /\ Journals'
  BY <1>1, ReadRecordInv
<1>3. /\ Sound(heap) /\ Typed(heap) /\ MapNumbers /\ CountIsLive
      /\ DOMAIN heap = 1 .. Len(heap) /\ Len(heap) \in Nat
  BY <1>1, HeapFacts DEF IndexInv, Sound
<1> HIDE DEF r
<1>4. /\ e \in EntryRecord /\ e.parent = NULL /\ e.dir = (e.frn \in Dirs) /\ e.children = <<>> /\ e.live
      /\ e.frn = r.frn
  <2>1. (r.frn \in DirFrn) = (r.frn \in Dirs)
    <3>1. r.frn # ROOT_NUMBER
      BY <1>2, NtfsAssumption
    <3>2. QED
      BY <3>1 DEF Dirs
  <2>2. (r.frn \in DirFrn) \in BOOLEAN /\ <<>> \in Seq(Nat)
    OBVIOUS
  <2>3. QED
    BY <1>2, <2>1, <2>2 DEF EntryRecord, NULL
<1>5. e.dir => r.frn \in Dirs
  BY <1>4
<1>6. p = DirMaps[i][r.pfrn] /\ p \in DOMAIN heap \cup {NULL}
  BY <1>2, <1>3, <1>5 DEF MapNumbers
<1>7. /\ map \in [Drive -> [Dirs -> DOMAIN heap \cup {a, NULL}]]
      /\ \A j \in Drive, k \in Dirs : map[j][k] = DirMaps[j][k] \/ (map[j][k] = a /\ k = r.frn)
  <2>1. DirMaps \in [Drive -> [Dirs -> DOMAIN heap \cup {a, NULL}]]
    BY <1>3 DEF MapNumbers
  <2>2. CASE e.dir
    BY <1>5, <2>1, <2>2
  <2>3. CASE ~e.dir
    BY <2>1, <2>3
  <2>4. QED
    BY <2>2, <2>3
<1> HIDE DEF e, p, map
<1>8. CASE Freed(p)
  <2>1. IndexInv'
    BY <1>1, <1>8, FailInv
  <2>2. QED
    BY <1>1, <1>2, <2>1 DEF NtfsInv, OldType
<1>9. CASE ~Freed(p)
  <2>1. /\ Sound(heap') /\ SameNumbers(heap, heap') /\ DOMAIN heap' = 1 .. a /\ heap'[a].frn = r.frn
        /\ LiveEntries(heap') = LiveEntries(heap) \cup {a}
    <3>1. CASE p = NULL
      BY <1>1, <1>3, <1>4, <1>9, <3>1, NewEntrySound, ZenonT(30)
    <3>2. CASE p # NULL
      <4>1. p \in DOMAIN heap /\ heap[p].live
        BY <1>6, <1>9, <3>2 DEF Freed
      <4>2. QED
        BY <1>1, <1>3, <1>4, <1>9, <3>2, <4>1, CreateSound
    <3>3. QED
      BY <3>1, <3>2
  <2>2. DirMaps' = map /\ Counts(1) /\ fault' = fault
    BY <1>1, <1>9
  <2>3. a \notin LiveEntries(heap)
    BY <1>3 DEF LiveEntries
  <2>4. CountIsLive'
    <3>1. Cardinality(LiveEntries(heap) \cup {a}) = Cardinality(LiveEntries(heap)) + 1
      BY <1>3, <2>3, LiveIsFinite, FS_AddElement
    <3>2. QED
      BY <1>3, <2>1, <2>2, <3>1 DEF CountIsLive, Counts
  <2>5. MapNumbers'
    <3>1. DOMAIN heap \cup {a, NULL} = DOMAIN heap' \cup {NULL}
      BY <1>3, <2>1
    <3>2. map \in [Drive -> [Dirs -> DOMAIN heap' \cup {NULL}]]
      BY <1>7, <3>1
    <3>3. ASSUME NEW j \in Drive, NEW k \in Dirs, map[j][k] # NULL
          PROVE  heap'[map[j][k]].frn = k
      <4>1. CASE map[j][k] = a /\ k = r.frn
        BY <2>1, <4>1
      <4>2. CASE map[j][k] = DirMaps[j][k]
        BY <1>3, <2>1, <3>3, <4>2 DEF MapNumbers, SameNumbers
      <4>3. QED
        BY <1>7, <4>1, <4>2
    <3>4. QED
      BY <2>2, <3>2, <3>3 DEF MapNumbers
  <2>6. IndexInv'
    BY <1>1, <2>1, <2>2, <2>4, <2>5 DEF IndexInv
  <2>7. QED
    BY <1>1, <1>2, <2>6 DEF NtfsInv, OldType
<1>10. QED
  BY <1>8, <1>9

LEMMA OnRenameNewInv ==
  ASSUME NtfsInv, NEW i \in Drive, OnRenameNew(i)
  PROVE  NtfsInv'
<1> DEFINE r == Head(journal[i])
           sameDir == old.pfrn = r.pfrn /\ old.i = i
           file == IF old.i \in Drive THEN findFile(old.frn, old.pfrn, old.i) ELSE NULL
           pnew == findDir(r.pfrn, i)
           p == heap[file].parent
<1>1. /\ ReadRecord(i, "rename_new") /\ old' = old /\ IndexInv
      /\ IF FindFaults(old.pfrn, old.i) THEN Fail("freed")
         ELSE IF sameDir THEN IF file = NULL THEN Ignore ELSE renameFile(file, r.name)
         ELSE IF file = NULL THEN Fail("null")
         ELSE IF heap[file].frn # r.frn THEN Fail("assert")
         ELSE IF pnew = NULL THEN Ignore
         ELSE IF Freed(pnew) THEN Fail("freed")
         ELSE moveFile(file, pnew)
  BY DEF OnRenameNew, NtfsInv
<1>2. r.frn \in Frn /\ r.name \in Name /\ r.pfrn \in Dirs /\ r.pfrn # r.frn /\ Volumes' /\ Journals'
  BY <1>1, ReadRecordInv
<1>3. Sound(heap) /\ MapNumbers /\ CountIsLive /\ Typed(heap)
  BY <1>1 DEF IndexInv, Sound
<1>4. file # NULL /\ ~FindFaults(old.pfrn, old.i) => Found(heap, p, file)
  BY <1>1, FindFileFinds
<1>5. pnew = DirMaps[i][r.pfrn]
  BY <1>2 DEF findDir
<1> HIDE DEF r, file, pnew, sameDir
<1>6. ASSUME NEW why \in {"freed", "null", "assert"}, Fail(why) PROVE IndexInv'
  BY <1>1, <1>6, FailInv
<1>7. ASSUME Ignore PROVE IndexInv'
  BY <1>1, <1>7, IndexUnchanged DEF Ignore
<1>8. ASSUME file # NULL, ~FindFaults(old.pfrn, old.i), renameFile(file, r.name)
      PROVE  IndexInv'
  <2>1. Found(heap, p, file)
    BY <1>4, <1>8
  <2> DEFINE g == RenamedHeap(heap, p, file, r.name)
  <2>2. heap' = g /\ UNCHANGED <<DirMaps, ALL_FILE_COUNT, fault>>
    BY <1>8 DEF renameFile, RenamedHeap
  <2>3. /\ Sound(g) /\ SameNumbers(heap, g)
        /\ LiveEntries(g) = (LiveEntries(heap) \ {file}) \cup {Len(heap) + 1}
    BY <1>2, <1>3, <2>1, RenameSound
  <2> HIDE DEF g
  <2>4. file \in LiveEntries(heap) /\ Len(heap) + 1 \notin LiveEntries(heap)
    <3>1. DOMAIN heap = 1 .. Len(heap) /\ Len(heap) \in Nat
      BY <1>3, HeapFacts
    <3>2. file \in DOMAIN heap /\ heap[file].live
      BY <1>3, <2>1, FoundFacts DEF Found
    <3>3. QED
      BY <3>1, <3>2 DEF LiveEntries
  <2>5. Cardinality(LiveEntries(g)) = Cardinality(LiveEntries(heap))
    <3>1. /\ IsFiniteSet(LiveEntries(heap) \ {file})
          /\ Cardinality(LiveEntries(heap) \ {file}) = Cardinality(LiveEntries(heap)) - 1
      BY <1>3, <2>4, LiveIsFinite, FS_RemoveElement
    <3>2. Cardinality((LiveEntries(heap) \ {file}) \cup {Len(heap) + 1}) = Cardinality(LiveEntries(heap) \ {file}) + 1
      BY <2>4, <3>1, FS_AddElement
    <3>3. QED
      BY <1>3, <2>3, <3>1, <3>2, LiveIsFinite
  <2>6. CountIsLive'
    BY <1>3, <2>2, <2>5 DEF CountIsLive
  <2>7. QED
    BY <1>1, <2>2, <2>3, <2>6, HeapChanged
<1>9. ASSUME file # NULL, ~FindFaults(old.pfrn, old.i), heap[file].frn = r.frn,
             pnew # NULL, ~Freed(pnew), moveFile(file, pnew)
      PROVE  IndexInv'
  <2>1. Found(heap, p, file)
    BY <1>4, <1>9
  <2> DEFINE g == addChildren(delete_file_from_parent_vector(heap, file, p), pnew, file)
  <2>2. heap' = g /\ UNCHANGED <<DirMaps, ALL_FILE_COUNT, fault>>
    BY <1>9 DEF moveFile
  <2>3. pnew \in DOMAIN heap /\ heap[pnew].live /\ pnew # file
    BY <1>2, <1>3, <1>5, <1>9 DEF MapNumbers, Freed
  <2>4. Sound(g) /\ SameEntries(heap, g)
    BY <1>3, <2>1, <2>3, MoveSound
  <2> HIDE DEF g
  <2>5. SameNumbers(heap, g) /\ LiveEntries(g) = LiveEntries(heap)
    BY <2>4 DEF SameEntries, SameNumbers, LiveEntries
  <2>6. CountIsLive'
    BY <1>3, <2>2, <2>5 DEF CountIsLive
  <2>7. QED
    BY <1>1, <2>2, <2>4, <2>5, <2>6, HeapChanged
<1>10. IndexInv'
  BY <1>1, <1>6, <1>7, <1>8, <1>9
<1>11. QED
  BY <1>1, <1>2, <1>10 DEF NtfsInv, OldType

LEMMA OnDeleteInv ==
  ASSUME NtfsInv, NEW i \in Drive, OnDelete(i)
  PROVE  NtfsInv'
<1> DEFINE r == Head(journal[i])
           file == findFile(r.frn, r.pfrn, i)
           p == heap[file].parent
<1>1. /\ ReadRecord(i, "delete") /\ old' = old /\ IndexInv
      /\ IF FindFaults(r.pfrn, i) THEN Fail("freed")
         ELSE IF file = NULL THEN Ignore ELSE deleteFile(file)
  BY DEF OnDelete, NtfsInv
<1>2. Volumes' /\ Journals'
  BY <1>1, ReadRecordInv
<1>3. Sound(heap) /\ MapNumbers /\ CountIsLive /\ Typed(heap)
  BY <1>1 DEF IndexInv, Sound
<1>4. file # NULL /\ ~FindFaults(r.pfrn, i) => Found(heap, p, file)
  BY <1>1, FindFileFinds
<1> HIDE DEF r, file
<1>5. ASSUME Fail("freed") PROVE IndexInv'
  BY <1>1, <1>5, FailInv
<1>6. ASSUME Ignore PROVE IndexInv'
  BY <1>1, <1>6, IndexUnchanged DEF Ignore
<1>7. ASSUME file # NULL, ~FindFaults(r.pfrn, i), deleteFile(file)
      PROVE  IndexInv'
  <2>1. Found(heap, p, file)
    BY <1>4, <1>7
  <2> DEFINE gone == Below(heap, file)
             g == DeletedHeap(heap, p, file)
  <2>2. /\ heap' = g /\ Counts(-Cardinality(gone))
        /\ UNCHANGED <<DirMaps, fault>>
    BY <1>7 DEF deleteFile, Subtree, DeletedHeap
  <2>3. /\ Sound(g) /\ SameNumbers(heap, g) /\ LiveEntries(g) = LiveEntries(heap) \ gone
        /\ gone \subseteq LiveEntries(heap)
    BY <1>3, <2>1, DeleteSound
  <2> HIDE DEF g, gone
  <2>4. Cardinality(LiveEntries(heap) \ gone) = Cardinality(LiveEntries(heap)) - Cardinality(gone)
    <3>1. LiveEntries(heap) \cap gone = gone
      BY <2>3
    <3>2. QED
      BY <1>3, <3>1, LiveIsFinite, FS_Difference
  <2>5. CountIsLive'
    <3>1. /\ Cardinality(LiveEntries(heap)) \in Nat /\ Cardinality(gone) \in Nat
          /\ Cardinality(LiveEntries(heap)) - Cardinality(gone)
               = Cardinality(LiveEntries(heap)) + (-Cardinality(gone))
      <4>1. IsFiniteSet(gone) /\ Cardinality(LiveEntries(heap)) \in Nat
        BY <1>3, <2>3, LiveIsFinite, FS_Subset
      <4>2. Cardinality(gone) \in Nat
        BY <4>1, FS_CardinalityType
      <4>3. QED
        BY <4>1, <4>2
    <3>2. QED
      BY <1>3, <2>2, <2>3, <2>4, <3>1 DEF CountIsLive, Counts
  <2>6. QED
    BY <1>1, <2>2, <2>3, <2>5, HeapChanged
<1>8. IndexInv'
  BY <1>1, <1>5, <1>6, <1>7
<1>9. QED
  BY <1>1, <1>2, <1>8 DEF NtfsInv, OldType

LEMMA OnOthersInv ==
  ASSUME NtfsInv, NEW i \in Drive, OnRenameOld(i) \/ OnOther(i)
  PROVE  NtfsInv'
<1>1. PICK branch \in {"rename_old", "other"} : ReadRecord(i, branch)
  BY DEF OnRenameOld, OnOther
<1>2. /\ Volumes' /\ Journals' /\ Head(journal[i]).frn \in Frn /\ Head(journal[i]).pfrn \in Dirs
  BY <1>1, ReadRecordInv
<1>3. UNCHANGED indexVars
  BY DEF OnRenameOld, OnOther, Ignore
<1>4. OldType'
  BY <1>2 DEF OnRenameOld, OnOther, NtfsInv, OldType
<1>5. QED
  BY <1>2, <1>3, <1>4, IndexUnchanged DEF NtfsInv

-----------------------------------------------------------------------------
LEMMA StepKeepsNtfsInv == NtfsInv /\ [Next]_vars => NtfsInv'
<1> SUFFICES ASSUME NtfsInv, [Next]_vars PROVE NtfsInv'
  OBVIOUS
<1>1. CASE UNCHANGED vars
  BY <1>1, IndexUnchanged DEF vars, indexVars, NtfsInv, Volumes, Journals, OldType
<1>2. ASSUME NEW i \in Drive, NEW f \in Frn, NEW p \in Dirs, NEW n \in Name,
             CreateFile(i, f, p, n) \/ RenameFile(i, f, p, n)
      PROVE  NtfsInv'
  BY <1>2, CreateFileInv, RenameFileInv
<1>3. ASSUME NEW i \in Drive, NEW f \in Frn, DeleteFile(i, f) \/ CloseFile(i, f)
      PROVE  NtfsInv'
  BY <1>3, DeleteFileInv, CloseFileInv
<1>4. ASSUME NEW i \in Drive, OnCreate(i) \/ OnRenameOld(i) \/ OnRenameNew(i) \/ OnDelete(i) \/ OnOther(i)
      PROVE  NtfsInv'
  BY <1>4, OnCreateInv, OnRenameNewInv, OnDeleteInv, OnOthersInv
<1>5. QED
  BY <1>1, <1>2, <1>3, <1>4 DEF Next

LEMMA NtfsInvariant == Spec => []NtfsInv
<1>1. QED
  BY InitNtfsInv, StepKeepsNtfsInv, PTL DEF Spec

(* The volumes, the journals, the entries in memory, the maps and the      *)
(* statics of updateFileEntry keep their types, with any number of monitor *)
(* threads.                                                                *)
THEOREM NtfsTypeCorrect == Spec => []TypeOK
<1>1. QED
  BY InvImpliesTypeOK, NtfsInvariant, PTL

(* Whatever the programs on the volumes do and however late the journals   *)
(* are read, no children vector holds a freed entry or one entry twice,    *)
(* and the parent pointers agree with the vectors: a search that walks a   *)
(* live entry meets only live memory.                                      *)
THEOREM TreeStaysWellFormed == Spec => []TreeWellFormed
<1>1. QED
  BY InvImpliesTypeOK, NtfsInvariant, PTL

-----------------------------------------------------------------------------
(* One volume, changed by one program at a time.                           *)

\* The entry of a file, as IndexMatchesDisk reads it: a record of its number, the number of
\* its directory and its name.  tree is a set of them.
FileEntry(f, p, n) == [frn |-> f, parent |-> p, name |-> n]
EntryIn(h, a) == FileEntry(h[a].frn, h[h[a].parent].frn, h[a].name)
TreeOf(h) == {EntryIn(h, a) : a \in LiveEntries(h) \ {1}}

\* k is the number of a directory of the tree.
Holds(tree, k) == k = ROOT_NUMBER \/ \E e \in tree : e.frn = k

\* No set of files has the directories of all its members in itself.
Rooted(tree) ==
  \A S \in SUBSET Frn : (\A f \in S : \E e \in tree : e.frn = f /\ e.parent \in S) => S = {}

IsTree(tree) ==
  /\ \A e \in tree : e.frn \in Frn /\ e.parent \in Dirs /\ Holds(tree, e.parent)
  /\ \A d, e \in tree : d.frn = e.frn => d = e
  /\ Rooted(tree)

\* What handling the record r makes of the tree s.tree and the static s.old, when the
\* record says what happened: t.tree and t.old.
Handles(s, r, t) ==
  \/ /\ Branch(r.reason) = "create"
     /\ ~Holds(s.tree, r.frn) /\ Holds(s.tree, r.pfrn)
     /\ t.tree = s.tree \cup {FileEntry(r.frn, r.pfrn, r.name)}
     /\ t.old = s.old
  \/ /\ Branch(r.reason) = "rename_old"
     /\ t.tree = s.tree
     /\ t.old = [frn |-> r.frn, pfrn |-> r.pfrn, i |-> 1]
  \/ /\ Branch(r.reason) = "rename_new"
     /\ Holds(s.tree, r.pfrn)
     /\ \E e \in s.tree :
          /\ e.frn = r.frn
          /\ s.old = [frn |-> r.frn, pfrn |-> e.parent, i |-> 1]
          /\ t.tree = (s.tree \ {e}) \cup
               {FileEntry(r.frn, r.pfrn, IF r.pfrn = e.parent THEN r.name ELSE e.name)}
     /\ t.old = s.old
  \/ /\ Branch(r.reason) = "delete"
     /\ \A e \in s.tree : e.parent # r.frn
     /\ \E e \in s.tree : e.frn = r.frn /\ e.parent = r.pfrn /\ t.tree = s.tree \ {e}
     /\ t.old = s.old
  \/ Branch(r.reason) = "other" /\ t.tree = s.tree /\ t.old = s.old

\* The tree says of each file what the volume says, as IndexMatchesDisk has it.
Agrees(tree, files) ==
  /\ \A f \in Frn : files[f].exists <=> \E e \in tree : e.frn = f
  /\ \A e \in tree : /\ e.parent = files[e.frn].parent
                     /\ files[e.frn].renamedByMove \/ e.name = files[e.frn].name

\* The record that closing f writes, and the volume after it.  files is what is on the volume
\* and open the reasons its open files have accumulated.
ClosingRecord(f, files, open) == USN_RECORD(f, files[f].parent, files[f].name, open[f] \cup {"close"})
ClosedVolume(f, files, open) == IF "delete" \in open[f] THEN [files EXCEPT ![f] = Absent] ELSE files

\* s[k] is what the monitor has when it has read k more of the records: it starts from a tree
\* and a static, and handles every record it is given.
Reads(s, records, tree, static) ==
  /\ s[0].tree = tree /\ s[0].old = static
  /\ \A k \in 0 .. Len(records) : IsTree(s[k].tree)
  /\ \A k \in 1 .. Len(records) : Handles(s[k - 1], records[k], s[k])

\* Then it agrees with the volume, or will when it has read of the file that is being closed.
Ends(s, files, open) ==
  /\ (\A f \in Frn : open[f] = {}) => Agrees(s.tree, files)
  /\ \A f \in Frn : open[f] # {} =>
       /\ \A g \in Frn \ {f} : open[g] = {}
       /\ \E t : /\ Handles(s, ClosingRecord(f, files, open), t)
                 /\ IsTree(t.tree) /\ Agrees(t.tree, ClosedVolume(f, files, open))

Replays == \E s : Reads(s, journal[1], TreeOf(heap), old) /\ Ends(s[Len(journal[1])], disk[1], pending[1])

\* Every live entry but the root is in the vector of its directory, and has a number of its own.
Hangs(h) ==
  /\ 1 \in LiveEntries(h) /\ h[1].frn = ROOT_NUMBER /\ h[1].parent = NULL
  /\ \A a, b \in LiveEntries(h) : h[a].frn = h[b].frn => a = b
  /\ \A a \in LiveEntries(h) \ {1} :
       h[a].parent \in LiveEntries(h) /\ a \in Range(h[h[a].parent].children)

\* Every directory of the tree has been entered in DirMaps, though what DirMaps holds may
\* have been freed since.
MapsHold == DirMaps[1][ROOT_NUMBER] = 1 /\ \A k \in Dirs : Holds(TreeOf(heap), k) => DirMaps[1][k] # NULL

ReplayInv == Running => Hangs(heap) /\ MapsHold /\ Replays

-----------------------------------------------------------------------------
(* What creating, renaming and deleting a file keeps of a tree.            *)

LEMMA EntryFields ==
  ASSUME NEW f, NEW p, NEW n
  PROVE  FileEntry(f, p, n).frn = f /\ FileEntry(f, p, n).parent = p /\ FileEntry(f, p, n).name = n
<1>1. QED
  BY DEF FileEntry

LEMMA TreeCreate ==
  ASSUME NEW T, IsTree(T), NEW f \in Frn, NEW p \in Dirs, NEW n, Holds(T, p), ~Holds(T, f)
  PROVE  IsTree(T \cup {FileEntry(f, p, n)})
<1> DEFINE new == FileEntry(f, p, n)
           U == T \cup {new}
<1>1. new.frn = f /\ new.parent = p
  BY EntryFields
<1>2. p # f /\ \A e \in T : e.frn # f
  BY DEF Holds
<1>3. \A k : Holds(T, k) => Holds(U, k)
  BY DEF Holds
<1>4. \A e \in U : e.frn \in Frn /\ e.parent \in Dirs /\ Holds(U, e.parent)
  <2>1. ASSUME NEW e \in T PROVE e.frn \in Frn /\ e.parent \in Dirs /\ Holds(U, e.parent)
    BY <1>3 DEF IsTree
  <2>2. QED
    BY <1>1, <1>3, <2>1
<1>5. \A d, e \in U : d.frn = e.frn => d = e
  BY <1>1, <1>2 DEF IsTree
<1>6. Rooted(U)
  <2> SUFFICES ASSUME NEW S \in SUBSET Frn, \A g \in S : \E e \in U : e.frn = g /\ e.parent \in S
               PROVE  S = {}
    BY DEF Rooted
  <2> HIDE DEF new
  <2>1. \A e \in T : e.parent # f
    BY <1>2 DEF IsTree, Holds
  <2>2. \A g \in S \ {f} : \E e \in T : e.frn = g /\ e.parent \in S \ {f}
    BY <1>1, <2>1
  <2>3. S \ {f} = {}
    BY <2>2 DEF IsTree, Rooted
  <2>4. f \notin S
    BY <1>1, <1>2, <2>3
  <2>5. QED
    BY <2>3, <2>4
<1>7. QED
  BY <1>4, <1>5, <1>6 DEF IsTree

\* A file may go to any directory outside a set C that has the file and is closed under
\* contents.
LEMMA TreeRename ==
  ASSUME NEW T, IsTree(T), NEW d \in T, NEW p \in Dirs, NEW n, Holds(T, p),
         NEW C \in SUBSET Frn, d.frn \in C, p \notin C, \A e \in T : e.parent \in C => e.frn \in C
  PROVE  IsTree((T \ {d}) \cup {FileEntry(d.frn, p, n)})
<1> DEFINE new == FileEntry(d.frn, p, n)
           U == (T \ {d}) \cup {new}
<1>1. new.frn = d.frn /\ new.parent = p
  BY EntryFields
<1>2. \A k : Holds(T, k) => Holds(U, k)
  BY <1>1 DEF Holds
<1>3. \A e \in U : e.frn \in Frn /\ e.parent \in Dirs /\ Holds(U, e.parent)
  <2>1. ASSUME NEW e \in T PROVE e.frn \in Frn /\ e.parent \in Dirs /\ Holds(U, e.parent)
    BY <1>2 DEF IsTree
  <2>2. QED
    BY <1>1, <1>2, <2>1
<1> HIDE DEF new
<1>4. \A c, e \in U : c.frn = e.frn => c = e
  BY <1>1 DEF IsTree
<1>5. Rooted(U)
  <2> SUFFICES ASSUME NEW S \in SUBSET Frn, \A g \in S : \E e \in U : e.frn = g /\ e.parent \in S
               PROVE  S = {}
    BY DEF Rooted
  <2>1. \A g \in S \ C : \E e \in T : e.frn = g /\ e.parent \in S \ C
    <3> SUFFICES ASSUME NEW g \in S \ C PROVE \E e \in T : e.frn = g /\ e.parent \in S \ C
      OBVIOUS
    <3>1. PICK e \in U : e.frn = g /\ e.parent \in S
      OBVIOUS
    <3>2. e \in T
      BY <1>1, <3>1
    <3>3. e.parent \notin C
      BY <3>1, <3>2
    <3>4. QED
      BY <3>1, <3>2, <3>3
  <2>2. S \ C = {}
    BY <2>1 DEF IsTree, Rooted
  <2>3. p \notin S
    BY <2>2
  <2>4. \A g \in S : \E e \in T : e.frn = g /\ e.parent \in S
    BY <1>1, <2>3
  <2>5. QED
    BY <2>4 DEF IsTree, Rooted
<1>6. QED
  BY <1>3, <1>4, <1>5 DEF IsTree, new

LEMMA TreeDelete ==
  ASSUME NEW T, IsTree(T), NEW d \in T, \A e \in T : e.parent # d.frn
  PROVE  IsTree(T \ {d})
<1>1. \A e \in T : Holds(T \ {d}, e.parent)
  BY DEF IsTree, Holds
<1>2. Rooted(T \ {d})
  BY DEF IsTree, Rooted
<1>3. QED
  BY <1>1, <1>2 DEF IsTree

-----------------------------------------------------------------------------
(* The tree that is in memory.                                             *)

LEMMA HangsFacts ==
  ASSUME NEW h, Sound(h), Hangs(h)
  PROVE  /\ \A a \in LiveEntries(h) \ {1} : h[a].frn \in Frn /\ h[a].frn # ROOT_NUMBER
         /\ \A a \in LiveEntries(h) : a \in DOMAIN h /\ Range(h[a].children) \subseteq LiveEntries(h) \ {1}
         /\ \A a \in LiveEntries(h) : \A c \in Range(h[a].children) : h[c].parent = a
<1>1. \A a \in LiveEntries(h) : a \in DOMAIN h /\ h[a].live
  BY DEF LiveEntries
<1>2. \A a \in LiveEntries(h) \ {1} : h[a].frn \in Frn /\ h[a].frn # ROOT_NUMBER
  BY <1>1, HeapFacts DEF Sound, Hangs
<1>3. ASSUME NEW a \in LiveEntries(h), NEW c \in Range(h[a].children)
      PROVE  c \in LiveEntries(h) \ {1} /\ h[c].parent = a
  <2>1. c \in DOMAIN h /\ a \in DOMAIN h /\ a # 0
    BY <1>1, <1>3, HeapFacts DEF Sound
  <2>2. h[c].live /\ h[c].parent = a
    BY <1>1, <1>3 DEF Sound, WellFormed
  <2>3. QED
    BY <2>1, <2>2 DEF LiveEntries, Hangs, NULL
<1>4. QED
  BY <1>1, <1>2, <1>3

LEMMA TreeOfFacts ==
  ASSUME NEW h
  PROVE  /\ \A a \in LiveEntries(h) \ {1} :
              /\ EntryIn(h, a) \in TreeOf(h) /\ EntryIn(h, a).frn = h[a].frn
              /\ EntryIn(h, a).parent = h[h[a].parent].frn /\ EntryIn(h, a).name = h[a].name
         /\ \A e \in TreeOf(h) : \E a \in LiveEntries(h) \ {1} :
              /\ e = EntryIn(h, a) /\ e.frn = h[a].frn
              /\ e.parent = h[h[a].parent].frn /\ e.name = h[a].name
<1>1. \A a : /\ EntryIn(h, a).frn = h[a].frn /\ EntryIn(h, a).parent = h[h[a].parent].frn
             /\ EntryIn(h, a).name = h[a].name
  BY EntryFields DEF EntryIn
<1>2. QED
  BY <1>1 DEF TreeOf

\* The numbers the tree holds are those of the live entries.
LEMMA HoldsLive ==
  ASSUME NEW h, Hangs(h), NEW k
  PROVE  Holds(TreeOf(h), k) <=> \E a \in LiveEntries(h) : h[a].frn = k
<1>1. ASSUME Holds(TreeOf(h), k) PROVE \E a \in LiveEntries(h) : h[a].frn = k
  BY <1>1, TreeOfFacts DEF Hangs, Holds
<1>2. ASSUME NEW a \in LiveEntries(h), h[a].frn = k PROVE Holds(TreeOf(h), k)
  BY <1>2, TreeOfFacts DEF Hangs, Holds
<1>3. QED
  BY <1>1, <1>2

\* Every live entry is reached from the root, and nothing else is.
LEMMA RootReaches ==
  ASSUME NEW h, Sound(h), Hangs(h), Rooted(TreeOf(h))
  PROVE  Below(h, 1) = LiveEntries(h)
<1>1. 1 \in DOMAIN h /\ h[1].live
  BY DEF Hangs, LiveEntries
<1>2. /\ 1 \in Below(h, 1) /\ Below(h, 1) \subseteq LiveEntries(h)
      /\ \A c \in Below(h, 1) : Range(h[c].children) \subseteq Below(h, 1)
  BY <1>1, BelowFacts
<1> DEFINE lost == LiveEntries(h) \ Below(h, 1)
           S == {h[x].frn : x \in lost}
<1>3. ASSUME NEW f \in S PROVE \E e \in TreeOf(h) : e.frn = f /\ e.parent \in S
  <2>1. PICK x \in lost : f = h[x].frn
    OBVIOUS
  <2>2. x \in LiveEntries(h) \ {1}
    BY <1>2
  <2>3. h[x].parent \in LiveEntries(h) /\ x \in Range(h[h[x].parent].children)
    BY <2>2 DEF Hangs
  <2>4. h[x].parent \in lost
    BY <1>2, <2>3
  <2>5. QED
    BY <2>1, <2>2, <2>4, TreeOfFacts
<1>4. S \in SUBSET Frn
  BY <1>2, HangsFacts
<1>5. S = {}
  BY <1>3, <1>4 DEF Rooted
<1>6. QED
  BY <1>2, <1>5

\* The entry of a gives way to that of b, or to nothing, and the others keep theirs.
LEMMA TreeSwapped ==
  ASSUME NEW h, NEW g, NEW a \in LiveEntries(h) \ {1}, NEW b,
         \A x, y \in LiveEntries(h) : h[x].frn = h[y].frn => x = y,
         LiveEntries(g) \ {1} = (LiveEntries(h) \ {1, a}) \cup {b},
         \A x \in LiveEntries(h) \ {1, a} : EntryIn(g, x) = EntryIn(h, x)
  PROVE  TreeOf(g) = (TreeOf(h) \ {EntryIn(h, a)}) \cup {EntryIn(g, b)}
<1>1. \A x \in LiveEntries(h) \ {1, a} : EntryIn(h, x) # EntryIn(h, a)
  BY TreeOfFacts
<1>2. TreeOf(h) = {EntryIn(h, x) : x \in LiveEntries(h) \ {1, a}} \cup {EntryIn(h, a)}
  BY DEF TreeOf
<1>3. TreeOf(g) = {EntryIn(h, x) : x \in LiveEntries(h) \ {1, a}} \cup {EntryIn(g, b)}
  BY DEF TreeOf
<1>4. QED
  BY <1>1, <1>2, <1>3

LEMMA TreeCut ==
  ASSUME NEW h, NEW g, NEW a \in LiveEntries(h) \ {1},
         \A x, y \in LiveEntries(h) : h[x].frn = h[y].frn => x = y,
         LiveEntries(g) = LiveEntries(h) \ {a},
         \A x \in LiveEntries(h) \ {1, a} : EntryIn(g, x) = EntryIn(h, x)
  PROVE  TreeOf(g) = TreeOf(h) \ {EntryIn(h, a)}
<1>1. \A x \in LiveEntries(h) \ {1, a} : EntryIn(h, x) # EntryIn(h, a)
  BY TreeOfFacts
<1>2. TreeOf(h) = {EntryIn(h, x) : x \in LiveEntries(h) \ {1, a}} \cup {EntryIn(h, a)}
  BY DEF TreeOf
<1>3. TreeOf(g) = {EntryIn(h, x) : x \in LiveEntries(h) \ {1, a}}
  BY DEF TreeOf
<1>4. QED
  BY <1>1, <1>2, <1>3

\* Two entries with the same number, directory and name are the same entry.
LEMMA SameEntryIn ==
  ASSUME NEW h, NEW g, NEW x, NEW y, g[y].frn = h[x].frn, g[y].name = h[x].name,
         g[g[y].parent].frn = h[h[x].parent].frn
  PROVE  EntryIn(g, y) = EntryIn(h, x)
<1>1. QED
  BY DEF EntryIn

LEMMA CreateHangs ==
  ASSUME NEW h, Sound(h), Hangs(h), NEW p \in LiveEntries(h), NEW e \in EntryRecord,
         e.parent = NULL, e.dir = (e.frn \in Dirs), e.children = <<>>, e.live,
         \A x \in LiveEntries(h) : h[x].frn # e.frn
  PROVE  LET g == addChildren(Append(h, e), p, Len(h) + 1)
         IN /\ Hangs(g) /\ TreeOf(g) = TreeOf(h) \cup {FileEntry(e.frn, h[p].frn, e.name)}
            /\ LiveEntries(h) \subseteq LiveEntries(g) /\ \A x \in LiveEntries(h) : g[x].frn = h[x].frn
<1> DEFINE b == Len(h) + 1
           h1 == Append(h, e)
           g == addChildren(h1, p, b)
<1>1. p \in DOMAIN h /\ h[p].live /\ Typed(h)
  BY DEF LiveEntries, Sound
<1>2. /\ Typed(h1) /\ DOMAIN h1 = 1 .. b /\ DOMAIN h = 1 .. Len(h) /\ Len(h) \in Nat
      /\ h1[b] = e /\ \A x \in DOMAIN h : h1[x] = h[x]
  <2>1. Range(e.children) = {}
    BY DEF Range
  <2>2. QED
    BY <1>1, <2>1, AppendedRows
<1>3. LiveEntries(g) = LiveEntries(h) \cup {b}
  BY <1>1, CreateSound
<1> HIDE DEF h1
<1>4. /\ b \in DOMAIN h1 /\ b \notin DOMAIN h /\ p \in DOMAIN h1 /\ p # b /\ DOMAIN h \subseteq DOMAIN h1
      /\ b \in Nat
  BY <1>1, <1>2
<1>5. Attached(h1, g, p, b)
  BY <1>2, <1>4, AddChildrenRows
<1> HIDE DEF b, g
<1>6. /\ \A x \in DOMAIN h : /\ g[x].frn = h[x].frn /\ g[x].name = h[x].name /\ g[x].parent = h[x].parent
                             /\ x # p => g[x].children = h[x].children
      /\ g[b].frn = e.frn /\ g[b].name = e.name /\ g[b].parent = p
      /\ g[p].children = Append(h[p].children, b)
  <2>1. \A x \in DOMAIN h1 : g[x].frn = h1[x].frn /\ g[x].name = h1[x].name
    BY <1>5 DEF Attached, SameEntries
  <2>2. /\ g[b].parent = p /\ \A x \in DOMAIN h1 : x # b => g[x].parent = h1[x].parent
        /\ g[p].children = Append(h1[p].children, b)
        /\ \A x \in DOMAIN h1 : x # p => g[x].children = h1[x].children
    BY <1>5 DEF Attached
  <2>3. \A x \in DOMAIN h : x \in DOMAIN h1 /\ x # b
    BY <1>4
  <2>4. QED
    BY <1>1, <1>2, <1>4, <2>1, <2>2, <2>3
<1>7. Range(g[p].children) = Range(h[p].children) \cup {b}
  BY <1>1, <1>4, <1>6, HeapFacts, AppendRange
<1>8. \A x \in LiveEntries(h) : x \in DOMAIN h /\ x # b
  BY <1>4 DEF LiveEntries
<1>9. 1 \in LiveEntries(h) /\ h[1].frn = ROOT_NUMBER /\ h[1].parent = NULL
  BY DEF Hangs
<1>10. \A x \in LiveEntries(h) \ {1} : h[x].parent \in LiveEntries(h) /\ x \in Range(h[h[x].parent].children)
  BY DEF Hangs
<1>11. Hangs(g)
  <2>1. 1 \in LiveEntries(g) /\ g[1].frn = ROOT_NUMBER /\ g[1].parent = NULL
    BY <1>3, <1>6, <1>8, <1>9
  <2>2. \A x, y \in LiveEntries(g) : g[x].frn = g[y].frn => x = y
    BY <1>3, <1>6, <1>8 DEF Hangs
  <2>3. ASSUME NEW x \in LiveEntries(g) \ {1}
        PROVE  g[x].parent \in LiveEntries(g) /\ x \in Range(g[g[x].parent].children)
    <3>1. CASE x = b
      BY <1>3, <1>6, <1>7, <3>1
    <3>2. CASE x \in LiveEntries(h) \ {1}
      <4>1. g[x].parent = h[x].parent /\ h[x].parent \in LiveEntries(h) /\ x \in Range(h[h[x].parent].children)
        BY <1>6, <1>8, <1>10, <3>2
      <4>2. CASE h[x].parent = p
        BY <1>3, <1>7, <4>1, <4>2
      <4>3. CASE h[x].parent # p
        BY <1>3, <1>6, <1>8, <4>1, <4>3
      <4>4. QED
        BY <4>2, <4>3
    <3>3. QED
      BY <1>3, <3>1, <3>2
  <2>4. QED
    BY <2>1, <2>2, <2>3 DEF Hangs
<1>12. TreeOf(g) = TreeOf(h) \cup {FileEntry(e.frn, h[p].frn, e.name)}
  <2>1. ASSUME NEW x \in LiveEntries(h) \ {1} PROVE EntryIn(g, x) = EntryIn(h, x)
    <3>1. g[x].parent = h[x].parent /\ h[x].parent \in DOMAIN h /\ x \in DOMAIN h
      BY <1>6, <1>8, <1>10
    <3>2. QED
      BY <1>6, <3>1, SameEntryIn
  <2>2. EntryIn(g, b) = FileEntry(e.frn, h[p].frn, e.name)
    BY <1>1, <1>6 DEF EntryIn
  <2>3. LiveEntries(g) \ {1} = (LiveEntries(h) \ {1}) \cup {b}
    BY <1>3, <1>8, <1>9
  <2>4. QED
    BY <2>1, <2>2, <2>3 DEF TreeOf
<1>13. QED
  BY <1>3, <1>6, <1>8, <1>11, <1>12 DEF g, h1, b

LEMMA MoveHangs ==
  ASSUME NEW h, Sound(h), Hangs(h), NEW p, NEW a, Found(h, p, a), a # 1, NEW q \in LiveEntries(h), q # a
  PROVE  LET g == addChildren(delete_file_from_parent_vector(h, a, p), q, a)
         IN /\ Hangs(g)
            /\ TreeOf(g) = (TreeOf(h) \ {EntryIn(h, a)}) \cup {FileEntry(h[a].frn, h[q].frn, h[a].name)}
            /\ LiveEntries(g) = LiveEntries(h) /\ \A x \in LiveEntries(h) : g[x].frn = h[x].frn
<1> DEFINE h1 == delete_file_from_parent_vector(h, a, p)
           g == addChildren(h1, q, a)
<1>1. /\ p \in DOMAIN h /\ a \in DOMAIN h /\ h[p].live /\ q \in DOMAIN h /\ h[q].live
      /\ a \in Range(h[p].children) /\ h[a].live /\ h[a].parent = p /\ p # a /\ IsInjective(h[p].children)
      /\ Typed(h)
  BY FoundFacts DEF Found, LiveEntries, Sound
<1>2. Detached(h, h1, p, a)
  BY <1>1, DeleteFromVectorRows
<1>3. /\ SameEntries(h, h1) /\ \A x \in DOMAIN h : h1[x].parent = h[x].parent
      /\ Range(h1[p].children) = Range(h[p].children) \ {a}
      /\ \A x \in DOMAIN h : x # p => h1[x].children = h[x].children
  BY <1>2 DEF Detached
<1> HIDE DEF h1
<1>4. DOMAIN h1 = DOMAIN h /\ h1 \in Seq(EntryRecord)
      /\ \A x \in DOMAIN h : h1[x].frn = h[x].frn /\ h1[x].name = h[x].name /\ h1[x].live = h[x].live
                             /\ h1[x].dir = h[x].dir
  BY <1>3 DEF SameEntries
<1>5. Typed(h1)
  <2>1. \A x \in DOMAIN h : Range(h1[x].children) \subseteq DOMAIN h
    BY <1>1, <1>3, HeapFacts
  <2>2. QED
    BY <1>1, <1>3, <1>4, <2>1 DEF Typed
<1>6. Attached(h1, g, q, a)
  BY <1>1, <1>4, <1>5, AddChildrenRows
<1> HIDE DEF g
<1>7. /\ DOMAIN g = DOMAIN h
      /\ \A x \in DOMAIN h : g[x].frn = h[x].frn /\ g[x].name = h[x].name /\ g[x].live = h[x].live
  BY <1>4, <1>6 DEF Attached, SameEntries
<1>8. /\ g[a].parent = q /\ \A x \in DOMAIN h : x # a => g[x].parent = h[x].parent
      /\ g[q].children = Append(h1[q].children, a)
      /\ \A x \in DOMAIN h : x # q => g[x].children = h1[x].children
  BY <1>3, <1>4, <1>6 DEF Attached
<1>9. LiveEntries(g) = LiveEntries(h)
  BY <1>7 DEF LiveEntries
<1>10. \A x \in LiveEntries(h) : x \in DOMAIN h
  BY DEF LiveEntries
<1>11. Range(g[q].children) = Range(h1[q].children) \cup {a}
  <2>1. h1[q].children \in Seq(Nat) /\ a \in Nat
    BY <1>1, <1>4, <1>5, HeapFacts
  <2>2. QED
    BY <1>8, <2>1, AppendRange
<1>12. \A x \in DOMAIN h : Range(h[x].children) \ {a} \subseteq Range(g[x].children)
  <2>1. \A x \in DOMAIN h : Range(h[x].children) \ {a} \subseteq Range(h1[x].children)
    BY <1>1, <1>3
  <2>2. QED
    BY <1>1, <1>8, <1>11, <2>1
<1>13. Hangs(g)
  <2>1. 1 \in LiveEntries(g) /\ g[1].frn = ROOT_NUMBER /\ g[1].parent = NULL
    BY <1>7, <1>8, <1>9, <1>10 DEF Hangs
  <2>2. \A x, y \in LiveEntries(g) : g[x].frn = g[y].frn => x = y
    BY <1>7, <1>9, <1>10 DEF Hangs
  <2>3. ASSUME NEW x \in LiveEntries(g) \ {1}
        PROVE  g[x].parent \in LiveEntries(g) /\ x \in Range(g[g[x].parent].children)
    <3>1. CASE x = a
      BY <1>8, <1>9, <1>11, <3>1
    <3>2. CASE x # a
      <4>1. h[x].parent \in LiveEntries(h) /\ x \in Range(h[h[x].parent].children)
        BY <1>9, <2>3 DEF Hangs
      <4>2. g[x].parent = h[x].parent
        BY <1>8, <1>9, <1>10, <2>3, <3>2
      <4>3. QED
        BY <1>9, <1>10, <1>12, <3>2, <4>1, <4>2
    <3>3. QED
      BY <3>1, <3>2
  <2>4. QED
    BY <2>1, <2>2, <2>3 DEF Hangs
<1>14. TreeOf(g) = (TreeOf(h) \ {EntryIn(h, a)}) \cup {FileEntry(h[a].frn, h[q].frn, h[a].name)}
  <2>1. ASSUME NEW x \in LiveEntries(h) \ {1, a} PROVE EntryIn(g, x) = EntryIn(h, x)
    <3>1. x \in DOMAIN h /\ h[x].parent \in DOMAIN h /\ g[x].parent = h[x].parent
      BY <1>8, <1>10, <2>1 DEF Hangs
    <3>2. QED
      BY <1>7, <3>1, SameEntryIn
  <2>2. EntryIn(g, a) = FileEntry(h[a].frn, h[q].frn, h[a].name)
    BY <1>1, <1>7, <1>8 DEF EntryIn
  <2>3. a \in LiveEntries(h) \ {1}
    BY <1>1 DEF LiveEntries
  <2>4. LiveEntries(g) \ {1} = (LiveEntries(h) \ {1, a}) \cup {a}
    BY <1>9, <2>3
  <2>5. \A x, y \in LiveEntries(h) : h[x].frn = h[y].frn => x = y
    BY DEF Hangs
  <2>6. TreeOf(g) = (TreeOf(h) \ {EntryIn(h, a)}) \cup {EntryIn(g, a)}
    BY <2>1, <2>3, <2>4, <2>5, TreeSwapped
  <2>7. QED
    BY <2>2, <2>6
<1>15. QED
  BY <1>7, <1>9, <1>10, <1>13, <1>14 DEF g, h1

LEMMA RenameHangs ==
  ASSUME NEW h, Sound(h), Hangs(h), NEW p, NEW a, Found(h, p, a), a # 1, NEW n \in Name
  PROVE  LET g == RenamedHeap(h, p, a, n)
         IN /\ Hangs(g)
            /\ TreeOf(g) = (TreeOf(h) \ {EntryIn(h, a)}) \cup {FileEntry(h[a].frn, h[p].frn, n)}
<1> DEFINE b == Len(h) + 1
           g == RenamedHeap(h, p, a, n)
<1>1. /\ p \in DOMAIN h /\ a \in DOMAIN h /\ h[p].live
      /\ a \in Range(h[p].children) /\ h[a].live /\ h[a].parent = p /\ p # a /\ Typed(h)
  BY FoundFacts DEF Found, Sound
<1>2. LiveEntries(g) = (LiveEntries(h) \ {a}) \cup {b} /\ Renamed(h, g, p, a, n) /\ Sound(g)
  BY RenameSound
<1>3. b \notin DOMAIN h /\ b # 0
  <2>1. DOMAIN h = 1 .. Len(h) /\ Len(h) \in Nat
    BY <1>1, HeapFacts
  <2>2. QED
    BY <2>1
<1>4. /\ g[b].frn = h[a].frn /\ g[b].name = n /\ g[b].parent = p /\ g[b].children = h[a].children
      /\ \A x \in DOMAIN h :
           /\ g[x].frn = h[x].frn /\ g[x].name = h[x].name
           /\ g[x].parent = IF x \in Range(h[a].children) THEN b ELSE h[x].parent
           /\ x # p => g[x].children = h[x].children
      /\ Range(g[p].children) = (Range(h[p].children) \cup {b}) \ {a}
  BY <1>2 DEF Renamed
<1> HIDE DEF b, g
<1>5. \A x \in LiveEntries(h) : x \in DOMAIN h /\ x # b
  BY <1>3 DEF LiveEntries
<1>6. a \in LiveEntries(h) \ {1} /\ p \in LiveEntries(h) /\ p \in LiveEntries(g)
  <2>1. a \in LiveEntries(h) \ {1} /\ p \in LiveEntries(h)
    BY <1>1 DEF LiveEntries
  <2>2. QED
    BY <1>1, <1>2, <2>1
<1>7. \A x \in LiveEntries(h) \ {1} : h[x].parent \in LiveEntries(h) /\ x \in Range(h[h[x].parent].children)
  BY DEF Hangs
<1>8. \A x \in LiveEntries(h) \ {1} : x \in Range(h[a].children) <=> h[x].parent = a
  BY <1>6, <1>7, HangsFacts
<1>9. Hangs(g)
  <2>1. 1 \in LiveEntries(g) /\ g[1].frn = ROOT_NUMBER /\ g[1].parent = NULL
    <3>1. 1 \in LiveEntries(h) /\ h[1].frn = ROOT_NUMBER /\ h[1].parent = NULL
      BY DEF Hangs
    <3>2. 1 \notin Range(h[a].children)
      BY <1>6, HangsFacts
    <3>3. QED
      BY <1>2, <1>4, <1>5, <1>6, <3>1, <3>2
  <2>2. \A x, y \in LiveEntries(g) : g[x].frn = g[y].frn => x = y
    <3>1. \A x, y \in LiveEntries(h) : h[x].frn = h[y].frn => x = y
      BY DEF Hangs
    <3>2. QED
      BY <1>2, <1>4, <1>5, <1>6, <3>1
  <2>3. ASSUME NEW x \in LiveEntries(g) \ {1}
        PROVE  g[x].parent \in LiveEntries(g) /\ x \in Range(g[g[x].parent].children)
    <3>1. CASE x = b
      BY <1>1, <1>3, <1>4, <1>6, <3>1
    <3>2. CASE x # b /\ h[x].parent = a
      <4>1. x \in LiveEntries(h) \ {1}
        BY <1>2, <2>3, <3>2
      <4>2. x \in Range(h[a].children) /\ x \in DOMAIN h
        BY <1>5, <1>8, <3>2, <4>1
      <4>3. QED
        BY <1>2, <1>4, <4>2
    <3>3. CASE x # b /\ h[x].parent # a
      <4>1. x \in LiveEntries(h) \ {1} /\ x # a
        BY <1>2, <2>3, <3>3
      <4>2. h[x].parent \in LiveEntries(h) \ {a} /\ x \in Range(h[h[x].parent].children)
        BY <1>7, <3>3, <4>1
      <4>3. g[x].parent = h[x].parent
        BY <1>4, <1>5, <1>8, <3>3, <4>1
      <4>4. x \in Range(g[h[x].parent].children)
        BY <1>4, <1>5, <4>1, <4>2
      <4>5. QED
        BY <1>2, <4>2, <4>3, <4>4
    <3>4. QED
      BY <3>1, <3>2, <3>3
  <2>4. QED
    BY <2>1, <2>2, <2>3 DEF Hangs
<1>10. TreeOf(g) = (TreeOf(h) \ {EntryIn(h, a)}) \cup {FileEntry(h[a].frn, h[p].frn, n)}
  <2>1. ASSUME NEW x \in LiveEntries(h) \ {1, a} PROVE EntryIn(g, x) = EntryIn(h, x)
    <3>1. x \in DOMAIN h /\ h[x].parent \in DOMAIN h
      BY <1>5, <1>7, <2>1
    <3>2. g[g[x].parent].frn = h[h[x].parent].frn
      BY <1>1, <1>4, <1>8, <2>1, <3>1
    <3>3. QED
      BY <1>4, <3>1, <3>2, SameEntryIn
  <2>2. EntryIn(g, b) = FileEntry(h[a].frn, h[p].frn, n)
    BY <1>1, <1>4 DEF EntryIn
  <2>3. LiveEntries(g) \ {1} = (LiveEntries(h) \ {1, a}) \cup {b}
    BY <1>2, <1>5 DEF Hangs
  <2>4. \A x, y \in LiveEntries(h) : h[x].frn = h[y].frn => x = y
    BY DEF Hangs
  <2>5. TreeOf(g) = (TreeOf(h) \ {EntryIn(h, a)}) \cup {EntryIn(g, b)}
    BY <1>6, <2>1, <2>3, <2>4, TreeSwapped
  <2>6. QED
    BY <2>2, <2>5
<1>11. QED
  BY <1>9, <1>10 DEF g

\* A file with nothing in it.
LEMMA DeleteHangs ==
  ASSUME NEW h, Sound(h), Hangs(h), NEW p, NEW a, Found(h, p, a), a # 1,
         \A x \in LiveEntries(h) : h[x].parent # a
  PROVE  LET g == DeletedHeap(h, p, a)
         IN Hangs(g) /\ TreeOf(g) = TreeOf(h) \ {EntryIn(h, a)} /\ LiveEntries(g) = LiveEntries(h) \ {a}
<1> DEFINE g == DeletedHeap(h, p, a)
<1>1. /\ p \in DOMAIN h /\ a \in DOMAIN h /\ h[p].live /\ h[a].live /\ Typed(h)
  BY FoundFacts DEF Found, Sound
<1>2. a \in LiveEntries(h) \ {1} /\ a # 0
  BY <1>1, HeapFacts DEF LiveEntries
<1>3. Below(h, a) = {a}
  <2>1. Range(h[a].children) = {}
    BY <1>2, HangsFacts
  <2>2. {a} \in SUBSET DOMAIN h /\ a \in Below(h, a)
    BY <1>1 DEF Below
  <2>3. QED
    BY <2>1, <2>2 DEF Below
<1>4. LiveEntries(g) = LiveEntries(h) \ {a} /\ Deleted(h, g, a)
  BY <1>3, DeleteSound
<1>5. /\ \A x \in DOMAIN h : g[x].frn = h[x].frn /\ g[x].name = h[x].name /\ g[x].parent = h[x].parent
      /\ \A x \in LiveEntries(h) \ {a} : Range(g[x].children) = Range(h[x].children) \ {a}
  BY <1>3, <1>4 DEF Deleted
<1> HIDE DEF g
<1>6. \A x \in LiveEntries(h) : x \in DOMAIN h
  BY DEF LiveEntries
<1>7. Hangs(g)
  <2>1. 1 \in LiveEntries(g) /\ g[1].frn = ROOT_NUMBER /\ g[1].parent = NULL
    BY <1>2, <1>4, <1>5, <1>6 DEF Hangs
  <2>2. \A x, y \in LiveEntries(g) : g[x].frn = g[y].frn => x = y
    BY <1>4, <1>5, <1>6 DEF Hangs
  <2>3. ASSUME NEW x \in LiveEntries(g) \ {1}
        PROVE  g[x].parent \in LiveEntries(g) /\ x \in Range(g[g[x].parent].children)
    <3>1. x \in LiveEntries(h) \ {1} /\ x # a
      BY <1>4, <2>3
    <3>2. h[x].parent \in LiveEntries(h) \ {a} /\ x \in Range(h[h[x].parent].children)
      BY <3>1 DEF Hangs
    <3>3. g[x].parent = h[x].parent
      BY <1>5, <1>6, <3>1
    <3>4. QED
      BY <1>4, <1>5, <3>1, <3>2, <3>3
  <2>4. QED
    BY <2>1, <2>2, <2>3 DEF Hangs
<1>8. TreeOf(g) = TreeOf(h) \ {EntryIn(h, a)}
  <2>1. ASSUME NEW x \in LiveEntries(h) \ {1, a} PROVE EntryIn(g, x) = EntryIn(h, x)
    <3>1. x \in DOMAIN h /\ h[x].parent \in DOMAIN h /\ g[x].parent = h[x].parent
      BY <1>5, <1>6, <2>1 DEF Hangs
    <3>2. QED
      BY <1>5, <3>1, SameEntryIn
  <2>2. \A x, y \in LiveEntries(h) : h[x].frn = h[y].frn => x = y
    BY DEF Hangs
  <2>3. QED
    BY <1>2, <1>4, <2>1, <2>2, TreeCut
<1>9. QED
  BY <1>4, <1>7, <1>8 DEF g

-----------------------------------------------------------------------------
(* updateFileEntry does what Handles says, unless it faults.               *)

LEMMA ChildIsThere ==
  ASSUME NEW h, Typed(h), NEW p \in DOMAIN h, NEW a \in Range(h[p].children)
  PROVE  FirstChild(h, p, h[a].frn) # 0
<1> DEFINE at == {n \in DOMAIN h[p].children : h[h[p].children[n]].frn = h[a].frn}
<1>1. DOMAIN h[p].children \in SUBSET Nat /\ 0 \notin DOMAIN h[p].children
  BY HeapFacts, LenProperties
<1>2. at # {}
  BY DEF Range
<1>3. PICK j \in at : \A m \in at : j <= m
  BY <1>1, <1>2, LeastNat
<1>4. FirstChild(h, p, h[a].frn) \in at
  BY <1>2, <1>3 DEF FirstChild
<1>5. QED
  BY <1>1, <1>4

\* findDir has the number of a directory of the tree, and unless that entry was freed it is
\* the entry of the directory.
LEMMA FindDirHas ==
  ASSUME IndexInv, Drive = {1}, Hangs(heap), MapsHold, NEW k \in Dirs, Holds(TreeOf(heap), k)
  PROVE  /\ findDir(k, 1) = DirMaps[1][k] /\ findDir(k, 1) # NULL
         /\ findDir(k, 1) \in DOMAIN heap /\ heap[findDir(k, 1)].frn = k
         /\ ~Freed(findDir(k, 1)) => findDir(k, 1) \in LiveEntries(heap)
<1>1. findDir(k, 1) = DirMaps[1][k]
  BY DEF findDir
<1>2. DirMaps[1][k] # NULL
  BY DEF MapsHold
<1>3. DirMaps[1][k] \in DOMAIN heap /\ heap[DirMaps[1][k]].frn = k
  BY <1>2 DEF IndexInv, MapNumbers
<1>4. QED
  BY <1>1, <1>2, <1>3 DEF Freed, LiveEntries

\* findFile gives the entry of a file that is in the tree, asked for with its directory.
LEMMA FindFileHas ==
  ASSUME IndexInv, Drive = {1}, Hangs(heap), MapsHold, NEW a \in LiveEntries(heap) \ {1},
         heap[heap[a].parent].frn \in Dirs, ~FindFaults(heap[heap[a].parent].frn, 1)
  PROVE  findFile(heap[a].frn, heap[heap[a].parent].frn, 1) = a /\ Found(heap, heap[a].parent, a)
<1> DEFINE k == heap[heap[a].parent].frn
           d == findDir(k, 1)
           n == FirstChild(heap, d, heap[a].frn)
<1>1. heap[a].parent \in LiveEntries(heap) /\ a \in Range(heap[heap[a].parent].children)
  BY DEF Hangs
<1>2. Typed(heap) /\ Sound(heap)
  BY DEF IndexInv, Sound
<1>3. Holds(TreeOf(heap), k)
  BY <1>1, HoldsLive
<1>4. d # NULL /\ d \in LiveEntries(heap) /\ heap[d].frn = k
  BY <1>3, FindDirHas DEF FindFaults
<1>5. d = heap[a].parent
  BY <1>1, <1>4 DEF Hangs
<1> HIDE DEF d, k
<1>6. d \in DOMAIN heap /\ heap[d].live
  BY <1>4 DEF LiveEntries
<1>7. n # 0
  BY <1>1, <1>2, <1>5, <1>6, ChildIsThere
<1>8. Found(heap, d, heap[d].children[n]) /\ heap[heap[d].children[n]].frn = heap[a].frn
  BY <1>2, <1>6, <1>7, LookupFinds
<1>9. heap[d].children[n] \in LiveEntries(heap)
  BY <1>2, <1>8, FoundFacts DEF Found, LiveEntries
<1>10. heap[d].children[n] = a
  BY <1>8, <1>9 DEF Hangs
<1>11. findFile(heap[a].frn, k, 1) = heap[d].children[n]
  BY <1>4, <1>7 DEF findFile, ChildOf, d
<1>12. QED
  BY <1>5, <1>8, <1>10, <1>11 DEF k

\* The state in which a record is handled, and the record.
Handling(s, t) ==
  /\ NtfsInv /\ Drive = {1} /\ Hangs(heap) /\ MapsHold
  /\ IsTree(TreeOf(heap)) /\ s.tree = TreeOf(heap) /\ s.old = old
  /\ Handles(s, Head(journal[1]), t)
Handled(t) == Hangs(heap) /\ MapsHold /\ TreeOf(heap) = t.tree /\ old = t.old

LEMMA OnCreateHandles ==
  ASSUME NEW s, NEW t, Handling(s, t), OnCreate(1), Running'
  PROVE  Handled(t)'
<1> DEFINE r == Head(journal[1])
           a == Len(heap) + 1
           e == [frn |-> r.frn, parent |-> NULL, name |-> r.name, dir |-> r.frn \in DirFrn,
                 children |-> <<>>, live |-> TRUE]
           map == IF e.dir THEN [DirMaps EXCEPT ![1] = [DirMaps[1] EXCEPT ![r.frn] = a]] ELSE DirMaps
           p == map[1][r.pfrn]
<1>1. /\ ReadRecord(1, "create") /\ old' = old /\ IndexInv
      /\ IF Freed(p) THEN Fail("freed")
         ELSE /\ heap' = IF p = NULL THEN Append(heap, e) ELSE addChildren(Append(heap, e), p, a)
              /\ DirMaps' = map
  BY DEF OnCreate, genFileEntryOne, Handling, NtfsInv
<1>2. r.frn \in Frn /\ r.name \in Name /\ r.pfrn \in Dirs /\ r.pfrn # r.frn
  BY <1>1, ReadRecordInv DEF Handling
<1>3. /\ Sound(heap) /\ Typed(heap) /\ MapNumbers /\ Hangs(heap) /\ MapsHold
      /\ DOMAIN heap = 1 .. Len(heap) /\ Len(heap) \in Nat
  BY <1>1, HeapFacts DEF IndexInv, Sound, Handling
<1>4. /\ ~Holds(TreeOf(heap), r.frn) /\ Holds(TreeOf(heap), r.pfrn)
      /\ t.tree = TreeOf(heap) \cup {FileEntry(r.frn, r.pfrn, r.name)} /\ t.old = old
  BY <1>1 DEF Handling, Handles, ReadRecord
<1> HIDE DEF r
<1>5. r.frn # ROOT_NUMBER /\ (r.frn \in Dirs <=> r.frn \in DirFrn)
  BY <1>2, NtfsAssumption DEF Dirs
<1>6. /\ e \in EntryRecord /\ e.parent = NULL /\ e.dir = (e.frn \in Dirs) /\ e.children = <<>> /\ e.live
      /\ e.frn = r.frn /\ e.name = r.name
  <2>1. (r.frn \in DirFrn) \in BOOLEAN /\ <<>> \in Seq(Nat) /\ (r.frn \in DirFrn) = (r.frn \in Dirs)
    BY <1>5
  <2>2. QED
    BY <1>2, <2>1 DEF EntryRecord, NULL
<1>7. /\ p = DirMaps[1][r.pfrn]
      /\ \A k \in Dirs : map[1][k] = IF e.dir /\ k = r.frn THEN a ELSE DirMaps[1][k]
  <2>1. DirMaps \in [Drive -> [Dirs -> DOMAIN heap \cup {NULL}]] /\ 1 \in Drive
    BY <1>3 DEF MapNumbers, Handling
  <2>2. QED
    BY <1>2, <2>1
<1> HIDE DEF e, map
<1>8. DirMaps[1][r.pfrn] # NULL /\ heap[DirMaps[1][r.pfrn]].frn = r.pfrn
      /\ (~Freed(DirMaps[1][r.pfrn]) => DirMaps[1][r.pfrn] \in LiveEntries(heap))
  BY <1>1, <1>2, <1>3, <1>4, FindDirHas DEF Handling
<1>9. ~Freed(p)
  BY <1>1 DEF Fail, Running
<1>10. heap' = addChildren(Append(heap, e), p, a) /\ DirMaps' = map
  BY <1>1, <1>7, <1>8, <1>9
<1>11. p \in LiveEntries(heap) /\ heap[p].frn = r.pfrn
  BY <1>7, <1>8, <1>9
<1>12. \A x \in LiveEntries(heap) : heap[x].frn # e.frn
  BY <1>3, <1>4, <1>6, HoldsLive
<1>13. Hangs(heap') /\ TreeOf(heap') = TreeOf(heap) \cup {FileEntry(r.frn, r.pfrn, r.name)}
  BY <1>3, <1>6, <1>10, <1>11, <1>12, CreateHangs
<1>14. MapsHold'
  <2>1. DirMaps'[1][ROOT_NUMBER] = 1
    <3>1. ROOT_NUMBER \in Dirs /\ DirMaps[1][ROOT_NUMBER] = 1
      BY <1>3 DEF Dirs, MapsHold
    <3>2. QED
      BY <1>5, <1>7, <1>10, <3>1
  <2>2. ASSUME NEW k \in Dirs, Holds(TreeOf(heap'), k) PROVE DirMaps'[1][k] # NULL
    <3>1. CASE k = r.frn
      <4>1. e.dir
        BY <1>6, <2>2, <3>1
      <4>2. DirMaps'[1][k] = a
        BY <1>7, <1>10, <2>2, <3>1, <4>1
      <4>3. QED
        BY <1>3, <4>2 DEF NULL
    <3>2. CASE k # r.frn
      <4>1. Holds(TreeOf(heap), k)
        BY <1>13, <2>2, <3>2, EntryFields DEF Holds
      <4>2. QED
        BY <1>3, <1>7, <1>10, <3>2, <4>1 DEF MapsHold
    <3>3. QED
      BY <3>1, <3>2
  <2>3. QED
    BY <2>1, <2>2 DEF MapsHold
<1>15. QED
  BY <1>1, <1>4, <1>13, <1>14 DEF Handled

\* The maps hold while no number comes to the tree.
LEMMA MapsStillHold ==
  ASSUME MapsHold, DirMaps' = DirMaps, \A e \in TreeOf(heap') : \E d \in TreeOf(heap) : d.frn = e.frn
  PROVE  MapsHold'
<1>1. \A k : Holds(TreeOf(heap'), k) => Holds(TreeOf(heap), k)
  BY DEF Holds
<1>2. QED
  BY <1>1 DEF MapsHold

LEMMA OnRenameNewHandles ==
  ASSUME NEW s, NEW t, Handling(s, t), OnRenameNew(1), Running'
  PROVE  Handled(t)'
<1> DEFINE r == Head(journal[1])
           sameDir == old.pfrn = r.pfrn /\ old.i = 1
           file == IF old.i \in Drive THEN findFile(old.frn, old.pfrn, old.i) ELSE NULL
           pnew == findDir(r.pfrn, 1)
<1>1. /\ ReadRecord(1, "rename_new") /\ old' = old /\ IndexInv
      /\ IF FindFaults(old.pfrn, old.i) THEN Fail("freed")
         ELSE IF sameDir THEN IF file = NULL THEN Ignore ELSE renameFile(file, r.name)
         ELSE IF file = NULL THEN Fail("null")
         ELSE IF heap[file].frn # r.frn THEN Fail("assert")
         ELSE IF pnew = NULL THEN Ignore
         ELSE IF Freed(pnew) THEN Fail("freed")
         ELSE moveFile(file, pnew)
  BY DEF OnRenameNew, Handling, NtfsInv
<1>2. r.frn \in Frn /\ r.name \in Name /\ r.pfrn \in Dirs /\ r.pfrn # r.frn
  BY <1>1, ReadRecordInv DEF Handling
<1>3. Sound(heap) /\ MapNumbers /\ Typed(heap) /\ Hangs(heap) /\ MapsHold /\ Drive = {1}
  BY <1>1 DEF IndexInv, Sound, Handling
<1>4. PICK e \in TreeOf(heap) :
        /\ e.frn = r.frn /\ old = [frn |-> r.frn, pfrn |-> e.parent, i |-> 1]
        /\ t.tree = (TreeOf(heap) \ {e}) \cup
             {FileEntry(r.frn, r.pfrn, IF r.pfrn = e.parent THEN r.name ELSE e.name)}
        /\ t.old = old /\ Holds(TreeOf(heap), r.pfrn)
  BY <1>1 DEF Handling, Handles, ReadRecord
<1>5. PICK a \in LiveEntries(heap) \ {1} :
        /\ e = EntryIn(heap, a) /\ e.frn = heap[a].frn /\ e.name = heap[a].name
        /\ e.parent = heap[heap[a].parent].frn
  BY TreeOfFacts
<1>6. e.parent \in Dirs
  BY DEF Handling, IsTree
<1>7. old.frn = r.frn /\ old.pfrn = e.parent /\ old.i = 1
  BY <1>4
<1>8. ~FindFaults(e.parent, 1)
  BY <1>1, <1>7 DEF Fail, Running
<1>9. findFile(r.frn, e.parent, 1) = a /\ Found(heap, heap[a].parent, a)
  BY <1>1, <1>3, <1>4, <1>5, <1>6, <1>8, FindFileHas
<1>10. file = a
  BY <1>3, <1>7, <1>9
<1>11. a # NULL
  BY <1>3, HeapFacts DEF LiveEntries, NULL
<1>12. pnew # NULL /\ heap[pnew].frn = r.pfrn /\ (~Freed(pnew) => pnew \in LiveEntries(heap))
  BY <1>1, <1>2, <1>3, <1>4, FindDirHas
<1> HIDE DEF r, file, pnew
<1>13. CASE r.pfrn = e.parent
  <2>1. renameFile(a, r.name)
    BY <1>1, <1>7, <1>8, <1>10, <1>11, <1>13
  <2>2. heap' = RenamedHeap(heap, heap[a].parent, a, r.name) /\ DirMaps' = DirMaps
    BY <2>1 DEF renameFile, RenamedHeap
  <2>3. /\ Hangs(heap')
        /\ TreeOf(heap') = (TreeOf(heap) \ {EntryIn(heap, a)})
                             \cup {FileEntry(heap[a].frn, heap[heap[a].parent].frn, r.name)}
    BY <1>2, <1>3, <1>5, <1>9, <2>2, RenameHangs
  <2>4. TreeOf(heap') = t.tree
    BY <1>4, <1>5, <1>13, <2>3
  <2>5. MapsHold'
    BY <1>3, <1>4, <2>2, <2>4, EntryFields, MapsStillHold
  <2>6. QED
    BY <1>1, <1>4, <2>3, <2>4, <2>5 DEF Handled
<1>14. CASE r.pfrn # e.parent
  <2>1. ~Freed(pnew) /\ moveFile(a, pnew)
    BY <1>1, <1>4, <1>5, <1>7, <1>8, <1>10, <1>11, <1>12, <1>14 DEF Fail, Running
  <2>2. pnew \in LiveEntries(heap) /\ pnew # a
    BY <1>2, <1>4, <1>5, <1>12, <2>1
  <2>3. /\ heap' = addChildren(delete_file_from_parent_vector(heap, a, heap[a].parent), pnew, a)
        /\ DirMaps' = DirMaps
    BY <2>1 DEF moveFile
  <2>4. /\ Hangs(heap')
        /\ TreeOf(heap') = (TreeOf(heap) \ {EntryIn(heap, a)})
                             \cup {FileEntry(heap[a].frn, heap[pnew].frn, heap[a].name)}
    BY <1>3, <1>5, <1>9, <2>2, <2>3, MoveHangs
  <2>5. TreeOf(heap') = t.tree
    BY <1>4, <1>5, <1>12, <1>14, <2>4
  <2>6. MapsHold'
    BY <1>3, <1>4, <2>3, <2>5, EntryFields, MapsStillHold
  <2>7. QED
    BY <1>1, <1>4, <2>4, <2>5, <2>6 DEF Handled
<1>15. QED
  BY <1>13, <1>14

LEMMA OnDeleteHandles ==
  ASSUME NEW s, NEW t, Handling(s, t), OnDelete(1), Running'
  PROVE  Handled(t)'
<1> DEFINE r == Head(journal[1])
<1>1. /\ ReadRecord(1, "delete") /\ old' = old /\ IndexInv
      /\ IF FindFaults(r.pfrn, 1) THEN Fail("freed")
         ELSE IF findFile(r.frn, r.pfrn, 1) = NULL THEN Ignore ELSE deleteFile(findFile(r.frn, r.pfrn, 1))
  BY DEF OnDelete, Handling, NtfsInv
<1>2. Sound(heap) /\ Hangs(heap) /\ MapsHold /\ Drive = {1}
  BY <1>1 DEF IndexInv, Handling
<1>3. PICK e \in TreeOf(heap) : e.frn = r.frn /\ e.parent = r.pfrn /\ t.tree = TreeOf(heap) \ {e}
  BY <1>1 DEF Handling, Handles, ReadRecord
<1>4. t.old = old /\ \A d \in TreeOf(heap) : d.parent # r.frn
  BY <1>1 DEF Handling, Handles, ReadRecord
<1>5. PICK a \in LiveEntries(heap) \ {1} :
        e = EntryIn(heap, a) /\ e.frn = heap[a].frn /\ e.parent = heap[heap[a].parent].frn
  BY TreeOfFacts
<1>6. e.parent \in Dirs
  BY DEF Handling, IsTree
<1> HIDE DEF r
<1>7. ~FindFaults(r.pfrn, 1)
  BY <1>1 DEF Fail, Running
<1>8. findFile(r.frn, r.pfrn, 1) = a /\ Found(heap, heap[a].parent, a)
  BY <1>1, <1>2, <1>3, <1>5, <1>6, <1>7, FindFileHas
<1>9. a # NULL
  BY <1>2, HeapFacts DEF LiveEntries, NULL, Sound
<1>10. deleteFile(a)
  BY <1>1, <1>7, <1>8, <1>9
<1>11. heap' = DeletedHeap(heap, heap[a].parent, a) /\ DirMaps' = DirMaps
  BY <1>10 DEF deleteFile, Subtree, DeletedHeap
<1>12. ASSUME NEW x \in LiveEntries(heap) PROVE heap[x].parent # a
  <2>1. CASE x = 1
    BY <1>2, <1>9, <2>1 DEF Hangs
  <2>2. CASE x # 1
    BY <1>3, <1>4, <1>5, <2>2, TreeOfFacts
  <2>3. QED
    BY <2>1, <2>2
<1>13. Hangs(heap') /\ TreeOf(heap') = TreeOf(heap) \ {e}
  BY <1>2, <1>5, <1>8, <1>11, <1>12, DeleteHangs
<1>14. MapsHold'
  BY <1>2, <1>11, <1>13, MapsStillHold
<1>15. QED
  BY <1>1, <1>3, <1>4, <1>13, <1>14 DEF Handled

LEMMA OnOthersHandle ==
  ASSUME NEW s, NEW t, Handling(s, t), OnRenameOld(1) \/ OnOther(1)
  PROVE  Handled(t)'
<1> DEFINE r == Head(journal[1])
<1>1. UNCHANGED indexVars
  BY DEF OnRenameOld, OnOther, Ignore
<1>2. t.tree = TreeOf(heap) /\ old' = t.old
  <2>1. CASE OnRenameOld(1)
    BY <2>1 DEF OnRenameOld, ReadRecord, Handling, Handles
  <2>2. CASE OnOther(1)
    BY <2>2 DEF OnOther, ReadRecord, Handling, Handles
  <2>3. QED
    BY <2>1, <2>2
<1>3. heap' = heap /\ DirMaps' = DirMaps
  BY <1>1 DEF indexVars
<1>4. MapsHold'
  BY <1>3, MapsStillHold DEF Handling
<1>5. QED
  BY <1>2, <1>3, <1>4 DEF Handled, Handling

-----------------------------------------------------------------------------
(* The journal, read from its head and written at its end.                 *)

LEMMA ReadsLess ==
  ASSUME NEW s, NEW j \in Seq(RecordType), j # <<>>, NEW tree, NEW static, Reads(s, j, tree, static)
  PROVE  /\ Handles(s[0], Head(j), s[1]) /\ IsTree(tree) /\ IsTree(s[1].tree)
         /\ \E u : Reads(u, Tail(j), s[1].tree, s[1].old) /\ u[Len(Tail(j))] = s[Len(j)]
<1>1. /\ Len(j) \in Nat /\ Len(j) # 0 /\ Len(Tail(j)) = Len(j) - 1 /\ Head(j) = j[1]
      /\ \A k \in 1 .. Len(j) - 1 : Tail(j)[k] = j[k + 1]
  BY HeadTailProperties, EmptySeq, LenProperties
<1>2. 0 \in 0 .. Len(j) /\ 1 \in 0 .. Len(j) /\ 1 \in 1 .. Len(j) /\ 1 - 1 = 0
  BY <1>1
<1>3. Handles(s[0], Head(j), s[1]) /\ IsTree(tree) /\ IsTree(s[1].tree)
  BY <1>1, <1>2 DEF Reads
<1> DEFINE u == [k \in Nat |-> s[k + 1]]
<1>4. \A k \in Nat : u[k] = s[k + 1]
  OBVIOUS
<1> HIDE DEF u
<1>5. u[0] = s[1] /\ u[Len(Tail(j))] = s[Len(j)]
  <2>1. 0 \in Nat /\ 0 + 1 = 1 /\ Len(Tail(j)) \in Nat /\ Len(Tail(j)) + 1 = Len(j)
    BY <1>1
  <2>2. QED
    BY <1>4, <2>1
<1>6. ASSUME NEW k \in 0 .. Len(Tail(j)) PROVE IsTree(u[k].tree)
  <2>1. k \in Nat /\ k + 1 \in 0 .. Len(j)
    BY <1>1
  <2>2. QED
    BY <1>4, <2>1 DEF Reads
<1>7. ASSUME NEW k \in 1 .. Len(Tail(j)) PROVE Handles(u[k - 1], Tail(j)[k], u[k])
  <2>1. k \in Nat /\ k - 1 \in Nat /\ (k - 1) + 1 = k /\ (k + 1) - 1 = k /\ k + 1 \in 1 .. Len(j) /\ k \in 1 .. Len(j) - 1
    BY <1>1
  <2>2. Handles(s[(k + 1) - 1], j[k + 1], s[k + 1])
    BY <2>1 DEF Reads
  <2>3. u[k] = s[k + 1] /\ u[k - 1] = s[k] /\ Tail(j)[k] = j[k + 1] /\ s[(k + 1) - 1] = s[k]
    BY <1>1, <1>4, <2>1
  <2>4. QED
    BY <2>2, <2>3
<1>8. Reads(u, Tail(j), s[1].tree, s[1].old)
  BY <1>5, <1>6, <1>7 DEF Reads
<1>9. QED
  BY <1>3, <1>5, <1>8

LEMMA ReadsMore ==
  ASSUME NEW s, NEW j \in Seq(RecordType), NEW tree, NEW static, Reads(s, j, tree, static),
         NEW r \in RecordType, NEW t, Handles(s[Len(j)], r, t), IsTree(t.tree)
  PROVE  \E u : Reads(u, Append(j, r), tree, static) /\ u[Len(Append(j, r))] = t
<1> DEFINE J == Append(j, r)
           L == Len(j)
           u == [k \in Nat |-> IF k <= L THEN s[k] ELSE t]
<1>1. L \in Nat /\ Len(J) = L + 1 /\ J[L + 1] = r /\ \A k \in 1 .. L : J[k] = j[k]
  BY AppendProperties, LenProperties
<1> HIDE DEF J
<1>2. /\ \A k \in 0 .. L : u[k] = s[k]
      /\ u[L + 1] = t /\ u[0] = s[0]
  BY <1>1
<1> HIDE DEF u
<1>3. ASSUME NEW k \in 0 .. Len(J) PROVE IsTree(u[k].tree)
  <2>1. CASE k = L + 1
    BY <1>2, <2>1
  <2>2. CASE k \in 0 .. L
    BY <1>2, <2>2 DEF Reads
  <2>3. QED
    BY <1>1, <2>1, <2>2
<1>4. ASSUME NEW k \in 1 .. Len(J) PROVE Handles(u[k - 1], J[k], u[k])
  <2>1. CASE k = L + 1
    <3>1. u[k - 1] = s[L] /\ J[k] = r /\ u[k] = t
      BY <1>1, <1>2, <2>1
    <3>2. QED
      BY <3>1
  <2>2. CASE k \in 1 .. L
    <3>1. k - 1 \in 0 .. L /\ k \in 0 .. L
      BY <1>1, <2>2
    <3>2. u[k - 1] = s[k - 1] /\ J[k] = j[k] /\ u[k] = s[k]
      BY <1>1, <1>2, <2>2, <3>1
    <3>3. QED
      BY <2>2, <3>2 DEF Reads
  <2>3. QED
    BY <1>1, <2>1, <2>2
<1>5. Reads(u, J, tree, static)
  BY <1>2, <1>3, <1>4 DEF Reads
<1>6. u[Len(J)] = t
  BY <1>1, <1>2
<1>7. QED
  BY <1>5, <1>6 DEF J

-----------------------------------------------------------------------------
(* A program changes the volume.                                           *)

FileType == [exists : BOOLEAN, parent : Dirs \cup {0}, name : Name \cup {0}, renamedByMove : BOOLEAN]

LEMMA Branches ==
  /\ Branch({"create"}) = "other" /\ Branch({"create"} \cup {"close"}) = "create"
  /\ Branch({"rename_old"}) = "rename_old"
  /\ Branch({"rename_new"}) = "other" /\ Branch({"rename_new"} \cup {"close"}) = "rename_new"
  /\ Branch({"delete"} \cup {"close"}) = "delete"
<1>1. QED
  BY DEF Branch

LEMMA RecordFields ==
  ASSUME NEW f, NEW p, NEW n, NEW reason
  PROVE  /\ USN_RECORD(f, p, n, reason).frn = f /\ USN_RECORD(f, p, n, reason).pfrn = p
         /\ USN_RECORD(f, p, n, reason).name = n /\ USN_RECORD(f, p, n, reason).reason = reason
<1>1. QED
  BY DEF USN_RECORD

LEMMA AgreesHolds ==
  ASSUME NEW T, NEW D, Agrees(T, D), NEW p \in Dirs, p = ROOT_NUMBER \/ (p \in DirFrn /\ D[p].exists)
  PROVE  Holds(T, p)
<1>1. p \in Frn \/ p = ROOT_NUMBER
  BY DEF Frn
<1>2. QED
  BY <1>1 DEF Agrees, Holds

LEMMA EndsCreate ==
  ASSUME NEW s, IsTree(s.tree), NEW D \in [Frn -> FileType], NEW P \in [Frn -> SUBSET Reason],
         Ends(s, D, P), \A g \in Frn : P[g] = {},
         NEW f \in Frn, NEW p \in Dirs, NEW n \in Name,
         ~D[f].exists, p = ROOT_NUMBER \/ (p \in DirFrn /\ D[p].exists)
  PROVE  /\ Handles(s, USN_RECORD(f, p, n, {"create"}), s)
         /\ Ends(s, [D EXCEPT ![f] = [exists |-> TRUE, parent |-> p, name |-> n, renamedByMove |-> FALSE]],
                 [P EXCEPT ![f] = {"create"}])
<1> DEFINE e == [exists |-> TRUE, parent |-> p, name |-> n, renamedByMove |-> FALSE]
           D2 == [D EXCEPT ![f] = e]
           P2 == [P EXCEPT ![f] = {"create"}]
           t == [tree |-> s.tree \cup {FileEntry(f, p, n)}, old |-> s.old]
           r == USN_RECORD(f, p, n, {"create"} \cup {"close"})
<1>1. Handles(s, USN_RECORD(f, p, n, {"create"}), s)
  BY Branches, RecordFields DEF Handles
<1>2. Agrees(s.tree, D)
  BY DEF Ends
<1>3. /\ \A g \in Frn : D2[g] = IF g = f THEN e ELSE D[g]
      /\ \A g \in Frn : P2[g] = IF g = f THEN {"create"} ELSE {}
      /\ e.exists = TRUE /\ e.parent = p /\ e.name = n
  OBVIOUS
<1>4. t.tree = s.tree \cup {FileEntry(f, p, n)} /\ t.old = s.old
  OBVIOUS
<1>5. Holds(s.tree, p)
  BY <1>2, AgreesHolds
<1>6. ~Holds(s.tree, f)
  BY <1>2, NtfsAssumption DEF Agrees, Holds
<1>7. IsTree(t.tree)
  BY <1>4, <1>5, <1>6, TreeCreate
<1> HIDE DEF t, e, D2, P2
<1>8. ClosingRecord(f, D2, P2) = r /\ ClosedVolume(f, D2, P2) = D2
  BY <1>3 DEF ClosingRecord, ClosedVolume
<1>9. Handles(s, r, t)
  <2>1. Branch(r.reason) = "create" /\ r.frn = f /\ r.pfrn = p /\ r.name = n
    BY Branches, RecordFields
  <2>2. QED
    BY <1>4, <1>5, <1>6, <2>1 DEF Handles
<1>10. Agrees(t.tree, D2)
  <2>1. \A d \in s.tree : d.frn \in Frn /\ d.frn # f
    BY <1>6 DEF IsTree, Holds
  <2>2. \A g \in Frn : D2[g].exists <=> \E d \in t.tree : d.frn = g
    BY <1>2, <1>3, <1>4, EntryFields DEF Agrees
  <2>3. \A d \in t.tree : d.parent = D2[d.frn].parent /\ (D2[d.frn].renamedByMove \/ d.name = D2[d.frn].name)
    BY <1>2, <1>3, <1>4, <2>1, EntryFields DEF Agrees
  <2>4. QED
    BY <2>2, <2>3 DEF Agrees
<1>11. Ends(s, D2, P2)
  BY <1>3, <1>7, <1>8, <1>9, <1>10 DEF Ends
<1>12. QED
  BY <1>1, <1>11 DEF D2, P2, e

\* f may go to p: a set of files that has f and what is in it does not have p.
MayGo(D, f, p, C) ==
  /\ D[f].exists /\ p \in Dirs /\ (p = ROOT_NUMBER \/ (p \in DirFrn /\ D[p].exists))
  /\ C \in SUBSET Frn /\ f \in C /\ p \notin C
  /\ \A k \in Frn : D[k].exists /\ D[k].parent \in C => k \in C

\* What RenameFile makes of the file f, and what its first record makes of the static.
RenamedFile(D, f, p, n, e) ==
  /\ e.exists /\ e.parent = p /\ e.name = n
  /\ p # D[f].parent /\ (D[f].renamedByMove \/ n # D[f].name) => e.renamedByMove
OldNameRead(D, f, s, s1) ==
  s1.tree = s.tree /\ s1.old = [frn |-> f, pfrn |-> D[f].parent, i |-> 1]

LEMMA EndsRename ==
  ASSUME NEW s, IsTree(s.tree), NEW D \in [Frn -> FileType], NEW P \in [Frn -> SUBSET Reason],
         Ends(s, D, P), \A g \in Frn : P[g] = {},
         NEW f \in Frn, NEW p, NEW n \in Name, NEW C, MayGo(D, f, p, C),
         NEW s1, OldNameRead(D, f, s, s1), NEW e, RenamedFile(D, f, p, n, e)
  PROVE  /\ Handles(s, USN_RECORD(f, D[f].parent, D[f].name, {"rename_old"}), s1)
         /\ Handles(s1, USN_RECORD(f, p, n, {"rename_new"}), s1)
         /\ Ends(s1, [D EXCEPT ![f] = e], [P EXCEPT ![f] = {"rename_new"}])
<1> DEFINE D2 == [D EXCEPT ![f] = e]
           P2 == [P EXCEPT ![f] = {"rename_new"}]
           r == USN_RECORD(f, p, n, {"rename_new"} \cup {"close"})
<1>1. s1.tree = s.tree /\ s1.old = [frn |-> f, pfrn |-> D[f].parent, i |-> 1]
  BY DEF OldNameRead
<1>17. /\ D[f].exists /\ p \in Dirs /\ (p = ROOT_NUMBER \/ (p \in DirFrn /\ D[p].exists))
       /\ C \in SUBSET Frn /\ f \in C /\ p \notin C
       /\ \A k \in Frn : D[k].exists /\ D[k].parent \in C => k \in C
  BY DEF MayGo
<1>18. /\ e.exists /\ e.parent = p /\ e.name = n
       /\ p # D[f].parent /\ (D[f].renamedByMove \/ n # D[f].name) => e.renamedByMove
  BY DEF RenamedFile
<1>2. Agrees(s.tree, D)
  BY DEF Ends
<1>3. PICK d \in s.tree : d.frn = f
  BY <1>2, <1>17 DEF Agrees
<1>4. d.parent = D[f].parent /\ (D[f].renamedByMove \/ d.name = D[f].name)
  BY <1>2, <1>3 DEF Agrees
<1>5. /\ \A g \in Frn : D2[g] = IF g = f THEN e ELSE D[g]
      /\ \A g \in Frn : P2[g] = IF g = f THEN {"rename_new"} ELSE {}
  OBVIOUS
<1> HIDE DEF D2, P2
<1>6. Handles(s, USN_RECORD(f, D[f].parent, D[f].name, {"rename_old"}), s1)
  BY <1>1, Branches, RecordFields DEF Handles
<1>7. Handles(s1, USN_RECORD(f, p, n, {"rename_new"}), s1)
  BY Branches, RecordFields DEF Handles
<1> DEFINE m == IF p = d.parent THEN n ELSE d.name
           new == FileEntry(f, p, m)
           t == [tree |-> (s.tree \ {d}) \cup {new}, old |-> s1.old]
<1>8. t.tree = (s.tree \ {d}) \cup {new} /\ t.old = s1.old
  OBVIOUS
<1>9. new.frn = f /\ new.parent = p /\ new.name = m
  BY EntryFields
<1>10. Holds(s.tree, p)
  BY <1>2, <1>17, AgreesHolds
<1>11. IsTree(t.tree)
  <2>1. \A c \in s.tree : c.parent \in C => c.frn \in C
    BY <1>2, <1>17 DEF Agrees, IsTree
  <2>2. QED
    BY <1>3, <1>8, <1>10, <1>17, <2>1, TreeRename
<1> HIDE DEF t
<1>12. ClosingRecord(f, D2, P2) = r /\ ClosedVolume(f, D2, P2) = D2
  <2>1. P2[f] = {"rename_new"} /\ D2[f].parent = p /\ D2[f].name = n
    BY <1>5, <1>18
  <2>2. QED
    BY <2>1 DEF ClosingRecord, ClosedVolume
<1> HIDE DEF r, new
<1>13. Handles(s1, r, t)
  <2>1. Branch(r.reason) = "rename_new" /\ r.frn = f /\ r.pfrn = p /\ r.name = n
    BY Branches, RecordFields DEF r
  <2>2. new = FileEntry(r.frn, r.pfrn, IF r.pfrn = d.parent THEN r.name ELSE d.name)
    BY <2>1 DEF new
  <2>3. /\ d \in s1.tree /\ d.frn = r.frn /\ s1.old = [frn |-> r.frn, pfrn |-> d.parent, i |-> 1]
        /\ t.tree = (s1.tree \ {d}) \cup {new} /\ t.old = s1.old /\ Holds(s1.tree, r.pfrn)
    BY <1>1, <1>3, <1>4, <1>8, <1>10, <2>1
  <2> HIDE DEF new
  <2>4. QED
    BY <2>1, <2>2, <2>3 DEF Handles
<1> HIDE DEF m
<1>14. Agrees(t.tree, D2)
  <2>1. \A c \in s.tree : c.frn \in Frn /\ (c.frn = f => c = d)
    BY <1>3 DEF IsTree
  <2>2. ASSUME NEW g \in Frn PROVE D2[g].exists <=> \E c \in t.tree : c.frn = g
    <3>1. CASE g = f
      BY <1>5, <1>8, <1>9, <1>18, <3>1
    <3>2. CASE g # f
      <4>1. D2[g] = D[g] /\ (D[g].exists <=> \E c \in s.tree : c.frn = g)
        BY <1>2, <1>5, <3>2 DEF Agrees
      <4>2. (\E c \in s.tree : c.frn = g) <=> (\E c \in t.tree : c.frn = g)
        BY <1>3, <1>8, <1>9, <3>2
      <4>3. QED
        BY <4>1, <4>2
    <3>3. QED
      BY <3>1, <3>2
  <2>3. ASSUME NEW c \in s.tree \ {d}
        PROVE  c.parent = D2[c.frn].parent /\ (D2[c.frn].renamedByMove \/ c.name = D2[c.frn].name)
    BY <1>2, <1>5, <2>1 DEF Agrees
  <2>4. new.parent = D2[f].parent /\ (D2[f].renamedByMove \/ new.name = D2[f].name)
    BY <1>4, <1>5, <1>9, <1>18 DEF m
  <2>5. QED
    BY <1>8, <1>9, <2>2, <2>3, <2>4 DEF Agrees
<1>15. Ends(s1, D2, P2)
  <2>1. P2[f] # {} /\ \A g \in Frn \ {f} : P2[g] = {}
    BY <1>5
  <2>2. Handles(s1, ClosingRecord(f, D2, P2), t) /\ Agrees(t.tree, ClosedVolume(f, D2, P2))
    BY <1>12, <1>13, <1>14
  <2>3. QED
    BY <1>11, <2>1, <2>2 DEF Ends
<1>16. QED
  BY <1>6, <1>7, <1>15 DEF D2, P2

LEMMA EndsDelete ==
  ASSUME NEW s, IsTree(s.tree), NEW D \in [Frn -> FileType], NEW P \in [Frn -> SUBSET Reason],
         Ends(s, D, P), \A g \in Frn : P[g] = {},
         NEW f \in Frn, D[f].exists, \A k \in Frn : D[k].exists => D[k].parent # f
  PROVE  Ends(s, D, [P EXCEPT ![f] = {"delete"}])
<1> DEFINE D2 == [D EXCEPT ![f] = Absent]
           P2 == [P EXCEPT ![f] = {"delete"}]
           r == USN_RECORD(f, D[f].parent, D[f].name, {"delete"} \cup {"close"})
<1>1. Agrees(s.tree, D)
  BY DEF Ends
<1>2. PICK d \in s.tree : d.frn = f
  BY <1>1 DEF Agrees
<1>3. d.parent = D[f].parent /\ \A c \in s.tree : c.parent # f /\ c.frn \in Frn /\ (c.frn = f => c = d)
  <2>1. \A c \in s.tree : c.frn \in Frn /\ (c.frn = f => c = d)
    BY <1>2 DEF IsTree
  <2>2. \A c \in s.tree : D[c.frn].exists /\ c.parent = D[c.frn].parent
    BY <1>1, <2>1 DEF Agrees
  <2>3. QED
    BY <1>2, <2>1, <2>2
<1>4. /\ \A g \in Frn : D2[g] = IF g = f THEN Absent ELSE D[g]
      /\ \A g \in Frn : P2[g] = IF g = f THEN {"delete"} ELSE {}
      /\ Absent.exists = FALSE
  BY DEF Absent
<1> DEFINE t == [tree |-> s.tree \ {d}, old |-> s.old]
<1>5. t.tree = s.tree \ {d} /\ t.old = s.old
  OBVIOUS
<1> HIDE DEF t, P2
<1>6. IsTree(t.tree)
  BY <1>2, <1>3, <1>5, TreeDelete
<1>7. ClosingRecord(f, D, P2) = r /\ ClosedVolume(f, D, P2) = D2
  BY <1>4 DEF ClosingRecord, ClosedVolume
<1> HIDE DEF D2
<1>8. Handles(s, r, t)
  <2>1. Branch(r.reason) = "delete" /\ r.frn = f /\ r.pfrn = D[f].parent
    BY Branches, RecordFields
  <2>2. QED
    BY <1>2, <1>3, <1>5, <2>1 DEF Handles
<1>9. Agrees(t.tree, D2)
  <2>1. ASSUME NEW g \in Frn PROVE D2[g].exists <=> \E c \in t.tree : c.frn = g
    <3>1. CASE g = f
      BY <1>3, <1>4, <1>5, <3>1
    <3>2. CASE g # f
      <4>1. D2[g] = D[g] /\ (D[g].exists <=> \E c \in s.tree : c.frn = g)
        BY <1>1, <1>4, <3>2 DEF Agrees
      <4>2. (\E c \in s.tree : c.frn = g) <=> (\E c \in t.tree : c.frn = g)
        BY <1>2, <1>5, <3>2
      <4>3. QED
        BY <4>1, <4>2
    <3>3. QED
      BY <3>1, <3>2
  <2>2. ASSUME NEW c \in t.tree
        PROVE  c.parent = D2[c.frn].parent /\ (D2[c.frn].renamedByMove \/ c.name = D2[c.frn].name)
    <3>1. c \in s.tree /\ c.frn \in Frn /\ c.frn # f
      BY <1>3, <1>5
    <3>2. QED
      BY <1>1, <1>4, <3>1 DEF Agrees
  <2>3. QED
    BY <2>1, <2>2 DEF Agrees
<1>10. Ends(s, D, P2)
  BY <1>4, <1>6, <1>7, <1>8, <1>9 DEF Ends
<1>11. QED
  BY <1>10 DEF P2

LEMMA EndsClose ==
  ASSUME NEW s, NEW D \in [Frn -> FileType], NEW P \in [Frn -> SUBSET Reason],
         Ends(s, D, P), NEW f \in Frn, P[f] # {}
  PROVE  \E t : /\ Handles(s, ClosingRecord(f, D, P), t) /\ IsTree(t.tree)
                /\ Ends(t, ClosedVolume(f, D, P), [P EXCEPT ![f] = {}])
<1>1. /\ \A g \in Frn \ {f} : P[g] = {}
      /\ \E t : /\ Handles(s, ClosingRecord(f, D, P), t)
                /\ IsTree(t.tree) /\ Agrees(t.tree, ClosedVolume(f, D, P))
  BY DEF Ends
<1>2. \A g \in Frn : [P EXCEPT ![f] = {}][g] = {}
  BY <1>1
<1>3. QED
  BY <1>1, <1>2 DEF Ends

-----------------------------------------------------------------------------
(* The invariant of one volume.                                            *)

\* One volume, and no change of it begins before the last one is closed.
Alone == Overlap = FALSE /\ Drive = {1}

OneVolumeInv == NtfsInv /\ ReplayInv

LEMMA VolumeFacts ==
  ASSUME Alone, NtfsInv
  PROVE  /\ disk[1] \in [Frn -> FileType] /\ pending[1] \in [Frn -> SUBSET Reason]
         /\ journal[1] \in Seq(RecordType) /\ 1 \in Drive
         /\ disk \in [Drive -> [Frn -> FileType]] /\ pending \in [Drive -> [Frn -> SUBSET Reason]]
         /\ DOMAIN journal = Drive
<1>1. 1 \in Drive
  BY DEF Alone
<1>2. disk \in [Drive -> [Frn -> FileType]] /\ pending \in [Drive -> [Frn -> SUBSET (Reason \ {"rename_old", "close"})]]
  BY DEF NtfsInv, Volumes, FileType
<1>3. pending[1] \in [Frn -> SUBSET Reason] /\ pending \in [Drive -> [Frn -> SUBSET Reason]]
  BY <1>1, <1>2
<1>4. journal \in [Drive -> Seq(RecordType)]
  BY DEF NtfsInv, Journals
<1>5. QED
  BY <1>1, <1>2, <1>3, <1>4

LEMMA InitReplayInv == Alone /\ Init => ReplayInv
<1> SUFFICES ASSUME Alone, Init PROVE ReplayInv
  OBVIOUS
<1> DEFINE root == [frn |-> ROOT_NUMBER, parent |-> NULL, name |-> 0, dir |-> TRUE, children |-> <<>>, live |-> TRUE]
<1>1. Cardinality(Drive) = 1 /\ Drive = {1}
  BY FS_Singleton DEF Alone
<1>2. heap = [i \in 1 .. 1 |-> root]
  BY <1>1 DEF Init
<1>3. DOMAIN heap = {1} /\ heap[1].live /\ heap[1].frn = ROOT_NUMBER /\ heap[1].parent = NULL
  BY <1>2
<1>4. LiveEntries(heap) = {1}
  BY <1>3 DEF LiveEntries
<1>5. TreeOf(heap) = {}
  BY <1>4 DEF TreeOf
<1>6. Hangs(heap)
  BY <1>3, <1>4 DEF Hangs
<1>7. DirMaps[1][ROOT_NUMBER] = 1
  BY <1>1 DEF Init, g_rootVols, Dirs
<1>8. MapsHold
  BY <1>5, <1>7 DEF MapsHold, Holds, NULL
<1> DEFINE s == [k \in Nat |-> [tree |-> {}, old |-> [frn |-> 0, pfrn |-> 0, i |-> 0]]]
<1>9. /\ s[0].tree = {} /\ s[0].old = [frn |-> 0, pfrn |-> 0, i |-> 0]
  OBVIOUS
<1> HIDE DEF s
<1>10. old = [frn |-> 0, pfrn |-> 0, i |-> 0] /\ journal[1] = <<>> /\ Len(journal[1]) = 0
  BY <1>1 DEF Init
<1>11. IsTree({})
  BY DEF IsTree, Rooted
<1>12. Reads(s, journal[1], TreeOf(heap), old)
  <2>1. \A k \in 0 .. 0 : k = 0
    OBVIOUS
  <2>2. 1 .. 0 = {}
    OBVIOUS
  <2>3. QED
    BY <1>5, <1>9, <1>10, <1>11, <2>1, <2>2 DEF Reads
<1>13. Ends(s[0], disk[1], pending[1])
  <2>1. \A f \in Frn : disk[1][f] = Absent /\ pending[1][f] = {}
    BY <1>1 DEF Init
  <2>2. Agrees({}, disk[1])
    BY <2>1 DEF Agrees, Absent
  <2>3. QED
    BY <1>9, <2>1, <2>2 DEF Ends
<1>14. Replays
  BY <1>10, <1>12, <1>13 DEF Replays
<1>15. QED
  BY <1>6, <1>8, <1>14 DEF ReplayInv

\* What a program that may change the volume finds.
LEMMA MayChangeFacts ==
  ASSUME Alone, OneVolumeInv, MayChange(1)
  PROVE  /\ \A f \in Frn : pending[1][f] = {}
         /\ fault = "none" /\ Hangs(heap) /\ MapsHold /\ Replays
         /\ heap' = heap /\ DirMaps' = DirMaps /\ old' = old
<1>1. QED
  BY DEF Alone, OneVolumeInv, MayChange, ReplayInv, Running, indexVars

LEMMA IndexStaysReplay ==
  ASSUME ReplayInv, Running, heap' = heap, DirMaps' = DirMaps, Replays'
  PROVE  ReplayInv'
<1>1. QED
  BY DEF ReplayInv, MapsHold

LEMMA CreateFileReplays ==
  ASSUME Alone, OneVolumeInv, NEW f \in Frn, NEW p \in Dirs, NEW n \in Name, CreateFile(1, f, p, n)
  PROVE  ReplayInv'
<1> DEFINE e == [exists |-> TRUE, parent |-> p, name |-> n, renamedByMove |-> FALSE]
           r == USN_RECORD(f, p, n, {"create"})
<1>1. MayChange(1) /\ ~disk[1][f].exists /\ DirExists(1, p)
  BY DEF CreateFile
<1>2. /\ \A g \in Frn : pending[1][g] = {}
      /\ fault = "none" /\ Hangs(heap) /\ MapsHold /\ Replays
      /\ heap' = heap /\ DirMaps' = DirMaps /\ old' = old
  BY <1>1, MayChangeFacts
<1>3. NtfsInv
  BY DEF OneVolumeInv
<1>4. /\ disk[1] \in [Frn -> FileType] /\ pending[1] \in [Frn -> SUBSET Reason]
      /\ journal[1] \in Seq(RecordType) /\ 1 \in Drive
      /\ disk \in [Drive -> [Frn -> FileType]] /\ pending \in [Drive -> [Frn -> SUBSET Reason]]
      /\ DOMAIN journal = Drive
  BY <1>3, VolumeFacts
<1>5. /\ disk'[1] = [disk[1] EXCEPT ![f] = e] /\ pending'[1] = [pending[1] EXCEPT ![f] = {"create"}]
      /\ journal'[1] = Append(journal[1], r)
  BY <1>4 DEF CreateFile
<1>6. p = ROOT_NUMBER \/ (p \in DirFrn /\ disk[1][p].exists)
  BY <1>1 DEF DirExists
<1>7. r \in RecordType
  <2>1. p # f
    BY <1>1, <1>6, NtfsAssumption
  <2>2. QED
    BY <2>1, RecordOf DEF Reason
<1>8. PICK s : Reads(s, journal[1], TreeOf(heap), old) /\ Ends(s[Len(journal[1])], disk[1], pending[1])
  BY <1>2 DEF Replays
<1>9. PICK z : z = s[Len(journal[1])]
  OBVIOUS
<1> HIDE DEF r, e
<1>10. IsTree(z.tree) /\ Handles(z, r, z) /\ Ends(z, disk'[1], pending'[1])
  <2>1. IsTree(z.tree)
    BY <1>4, <1>8, <1>9, LenProperties DEF Reads
  <2>2. Ends(z, disk[1], pending[1])
    BY <1>8, <1>9
  <2>3. Handles(z, r, z) /\ Ends(z, [disk[1] EXCEPT ![f] = e], [pending[1] EXCEPT ![f] = {"create"}])
    BY <1>1, <1>2, <1>4, <1>6, <2>1, <2>2, EndsCreate DEF r, e
  <2>4. QED
    BY <1>5, <2>1, <2>3
<1>11. \E u : Reads(u, Append(journal[1], r), TreeOf(heap), old) /\ u[Len(Append(journal[1], r))] = z
  <2>1. Reads(s, journal[1], TreeOf(heap), old) /\ Handles(s[Len(journal[1])], r, z)
    BY <1>8, <1>9, <1>10
  <2>2. QED
    BY <1>4, <1>7, <1>10, <2>1, ReadsMore
<1>12. Replays'
  BY <1>2, <1>5, <1>10, <1>11 DEF Replays
<1>13. QED
  BY <1>2, <1>12, IndexStaysReplay DEF OneVolumeInv, Running

LEMMA RenameFileReplays ==
  ASSUME Alone, OneVolumeInv, NEW f \in Frn, NEW p \in Dirs, NEW n \in Name, RenameFile(1, f, p, n)
  PROVE  ReplayInv'
<1> DEFINE d == disk[1][f]
           e == [exists |-> TRUE, parent |-> p, name |-> n,
                 renamedByMove |-> p # d.parent /\ (d.renamedByMove \/ n # d.name)]
           r1 == USN_RECORD(f, d.parent, d.name, {"rename_old"})
           r2 == USN_RECORD(f, p, n, {"rename_new"})
<1>1. MayChange(1) /\ d.exists /\ DirExists(1, p) /\ p \notin Inside(1, f)
  BY DEF RenameFile
<1>2. /\ \A g \in Frn : pending[1][g] = {}
      /\ fault = "none" /\ Hangs(heap) /\ MapsHold /\ Replays
      /\ heap' = heap /\ DirMaps' = DirMaps /\ old' = old
  BY <1>1, MayChangeFacts
<1>3. NtfsInv
  BY DEF OneVolumeInv
<1>4. /\ disk[1] \in [Frn -> FileType] /\ pending[1] \in [Frn -> SUBSET Reason]
      /\ journal[1] \in Seq(RecordType) /\ 1 \in Drive
      /\ disk \in [Drive -> [Frn -> FileType]] /\ pending \in [Drive -> [Frn -> SUBSET Reason]]
      /\ DOMAIN journal = Drive
  BY <1>3, VolumeFacts
<1>5. /\ disk'[1] = [disk[1] EXCEPT ![f] = e] /\ pending'[1] = [pending[1] EXCEPT ![f] = {"rename_new"}]
      /\ journal'[1] = journal[1] \o <<r1, r2>>
  <2>1. pending[1][f] = {}
    BY <1>2
  <2>2. /\ ({} \ {"rename_new"}) \cup {"rename_old"} = {"rename_old"}
        /\ {} \cup {"rename_new"} = {"rename_new"}
    OBVIOUS
  <2>3. disk' = [disk EXCEPT ![1] = [disk[1] EXCEPT ![f] = e]]
    BY DEF RenameFile
  <2>4. pending' = [pending EXCEPT ![1] = [pending[1] EXCEPT ![f] = {"rename_new"}]]
    BY <2>1, <2>2 DEF RenameFile
  <2>5. journal' = [journal EXCEPT ![1] = journal[1] \o <<r1, r2>>]
    BY <2>1, <2>2 DEF RenameFile
  <2>6. QED
    BY <1>4, <2>3, <2>4, <2>5
<1>6. p = ROOT_NUMBER \/ (p \in DirFrn /\ disk[1][p].exists)
  BY <1>1 DEF DirExists
<1>7. PICK C \in SUBSET Frn :
        /\ f \in C /\ p \notin C /\ \A k \in Frn : disk[1][k].exists /\ disk[1][k].parent \in C => k \in C
  <2>1. CASE p \in Frn
    BY <1>1, <2>1 DEF Inside
  <2>2. CASE p \notin Frn
    BY <2>2
  <2>3. QED
    BY <2>1, <2>2
<1>8. r1 \in RecordType /\ r2 \in RecordType
  <2>1. p # f /\ d.parent \in Dirs \ {f} /\ d.name \in Name
    BY <1>1, <1>3, <1>4, <1>7, FileFacts DEF NtfsInv
  <2>2. QED
    BY <2>1, RecordOf DEF Reason
<1>9. journal[1] \o <<r1, r2>> = Append(Append(journal[1], r1), r2) /\ Append(journal[1], r1) \in Seq(RecordType)
  <2>1. Append(journal[1], r1) \in Seq(RecordType)
    BY <1>4, <1>8, AppendProperties
  <2>2. <<r1, r2>> = Append(<<r1>>, r2) /\ <<r1>> \in Seq(RecordType) /\ <<r2>> \in Seq(RecordType)
    BY <1>8
  <2>3. Append(journal[1], r1) = journal[1] \o <<r1>>
    BY <1>4, <1>8, AppendIsConcat
  <2>4. Append(Append(journal[1], r1), r2) = Append(journal[1], r1) \o <<r2>>
    BY <1>8, <2>1, AppendIsConcat
  <2>5. <<r1, r2>> = <<r1>> \o <<r2>>
    BY <1>8, <2>2, AppendIsConcat
  <2>6. (journal[1] \o <<r1>>) \o <<r2>> = journal[1] \o (<<r1>> \o <<r2>>)
    BY <1>4, <2>2, ConcatAssociative
  <2>7. QED
    BY <2>1, <2>3, <2>4, <2>5, <2>6
<1>10. PICK s : Reads(s, journal[1], TreeOf(heap), old) /\ Ends(s[Len(journal[1])], disk[1], pending[1])
  BY <1>2 DEF Replays
<1>11. PICK z : z = s[Len(journal[1])]
  OBVIOUS
<1>12. PICK y : y = [tree |-> z.tree, old |-> [frn |-> f, pfrn |-> d.parent, i |-> 1]]
  OBVIOUS
<1>13. y.tree = z.tree
  BY <1>12
<1> HIDE DEF r1, r2, e
<1>14. IsTree(y.tree) /\ Handles(z, r1, y) /\ Handles(y, r2, y) /\ Ends(y, disk'[1], pending'[1])
  <2>1. IsTree(z.tree)
    BY <1>4, <1>10, <1>11, LenProperties DEF Reads
  <2>2. Ends(z, disk[1], pending[1])
    BY <1>10, <1>11
  <2>3. /\ Handles(z, r1, y) /\ Handles(y, r2, y)
        /\ Ends(y, [disk[1] EXCEPT ![f] = e], [pending[1] EXCEPT ![f] = {"rename_new"}])
    <3>1. RenamedFile(disk[1], f, p, n, e)
      BY DEF RenamedFile, e
    <3>2. OldNameRead(disk[1], f, z, y)
      BY <1>12 DEF OldNameRead
    <3>3. MayGo(disk[1], f, p, C)
      BY <1>1, <1>6, <1>7 DEF MayGo
    <3>4. /\ Handles(z, USN_RECORD(f, disk[1][f].parent, disk[1][f].name, {"rename_old"}), y)
          /\ Handles(y, USN_RECORD(f, p, n, {"rename_new"}), y)
          /\ Ends(y, [disk[1] EXCEPT ![f] = e], [pending[1] EXCEPT ![f] = {"rename_new"}])
      BY <1>2, <1>4, <2>1, <2>2, <3>1, <3>2, <3>3, EndsRename
    <3>5. QED
      BY <3>4 DEF r1, r2
  <2>4. QED
    BY <1>5, <1>13, <2>1, <2>3
<1> DEFINE j == Append(journal[1], r1)
<1>15. PICK v : Reads(v, j, TreeOf(heap), old) /\ v[Len(j)] = y
  <2>1. Reads(s, journal[1], TreeOf(heap), old) /\ Handles(s[Len(journal[1])], r1, y)
    BY <1>10, <1>11, <1>14
  <2>2. QED
    BY <1>4, <1>8, <1>14, <2>1, ReadsMore
<1>16. j \in Seq(RecordType) /\ journal'[1] = Append(j, r2)
  BY <1>5, <1>9
<1> HIDE DEF j
<1>17. Replays'
  <2>1. Reads(v, j, TreeOf(heap), old) /\ Handles(v[Len(j)], r2, y)
    BY <1>14, <1>15
  <2>2. \E u : Reads(u, Append(j, r2), TreeOf(heap), old) /\ u[Len(Append(j, r2))] = y
    BY <1>8, <1>14, <1>16, <2>1, ReadsMore
  <2>3. QED
    BY <1>2, <1>14, <1>16, <2>2 DEF Replays
<1>18. QED
  BY <1>2, <1>17, IndexStaysReplay DEF OneVolumeInv, Running

LEMMA DeleteFileReplays ==
  ASSUME Alone, OneVolumeInv, NEW f \in Frn, DeleteFile(1, f)
  PROVE  ReplayInv'
<1>1. MayChange(1) /\ disk[1][f].exists /\ Inside(1, f) = {f} /\ disk' = disk /\ journal' = journal
  BY DEF DeleteFile
<1>2. /\ \A g \in Frn : pending[1][g] = {}
      /\ fault = "none" /\ Hangs(heap) /\ MapsHold /\ Replays
      /\ heap' = heap /\ DirMaps' = DirMaps /\ old' = old
  BY <1>1, MayChangeFacts
<1>3. NtfsInv
  BY DEF OneVolumeInv
<1>4. /\ disk[1] \in [Frn -> FileType] /\ pending[1] \in [Frn -> SUBSET Reason]
      /\ journal[1] \in Seq(RecordType) /\ 1 \in Drive
      /\ disk \in [Drive -> [Frn -> FileType]] /\ pending \in [Drive -> [Frn -> SUBSET Reason]]
      /\ DOMAIN journal = Drive
  BY <1>3, VolumeFacts
<1>5. pending'[1] = [pending[1] EXCEPT ![f] = {"delete"}]
  <2>1. pending[1][f] \cup {"delete"} = {"delete"}
    BY <1>2
  <2>2. pending' = [pending EXCEPT ![1] = [pending[1] EXCEPT ![f] = {"delete"}]]
    BY <2>1 DEF DeleteFile
  <2>3. QED
    BY <1>4, <2>2
<1>6. ASSUME NEW k \in Frn, disk[1][k].exists PROVE disk[1][k].parent # f
  <2>1. SUFFICES ASSUME disk[1][k].parent = f PROVE FALSE
    OBVIOUS
  <2>2. k \in Inside(1, f)
    BY <1>6, <2>1 DEF Inside
  <2>3. k # f
    BY <1>3, <1>4, <1>6, <2>1, FileFacts DEF NtfsInv
  <2>4. QED
    BY <1>1, <2>2, <2>3
<1>7. PICK s : Reads(s, journal[1], TreeOf(heap), old) /\ Ends(s[Len(journal[1])], disk[1], pending[1])
  BY <1>2 DEF Replays
<1>8. IsTree(s[Len(journal[1])].tree)
  BY <1>4, <1>7, LenProperties DEF Reads
<1>9. Ends(s[Len(journal[1])], disk[1], pending'[1])
  <2>1. Ends(s[Len(journal[1])], disk[1], [pending[1] EXCEPT ![f] = {"delete"}])
    BY <1>1, <1>2, <1>4, <1>6, <1>7, <1>8, EndsDelete
  <2>2. QED
    BY <1>5, <2>1
<1>10. Replays'
  BY <1>1, <1>2, <1>7, <1>9 DEF Replays
<1>11. QED
  BY <1>2, <1>10, IndexStaysReplay DEF OneVolumeInv, Running

LEMMA CloseFileReplays ==
  ASSUME Alone, OneVolumeInv, NEW f \in Frn, CloseFile(1, f)
  PROVE  ReplayInv'
<1> DEFINE r == ClosingRecord(f, disk[1], pending[1])
<1>1. /\ fault = "none" /\ pending[1][f] # {} /\ UNCHANGED <<ops, indexVars, old>>
  BY DEF CloseFile
<1>2. /\ Hangs(heap) /\ MapsHold /\ Replays /\ NtfsInv
      /\ heap' = heap /\ DirMaps' = DirMaps /\ old' = old
  BY <1>1 DEF OneVolumeInv, ReplayInv, Running, indexVars
<1>3. /\ disk[1] \in [Frn -> FileType] /\ pending[1] \in [Frn -> SUBSET Reason]
      /\ journal[1] \in Seq(RecordType) /\ 1 \in Drive
      /\ disk \in [Drive -> [Frn -> FileType]] /\ pending \in [Drive -> [Frn -> SUBSET Reason]]
      /\ DOMAIN journal = Drive
  BY <1>2, VolumeFacts
<1>4. pending'[1] = [pending[1] EXCEPT ![f] = {}] /\ journal'[1] = Append(journal[1], r)
  BY <1>3 DEF CloseFile, ClosingRecord
<1>5. disk'[1] = ClosedVolume(f, disk[1], pending[1])
  <2>1. disk' = IF "delete" \in pending[1][f] THEN [disk EXCEPT ![1] = [disk[1] EXCEPT ![f] = Absent]] ELSE disk
    BY DEF CloseFile
  <2>2. QED
    BY <1>3, <2>1 DEF ClosedVolume
<1>6. r \in RecordType
  <2>1. /\ disk[1][f].parent \in Dirs \ {f} /\ disk[1][f].name \in Name
        /\ pending[1][f] \in SUBSET (Reason \ {"rename_old", "close"})
    BY <1>1, <1>2, <1>3, FileFacts DEF NtfsInv
  <2>2. QED
    BY <2>1, RecordOf DEF Reason, ClosingRecord
<1>7. PICK s : Reads(s, journal[1], TreeOf(heap), old) /\ Ends(s[Len(journal[1])], disk[1], pending[1])
  BY <1>2 DEF Replays
<1> HIDE DEF r
<1>8. PICK t : Handles(s[Len(journal[1])], r, t) /\ IsTree(t.tree) /\ Ends(t, disk'[1], pending'[1])
  <2>1. \E t : /\ Handles(s[Len(journal[1])], r, t) /\ IsTree(t.tree)
               /\ Ends(t, ClosedVolume(f, disk[1], pending[1]), [pending[1] EXCEPT ![f] = {}])
    BY <1>1, <1>3, <1>7, EndsClose DEF r
  <2>2. QED
    BY <1>4, <1>5, <2>1
<1>9. \E u : Reads(u, Append(journal[1], r), TreeOf(heap), old) /\ u[Len(Append(journal[1], r))] = t
  BY <1>3, <1>6, <1>7, <1>8, ReadsMore
<1>10. Replays'
  BY <1>2, <1>4, <1>8, <1>9 DEF Replays
<1>11. QED
  BY <1>1, <1>2, <1>10, IndexStaysReplay DEF OneVolumeInv, Running

\* One more record is read.
LEMMA ReadHandles ==
  ASSUME Alone, OneVolumeInv,
         OnCreate(1) \/ OnRenameOld(1) \/ OnRenameNew(1) \/ OnDelete(1) \/ OnOther(1)
  PROVE  /\ \E s, t : Handling(s, t) /\ (Running' => Handled(t)')
         /\ ReplayInv'
<1>1. PICK branch : ReadRecord(1, branch)
  BY DEF OnCreate, OnRenameOld, OnRenameNew, OnDelete, OnOther
<1>2. fault = "none" /\ journal[1] # <<>> /\ disk' = disk /\ pending' = pending
  BY <1>1 DEF ReadRecord, volumeVars
<1>3. Hangs(heap) /\ MapsHold /\ Replays /\ NtfsInv
  BY <1>2 DEF OneVolumeInv, ReplayInv, Running
<1>4. journal[1] \in Seq(RecordType) /\ 1 \in Drive /\ DOMAIN journal = Drive /\ Drive = {1}
  BY <1>3, VolumeFacts DEF Alone
<1>5. journal'[1] = Tail(journal[1])
  BY <1>1, <1>4 DEF ReadRecord
<1>6. PICK s : Reads(s, journal[1], TreeOf(heap), old) /\ Ends(s[Len(journal[1])], disk[1], pending[1])
  BY <1>3 DEF Replays
<1>7. /\ Handles(s[0], Head(journal[1]), s[1]) /\ IsTree(TreeOf(heap))
      /\ \E u : Reads(u, Tail(journal[1]), s[1].tree, s[1].old) /\ u[Len(Tail(journal[1]))] = s[Len(journal[1])]
  BY <1>2, <1>4, <1>6, ReadsLess
<1>8. s[0].tree = TreeOf(heap) /\ s[0].old = old
  BY <1>6 DEF Reads
<1>9. Handling(s[0], s[1])
  BY <1>3, <1>4, <1>7, <1>8 DEF Handling
<1>10. ASSUME Running' PROVE Handled(s[1])'
  BY <1>9, <1>10, OnCreateHandles, OnRenameNewHandles, OnDeleteHandles, OnOthersHandle
<1>11. ASSUME Running' PROVE Replays'
  <2>1. TreeOf(heap') = s[1].tree /\ old' = s[1].old
    BY <1>10, <1>11 DEF Handled
  <2>2. QED
    BY <1>2, <1>5, <1>6, <1>7, <2>1 DEF Replays
<1>12. ReplayInv'
  BY <1>10, <1>11 DEF ReplayInv, Handled
<1>13. QED
  BY <1>9, <1>10, <1>12

LEMMA StepKeepsReplayInv == Alone /\ OneVolumeInv /\ [Next]_vars => OneVolumeInv'
<1> SUFFICES ASSUME Alone, OneVolumeInv, [Next]_vars PROVE OneVolumeInv'
  OBVIOUS
<1>1. NtfsInv'
  BY StepKeepsNtfsInv DEF OneVolumeInv
<1>2. CASE UNCHANGED vars
  BY <1>1, <1>2 DEF vars, OneVolumeInv, ReplayInv, Running, MapsHold, Replays
<1>3. CASE Next
  <2>1. PICK i \in Drive :
          \/ \E f \in Frn, p \in Dirs, n \in Name : CreateFile(i, f, p, n)
          \/ \E f \in Frn, p \in Dirs, n \in Name : RenameFile(i, f, p, n)
          \/ \E f \in Frn : DeleteFile(i, f)
          \/ \E f \in Frn : CloseFile(i, f)
          \/ OnCreate(i) \/ OnRenameOld(i) \/ OnRenameNew(i) \/ OnDelete(i) \/ OnOther(i)
    BY <1>3 DEF Next
  <2>2. i = 1
    BY DEF Alone
  <2>3. ReplayInv'
    BY <2>1, <2>2, CreateFileReplays, RenameFileReplays, DeleteFileReplays, CloseFileReplays, ReadHandles
  <2>4. QED
    BY <1>1, <2>3 DEF OneVolumeInv
<1>4. QED
  BY <1>2, <1>3

LEMMA OneVolumeInvariant == ASSUME Alone PROVE Spec => []OneVolumeInv
<1>1. Init => OneVolumeInv
  BY InitNtfsInv, InitReplayInv DEF OneVolumeInv
<1>2. OneVolumeInv /\ [Next]_vars => OneVolumeInv'
  BY StepKeepsReplayInv
<1>3. QED
  BY <1>1, <1>2, PTL DEF Spec

-----------------------------------------------------------------------------
(* What the runs check of one volume.                                      *)

\* The tree of the model is what hangs below the root.
LEMMA SubtreeIsLive ==
  ASSUME Alone, OneVolumeInv, Running
  PROVE  /\ Subtree(g_rootVols(1)) = LiveEntries(heap) /\ Indexed(1) = LiveEntries(heap) \ {1}
         /\ Hangs(heap) /\ MapsHold /\ IsTree(TreeOf(heap)) /\ Sound(heap)
         /\ \A a : Entry(a) = EntryIn(heap, a)
<1>1. Hangs(heap) /\ MapsHold /\ Replays /\ NtfsInv
  BY DEF OneVolumeInv, ReplayInv
<1>2. Sound(heap)
  BY <1>1 DEF NtfsInv, IndexInv
<1>3. IsTree(TreeOf(heap))
  <2>1. PICK s : Reads(s, journal[1], TreeOf(heap), old)
    BY <1>1 DEF Replays
  <2>2. journal[1] \in Seq(RecordType)
    BY <1>1, VolumeFacts
  <2>3. 0 \in 0 .. Len(journal[1])
    BY <2>2, LenProperties
  <2>4. QED
    BY <2>1, <2>3 DEF Reads
<1>4. Below(heap, 1) = LiveEntries(heap)
  BY <1>1, <1>2, <1>3, RootReaches DEF IsTree
<1>5. \A a : Entry(a) = EntryIn(heap, a)
  BY DEF Entry, EntryIn, FileEntry
<1>6. QED
  BY <1>1, <1>2, <1>3, <1>4, <1>5 DEF Subtree, g_rootVols, Indexed

LEMMA InvImpliesIndexMatches == Alone /\ OneVolumeInv => IndexMatchesDisk
<1> SUFFICES ASSUME Alone, OneVolumeInv, Running, Drained(1)
             PROVE  /\ {heap[a].frn : a \in Indexed(1)} = {f \in Frn : disk[1][f].exists}
                    /\ \A a, b \in Indexed(1) : heap[a].frn = heap[b].frn => a = b
                    /\ \A a \in Indexed(1) :
                         /\ Entry(a).parent = disk[1][heap[a].frn].parent
                         /\ disk[1][heap[a].frn].renamedByMove \/ Entry(a).name = disk[1][heap[a].frn].name
  BY DEF IndexMatchesDisk, Alone
<1>1. /\ Indexed(1) = LiveEntries(heap) \ {1} /\ Hangs(heap) /\ Sound(heap)
      /\ \A a : Entry(a) = EntryIn(heap, a)
  BY SubtreeIsLive
<1>2. Replays
  BY DEF OneVolumeInv, ReplayInv
<1>3. journal[1] = <<>> /\ \A f \in Frn : pending[1][f] = {}
  BY DEF Drained
<1>4. Len(journal[1]) = 0
  BY <1>3
<1>5. Agrees(TreeOf(heap), disk[1])
  BY <1>2, <1>3, <1>4 DEF Replays, Reads, Ends
<1>6. \A a \in LiveEntries(heap) \ {1} : heap[a].frn \in Frn
  BY <1>1, HangsFacts
<1>7. \A f \in Frn : disk[1][f].exists <=> \E a \in LiveEntries(heap) \ {1} : heap[a].frn = f
  BY <1>5, TreeOfFacts DEF Agrees
<1>8. {heap[a].frn : a \in Indexed(1)} = {f \in Frn : disk[1][f].exists}
  BY <1>1, <1>6, <1>7
<1>9. \A a, b \in Indexed(1) : heap[a].frn = heap[b].frn => a = b
  BY <1>1 DEF Hangs
<1>10. ASSUME NEW a \in Indexed(1)
       PROVE  /\ Entry(a).parent = disk[1][heap[a].frn].parent
              /\ disk[1][heap[a].frn].renamedByMove \/ Entry(a).name = disk[1][heap[a].frn].name
  <2>1. EntryIn(heap, a) \in TreeOf(heap) /\ EntryIn(heap, a).frn = heap[a].frn
    BY <1>1, TreeOfFacts
  <2>2. QED
    BY <1>1, <1>5, <2>1 DEF Agrees
<1>11. QED
  BY <1>8, <1>9, <1>10

LEMMA InvImpliesCount == Alone /\ OneVolumeInv => CountMatchesTree
<1> SUFFICES ASSUME Alone, OneVolumeInv, Running
             PROVE  ALL_FILE_COUNT = Cardinality(UNION {Subtree(g_rootVols(i)) : i \in Drive})
  BY DEF CountMatchesTree
<1>1. UNION {Subtree(g_rootVols(i)) : i \in Drive} = LiveEntries(heap)
  BY SubtreeIsLive DEF Alone
<1>2. ALL_FILE_COUNT = Cardinality(LiveEntries(heap))
  <2>1. ~(Cardinality(Drive) > 1)
    <3>1. Drive = {1}
      BY DEF Alone
    <3>2. Cardinality(Drive) = 1
      BY <3>1, FS_Singleton
    <3>3. QED
      BY <3>2
  <2>2. QED
    BY <2>1 DEF OneVolumeInv, NtfsInv, IndexInv, CountIsLive
<1>3. QED
  BY <1>1, <1>2

LEMMA InvImpliesLookup == Alone /\ OneVolumeInv => LookupNeverWrong
<1> SUFFICES ASSUME Alone, OneVolumeInv, Running, NEW k \in Dirs, Live(findDir(k, 1))
             PROVE  findDir(k, 1) \in Subtree(g_rootVols(1)) /\ heap[findDir(k, 1)].frn = k
  BY DEF LookupNeverWrong, Alone
<1>1. findDir(k, 1) = DirMaps[1][k]
  BY DEF findDir
<1>2. DirMaps[1][k] \in DOMAIN heap /\ heap[DirMaps[1][k]].frn = k
  BY <1>1 DEF Live, Alone, OneVolumeInv, NtfsInv, IndexInv, MapNumbers
<1>3. findDir(k, 1) \in LiveEntries(heap)
  BY <1>1, <1>2 DEF Live, LiveEntries
<1>4. QED
  BY <1>1, <1>2, <1>3, SubtreeIsLive

\* The files a record does not name keep their entries.
LEMMA HandlesOthers ==
  ASSUME NEW s, NEW r, NEW t, Handles(s, r, t)
  PROVE  {e \in t.tree : e.frn # r.frn} = {e \in s.tree : e.frn # r.frn}
<1>1. CASE t.tree = s.tree
  BY <1>1
<1>2. CASE t.tree = s.tree \cup {FileEntry(r.frn, r.pfrn, r.name)}
  BY <1>2, EntryFields
<1>3. ASSUME NEW e \in s.tree, e.frn = r.frn, t.tree = s.tree \ {e}
      PROVE  {c \in t.tree : c.frn # r.frn} = {c \in s.tree : c.frn # r.frn}
  BY <1>3
<1>4. ASSUME NEW e \in s.tree, e.frn = r.frn, NEW n,
             t.tree = (s.tree \ {e}) \cup {FileEntry(r.frn, r.pfrn, n)}
      PROVE  {c \in t.tree : c.frn # r.frn} = {c \in s.tree : c.frn # r.frn}
  BY <1>4, EntryFields
<1>5. QED
  BY <1>1, <1>2, <1>3, <1>4 DEF Handles

LEMMA OthersOfTree ==
  ASSUME Alone
  PROVE  OneVolumeInv /\ Running => \A f : Others(1, f) = {e \in TreeOf(heap) : e.frn # f}
<1> SUFFICES ASSUME OneVolumeInv, Running, NEW f
             PROVE  Others(1, f) = {e \in TreeOf(heap) : e.frn # f}
  OBVIOUS
<1>1. Indexed(1) = LiveEntries(heap) \ {1} /\ \A a : Entry(a) = EntryIn(heap, a)
  BY SubtreeIsLive
<1>2. \A a \in Indexed(1) : EntryIn(heap, a).frn = heap[a].frn
  BY <1>1, TreeOfFacts
<1>3. QED
  BY <1>1, <1>2 DEF Others, TreeOf

LEMMA OthersOfNextTree ==
  ASSUME Alone
  PROVE  OneVolumeInv' /\ Running' => \A f : Others(1, f)' = {e \in TreeOf(heap') : e.frn # f}
<1>1. OneVolumeInv /\ Running => \A f : Others(1, f) = {e \in TreeOf(heap) : e.frn # f}
  BY OthersOfTree
<1>2. OneVolumeInv' /\ Running' => (\A f : Others(1, f) = {e \in TreeOf(heap) : e.frn # f})'
  BY <1>1, PTL
<1>3. QED
  BY <1>2

LEMMA StepChangesOne ==
  ASSUME Alone, OneVolumeInv, [Next]_vars, NEW f \in Frn,
         journal[1] # <<>>, Head(journal[1]).frn = f, journal'[1] = Tail(journal[1])
  PROVE  Others(1, f)' = Others(1, f)
<1>1. ASSUME heap' = heap PROVE Others(1, f)' = Others(1, f)
  BY <1>1 DEF Others, Indexed, Subtree, Entry
<1>2. CASE UNCHANGED vars
  BY <1>1, <1>2 DEF vars
<1>3. ASSUME NEW g \in Frn, NEW p \in Dirs, NEW n \in Name,
             CreateFile(1, g, p, n) \/ RenameFile(1, g, p, n) \/ DeleteFile(1, g) \/ CloseFile(1, g)
      PROVE  heap' = heap
  BY <1>3 DEF CreateFile, RenameFile, DeleteFile, CloseFile, MayChange, indexVars
<1>4. ASSUME NEW g \in Frn, DeleteFile(1, g) \/ CloseFile(1, g)
      PROVE  heap' = heap
  BY <1>4 DEF DeleteFile, CloseFile, MayChange, indexVars
<1>5. ASSUME OnCreate(1) \/ OnRenameOld(1) \/ OnRenameNew(1) \/ OnDelete(1) \/ OnOther(1)
      PROVE  Others(1, f)' = Others(1, f)
  <2>1. Running
    BY <1>5 DEF OnCreate, OnRenameOld, OnRenameNew, OnDelete, OnOther, ReadRecord, Running
  <2>2. CASE ~Running'
    <3>1. heap' = heap
      BY <1>5, <2>1, <2>2 DEF OnCreate, OnRenameOld, OnRenameNew, OnDelete, OnOther, genFileEntryOne,
                               renameFile, moveFile, deleteFile, Fail, Ignore, indexVars, Running
    <3>2. QED
      BY <1>1, <3>1
  <2>3. CASE Running'
    <3>1. PICK s, t : Handling(s, t) /\ Handled(t)'
      BY <1>5, <2>3, ReadHandles
    <3>2. /\ s.tree = TreeOf(heap) /\ Handles(s, Head(journal[1]), t)
          /\ TreeOf(heap') = t.tree
      BY <3>1 DEF Handling, Handled
    <3>3. {e \in t.tree : e.frn # f} = {e \in s.tree : e.frn # f}
      BY <3>2, HandlesOthers
    <3>4. Others(1, f) = {e \in TreeOf(heap) : e.frn # f}
      BY <2>1, OthersOfTree
    <3>5. OneVolumeInv'
      BY StepKeepsReplayInv
    <3>6. Others(1, f)' = {e \in TreeOf(heap') : e.frn # f}
      BY <2>3, <3>5, OthersOfNextTree
    <3>7. QED
      BY <3>2, <3>3, <3>4, <3>6
  <2>4. QED
    BY <2>2, <2>3
<1>6. QED
  <2>1. CASE Next
    <3>1. PICK i \in Drive :
            \/ \E g \in Frn, p \in Dirs, n \in Name : CreateFile(i, g, p, n) \/ RenameFile(i, g, p, n)
            \/ \E g \in Frn : DeleteFile(i, g) \/ CloseFile(i, g)
            \/ OnCreate(i) \/ OnRenameOld(i) \/ OnRenameNew(i) \/ OnDelete(i) \/ OnOther(i)
      BY <2>1 DEF Next
    <3>2. i = 1
      BY DEF Alone
    <3>3. QED
      BY <1>1, <1>3, <1>4, <1>5, <3>1, <3>2
  <2>2. QED
    BY <1>2, <2>1

(* On one volume, however long the journal is and however late its records *)
(* are read: when the monitor has caught up, genFileEntryOne, renameFile,  *)
(* moveFile and deleteFile have left one entry for each file of the        *)
(* volume, in the right directory, and no other.  Overlapping changes are  *)
(* excluded by hypothesis: run ntfs_temp shows that they break it.         *)
THEOREM IndexFollowsDisk == ASSUME Alone PROVE Spec => []IndexMatchesDisk
<1>1. Alone
  OBVIOUS
<1>2. OneVolumeInv => IndexMatchesDisk
  BY <1>1, InvImpliesIndexMatches
<1>3. QED
  BY <1>2, OneVolumeInvariant, PTL

(* At every moment on one volume ALL_FILE_COUNT is exactly the number of   *)
(* entries that hang below the root: the buffer a search sizes by it has   *)
(* room for every file, and no entry is allocated and lost.                *)
THEOREM CountIsTheTree == ASSUME Alone PROVE Spec => []CountMatchesTree
<1>1. OneVolumeInv => CountMatchesTree
  BY InvImpliesCount
<1>2. QED
  BY <1>1, OneVolumeInvariant, PTL

(* What findDir returns for a number is a freed entry or the entry of that *)
(* directory in the tree, never an entry that is lost or of another        *)
(* directory: DirMaps goes stale by a rename, but not wrong.               *)
THEOREM LookupStaysRight == ASSUME Alone PROVE Spec => []LookupNeverWrong
<1>1. OneVolumeInv => LookupNeverWrong
  BY InvImpliesLookup
<1>2. QED
  BY <1>1, OneVolumeInvariant, PTL

(* updateFileEntry changes the entry of no file but the one its record     *)
(* names: the copy renameFile makes takes the children of the directory    *)
(* with it, and deleteDir, which frees all that is below, meets no other.  *)
THEOREM OneFileChanges == ASSUME Alone PROVE Spec => OnlyTheNamedFileChanges
<1>1. OneVolumeInv /\ [Next]_vars =>
        [\A i \in Drive, f \in Frn :
           journal[i] # <<>> /\ Head(journal[i]).frn = f /\ journal'[i] = Tail(journal[i])
             => Others(i, f)' = Others(i, f)]_vars
  BY StepChangesOne DEF Alone
<1>2. QED
  BY <1>1, OneVolumeInvariant, PTL DEF Spec, OnlyTheNamedFileChanges

-----------------------------------------------------------------------------
(* What can end the process on one volume.                                 *)

OnlyStaleFaults == fault \in {"none", "freed"}

\* findFile has the file that was renamed, unless it meets a freed directory.
LEMMA OnRenameNewFinds ==
  ASSUME NEW s, NEW t, Handling(s, t), OnRenameNew(1)
  PROVE  OnlyStaleFaults'
<1> DEFINE r == Head(journal[1])
           sameDir == old.pfrn = r.pfrn /\ old.i = 1
           file == IF old.i \in Drive THEN findFile(old.frn, old.pfrn, old.i) ELSE NULL
           pnew == findDir(r.pfrn, 1)
<1>1. /\ ReadRecord(1, "rename_new") /\ IndexInv
      /\ IF FindFaults(old.pfrn, old.i) THEN Fail("freed")
         ELSE IF sameDir THEN IF file = NULL THEN Ignore ELSE renameFile(file, r.name)
         ELSE IF file = NULL THEN Fail("null")
         ELSE IF heap[file].frn # r.frn THEN Fail("assert")
         ELSE IF pnew = NULL THEN Ignore
         ELSE IF Freed(pnew) THEN Fail("freed")
         ELSE moveFile(file, pnew)
  BY DEF OnRenameNew, Handling, NtfsInv
<1>2. fault = "none"
  BY <1>1 DEF ReadRecord
<1>3. Sound(heap) /\ Hangs(heap) /\ MapsHold /\ Drive = {1}
  BY <1>1 DEF IndexInv, Sound, Handling
<1>4. PICK e \in TreeOf(heap) : e.frn = r.frn /\ old = [frn |-> r.frn, pfrn |-> e.parent, i |-> 1]
  BY <1>1 DEF Handling, Handles, ReadRecord
<1>5. PICK a \in LiveEntries(heap) \ {1} : e.frn = heap[a].frn /\ e.parent = heap[heap[a].parent].frn
  BY TreeOfFacts
<1>6. e.parent \in Dirs
  BY DEF Handling, IsTree
<1>7. old.frn = r.frn /\ old.pfrn = e.parent /\ old.i = 1
  BY <1>4
<1> HIDE DEF r, pnew
<1>8. CASE FindFaults(old.pfrn, old.i)
  BY <1>1, <1>8 DEF Fail, OnlyStaleFaults
<1>9. CASE ~FindFaults(old.pfrn, old.i)
  <2>1. findFile(r.frn, e.parent, 1) = a
    BY <1>1, <1>3, <1>4, <1>5, <1>6, <1>7, <1>9, FindFileHas
  <2>2. file = a
    BY <1>3, <1>7, <2>1
  <2>3. file # NULL /\ heap[file].frn = r.frn
    BY <1>3, <1>4, <1>5, <2>2, HeapFacts DEF LiveEntries, NULL, Sound
  <2> HIDE DEF file, sameDir
  <2>4. Ignore \/ renameFile(file, r.name) \/ Fail("freed") \/ moveFile(file, pnew)
    BY <1>1, <1>9, <2>3
  <2>5. fault' = "none" \/ fault' = "freed"
    BY <1>2, <2>4 DEF Ignore, indexVars, renameFile, moveFile, Fail
  <2>6. QED
    BY <2>5 DEF OnlyStaleFaults
<1>10. QED
  BY <1>8, <1>9

LEMMA StepKeepsStaleFaults == Alone /\ OneVolumeInv /\ OnlyStaleFaults /\ [Next]_vars => OnlyStaleFaults'
<1> SUFFICES ASSUME Alone, OneVolumeInv, OnlyStaleFaults, [Next]_vars PROVE OnlyStaleFaults'
  OBVIOUS
<1>1. CASE fault' = fault \/ fault' = "freed"
  BY <1>1 DEF OnlyStaleFaults
<1>2. CASE OnRenameNew(1)
  <2>1. PICK s, t : Handling(s, t)
    BY <1>2, ReadHandles
  <2>2. QED
    BY <1>2, <2>1, OnRenameNewFinds
<1>3. CASE UNCHANGED vars
  BY <1>1, <1>3 DEF vars
<1>4. ASSUME NEW i \in Drive, NEW f \in Frn, NEW p \in Dirs, NEW n \in Name,
             CreateFile(i, f, p, n) \/ RenameFile(i, f, p, n)
      PROVE  fault' = fault
  BY <1>4 DEF CreateFile, RenameFile, MayChange, indexVars
<1>5. ASSUME NEW i \in Drive, NEW f \in Frn, DeleteFile(i, f) \/ CloseFile(i, f)
      PROVE  fault' = fault
  BY <1>5 DEF DeleteFile, CloseFile, MayChange, indexVars
<1>6. ASSUME NEW i \in Drive, OnCreate(i) \/ OnRenameOld(i) \/ OnDelete(i) \/ OnOther(i)
      PROVE  fault' = fault \/ fault' = "freed"
  <2>1. CASE OnCreate(i)
    BY <2>1 DEF OnCreate, genFileEntryOne, Fail
  <2>2. CASE OnRenameOld(i)
    BY <2>2 DEF OnRenameOld, Ignore, indexVars
  <2>3. CASE OnDelete(i)
    BY <2>3 DEF OnDelete, Fail, Ignore, deleteFile, indexVars
  <2>4. CASE OnOther(i)
    BY <2>4 DEF OnOther, Ignore, indexVars
  <2>5. QED
    BY <1>6, <2>1, <2>2, <2>3, <2>4
<1>7. CASE Next
  <2>1. PICK i \in Drive :
          \/ \E f \in Frn, p \in Dirs, n \in Name : CreateFile(i, f, p, n) \/ RenameFile(i, f, p, n)
          \/ \E f \in Frn : DeleteFile(i, f) \/ CloseFile(i, f)
          \/ OnCreate(i) \/ OnRenameOld(i) \/ OnDelete(i) \/ OnOther(i)
          \/ OnRenameNew(i)
    BY <1>7 DEF Next
  <2>2. i = 1
    BY DEF Alone
  <2>3. QED
    BY <1>1, <1>2, <1>4, <1>5, <1>6, <2>1, <2>2
<1>8. QED
  BY <1>3, <1>7

(* On one volume the entry that updateFileEntry takes from findFile for a  *)
(* rename is there and is the file of the record: it never follows a NULL, *)
(* and what can end the process is a directory that renameFile or          *)
(* deleteDir has freed and DirMaps still holds, as run ntfs_dirmap shows.  *)
THEOREM FaultsAreStale == ASSUME Alone PROVE Spec => []OnlyStaleFaults
<1>1. Init => OneVolumeInv /\ OnlyStaleFaults
  BY InitNtfsInv, InitReplayInv DEF OneVolumeInv, Init, OnlyStaleFaults
<1>2. OneVolumeInv /\ OnlyStaleFaults /\ [Next]_vars => OnlyStaleFaults'
  BY StepKeepsStaleFaults
<1>3. QED
  BY <1>1, <1>2, OneVolumeInvariant, PTL DEF Spec

(* The assertion of updateFileEntry holds on one volume: the file about to *)
(* be moved is the file of the record.  Run ntfs_threads shows it fail     *)
(* when the monitors of two volumes share the static.                      *)
THEOREM AssertionHolds == ASSUME Alone PROVE Spec => []MovedFileIsTheRecords
<1>1. OnlyStaleFaults => MovedFileIsTheRecords
  BY DEF OnlyStaleFaults, MovedFileIsTheRecords
<1>2. QED
  BY <1>1, FaultsAreStale, PTL
=============================================================================
