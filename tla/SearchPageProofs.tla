---------------------------- MODULE SearchPageProofs ----------------------------
(***************************************************************************)
(* That the search page shows the text of its box once nothing is pending, *)
(* gives batch commands the selected files, and never shows a file twice,  *)
(* for any texts, answers, page sizes and numbers of timers.               *)
(*                                                                         *)
(* No property is inductive.  The inductive invariant says where each part *)
(* of the page stands on the way from searchf to the drawn grid: a text    *)
(* that was heard is the one searched unless a key is down (HeardText);    *)
(* with no search pending the answer is that of the text searched, the     *)
(* rows are those of the answer unless the text has changed, and numbers   *)
(* and #loading lag behind by their own timer only.  The rows count up in  *)
(* the answers they came from and stay below cur_page_end (RowsCountUp),   *)
(* whichever answers these are; and a row that has an id has the file of   *)
(* that number, since cur_page_end, which a search does not reset, is      *)
(* never ahead of the rows by less than a page (Gap).                      *)
(***************************************************************************)
EXTENDS SearchPage, SequenceTheorems, TLAPS

Row == [id : Nat, file : AllFiles]

Answers == [q : Texts \cup {""}, o : Opts, n : 0..(MaxRows + 1)]

\* The number of files in the answer to q.
AnswerCount(q) == IF Hits[q] >= MaxRows THEN MaxRows + 1 ELSE Hits[q]

InputType ==
    /\ box \in Boxes /\ key \in {"up", "char", "back"}
    /\ cur_search \in Texts \cup {""} /\ opts \in Opts
    /\ view \in {"history", "tabs"} /\ loading \in BOOLEAN
    /\ stats \in Texts \cup {""}
    /\ history_timeout \in Nat /\ refresh_timeout \in Nat
    /\ server \in BOOLEAN /\ heard \in BOOLEAN

\* The handle of a timer names a pending one, and a search is pending once at most.
TimerType(t, b) == t \in [n : 0..b, own : BOOLEAN] /\ (t.own = TRUE => t.n > 0)
Armed == [n |-> 1, own |-> TRUE]
TimersType ==
    /\ search_timeout \in {NoTimer, Armed}
    /\ TimerType(stat_timeout, MaxTimers + 2) /\ TimerType(highlight_timeout, MaxTimers + 2)

\* Before the first search nothing is searched for and there is no answer.
Searched == cur_search = "" => search_timeout.n = 0 /\ view = "history" /\ files.n = 0

RowsCountUp ==
    /\ \A k \in 1..Len(rows) : rows[k].id \in {0, k} /\ rows[k].file[3] <= cur_page_end
    /\ \A k, l \in 1..Len(rows) : k < l => rows[k].file[3] < rows[l].file[3]

GridType ==
    /\ files \in Answers
    /\ files.n > 0 => files.q \in Texts
    /\ rows \in Seq(Row) /\ Len(rows) <= cur_page_end /\ RowsCountUp
    /\ sel \subseteq Nat /\ first_grid \in BOOLEAN
    /\ cur_page_end \in FirstRows..MaxPageEnd
    /\ cur_page_end = FirstRows \/ cur_page_end >= FirstRows + PageRow

\* A text that was heard is being searched, unless a key is down.
HeardText == heard => trim(box) # "" /\ view = "tabs" /\ (key = "up" => ~changed)

FilesAnswerSearch ==
    heard /\ search_timeout.n = 0 =>
      /\ files.q = cur_search /\ files.n = AnswerCount(cur_search)
      /\ files.n > 0 /\ refresh_timeout = 0 => files.o = opts

Settled == heard /\ search_timeout.n = 0 /\ ~changed

Gap == \/ Len(rows) = cur_page_end \/ Len(rows) + PageRow <= cur_page_end
       \/ files.n <= cur_page_end

FirstFiles ==
    /\ Len(Drawn(files)) <= Len(rows)
    /\ \A i \in 1..Len(Drawn(files)) : rows[i] = [id |-> i, file |-> File(files, i)]
    /\ files.n = 0 => rows = <<>>

IdsAreNumbers ==
    /\ \A k \in 1..Len(rows) : rows[k].id = k => rows[k].file = File(files, k)
    /\ \A id \in sel : id \in 1..Len(rows) /\ rows[id].id = id

RowsShowFiles == Settled => FirstFiles /\ IdsAreNumbers /\ Gap

StatsShowSearch == Settled /\ stat_timeout.n = 0 => stats = cur_search

LoadingEnds ==
    Settled /\ highlight_timeout.n = 0 /\ history_timeout = 0 /\ refresh_timeout = 0 /\ files.n > 0
      => ~loading

HeardInv == HeardText /\ FilesAnswerSearch /\ RowsShowFiles /\ StatsShowSearch /\ LoadingEnds

PageInv == InputType /\ TimersType /\ GridType /\ Searched /\ HeardInv

-----------------------------------------------------------------------------
\* Texts, timers and answers.

LEMMA Bounds ==
    /\ FirstRows \in Nat /\ FirstRows > 0 /\ PageRow \in Nat /\ PageRow > 0
    /\ MaxRows \in Nat /\ MaxRows + 1 \in Nat /\ MaxPageEnd \in Nat /\ FirstRows <= MaxPageEnd
    /\ MaxTimers \in Nat
<1>1. /\ FirstRows \in Nat \ {0} /\ PageRow \in Nat \ {0} /\ MaxRows \in Nat
      /\ MaxPageEnd \in Nat /\ FirstRows <= MaxPageEnd /\ MaxTimers \in Nat
  BY PageAssumption, Zenon
<1> QED
  BY <1>1

LEMMA Counting == \A n \in Nat : n + 1 \in Nat /\ n + 1 > 0 /\ (n > 0 => n - 1 \in Nat)
<1> QED
  OBVIOUS

LEMMA SmallerFacts ==
    ASSUME NEW a \in Nat, NEW b \in Nat
    PROVE  /\ Smaller(a, b) \in Nat /\ Smaller(a, b) <= a /\ Smaller(a, b) <= b
           /\ \/ Smaller(a, b) = b
              \/ Smaller(a, b) = a /\ b > a
<1> QED
  BY DEF Smaller

LEMMA Trimmed ==
    ASSUME NEW b \in Boxes
    PROVE  /\ trim(b) \in Texts \cup {""}
           /\ trim(b) # "" => trim(b) = b /\ b \in Texts
           /\ \A q \in Texts : trim(q) = q /\ q # "" /\ q \in Boxes
<1> QED
  BY PageAssumption DEF Boxes, trim

LEMMA TimerFacts ==
    ASSUME NEW b \in Nat, NEW t, TimerType(t, b)
    PROVE  /\ t.n \in 0..b
           /\ TimerType(Arm(t), b + 1) /\ Arm(t).n = t.n + 1
           /\ TimerType(Clear(t), b) /\ Clear(t).n <= t.n
           /\ t.n > 0 => TimerType(Fire(t), b) /\ Fire(t).n = t.n - 1
<1>1. t.n \in 0..b /\ t.own \in BOOLEAN
  BY DEF TimerType
<1>2. Arm(t).n = t.n + 1 /\ t.n + 1 \in 0..(b + 1) /\ t.n + 1 > 0
  BY <1>1 DEF Arm
<1>3. TimerType(Arm(t), b + 1)
  BY <1>2, Zenon DEF TimerType, Arm
<1>4. CASE t.own = TRUE
  <2>1. t.n > 0
    BY <1>4 DEF TimerType
  <2>2. Clear(t) = [n |-> t.n - 1, own |-> FALSE] /\ t.n - 1 \in 0..b
    BY <1>1, <1>4, <2>1 DEF Clear
  <2>3. TimerType(Clear(t), b) /\ Clear(t).n = t.n - 1
    <3>1. Clear(t).n = t.n - 1 /\ Clear(t).own = FALSE
      BY <2>2
    <3>2. Clear(t) \in [n : 0..b, own : BOOLEAN]
      BY <2>2
    <3> QED
      BY <3>1, <3>2 DEF TimerType
  <2>4. t.n - 1 <= t.n
    BY <1>1
  <2>5. CASE t.n > 1
    <3>1. (t.own /\ t.n > 1) = TRUE /\ t.n - 1 > 0
      BY <1>1, <1>4, <2>5
    <3> QED
      BY <1>2, <1>3, <2>2, <2>3, <2>4, <3>1, Zenon DEF TimerType, Fire
  <2>6. CASE ~(t.n > 1)
    <3>1. (t.own /\ t.n > 1) = FALSE
      BY <2>6
    <3> QED
      BY <1>1, <1>2, <1>3, <2>2, <2>3, <2>4, <3>1, Zenon DEF TimerType, Fire
  <2> QED
    BY <2>5, <2>6
<1>5. CASE t.own = FALSE
  <2>1. Clear(t) = t /\ t.n <= t.n
    BY <1>1, <1>5 DEF Clear
  <2>2. (t.own /\ t.n > 1) = FALSE
    BY <1>5
  <2>3. t.n > 0 => t.n - 1 \in 0..b
    BY <1>1
  <2> QED
    BY <1>1, <1>2, <1>3, <2>1, <2>2, <2>3, Zenon DEF TimerType, Fire
<1> QED
  BY <1>1, <1>4, <1>5

LEMMA PageTimerFacts ==
    ASSUME NEW t, TimerType(t, MaxTimers + 2)
    PROVE  /\ t.n \in Nat /\ t.n <= MaxTimers + 2
           /\ TimerType(Clear(t), MaxTimers + 2) /\ Clear(t).n <= t.n
           /\ t.n > 0 => TimerType(Fire(t), MaxTimers + 2)
           /\ t.n <= MaxTimers + 1 => TimerType(Arm(t), MaxTimers + 2)
           /\ Arm(t).n = t.n + 1 /\ Arm(t).n > 0
           /\ \A u \in icon_replace(t) : TimerType(u, MaxTimers + 2) /\ u.n = t.n
<1> DEFINE b == MaxTimers + 2
<1>1. b \in Nat
  BY Bounds
<1> HIDE DEF b
<1>2. TimerType(t, b)
  BY DEF b
<1>3. /\ t.n \in 0..b /\ Arm(t).n = t.n + 1
      /\ TimerType(Clear(t), b) /\ Clear(t).n <= t.n
      /\ t.n > 0 => TimerType(Fire(t), b)
  BY <1>1, <1>2, TimerFacts
<1>4. t.n \in Nat /\ t.n <= b /\ Arm(t).n > 0
  BY <1>1, <1>3
<1>5. ASSUME t.n + 1 <= b PROVE TimerType(Arm(t), b)
  <2>1. t.n + 1 \in 0..b /\ t.n + 1 > 0
    BY <1>1, <1>4, <1>5
  <2> QED
    BY <2>1, Zenon DEF TimerType, Arm
<1>6. t.n <= MaxTimers + 1 => t.n + 1 <= b
  BY <1>4, Bounds DEF b
<1>7. ASSUME NEW u \in icon_replace(t) PROVE TimerType(u, b) /\ u.n = t.n
  <2>1. CASE u = t
    BY <1>2, <2>1
  <2>2. CASE u = [t EXCEPT !.own = FALSE]
    <3>1. t \in [n : 0..b, own : BOOLEAN]
      BY <1>2 DEF TimerType
    <3>2. u \in [n : 0..b, own : BOOLEAN] /\ u.own = FALSE /\ u.n = t.n
      BY <2>2, <3>1
    <3> QED
      BY <3>2 DEF TimerType
  <2> QED
    BY <1>7, <2>1, <2>2 DEF icon_replace
<1> QED
  BY <1>3, <1>4, <1>5, <1>6, <1>7 DEF b

LEMMA SearchTimerFacts ==
    ASSUME search_timeout \in {NoTimer, Armed}
    PROVE  /\ arm_search = Armed /\ Armed.n = 1 /\ NoTimer.n = 0
           /\ search_timeout.n \in {0, 1}
           /\ search_timeout.n > 0 => Fire(search_timeout) = NoTimer
<1>1. Armed.n = 1 /\ NoTimer.n = 0 /\ Armed.own = TRUE /\ NoTimer.own = FALSE
  BY DEF Armed, NoTimer
<1>2. Arm(NoTimer) = Armed
  BY <1>1 DEF Arm, Armed
<1>3. (Armed.own /\ Armed.n > 1) = FALSE /\ Armed.n - 1 = 0
  BY <1>1
<1>4. Clear(NoTimer) = NoTimer /\ Clear(Armed) = NoTimer
  BY <1>1, <1>3, Zenon DEF Clear, NoTimer
<1>5. Fire(Armed) = NoTimer
  BY <1>3, Zenon DEF Fire, NoTimer
<1>6. arm_search = Armed
  BY <1>2, <1>4 DEF arm_search
<1> QED
  BY <1>1, <1>5, <1>6

LEMMA FieldFacts ==
    ASSUME NEW fs \in Answers
    PROVE  fs.n \in Nat /\ fs.n <= MaxRows + 1 /\ fs.o \in Opts /\ fs.q \in Texts \cup {""}
<1>1. fs.n \in 0..(MaxRows + 1) /\ fs.o \in Opts /\ fs.q \in Texts \cup {""}
  BY DEF Answers
<1>2. \A n \in 0..(MaxRows + 1) : n \in Nat /\ n <= MaxRows + 1
  BY Bounds
<1> QED
  BY <1>1, <1>2, Zenon

LEMMA AnswerFacts ==
    ASSUME NEW q \in Texts, NEW o \in Opts
    PROVE  /\ Answer(q, o) \in Answers
           /\ Answer(q, o).q = q /\ Answer(q, o).o = o /\ Answer(q, o).n = AnswerCount(q)
<1>1. Hits[q] \in Nat /\ MaxRows \in Nat
  BY PageAssumption
<1>2. AnswerCount(q) \in 0..(MaxRows + 1)
  BY <1>1 DEF AnswerCount
<1> QED
  BY <1>2 DEF Answer, AnswerCount, Answers

LEMMA NoFilesFacts ==
    /\ NoFiles \in Answers
    /\ NoFiles.n = 0
<1> DEFINE o == CHOOSE o \in Opts : TRUE
<1>1. o \in Opts
  BY PageAssumption
<1> HIDE DEF o
<1>2. 0 \in 0..(MaxRows + 1) /\ "" \in Texts \cup {""}
  BY Bounds
<1>3. NoFiles = [q |-> "", o |-> o, n |-> 0]
  BY DEF NoFiles, o
<1> QED
  BY <1>1, <1>2, <1>3 DEF Answers

-----------------------------------------------------------------------------
\* The grid.

LEMMA DrawnFacts ==
    ASSUME NEW fs \in Answers, fs.n > 0 => fs.q \in Texts
    PROVE  /\ Drawn(fs) \in Seq(Row)
           /\ Len(Drawn(fs)) \in 0..FirstRows
           /\ \/ Len(Drawn(fs)) = fs.n
              \/ Len(Drawn(fs)) = FirstRows /\ fs.n > FirstRows
           /\ \A i \in 1..Len(Drawn(fs)) : Drawn(fs)[i] = [id |-> i, file |-> File(fs, i)]
<1> DEFINE m == Smaller(FirstRows, fs.n)
<1>1. fs.n \in Nat /\ fs.n <= MaxRows + 1 /\ fs.o \in Opts
  BY FieldFacts
<1>2. /\ m \in 0..FirstRows /\ m <= fs.n
      /\ \/ m = fs.n
         \/ m = FirstRows /\ fs.n > FirstRows
  <2>1. FirstRows \in Nat
    BY Bounds
  <2>2. m \in Nat /\ m <= FirstRows /\ m <= fs.n /\ (m = fs.n \/ (m = FirstRows /\ fs.n > FirstRows))
    BY <1>1, <2>1, SmallerFacts, Zenon
  <2> QED
    BY <2>1, <2>2
<1> HIDE DEF m
<1>3. \A i \in 1..m : [id |-> i, file |-> File(fs, i)] \in Row
  <2> TAKE i \in 1..m
  <2>1. i \in Nat /\ i \in 1..(MaxRows + 1) /\ fs.q \in Texts /\ fs.o \in Opts
    BY <1>1, <1>2, Bounds
  <2> QED
    BY <2>1 DEF Row, File, AllFiles
<1>4. Drawn(fs) = [i \in 1..m |-> [id |-> i, file |-> File(fs, i)]]
  BY DEF Drawn, m
<1>5. Drawn(fs) \in [1..m -> Row]
  BY <1>3, <1>4, Zenon
<1>6. Drawn(fs) \in Seq(Row) /\ Len(Drawn(fs)) = m
  <2>1. m \in Nat
    BY <1>2, Bounds
  <2>2. DOMAIN Drawn(fs) = 1..m
    BY <1>4
  <2> QED
    BY <1>5, <2>1, <2>2, SeqDef, LenProperties
<1> QED
  BY <1>2, <1>4, <1>6


\* The files a scroll adds: none once the answer is drawn, else a page or what is left.
LEMMA AppendedFacts ==
    ASSUME GridType
    PROVE  \E d \in Nat :
             /\ Appended \in Seq(Row) /\ Len(Appended) = Len(rows) + d /\ d <= PageRow
             /\ \/ d = PageRow
                \/ files.n <= cur_page_end + d
             /\ d > 0 => cur_page_end + d <= files.n
             /\ \A k \in 1..Len(rows) : Appended[k] = rows[k]
             /\ \A k \in (Len(rows) + 1)..Len(Appended) :
                  /\ Appended[k].id = IF k > cur_page_end THEN k ELSE 0
                  /\ Appended[k].file = File(files, cur_page_end + (k - Len(rows)))
<1> DEFINE m == Smaller(cur_page_end + PageRow, files.n)
           d == IF m > cur_page_end THEN m - cur_page_end ELSE 0
           more == [k \in 1..d |-> [id |-> 0, file |-> File(files, cur_page_end + k)]]
           all == rows \o more
           n == Len(rows)
<1>1. /\ cur_page_end \in Nat /\ n \in Nat /\ n <= cur_page_end /\ rows \in Seq(Row)
      /\ files \in Answers /\ files.n \in Nat /\ files.n <= MaxRows + 1 /\ files.o \in Opts
      /\ (files.n > 0 => files.q \in Texts)
  <2>1. rows \in Seq(Row) /\ files \in Answers /\ cur_page_end \in FirstRows..MaxPageEnd
    BY DEF GridType
  <2>2. cur_page_end \in Nat
    BY <2>1, Bounds
  <2> QED
    BY <2>1, <2>2, FieldFacts, LenProperties DEF GridType
<1>2. m \in Nat /\ m <= cur_page_end + PageRow /\ m <= files.n /\ (m = files.n \/ m = cur_page_end + PageRow)
  <2>1. cur_page_end + PageRow \in Nat
    BY <1>1, Bounds
  <2> QED
    BY <1>1, <2>1, SmallerFacts, Zenon
<1> HIDE DEF m
<1>3. /\ d \in Nat /\ d <= PageRow /\ (d = PageRow \/ files.n <= cur_page_end + d)
      /\ (d > 0 => cur_page_end + d <= files.n)
  BY <1>1, <1>2, Bounds
<1>4. Appended = [k \in DOMAIN all |-> IF k > cur_page_end THEN [all[k] EXCEPT !.id = k] ELSE all[k]]
  BY DEF Appended, m
<1> HIDE DEF d
<1>5. \A k \in 1..d : [id |-> 0, file |-> File(files, cur_page_end + k)] \in Row
  <2> TAKE k \in 1..d
  <2>1. cur_page_end + k \in 1..(MaxRows + 1) /\ files.n > 0
    BY <1>1, <1>3, Bounds
  <2> QED
    BY <1>1, <2>1 DEF Row, File, AllFiles
<1>6. more \in Seq(Row) /\ Len(more) = d
  <2>1. more \in [1..d -> Row] /\ DOMAIN more = 1..d
    BY <1>5, Zenon
  <2> QED
    BY <2>1, <1>3, SeqDef, LenProperties
<1>7. \A k \in 1..d : more[k] = [id |-> 0, file |-> File(files, cur_page_end + k)]
  OBVIOUS
<1> HIDE DEF more
<1>8. /\ all \in Seq(Row) /\ Len(all) = n + d /\ DOMAIN all = 1..(n + d)
      /\ \A k \in 1..n : all[k] = rows[k]
      /\ \A k \in (n + 1)..(n + d) : all[k] = more[k - n]
  <2>1. all \in Seq(Row) /\ Len(all) = n + d /\ \A k \in 1..(n + d) : all[k] = IF k <= n THEN rows[k] ELSE more[k - n]
    BY <1>1, <1>6, ConcatProperties
  <2>2. DOMAIN all = 1..(n + d)
    BY <2>1, LenProperties
  <2>3. 1..n \subseteq 1..(n + d) /\ (n + 1)..(n + d) \subseteq 1..(n + d)
    BY <1>1, <1>3
  <2> QED
    BY <1>1, <1>3, <2>1, <2>2, <2>3
<1> HIDE DEF all
<1>9. \A k \in 1..n : Appended[k] = rows[k]
  <2> TAKE k \in 1..n
  <2>1. k \in 1..(n + d) /\ ~(k > cur_page_end)
    BY <1>1, <1>3
  <2> QED
    BY <1>4, <1>8, <2>1
<1>10. ASSUME NEW k \in (n + 1)..(n + d)
       PROVE  /\ k \in 1..(n + d) /\ k \in Nat
              /\ Appended[k] = [id |-> IF k > cur_page_end THEN k ELSE 0,
                                file |-> File(files, cur_page_end + (k - n))]
  <2>1. k \in 1..(n + d) /\ k - n \in 1..d /\ k \in Nat
    BY <1>1, <1>3
  <2>2. all[k] = [id |-> 0, file |-> File(files, cur_page_end + (k - n))]
    BY <1>7, <1>8, <2>1
  <2>3. [all[k] EXCEPT !.id = k] = [id |-> k, file |-> File(files, cur_page_end + (k - n))]
    BY <2>2
  <2> QED
    BY <1>4, <1>8, <2>1, <2>2, <2>3
<1>11. \A k \in 1..(n + d) : Appended[k] \in Row
  <2> TAKE k \in 1..(n + d)
  <2>1. CASE k \in 1..n
    BY <1>1, <1>9, <2>1, ElementOfSeq
  <2>2. CASE k \in (n + 1)..(n + d)
    <3>1. k - n \in 1..d /\ k \in Nat
      BY <1>1, <1>3, <2>2
    <3>2. [id |-> 0, file |-> File(files, cur_page_end + (k - n))] \in Row
      BY <1>5, <3>1, Zenon
    <3>3. File(files, cur_page_end + (k - n)) \in AllFiles
      BY <3>2 DEF Row
    <3>4. (IF k > cur_page_end THEN k ELSE 0) \in Nat
      BY <3>1
    <3>5. \A i, f : i \in Nat /\ f \in AllFiles => [id |-> i, file |-> f] \in Row
      BY DEF Row
    <3> QED
      BY <1>10, <2>2, <3>3, <3>4, <3>5, Zenon
  <2> QED
    BY <1>1, <1>3, <2>1, <2>2
<1>12. Appended \in Seq(Row) /\ Len(Appended) = n + d
  <2>1. DOMAIN Appended = 1..(n + d) /\ Appended \in [1..(n + d) -> Row]
    BY <1>4, <1>8, <1>11
  <2>2. n + d \in Nat
    BY <1>1, <1>3
  <2> QED
    BY <2>1, <2>2, SeqDef, LenProperties
<1>13. \A k \in (n + 1)..Len(Appended) :
          /\ Appended[k].id = IF k > cur_page_end THEN k ELSE 0
          /\ Appended[k].file = File(files, cur_page_end + (k - n))
  <2> TAKE k \in (n + 1)..Len(Appended)
  <2>1. k \in (n + 1)..(n + d)
    BY <1>12
  <2> DEFINE i == IF k > cur_page_end THEN k ELSE 0
             f == File(files, cur_page_end + (k - n))
  <2>2. Appended[k] = [id |-> i, file |-> f]
    BY <1>10, <2>1, Zenon
  <2> HIDE DEF i, f
  <2>3. Appended[k].id = i /\ Appended[k].file = f
    BY <2>2
  <2> QED
    BY <2>3 DEF i, f
<1> d \in Nat
  BY <1>3
<1> WITNESS d \in Nat
<1> QED
  BY <1>3, <1>9, <1>12, <1>13


-----------------------------------------------------------------------------
\* The steps, grouped by what they do to the search.

\* A handler hands the text of the box to searchf.
SearchStarts ==
    /\ \E v \in Boxes : searchf(v) /\ trim(box') = trim(v)
    /\ box' \in Boxes /\ key' \in {"up", "char", "back"} /\ opts' \in Opts
    /\ refresh_timeout' \in Nat
    /\ UNCHANGED <<grid, history_timeout, server>>

\* refresh finds the box empty.
HistoryLoads ==
    /\ box = "" /\ load_history /\ refresh_timeout' \in Nat
    /\ UNCHANGED <<input, options, view, grid, stats, timers, server, heard>>

\* A key comes up and there is nothing to search.
KeyReleased ==
    /\ key' = "up" /\ (box = "" \/ ~changed)
    /\ loading' \in {loading, FALSE}
    /\ UNCHANGED <<box, options, view, grid, stats, timers, others, server, heard>>

\* A row is selected or unselected, alone or with the others.
SelectionChanges ==
    /\ \E id \in RowIds \cup {1} :
          /\ id = 1 => rows # <<>>
          /\ sel' \in {sel \ {id}, sel \cup {id}, {id}}
    /\ UNCHANGED <<input, options, view, loading, files, rows, cur_page_end,
                   first_grid, stats, timers, others, server, heard>>

ServerChanges ==
    /\ server' \in BOOLEAN
    /\ UNCHANGED <<input, options, view, loading, grid, stats, timers, others, heard>>

LEMMA RefreshCases ==
    ASSUME InputType, refresh, refresh_timeout' \in Nat, UNCHANGED <<input, opts, grid, server>>
    PROVE  SearchStarts \/ HistoryLoads
<1>1. box \in Boxes /\ box' = box /\ key' = key /\ opts' = opts
  BY DEF InputType, input
<1>2. CASE box # ""
  BY <1>1, <1>2 DEF InputType, refresh, SearchStarts
<1>3. CASE box = ""
  BY <1>1, <1>3 DEF refresh, HistoryLoads, options
<1> QED
  BY <1>2, <1>3

LEMMA KeyUpCases ==
    ASSUME InputType, search_if_change
    PROVE  SearchStarts \/ KeyReleased
<1>1. /\ box \in Boxes /\ box' = box /\ key' = "up" /\ opts \in Opts /\ cur_search \in Texts \cup {""}
      /\ history_timeout' = history_timeout /\ refresh_timeout' = refresh_timeout /\ refresh_timeout \in Nat
      /\ UNCHANGED <<grid, others, server>>
  BY DEF InputType, search_if_change, others
<1>2. CASE box = ""
  BY <1>1, <1>2 DEF search_if_change, KeyReleased, options
<1>3. CASE box # "" /\ key = "back" /\ cur_search = box
  <2>1. searchf(box) /\ opts' \in Opts
    BY <1>3 DEF search_if_change, remove_dir
  <2> QED
    BY <1>1, <2>1 DEF SearchStarts
<1>4. CASE box # "" /\ ~(key = "back" /\ cur_search = box) /\ changed
  <2>1. searchf(box) /\ opts' = opts
    BY <1>4 DEF search_if_change
  <2> QED
    BY <1>1, <2>1 DEF SearchStarts
<1>5. CASE box # "" /\ ~(key = "back" /\ cur_search = box) /\ ~changed
  <2>1. UNCHANGED <<cur_search, view, loading, timers, stats, heard, opts>>
    BY <1>5 DEF search_if_change
  <2> QED
    BY <1>1, <1>5, <2>1 DEF KeyReleased, options
<1> QED
  BY <1>2, <1>3, <1>4, <1>5

LEMMA StepCases ==
    ASSUME InputType, [Next]_vars
    PROVE  \/ SearchStarts \/ HistoryLoads \/ KeyReleased \/ SelectionChanges \/ ServerChanges
           \/ \E k \in {"char", "back"}, b \in Boxes : KeyDown(k, b)
           \/ \E b \in Boxes : MouseEdit(b)
           \/ \E o \in Opts : orderby(o) \/ file_type_search(o) \/ offline_db(o)
           \/ return_history \/ grid_add_files
           \/ searchf0 \/ searchf0_empty \/ searchf0_error
           \/ stat_search \/ highlight \/ history_parse \/ UNCHANGED vars
<1>1. CASE enter_key
  BY <1>1 DEF enter_key, SelectionChanges
<1>2. ASSUME NEW id \in RowIds, onSelectRow(id) \/ onContextMenu(id) PROVE SelectionChanges
  <2>1. sel' \in {sel \ {id}, sel \cup {id}, {id}}
    BY <1>2 DEF onSelectRow, onContextMenu, grid_batch_unselect
  <2>2. id = 1 => rows # <<>>
    BY DEF RowIds
  <2> QED
    BY <1>2, <2>1, <2>2 DEF onSelectRow, onContextMenu, SelectionChanges
<1>3. ASSUME NEW o \in Opts, set_option(o) \/ search_dir(o) \/ large_files(o) PROVE SearchStarts
  <2>1. box \in Boxes /\ opts \in Opts /\ Star \in Boxes
    BY PageAssumption DEF InputType, Boxes
  <2>2. opts' \in Opts /\ box' \in Boxes /\ searchf(box')
    BY <1>3, <2>1 DEF set_option, search_dir, large_files, input
  <2>3. \E v \in Boxes : searchf(v) /\ trim(box') = trim(v)
    <3>1. PICK v \in Boxes : v = box'
      BY <2>2
    <3>2. searchf(v)
      BY <2>2, <3>1
    <3> QED
      BY <3>1, <3>2
  <2> QED
    BY <1>3, <2>2, <2>3 DEF set_option, search_dir, large_files, SearchStarts, InputType, input, others
<1>4. CASE refresh_button \/ delete_file \/ batch_delete \/ refresh_later
  <2>1. refresh /\ UNCHANGED <<input, opts, grid, server>>
    BY <1>4 DEF refresh_button, delete_file, batch_delete, refresh_later
  <2>2. \/ refresh_timeout' = refresh_timeout
        \/ refresh_timeout' = refresh_timeout - 1 /\ refresh_timeout > 0
    BY <1>4 DEF refresh_button, delete_file, batch_delete, refresh_later
  <2>3. refresh_timeout' \in Nat
    <3>1. refresh_timeout \in Nat
      BY DEF InputType
    <3> QED
      BY <2>2, <3>1
  <2> QED
    BY <2>1, <2>3, RefreshCases
<1>5. CASE search_if_change
  BY <1>5, KeyUpCases
<1>6. CASE ServerDies \/ ServerStarts
  BY <1>6 DEF ServerDies, ServerStarts, ServerChanges
<1> QED
  BY <1>1, <1>2, <1>3, <1>4, <1>5, <1>6 DEF Next, Keys, Buttons, Timers

LEMMA SearchfCases ==
    ASSUME NEW v, searchf(v)
    PROVE  \/ /\ trim(v) # "" /\ cur_search' = trim(v) /\ view' = "tabs" /\ loading' = TRUE
              /\ search_timeout' = arm_search
              /\ stat_timeout' = Clear(stat_timeout) /\ highlight_timeout' = Clear(highlight_timeout)
              /\ stats' = "" /\ heard' = TRUE
           \/ /\ heard' = FALSE
              /\ cur_search' = cur_search /\ view' = view /\ loading' = loading /\ stats' = stats
              /\ search_timeout' = search_timeout /\ stat_timeout' = stat_timeout
              /\ highlight_timeout' = highlight_timeout
<1> QED
  BY DEF searchf, timers

-----------------------------------------------------------------------------
\* Every step keeps the type of the variables that are not the grid's or timers.

LEMMA InputStep ==
    ASSUME InputType, [Next]_vars
    PROVE  InputType'
<1> USE DEF InputType
<1>1. CASE SearchStarts
  <2>1. PICK v \in Boxes : searchf(v)
    BY <1>1 DEF SearchStarts
  <2>2. trim(v) \in Texts \cup {""}
    BY Trimmed
  <2>3. /\ cur_search' \in Texts \cup {""} /\ view' \in {"history", "tabs"} /\ loading' \in BOOLEAN
        /\ stats' \in Texts \cup {""} /\ heard' \in BOOLEAN
    BY <2>1, <2>2, SearchfCases
  <2> QED
    BY <1>1, <2>3 DEF SearchStarts
<1>2. CASE HistoryLoads
  <2>1. loading' = TRUE /\ history_timeout' = history_timeout + 1
    BY <1>2 DEF HistoryLoads, load_history
  <2>2. history_timeout' \in Nat
    BY <2>1, Counting, Zenon
  <2> QED
    BY <1>2, <2>1, <2>2 DEF HistoryLoads, input, options
<1>3. CASE KeyReleased
  BY <1>3 DEF KeyReleased, options, others
<1>4. CASE SelectionChanges
  BY <1>4 DEF SelectionChanges, input, options, others
<1>5. CASE ServerChanges
  BY <1>5 DEF ServerChanges, input, options, others
<1>6. ASSUME NEW k \in {"char", "back"}, NEW b \in Boxes, KeyDown(k, b) PROVE InputType'
  <2>1. (heard /\ trim(b) # "") \in BOOLEAN
    OBVIOUS
  <2> QED
    BY <1>6, <2>1 DEF KeyDown, options, others
<1>7. ASSUME NEW b \in Boxes, MouseEdit(b) PROVE InputType'
  BY <1>7 DEF MouseEdit, options, others
<1>8. ASSUME NEW o \in Opts, orderby(o) \/ file_type_search(o) PROVE InputType'
  BY <1>8 DEF orderby, file_type_search, input, others
<1>9. ASSUME NEW o \in Opts, offline_db(o) PROVE InputType'
  <2>1. refresh_timeout \in Nat /\ refresh_timeout' = refresh_timeout + 1
    BY <1>9 DEF offline_db
  <2>2. refresh_timeout' \in Nat
    BY <2>1, Counting, Zenon
  <2> QED
    BY <1>9, <2>2 DEF offline_db, input
<1>10. CASE return_history
  <2>1. history_timeout \in Nat /\ history_timeout' = history_timeout + 1 /\ loading' = TRUE
    BY <1>10 DEF return_history, load_history
  <2>2. history_timeout' \in Nat /\ "" \in Boxes
    BY <2>1, Counting, Zenon DEF Boxes
  <2> QED
    BY <1>10, <2>1, <2>2 DEF return_history, options
<1>11. CASE grid_add_files
  BY <1>11 DEF grid_add_files, input, options, others
<1>12. CASE searchf0
  BY <1>12 DEF searchf0, input, options, others
<1>13. CASE searchf0_empty
  BY <1>13 DEF searchf0_empty, input, options, others
<1>14. CASE searchf0_error
  BY <1>14 DEF searchf0_error, restart_when_error, input, options, others
<1>15. CASE stat_search
  BY <1>15 DEF stat_search, restart_when_error, stat_num_set, input, options, others
<1>16. CASE highlight
  BY <1>16 DEF highlight, input, options, others
<1>17. CASE history_parse
  <2>1. history_timeout \in Nat /\ history_timeout > 0 /\ history_timeout' = history_timeout - 1
    BY <1>17 DEF history_parse
  <2>2. history_timeout' \in Nat
    BY <2>1, Counting, Zenon
  <2> QED
    BY <1>17, <2>2 DEF history_parse, input, options
<1>18. CASE UNCHANGED vars
  BY <1>18 DEF vars, input, options, others
<1> QED
  BY <1>1, <1>2, <1>3, <1>4, <1>5, <1>6, <1>7, <1>8, <1>9, <1>10, <1>11, <1>12, <1>13, <1>14,
     <1>15, <1>16, <1>17, <1>18, StepCases

-----------------------------------------------------------------------------
\* Every step keeps the timers: a search is pending once at most.

LEMMA TimersStep ==
    ASSUME InputType, TimersType, [Next]_vars
    PROVE  TimersType'
<1> DEFINE T(t) == TimerType(t, MaxTimers + 2)
<1>1. search_timeout \in {NoTimer, Armed} /\ T(stat_timeout) /\ T(highlight_timeout)
  BY DEF TimersType
<1>2. /\ arm_search = Armed /\ search_timeout.n \in {0, 1}
      /\ search_timeout.n > 0 => Fire(search_timeout) = NoTimer
  BY <1>1, SearchTimerFacts
<1>3. \A t : T(t) =>
        /\ t.n \in Nat /\ T(Clear(t)) /\ Clear(t).n <= t.n /\ Clear(t).n \in Nat
        /\ t.n > 0 => T(Fire(t))
        /\ t.n <= MaxTimers + 1 => T(Arm(t))
        /\ Arm(t).n = t.n + 1
        /\ \A u \in icon_replace(t) : T(u)
  <2> SUFFICES ASSUME NEW t, T(t)
               PROVE  /\ t.n \in Nat /\ T(Clear(t)) /\ Clear(t).n <= t.n /\ Clear(t).n \in Nat
                      /\ t.n > 0 => T(Fire(t))
                      /\ t.n <= MaxTimers + 1 => T(Arm(t))
                      /\ Arm(t).n = t.n + 1
                      /\ \A u \in icon_replace(t) : T(u)
    OBVIOUS
  <2>1. T(Clear(t))
    BY PageTimerFacts
  <2>2. Clear(t).n \in Nat
    BY <2>1, PageTimerFacts
  <2> QED
    BY <2>1, <2>2, PageTimerFacts
<1> HIDE DEF T
<1>4. SUFFICES search_timeout' \in {NoTimer, Armed} /\ T(stat_timeout') /\ T(highlight_timeout')
  BY DEF TimersType, T
<1>5. CASE SearchStarts
  <2>1. PICK v : searchf(v)
    BY <1>5 DEF SearchStarts
  <2> QED
    BY <1>1, <1>2, <1>3, <2>1, SearchfCases
<1>6. CASE \/ HistoryLoads \/ KeyReleased \/ SelectionChanges \/ ServerChanges
           \/ \E k \in {"char", "back"}, b \in Boxes : KeyDown(k, b)
           \/ \E b \in Boxes : MouseEdit(b)
           \/ \E o \in Opts : offline_db(o)
           \/ return_history \/ history_parse \/ UNCHANGED vars
  <2>1. UNCHANGED timers
    BY <1>6 DEF HistoryLoads, KeyReleased, SelectionChanges, ServerChanges, KeyDown, MouseEdit,
                offline_db, return_history, history_parse, vars
  <2> QED
    BY <1>1, <2>1 DEF timers
<1>7. ASSUME NEW o \in Opts, orderby(o) \/ file_type_search(o)
      PROVE  search_timeout' \in {NoTimer, Armed} /\ T(stat_timeout') /\ T(highlight_timeout')
  <2>1. search_timeout' \in {search_timeout, arm_search} /\ UNCHANGED <<stat_timeout, highlight_timeout>>
    BY <1>7 DEF orderby, file_type_search
  <2> QED
    BY <1>1, <1>2, <2>1
<1>8. CASE grid_add_files
  <2>1. highlight_timeout.n < MaxTimers /\ highlight_timeout' = Arm(highlight_timeout)
        /\ UNCHANGED <<search_timeout, stat_timeout>>
    BY <1>8 DEF grid_add_files, grid_event
  <2>2. highlight_timeout.n <= MaxTimers + 1
    BY <1>1, <1>3, <2>1, Bounds
  <2> QED
    BY <1>1, <1>3, <2>1, <2>2
<1>9. CASE searchf0 \/ searchf0_empty \/ searchf0_error
  <2>1. /\ search_timeout.n > 0 /\ search_timeout' = Fire(search_timeout)
        /\ stat_timeout.n <= MaxTimers /\ stat_timeout' = Arm(stat_timeout)
    BY <1>9 DEF searchf0, searchf0_empty, searchf0_error
  <2>2. stat_timeout.n <= MaxTimers + 1
    BY <1>1, <1>3, <2>1, Bounds
  <2>3. search_timeout' \in {NoTimer, Armed} /\ T(stat_timeout')
    BY <1>1, <1>2, <1>3, <2>1, <2>2
  <2> DEFINE t == Clear(highlight_timeout)
  <2>4. T(t) /\ t.n \in Nat /\ t.n <= highlight_timeout.n /\ highlight_timeout.n \in Nat
    BY <1>1, <1>3
  <2>5. CASE highlight_timeout' = highlight_timeout
    BY <1>1, <2>3, <2>5
  <2>6. CASE highlight_timeout' = t
    BY <2>3, <2>4, <2>6
  <2> HIDE DEF t
  <2>7. CASE highlight_timeout' = Arm(t) /\ highlight_timeout.n <= MaxTimers
    <3>1. t.n <= MaxTimers + 1
      BY <2>4, <2>7, Bounds
    <3> QED
      BY <1>3, <2>3, <2>4, <2>7, <3>1
  <2>8. CASE highlight_timeout' = Arm(Arm(t)) /\ highlight_timeout.n < MaxTimers
    <3>1. t.n <= MaxTimers + 1 /\ t.n + 1 <= MaxTimers + 1
      BY <2>4, <2>8, Bounds
    <3>2. T(Arm(t)) /\ Arm(t).n = t.n + 1
      BY <1>3, <2>4, <3>1
    <3> QED
      BY <1>3, <2>3, <2>8, <3>1, <3>2
  <2>9. CASE searchf0
    <3>1. highlight_timeout' \in {t, Arm(t)} /\ highlight_timeout.n <= MaxTimers
      BY <2>9 DEF searchf0, grid_event, t
    <3> QED
      BY <2>6, <2>7, <3>1
  <2>10. CASE searchf0_empty
    BY <2>5, <2>10 DEF searchf0_empty
  <2>11. CASE searchf0_error
    <3>1. highlight_timeout' \in {Arm(t), Arm(Arm(t))} /\ highlight_timeout.n < MaxTimers
      BY <2>11 DEF searchf0_error, grid_event, t
    <3>2. highlight_timeout.n <= MaxTimers
      BY <2>4, <3>1, Bounds
    <3> QED
      BY <2>7, <2>8, <3>1, <3>2
  <2> QED
    BY <1>9, <2>9, <2>10, <2>11
<1>10. CASE stat_search
  <2>1. /\ search_timeout' = search_timeout
        /\ stat_timeout.n > 0 /\ stat_timeout' = Fire(stat_timeout)
        /\ \/ highlight_timeout' = highlight_timeout
           \/ highlight_timeout.n <= MaxTimers /\ highlight_timeout' = Arm(highlight_timeout)
    BY <1>10 DEF stat_search, grid_event
  <2>2. highlight_timeout.n <= MaxTimers => highlight_timeout.n <= MaxTimers + 1
    BY <1>1, <1>3, Bounds
  <2> QED
    BY <1>1, <1>3, <2>1, <2>2
<1>11. CASE highlight
  <2>1. /\ highlight_timeout.n > 0 /\ highlight_timeout' \in icon_replace(Fire(highlight_timeout))
        /\ UNCHANGED <<search_timeout, stat_timeout>>
    BY <1>11 DEF highlight
  <2> QED
    BY <1>1, <1>3, <2>1
<1> QED
  BY <1>5, <1>6, <1>7, <1>8, <1>9, <1>10, <1>11, StepCases

-----------------------------------------------------------------------------
\* Every step but a search leaves what is searched for alone.

LEMMA SearchedStep ==
    ASSUME InputType, TimersType, Searched, [Next]_vars
    PROVE  Searched'
<1>1. search_timeout.n \in {0, 1} /\ Armed.n = 1 /\ arm_search = Armed
  BY SearchTimerFacts DEF TimersType
<1>2. ASSUME UNCHANGED <<cur_search, search_timeout, view, files>> PROVE Searched'
  BY <1>2 DEF Searched
<1>3. ASSUME cur_search' # "" PROVE Searched'
  BY <1>3 DEF Searched
<1>4. CASE SearchStarts
  <2>1. PICK v : searchf(v)
    BY <1>4 DEF SearchStarts
  <2>2. files' = files
    BY <1>4 DEF SearchStarts, grid
  <2> QED
    BY <1>2, <1>3, <2>1, <2>2, SearchfCases
<1>5. CASE \/ HistoryLoads \/ KeyReleased \/ SelectionChanges \/ ServerChanges
           \/ \E k \in {"char", "back"}, b \in Boxes : KeyDown(k, b)
           \/ \E b \in Boxes : MouseEdit(b)
           \/ \E o \in Opts : offline_db(o)
           \/ grid_add_files \/ highlight \/ history_parse \/ UNCHANGED vars
  <2>1. UNCHANGED <<cur_search, search_timeout, view, files>>
    BY <1>5 DEF HistoryLoads, KeyReleased, SelectionChanges, ServerChanges, KeyDown, MouseEdit,
                offline_db, grid_add_files, highlight, history_parse, vars, options, timers, grid
  <2> QED
    BY <1>2, <2>1
<1>6. ASSUME NEW o \in Opts, orderby(o) \/ file_type_search(o) PROVE Searched'
  <2>1. view = "tabs" /\ cur_search' = cur_search
    BY <1>6 DEF orderby, file_type_search
  <2> QED
    BY <1>3, <2>1 DEF Searched
<1>7. CASE return_history
  <2>1. view' = "history" /\ UNCHANGED <<cur_search, search_timeout, files>>
    BY <1>7 DEF return_history, options, timers, grid
  <2> QED
    BY <2>1 DEF Searched
<1>8. CASE searchf0 \/ searchf0_empty \/ searchf0_error
  <2>1. search_timeout.n > 0 /\ cur_search' = cur_search
    BY <1>8 DEF searchf0, searchf0_empty, searchf0_error, options
  <2>2. search_timeout.n # 0
    BY <1>1, <2>1
  <2> QED
    BY <1>3, <2>1, <2>2 DEF Searched
<1>9. CASE stat_search
  <2>1. cur_search' = cur_search /\ UNCHANGED <<search_timeout, view>> /\ (cur_search = "" => files' = files)
    BY <1>9 DEF stat_search, options
  <2> QED
    BY <1>2, <1>3, <2>1
<1> QED
  BY <1>4, <1>5, <1>6, <1>7, <1>8, <1>9, StepCases

-----------------------------------------------------------------------------
\* Drawing, scrolling and selecting.

LEMMA GridFacts ==
    ASSUME GridType
    PROVE  /\ files \in Answers /\ files.n \in Nat /\ rows \in Seq(Row)
           /\ Len(rows) \in Nat /\ Len(rows) <= cur_page_end
           /\ cur_page_end \in Nat /\ FirstRows <= cur_page_end
           /\ \A k \in 1..Len(rows) : rows[k].id \in Nat /\ rows[k].file[3] \in Nat
<1>1. /\ files \in Answers /\ rows \in Seq(Row) /\ Len(rows) <= cur_page_end
      /\ cur_page_end \in FirstRows..MaxPageEnd
  BY DEF GridType
<1>2. cur_page_end \in Nat /\ FirstRows <= cur_page_end
  BY <1>1, Bounds
<1>3. files.n \in Nat /\ Len(rows) \in Nat
  BY <1>1, FieldFacts, LenProperties
<1>4. ASSUME NEW k \in 1..Len(rows) PROVE rows[k].id \in Nat /\ rows[k].file[3] \in Nat
  <2>1. rows[k].id \in Nat /\ rows[k].file \in Texts \X Opts \X (1..(MaxRows + 1))
    <3>1. rows[k] \in Row
      BY <1>1, ElementOfSeq
    <3>2. \A r \in Row : r.id \in Nat /\ r.file \in Texts \X Opts \X (1..(MaxRows + 1))
      BY DEF Row, AllFiles
    <3> QED
      BY <3>1, <3>2, Zenon
  <2>2. rows[k].file[3] \in 1..(MaxRows + 1)
    BY <2>1
  <2> QED
    BY <2>1, <2>2, Bounds
<1> QED
  BY <1>1, <1>2, <1>3, <1>4

\* Whatever answer is drawn, the rows are its first files.
LEMMA RedrawnGrid ==
    ASSUME GridType, NEW fs \in Answers, fs.n > 0 => fs.q \in Texts,
           files' = fs, view_grid(fs), cur_page_end' = cur_page_end
    PROVE  GridType' /\ FirstFiles' /\ IdsAreNumbers' /\ Gap'
<1> DEFINE n == Len(Drawn(fs))
<1>1. rows' = Drawn(fs) /\ sel' = {} /\ first_grid' = FALSE
  BY DEF view_grid
<1>2. /\ rows' \in Seq(Row) /\ n \in 0..FirstRows /\ (n = fs.n \/ (n = FirstRows /\ fs.n > FirstRows))
      /\ \A i \in 1..n : rows'[i] = [id |-> i, file |-> File(fs, i)]
  BY <1>1, DrawnFacts
<1>3. n \in Nat /\ n <= cur_page_end /\ FirstRows <= cur_page_end /\ cur_page_end \in Nat /\ fs.n \in Nat
  <2>1. FirstRows <= cur_page_end /\ cur_page_end \in Nat /\ fs.n \in Nat
    BY GridFacts, FieldFacts
  <2>2. n \in 0..FirstRows
    BY <1>2
  <2> HIDE DEF n
  <2>3. n \in Nat /\ n <= cur_page_end
    BY <2>1, <2>2, Bounds
  <2> QED
    BY <2>1, <2>3
<1>4. Len(rows') = n /\ Len(Drawn(files')) = n
  BY <1>1
<1> HIDE DEF n
<1>5. \A i \in 1..n : rows'[i].id = i /\ rows'[i].file = File(fs, i) /\ rows'[i].file[3] = i
  <2> TAKE i \in 1..n
  <2>1. rows'[i] = [id |-> i, file |-> File(fs, i)]
    BY <1>2
  <2> QED
    BY <2>1 DEF File
<1>6. RowsCountUp'
  <2>1. \A k \in 1..n : rows'[k].id \in {0, k} /\ rows'[k].file[3] <= cur_page_end
    BY <1>3, <1>5
  <2>2. \A k, l \in 1..n : k < l => rows'[k].file[3] < rows'[l].file[3]
    BY <1>5
  <2> QED
    BY <1>4, <2>1, <2>2 DEF RowsCountUp
<1>7. GridType'
  BY <1>1, <1>2, <1>3, <1>4, <1>6 DEF GridType
<1>8. FirstFiles'
  <2>1. fs.n = 0 => n = 0
    BY <1>2, <1>3, Bounds
  <2>2. n = 0 => rows' = <<>>
    BY <1>2, <1>4, EmptySeq
  <2> QED
    BY <1>2, <1>3, <1>4, <2>1, <2>2 DEF FirstFiles
<1>9. IdsAreNumbers'
  BY <1>1, <1>4, <1>5 DEF IdsAreNumbers
<1>10. Gap'
  <2>1. \/ n = cur_page_end
        \/ n + PageRow <= cur_page_end
        \/ fs.n <= cur_page_end
    <3>1. cur_page_end = FirstRows \/ cur_page_end >= FirstRows + PageRow
      BY DEF GridType
    <3> QED
      BY <1>2, <1>3, <3>1, Bounds
  <2> QED
    BY <1>4, <2>1 DEF Gap
<1> QED
  BY <1>7, <1>8, <1>9, <1>10

\* A scroll goes on counting, and if the rows showed the answer they still do.
LEMMA ScrolledGrid ==
    ASSUME GridType, grid_add_files
    PROVE  /\ GridType'
           /\ FirstFiles /\ IdsAreNumbers /\ Gap => FirstFiles' /\ IdsAreNumbers' /\ Gap'
<1> DEFINE n == Len(rows)
<1>1. /\ rows' = Appended /\ cur_page_end' = cur_page_end + PageRow /\ cur_page_end + PageRow <= MaxPageEnd
      /\ files' = files /\ sel' = sel /\ first_grid' = first_grid
  BY DEF grid_add_files
<1>2. PICK d \in Nat :
         /\ rows' \in Seq(Row) /\ Len(rows') = n + d /\ d <= PageRow
         /\ d = PageRow \/ files.n <= cur_page_end + d
         /\ d > 0 => cur_page_end + d <= files.n
         /\ \A k \in 1..n : rows'[k] = rows[k]
         /\ \A k \in (n + 1)..(n + d) :
              /\ rows'[k].id = IF k > cur_page_end THEN k ELSE 0
              /\ rows'[k].file = File(files, cur_page_end + (k - n))
  BY <1>1, AppendedFacts
<1>3. /\ files \in Answers /\ files.n \in Nat /\ n \in Nat /\ n <= cur_page_end /\ rows \in Seq(Row)
      /\ cur_page_end \in Nat /\ FirstRows <= cur_page_end
      /\ \A k \in 1..n : rows[k].id \in Nat /\ rows[k].file[3] \in Nat
  BY GridFacts
<1>4. /\ \A k \in 1..n : rows[k].id \in {0, k} /\ rows[k].file[3] <= cur_page_end
      /\ \A k, l \in 1..n : k < l => rows[k].file[3] < rows[l].file[3]
  BY DEF GridType, RowsCountUp
<1> HIDE DEF n
<1>5. \A k \in (n + 1)..(n + d) : rows'[k].file[3] = cur_page_end + (k - n)
  BY <1>2 DEF File
<1>6. RowsCountUp'
  <2>1. ASSUME NEW k \in 1..(n + d)
        PROVE  rows'[k].id \in {0, k} /\ rows'[k].file[3] <= cur_page_end + PageRow
    <3>1. CASE k \in 1..n
      BY <1>2, <1>3, <1>4, <3>1, Bounds, SMTT(30)
    <3>2. CASE k \in (n + 1)..(n + d)
      BY <1>2, <1>3, <1>5, <3>2, Bounds, SMTT(30)
    <3> QED
      BY <1>2, <1>3, <3>1, <3>2
  <2>2. ASSUME NEW k \in 1..(n + d), NEW l \in 1..(n + d), k < l
        PROVE  rows'[k].file[3] < rows'[l].file[3]
    <3>1. CASE l \in 1..n
      <4>1. k \in 1..n
        BY <1>3, <2>2, <3>1
      <4> QED
        BY <1>2, <1>4, <2>2, <3>1, <4>1
    <3>2. CASE k \in 1..n /\ l \in (n + 1)..(n + d)
      <4>1. rows'[k].file[3] <= cur_page_end /\ rows'[k].file[3] \in Nat
        BY <1>2, <1>3, <1>4, <3>2
      <4>2. rows'[l].file[3] = cur_page_end + (l - n)
        BY <1>5, <3>2
      <4>3. cur_page_end < cur_page_end + (l - n) /\ cur_page_end + (l - n) \in Nat
        BY <1>2, <1>3, <3>2, SMTT(30)
      <4>4. rows'[k].file[3] < cur_page_end + (l - n)
        BY <1>3, <4>1, <4>3
      <4> QED
        BY <4>2, <4>4
    <3>3. CASE k \in (n + 1)..(n + d)
      <4>1. l \in (n + 1)..(n + d)
        BY <1>2, <1>3, <2>2, <3>3
      <4>2. rows'[k].file[3] = cur_page_end + (k - n) /\ rows'[l].file[3] = cur_page_end + (l - n)
        BY <1>5, <3>3, <4>1
      <4>3. cur_page_end + (k - n) < cur_page_end + (l - n)
        BY <1>2, <1>3, <2>2, <3>3, <4>1
      <4> QED
        BY <4>2, <4>3
    <3> QED
      BY <1>2, <1>3, <3>1, <3>2, <3>3
  <2> QED
    BY <1>1, <1>2, <2>1, <2>2 DEF RowsCountUp
<1>7. GridType'
  <2>1. cur_page_end' \in FirstRows..MaxPageEnd /\ cur_page_end' >= FirstRows + PageRow
    BY <1>1, <1>3, Bounds
  <2>2. Len(rows') <= cur_page_end'
    BY <1>1, <1>2, <1>3, Bounds
  <2> QED
    BY <1>1, <1>2, <1>6, <2>1, <2>2 DEF GridType
<1>8. ASSUME FirstFiles PROVE FirstFiles'
  <2> DEFINE m == Len(Drawn(files))
  <2>1. m \in 0..FirstRows /\ m <= n /\ Drawn(files') = Drawn(files)
    BY <1>1, <1>8, DrawnFacts DEF FirstFiles, GridType, n
  <2>2. m <= Len(rows') /\ \A i \in 1..m : i \in 1..n
    BY <1>2, <1>3, <2>1, Bounds
  <2>3. \A i \in 1..m : rows'[i] = [id |-> i, file |-> File(files, i)]
    BY <1>2, <1>8, <2>2 DEF FirstFiles
  <2>4. ASSUME files.n = 0 PROVE rows' = <<>>
    <3>1. d = 0
      BY <1>2, <1>3, <2>4
    <3>2. n = 0
      BY <1>8, <2>4, EmptySeq DEF FirstFiles, n
    <3> QED
      BY <1>2, <3>1, <3>2, EmptySeq
  <2> QED
    BY <1>1, <2>1, <2>2, <2>3, <2>4 DEF FirstFiles
<1>9. ASSUME IdsAreNumbers, Gap PROVE IdsAreNumbers'
  <2>1. \/ n = cur_page_end
        \/ n + PageRow <= cur_page_end
        \/ files.n <= cur_page_end
    BY <1>9 DEF Gap, n
  <2>2. ASSUME NEW k \in 1..(n + d), rows'[k].id = k PROVE rows'[k].file = File(files, k)
    <3>1. CASE k \in 1..n
      BY <1>2, <1>9, <2>2, <3>1 DEF IdsAreNumbers, n
    <3>2. CASE k \in (n + 1)..(n + d)
      <4>1. k > cur_page_end
        BY <1>2, <1>3, <2>2, <3>2
      <4>2. n = cur_page_end
        BY <1>2, <1>3, <2>1, <3>2, <4>1, Bounds
      <4>3. cur_page_end + (k - n) = k
        BY <1>3, <3>2, <4>2
      <4> QED
        BY <1>2, <3>2, <4>3
    <3> QED
      BY <1>2, <1>3, <3>1, <3>2
  <2>3. ASSUME NEW id \in sel PROVE id \in 1..(n + d) /\ rows'[id].id = id
    <3>1. id \in 1..n /\ rows[id].id = id
      BY <1>9 DEF IdsAreNumbers, n
    <3> QED
      BY <1>2, <1>3, <3>1
  <2> QED
    BY <1>1, <1>2, <2>2, <2>3 DEF IdsAreNumbers
<1>10. ASSUME Gap PROVE Gap'
  <2>1. \/ n = cur_page_end
        \/ n + PageRow <= cur_page_end
        \/ files.n <= cur_page_end
    BY <1>10 DEF Gap, n
  <2>2. \/ n + d = cur_page_end + PageRow
        \/ n + d + PageRow <= cur_page_end + PageRow
        \/ files.n <= cur_page_end + PageRow
    <3>1. n \in Nat /\ d \in Nat /\ d <= PageRow /\ PageRow \in Nat /\ cur_page_end \in Nat /\ files.n \in Nat
      BY <1>2, <1>3, Bounds
    <3>2. CASE files.n <= cur_page_end
      BY <3>1, <3>2
    <3>3. CASE files.n <= cur_page_end + d
      BY <3>1, <3>3
    <3>4. CASE d = PageRow /\ n = cur_page_end
      BY <3>1, <3>4
    <3>5. CASE d = PageRow /\ n + PageRow <= cur_page_end
      BY <3>1, <3>5
    <3>6. d = PageRow \/ files.n <= cur_page_end + d
      BY <1>2
    <3> QED
      BY <2>1, <3>2, <3>3, <3>4, <3>5, <3>6
  <2> QED
    BY <1>1, <1>2, <2>2 DEF Gap
<1> QED
  BY <1>7, <1>8, <1>9, <1>10

LEMMA SelectedRow ==
    ASSUME GridType, NEW id \in RowIds
    PROVE  id \in 1..Len(rows) /\ rows[id].id = id /\ id \in Nat
<1>1. PICK k \in DOMAIN rows : rows[k].id = id /\ id # 0
  BY DEF RowIds
<1>2. k \in 1..Len(rows)
  BY <1>1, GridFacts, LenProperties
<1>3. rows[k].id \in {0, k}
  BY <1>2 DEF GridType, RowsCountUp
<1> QED
  BY <1>1, <1>2, <1>3

LEMMA GridStep ==
    ASSUME InputType, TimersType, Searched, GridType, [Next]_vars
    PROVE  GridType'
<1>1. ASSUME UNCHANGED grid PROVE GridType'
  BY <1>1 DEF GridType, RowsCountUp, grid
<1>2. CASE SelectionChanges
  <2>1. PICK id \in RowIds \cup {1} : sel' \in {sel \ {id}, sel \cup {id}, {id}}
    BY <1>2 DEF SelectionChanges
  <2>2. id \in Nat
    BY SelectedRow
  <2>3. sel' \subseteq Nat
    BY <2>1, <2>2 DEF GridType
  <2> QED
    BY <1>2, <2>3 DEF SelectionChanges, GridType, RowsCountUp
<1>3. CASE grid_add_files
  BY <1>3, ScrolledGrid
<1>4. CASE searchf0
  <2>1. cur_search \in Texts /\ opts \in Opts
    <3>1. search_timeout.n # 0
      <4>1. search_timeout.n > 0 /\ search_timeout.n \in {0, 1}
        BY <1>4, SearchTimerFacts DEF searchf0, TimersType
      <4> QED
        BY <4>1
    <3> QED
      BY <3>1 DEF Searched, InputType
  <2>2. PICK fs \in Answers : files' = fs /\ fs.q \in Texts
    <3>1. files' = Answer(cur_search, opts)
      BY <1>4 DEF searchf0
    <3> QED
      BY <2>1, <3>1, AnswerFacts
  <2>3. cur_page_end' = cur_page_end
    BY <1>4 DEF searchf0
  <2>4. CASE changed
    <3>1. UNCHANGED <<rows, sel, first_grid>>
      BY <1>4, <2>4 DEF searchf0
    <3> QED
      BY <2>2, <2>3, <3>1 DEF GridType, RowsCountUp
  <2>5. CASE ~changed
    <3>1. view_grid(fs)
      BY <1>4, <2>2, <2>5 DEF searchf0
    <3> QED
      BY <2>2, <2>3, <3>1, RedrawnGrid
  <2> QED
    BY <2>4, <2>5
<1>5. ASSUME restart_when_error, cur_page_end' = cur_page_end PROVE GridType'
  <2>1. PICK fs : fs = NoFiles
    OBVIOUS
  <2>2. fs \in Answers /\ ~(fs.n > 0) /\ files' = fs /\ view_grid(fs)
    BY <1>5, <2>1, NoFilesFacts DEF restart_when_error
  <2> QED
    BY <1>5, <2>2, RedrawnGrid
<1>6. CASE searchf0_error
  BY <1>5, <1>6 DEF searchf0_error
<1>7. CASE stat_search
  BY <1>1, <1>5, <1>7 DEF stat_search, grid
<1>8. CASE \/ SearchStarts \/ HistoryLoads \/ KeyReleased \/ ServerChanges
           \/ \E k \in {"char", "back"}, b \in Boxes : KeyDown(k, b)
           \/ \E b \in Boxes : MouseEdit(b)
           \/ \E o \in Opts : orderby(o) \/ file_type_search(o) \/ offline_db(o)
           \/ return_history \/ searchf0_empty \/ highlight \/ history_parse \/ UNCHANGED vars
  <2>1. UNCHANGED grid
    BY <1>8 DEF SearchStarts, HistoryLoads, KeyReleased, ServerChanges, KeyDown, MouseEdit, orderby,
                file_type_search, offline_db, return_history, searchf0_empty, highlight, history_parse, vars
  <2> QED
    BY <1>1, <2>1
<1> QED
  BY <1>2, <1>3, <1>4, <1>6, <1>7, <1>8, StepCases

-----------------------------------------------------------------------------
\* What was heard.

LEMMA Unheard ==
    ASSUME heard' = FALSE
    PROVE  HeardInv'
<1> QED
  BY DEF HeardInv, HeardText, FilesAnswerSearch, RowsShowFiles, StatsShowSearch, LoadingEnds, Settled

\* While a search is pending only the text matters.
LEMMA Pending ==
    ASSUME HeardText', search_timeout'.n # 0
    PROVE  HeardInv'
<1> QED
  BY DEF HeardInv, FilesAnswerSearch, RowsShowFiles, StatsShowSearch, LoadingEnds, Settled

\* Nothing is heard while the box is empty.
LEMMA EmptyBox ==
    ASSUME InputType, HeardText, box = ""
    PROVE  heard = FALSE
<1>1. trim(box) = ""
  BY DEF trim
<1> QED
  BY <1>1 DEF HeardText, InputType

\* The box, the search and the view stay, and so does the text.
LEMMA SameText ==
    ASSUME HeardText, UNCHANGED <<box, cur_search, view>>, heard' = heard, key' = key
    PROVE  HeardText' /\ changed' = changed
<1> QED
  BY DEF HeardText, changed, trim

LEMMA SameFiles ==
    ASSUME FilesAnswerSearch, UNCHANGED <<cur_search, search_timeout, files, opts, refresh_timeout>>,
           heard' => heard
    PROVE  FilesAnswerSearch'
<1> QED
  BY DEF FilesAnswerSearch, AnswerCount

LEMMA SameRows ==
    ASSUME RowsShowFiles, UNCHANGED <<files, rows, sel, cur_page_end>>, Settled' => Settled
    PROVE  RowsShowFiles'
<1> QED
  BY DEF RowsShowFiles, FirstFiles, IdsAreNumbers, Gap, Drawn, File

\* A step that leaves the search, the grid and the timers alone.
LEMMA Untouched ==
    ASSUME HeardInv, HeardText', heard' => heard, Settled' => Settled,
           UNCHANGED <<options, grid, stats, timers, others>>, loading' \in {loading, FALSE}
    PROVE  HeardInv'
<1>1. /\ UNCHANGED <<cur_search, opts, files, rows, sel, cur_page_end, stats>>
      /\ UNCHANGED <<search_timeout, stat_timeout, highlight_timeout, history_timeout, refresh_timeout>>
  BY DEF options, grid, timers, others
<1>2. FilesAnswerSearch' /\ RowsShowFiles'
  BY <1>1, SameFiles, SameRows DEF HeardInv
<1>3. StatsShowSearch'
  BY <1>1 DEF HeardInv, StatsShowSearch
<1>4. LoadingEnds'
  BY <1>1 DEF HeardInv, LoadingEnds
<1> QED
  BY <1>2, <1>3, <1>4 DEF HeardInv

LEMMA HeardAfterSearch ==
    ASSUME InputType, TimersType, SearchStarts
    PROVE  HeardInv'
<1>1. PICK v \in Boxes : searchf(v) /\ trim(box') = trim(v)
  BY DEF SearchStarts
<1>2. CASE heard' = FALSE
  BY <1>2, Unheard
<1>3. CASE heard' = TRUE
  <2>1. trim(v) # "" /\ cur_search' = trim(v) /\ view' = "tabs" /\ search_timeout' = Armed
    BY <1>1, <1>3, SearchfCases, SearchTimerFacts DEF TimersType
  <2>2. HeardText'
    BY <1>1, <2>1 DEF HeardText, changed
  <2>3. search_timeout'.n # 0
    <3>1. Armed.n # 0
      BY SearchTimerFacts DEF TimersType
    <3> QED
      BY <2>1, <3>1, Zenon
  <2> QED
    BY <2>2, <2>3, Pending
<1> QED
  BY <1>1, <1>2, <1>3, SearchfCases

\* The answer is drawn unless the text is another by now.
LEMMA HeardAfterAnswer ==
    ASSUME PageInv, searchf0
    PROVE  HeardInv'
<1>1. InputType /\ TimersType /\ GridType /\ Searched /\ HeardInv
  BY DEF PageInv
<1>2. /\ box # "" /\ search_timeout' = NoTimer /\ stat_timeout' = Arm(stat_timeout)
      /\ files' = Answer(cur_search, opts)
      /\ UNCHANGED <<box, key, cur_search, opts, view, cur_page_end, heard>>
  <2>1. search_timeout.n > 0 /\ search_timeout' = Fire(search_timeout)
    BY DEF searchf0
  <2>2. search_timeout' = NoTimer
    BY <1>1, <2>1, SearchTimerFacts DEF TimersType
  <2> QED
    BY <2>2 DEF searchf0, input, options
<1>3. cur_search \in Texts /\ opts \in Opts
  <2>1. search_timeout.n # 0
    <3>1. search_timeout.n > 0 /\ search_timeout.n \in {0, 1}
      BY <1>1, SearchTimerFacts DEF searchf0, TimersType
    <3> QED
      BY <3>1
  <2> QED
    BY <1>1, <2>1 DEF Searched, InputType
<1>4. PICK fs \in Answers : /\ files' = fs /\ fs.q = cur_search /\ fs.o = opts
                            /\ fs.n = AnswerCount(cur_search) /\ fs.q \in Texts
  BY <1>2, <1>3, AnswerFacts, ZenonT(30)
<1>5. HeardText' /\ changed' = changed
  BY <1>1, <1>2, SameText DEF HeardInv
<1>6. FilesAnswerSearch'
  BY <1>2, <1>4 DEF FilesAnswerSearch, AnswerCount
<1>7. stat_timeout'.n # 0
  <2>1. stat_timeout'.n > 0 /\ stat_timeout.n \in Nat /\ stat_timeout'.n = stat_timeout.n + 1
    BY <1>1, <1>2, PageTimerFacts DEF TimersType
  <2> QED
    BY <2>1
<1>8. StatsShowSearch'
  BY <1>7 DEF StatsShowSearch
<1>9. CASE changed
  <2>1. ~Settled'
    BY <1>5, <1>9 DEF Settled
  <2> QED
    BY <1>5, <1>6, <1>8, <2>1 DEF HeardInv, RowsShowFiles, LoadingEnds
<1>10. CASE ~changed
  <2>1. view_grid(fs) /\ highlight_timeout' = Arm(Clear(highlight_timeout))
    BY <1>4, <1>10 DEF searchf0, grid_event
  <2>2. FirstFiles' /\ IdsAreNumbers' /\ Gap'
    BY <1>1, <1>2, <1>4, <2>1, RedrawnGrid
  <2>3. highlight_timeout'.n # 0
    <3> DEFINE t == Clear(highlight_timeout)
    <3>1. TimerType(t, MaxTimers + 2)
      BY <1>1, PageTimerFacts DEF TimersType
    <3> HIDE DEF t
    <3>2. Arm(t).n > 0 /\ t.n \in Nat /\ Arm(t).n = t.n + 1
      BY <3>1, PageTimerFacts
    <3>3. Arm(t).n # 0
      BY <3>2
    <3> QED
      BY <2>1, <3>3 DEF t
  <2> QED
    BY <1>5, <1>6, <1>8, <2>2, <2>3 DEF HeardInv, RowsShowFiles, LoadingEnds
<1> QED
  BY <1>9, <1>10

\* The rows show the answer, so the row selected is the file of its number.
LEMMA HeardAfterSelection ==
    ASSUME PageInv, SelectionChanges
    PROVE  HeardInv'
<1>1. InputType /\ GridType /\ HeardInv
  BY DEF PageInv
<1>2. /\ UNCHANGED <<box, key, cur_search, opts, view, files, rows, cur_page_end, stats, heard, loading>>
      /\ UNCHANGED <<search_timeout, stat_timeout, highlight_timeout, history_timeout, refresh_timeout>>
  BY DEF SelectionChanges, input, options, timers, others
<1>3. PICK id \in RowIds \cup {1} : (id = 1 => rows # <<>>) /\ sel' \in {sel \ {id}, sel \cup {id}, {id}}
  BY DEF SelectionChanges
<1>4. HeardText' /\ changed' = changed
  BY <1>1, <1>2, SameText DEF HeardInv
<1>5. Settled' => Settled
  BY <1>2, <1>4 DEF Settled
<1>6. FilesAnswerSearch' /\ StatsShowSearch' /\ LoadingEnds'
  <2>1. FilesAnswerSearch'
    BY <1>1, <1>2, SameFiles DEF HeardInv
  <2> QED
    BY <1>1, <1>2, <1>5, <2>1 DEF HeardInv, StatsShowSearch, LoadingEnds
<1>7. ASSUME Settled PROVE FirstFiles' /\ IdsAreNumbers' /\ Gap'
  <2>1. FirstFiles /\ IdsAreNumbers /\ Gap
    BY <1>1, <1>7 DEF HeardInv, RowsShowFiles
  <2>2. FirstFiles' /\ Gap'
    BY <1>2, <2>1 DEF FirstFiles, Gap, Drawn, File
  <2>3. id \in 1..Len(rows) /\ rows[id].id = id
    <3>1. CASE id \in RowIds
      BY <1>1, <3>1, SelectedRow
    <3>2. CASE id = 1
      <4> DEFINE m == Len(Drawn(files))
      <4>1. rows # <<>> /\ files \in Answers /\ files.n \in Nat /\ files.n # 0 /\ Len(rows) \in Nat
        BY <1>1, <1>3, <2>1, <3>2, GridFacts DEF FirstFiles
      <4>2. m \in 0..FirstRows /\ m <= Len(rows) /\ (m = files.n \/ m = FirstRows)
            /\ \A i \in 1..m : rows[i] = [id |-> i, file |-> File(files, i)]
        BY <1>1, <2>1, <4>1, DrawnFacts DEF FirstFiles, GridType
      <4> HIDE DEF m
      <4>3. 1 \in 1..m /\ 1 \in 1..Len(rows)
        BY <4>1, <4>2, Bounds
      <4>4. rows[1] = [id |-> 1, file |-> File(files, 1)]
        BY <4>2, <4>3
      <4> QED
        BY <3>2, <4>3, <4>4
    <3> QED
      BY <3>1, <3>2
  <2>4. IdsAreNumbers'
    BY <1>2, <1>3, <2>1, <2>3 DEF IdsAreNumbers, File
  <2> QED
    BY <2>2, <2>4
<1> QED
  BY <1>4, <1>5, <1>6, <1>7 DEF HeardInv, RowsShowFiles

LEMMA HeardStep ==
    ASSUME PageInv, [Next]_vars
    PROVE  HeardInv'
<1>1. InputType /\ TimersType /\ GridType /\ Searched /\ HeardInv /\ HeardText
  BY DEF PageInv, HeardInv
<1>2. CASE SearchStarts
  BY <1>1, <1>2, HeardAfterSearch
<1>3. CASE HistoryLoads \/ searchf0_empty
  <2>1. box = "" /\ heard' = heard
    BY <1>3 DEF HistoryLoads, searchf0_empty
  <2> QED
    BY <1>1, <2>1, EmptyBox, Unheard
<1>4. CASE KeyReleased
  <2>1. /\ UNCHANGED <<box, cur_search, view, search_timeout>> /\ heard' = heard
        /\ (box = "" \/ ~changed) /\ changed' = changed
        /\ UNCHANGED <<options, grid, stats, timers, others>> /\ loading' \in {loading, FALSE}
    BY <1>4 DEF KeyReleased, options, timers, changed
  <2>2. CASE box = ""
    BY <1>1, <2>1, <2>2, EmptyBox, Unheard
  <2>3. CASE ~changed
    <3>1. HeardText' /\ (Settled' => Settled)
      BY <1>1, <2>1, <2>3 DEF HeardText, Settled
    <3> QED
      BY <1>1, <2>1, <3>1, Untouched
  <2> QED
    BY <2>1, <2>2, <2>3
<1>5. CASE SelectionChanges
  BY <1>5, HeardAfterSelection
<1>6. CASE ServerChanges \/ UNCHANGED vars
  <2>1. /\ UNCHANGED <<box, cur_search, view, search_timeout>> /\ heard' = heard /\ key' = key
        /\ UNCHANGED <<options, grid, stats, timers, others>> /\ loading' \in {loading, FALSE}
    BY <1>6 DEF ServerChanges, vars, input, options, timers
  <2>2. HeardText' /\ (Settled' => Settled)
    BY <1>1, <2>1, SameText DEF Settled
  <2> QED
    BY <1>1, <2>1, <2>2, Untouched
<1>7. ASSUME NEW k \in {"char", "back"}, NEW b \in Boxes, KeyDown(k, b) PROVE HeardInv'
  <2>1. /\ key = "up" /\ key' = k /\ box' = b /\ heard' = (heard /\ trim(b) # "")
        /\ UNCHANGED <<cur_search, view, search_timeout>>
        /\ UNCHANGED <<options, grid, stats, timers, others>> /\ loading' \in {loading, FALSE}
    BY <1>7 DEF KeyDown, options, timers
  <2>2. HeardText' /\ (heard' => heard)
    BY <1>1, <2>1 DEF HeardText
  <2>3. Settled' => Settled
    BY <1>1, <2>1 DEF HeardText, Settled
  <2> QED
    BY <1>1, <2>1, <2>2, <2>3, Untouched
<1>8. ASSUME NEW b \in Boxes, MouseEdit(b) PROVE HeardInv'
  BY <1>8, Unheard DEF MouseEdit
<1>9. ASSUME NEW o \in Opts, orderby(o) \/ file_type_search(o) PROVE HeardInv'
  <2>1. /\ UNCHANGED <<box, key, cur_search, view, files, rows, sel, cur_page_end, stats, stat_timeout>>
        /\ UNCHANGED <<highlight_timeout, history_timeout, refresh_timeout, heard>>
    BY <1>9 DEF orderby, file_type_search, input, grid, others
  <2>2. HeardText' /\ changed' = changed
    BY <1>1, <2>1, SameText
  <2>3. arm_search.n # 0
    BY <1>1, SearchTimerFacts DEF TimersType
  <2>4. CASE search_timeout' = arm_search
    BY <2>2, <2>3, <2>4, Pending
  <2>5. CASE search_timeout' = search_timeout /\ box = ""
    BY <1>1, <2>1, <2>5, EmptyBox, Unheard
  <2>6. CASE search_timeout' = search_timeout /\ ~(files.n > 0)
    <3>1. Settled' => Settled
      BY <2>1, <2>2, <2>6 DEF Settled
    <3>2. FilesAnswerSearch'
      BY <1>1, <2>1, <2>6 DEF HeardInv, FilesAnswerSearch, AnswerCount
    <3>3. RowsShowFiles'
      BY <1>1, <2>1, <3>1, SameRows DEF HeardInv
    <3>4. StatsShowSearch' /\ LoadingEnds'
      BY <1>1, <2>1, <2>6, <3>1 DEF HeardInv, StatsShowSearch, LoadingEnds
    <3> QED
      BY <2>2, <3>2, <3>3, <3>4 DEF HeardInv
  <2> QED
    BY <1>9, <2>4, <2>5, <2>6 DEF orderby, file_type_search
<1>10. ASSUME NEW o \in Opts, offline_db(o) PROVE HeardInv'
  <2>1. /\ UNCHANGED <<box, key, cur_search, view, files, rows, sel, cur_page_end, stats, stat_timeout>>
        /\ UNCHANGED <<search_timeout, highlight_timeout, history_timeout, heard>>
        /\ refresh_timeout' = refresh_timeout + 1
    BY <1>10 DEF offline_db, input, grid, timers
  <2>2. refresh_timeout \in Nat
    BY <1>1 DEF InputType
  <2>3. refresh_timeout' # 0
    BY <2>1, <2>2
  <2>4. HeardText' /\ changed' = changed
    BY <1>1, <2>1, SameText
  <2>5. Settled' => Settled
    BY <2>1, <2>4 DEF Settled
  <2>6. FilesAnswerSearch'
    BY <1>1, <2>1, <2>3 DEF HeardInv, FilesAnswerSearch, AnswerCount
  <2>7. RowsShowFiles'
    BY <1>1, <2>1, <2>5, SameRows DEF HeardInv
  <2>8. StatsShowSearch' /\ LoadingEnds'
    BY <1>1, <2>1, <2>3, <2>5 DEF HeardInv, StatsShowSearch, LoadingEnds
  <2> QED
    BY <2>4, <2>6, <2>7, <2>8 DEF HeardInv
<1>11. CASE return_history
  BY <1>11, Unheard DEF return_history
<1>12. CASE grid_add_files
  <2>1. /\ UNCHANGED <<box, key, cur_search, opts, view, files, sel, stats, heard, loading, stat_timeout>>
        /\ UNCHANGED <<search_timeout, history_timeout, refresh_timeout>>
        /\ highlight_timeout' = Arm(highlight_timeout)
    BY <1>12 DEF grid_add_files, grid_event, input, options, others
  <2>2. HeardText' /\ changed' = changed
    BY <1>1, <2>1, SameText
  <2>3. Settled' => Settled
    BY <2>1, <2>2 DEF Settled
  <2>4. highlight_timeout'.n # 0
    <3>1. /\ Arm(highlight_timeout).n = highlight_timeout.n + 1 /\ highlight_timeout.n \in Nat
      BY <1>1, PageTimerFacts DEF TimersType
    <3>2. Arm(highlight_timeout).n # 0
      BY <3>1
    <3> QED
      BY <2>1, <3>2
  <2>5. FilesAnswerSearch'
    BY <1>1, <2>1, SameFiles DEF HeardInv
  <2>6. RowsShowFiles'
    BY <1>1, <1>12, <2>3, ScrolledGrid DEF HeardInv, RowsShowFiles
  <2>7. StatsShowSearch' /\ LoadingEnds'
    BY <1>1, <2>1, <2>3, <2>4 DEF HeardInv, StatsShowSearch, LoadingEnds
  <2> QED
    BY <2>2, <2>5, <2>6, <2>7 DEF HeardInv
<1>13. CASE searchf0
  BY <1>13, HeardAfterAnswer
<1>14. CASE searchf0_error
  BY <1>14, Unheard DEF searchf0_error, restart_when_error
<1>15. CASE stat_search
  <2>1. /\ UNCHANGED <<box, key, cur_search, opts, view, cur_page_end, loading, search_timeout>>
        /\ UNCHANGED <<history_timeout, refresh_timeout>>
    BY <1>15 DEF stat_search, input, options, others
  <2>2. CASE heard' = FALSE
    BY <2>2, Unheard
  <2>3. CASE /\ UNCHANGED <<files, rows, sel, highlight_timeout, heard>>
             /\ changed \/ cur_search = "" \/ stats' = cur_search
    <3>1. HeardText' /\ changed' = changed
      BY <1>1, <2>1, <2>3, SameText
    <3>2. Settled' => Settled
      BY <2>1, <2>3, <3>1 DEF Settled
    <3>3. FilesAnswerSearch' /\ RowsShowFiles'
      BY <1>1, <2>1, <2>3, <3>2, SameFiles, SameRows DEF HeardInv
    <3>4. StatsShowSearch'
      <4>1. Settled => ~changed /\ cur_search # ""
        BY <1>1 DEF Settled, HeardText, Searched
      <4> QED
        BY <2>1, <2>3, <3>2, <4>1 DEF StatsShowSearch
    <3>5. LoadingEnds'
      BY <1>1, <2>1, <2>3, <3>2 DEF HeardInv, LoadingEnds
    <3> QED
      BY <3>1, <3>3, <3>4, <3>5 DEF HeardInv
  <2> QED
    BY <1>15, <2>2, <2>3 DEF stat_search, restart_when_error, stat_num_set
<1>16. CASE highlight \/ history_parse
  <2>1. /\ UNCHANGED <<box, key, cur_search, opts, view, files, rows, sel, cur_page_end, stats, heard>>
        /\ UNCHANGED <<search_timeout, stat_timeout, refresh_timeout>> /\ loading' = FALSE
    BY <1>16 DEF highlight, history_parse, input, options, grid, timers, others
  <2>2. HeardText' /\ changed' = changed
    BY <1>1, <2>1, SameText
  <2>3. Settled' => Settled
    BY <2>1, <2>2 DEF Settled
  <2>4. FilesAnswerSearch' /\ RowsShowFiles'
    BY <1>1, <2>1, <2>3, SameFiles, SameRows DEF HeardInv
  <2>5. StatsShowSearch' /\ LoadingEnds'
    BY <1>1, <2>1, <2>3 DEF HeardInv, StatsShowSearch, LoadingEnds
  <2> QED
    BY <2>2, <2>4, <2>5 DEF HeardInv
<1> QED
  BY <1>1, <1>2, <1>3, <1>4, <1>5, <1>6, <1>7, <1>8, <1>9, <1>10, <1>11, <1>12, <1>13, <1>14,
     <1>15, <1>16, StepCases

-----------------------------------------------------------------------------
\* The page's inductive invariant.

LEMMA PageInit == Init => PageInv
<1> SUFFICES ASSUME Init PROVE PageInv
  OBVIOUS
<1> DEFINE o == CHOOSE o \in Opts : TRUE
<1>1. o \in Opts
  BY PageAssumption
<1>2. opts = o
  BY DEF Init, o
<1> HIDE DEF o
<1>3. InputType
  BY <1>1, <1>2 DEF Init, InputType, Boxes
<1>4. TimersType
  <2>1. NoTimer \in [n : 0..(MaxTimers + 2), own : BOOLEAN] /\ NoTimer.own = FALSE
    <3>1. 0 \in 0..(MaxTimers + 2)
      BY Bounds
    <3> QED
      BY <3>1 DEF NoTimer
  <2> QED
    BY <2>1 DEF Init, TimersType, TimerType
<1>5. files \in Answers /\ files.n = 0 /\ ~(files.n > 0)
  <2>1. files = NoFiles
    BY DEF Init
  <2>2. NoFiles.n = 0 /\ ~(0 > 0)
    BY NoFilesFacts
  <2> QED
    BY <2>1, <2>2, NoFilesFacts, Zenon
<1>6. GridType
  <2>1. rows = <<>> /\ rows \in Seq(Row) /\ Len(rows) = 0 /\ cur_page_end = FirstRows
    BY EmptySeq DEF Init
  <2>2. 0 <= FirstRows /\ FirstRows \in FirstRows..MaxPageEnd /\ \A k \in 1..0 : FALSE
    BY Bounds
  <2>3. sel \subseteq Nat /\ first_grid \in BOOLEAN
    BY DEF Init
  <2> QED
    BY <1>5, <2>1, <2>2, <2>3 DEF GridType, RowsCountUp
<1>7. Searched
  <2>1. NoTimer.n = 0
    BY DEF NoTimer
  <2> QED
    BY <1>5, <2>1 DEF Init, Searched
<1>8. HeardInv
  BY DEF Init, HeardInv, HeardText, FilesAnswerSearch, RowsShowFiles, StatsShowSearch, LoadingEnds, Settled
<1> QED
  BY <1>3, <1>4, <1>6, <1>7, <1>8 DEF PageInv

LEMMA PageStep == PageInv /\ [Next]_vars => PageInv'
<1> SUFFICES ASSUME PageInv, [Next]_vars PROVE PageInv'
  OBVIOUS
<1> QED
  BY InputStep, TimersStep, GridStep, SearchedStep, HeardStep DEF PageInv

LEMMA PageAlways == Spec => []PageInv
<1> QED
  BY PageInit, PageStep, PTL DEF Spec

\* The page's variables keep their types; in particular at most one search is
\* ever pending, since every handler clears search_timeout before it arms it.
THEOREM PageTypeCorrect == Spec => []TypeOK
<1>1. ASSUME PageInv PROVE TypeOK
  <2>1. InputType /\ TimersType /\ GridType
    BY <1>1 DEF PageInv
  <2>2. \A k \in DOMAIN rows : rows[k] \in [id : {0, k}, file : AllFiles]
    <3> TAKE k \in DOMAIN rows
    <3>1. k \in 1..Len(rows) /\ rows \in Seq(Row)
      BY <2>1, GridFacts, LenProperties
    <3>2. rows[k] \in Row /\ rows[k].id \in {0, k}
      BY <2>1, <3>1, ElementOfSeq DEF GridType, RowsCountUp
    <3>3. \A r \in Row : r.id \in {0, k} => r \in [id : {0, k}, file : AllFiles]
      BY DEF Row
    <3> QED
      BY <3>2, <3>3, Zenon
  <2>3. search_timeout.n <= 1
    BY <2>1, SearchTimerFacts DEF TimersType
  <2>4. {search_timeout, stat_timeout, highlight_timeout} \subseteq Timer
    <3>1. 0 \in 0..(MaxTimers + 2) /\ 1 \in 0..(MaxTimers + 2)
      BY Bounds
    <3>2. NoTimer \in Timer /\ Armed \in Timer
      BY <3>1 DEF NoTimer, Armed, Timer
    <3>3. stat_timeout \in Timer /\ highlight_timeout \in Timer
      BY <2>1 DEF TimersType, TimerType, Timer
    <3> QED
      BY <2>1, <3>2, <3>3 DEF TimersType
  <2> QED
    BY <2>1, <2>2, <2>3, <2>4 DEF TypeOK, InputType, GridType, Answers
<1> QED
  BY <1>1, PageAlways, PTL

\* Once nothing is pending the page shows the first files found for the text
\* of the box, whatever keys, scrolls, searches and timers came between: a
\* late answer to another text is never left on the page.
THEOREM SettledPageShowsBox == Spec => []SettledPageIsCurrent
<1>1. ASSUME PageInv PROVE SettledPageIsCurrent
  <2> SUFFICES ASSUME Idle, heard PROVE ShowsBox /\ stats = trim(box) /\ (files.n > 0 => ~loading)
    BY DEF SettledPageIsCurrent
  <2>1. InputType /\ GridType /\ HeardInv /\ HeardText
    BY <1>1 DEF PageInv, HeardInv
  <2>2. /\ key = "up" /\ search_timeout.n = 0 /\ stat_timeout.n = 0 /\ highlight_timeout.n = 0
        /\ history_timeout = 0 /\ refresh_timeout = 0
    BY DEF Idle
  <2>3. cur_search = trim(box) /\ cur_search # "" /\ view = "tabs" /\ Settled
    BY <2>1, <2>2 DEF HeardText, Settled, changed
  <2>4. stats = trim(box) /\ (files.n > 0 => ~loading)
    BY <2>1, <2>2, <2>3 DEF HeardInv, StatsShowSearch, LoadingEnds
  <2>5. cur_search \in Texts /\ opts \in Opts
    BY <2>1, <2>3 DEF InputType
  <2>6. PICK ans \in Answers : /\ ans = Answer(trim(box), opts) /\ ans.q = trim(box) /\ ans.o = opts
                               /\ ans.n = AnswerCount(cur_search) /\ ans.q \in Texts
    <3>1. trim(box) \in Texts /\ trim(box) = cur_search
      BY <2>3, <2>5
    <3>2. LET ans == Answer(trim(box), opts)
          IN  ans \in Answers /\ ans.q = trim(box) /\ ans.o = opts /\ ans.n = AnswerCount(trim(box))
      BY <2>5, <3>1, AnswerFacts
    <3> QED
      BY <3>1, <3>2
  <2>7. files.q = ans.q /\ files.n = ans.n /\ (files.n > 0 => files.o = ans.o)
    BY <2>1, <2>2, <2>3, <2>6 DEF HeardInv, FilesAnswerSearch
  <2>8. FirstFiles
    BY <2>1, <2>3 DEF HeardInv, RowsShowFiles
  <2> DEFINE m == Len(Drawn(ans))
  <2>9. /\ m \in 0..FirstRows /\ (m = ans.n \/ (m = FirstRows /\ ans.n > FirstRows)) /\ DOMAIN Drawn(ans) = 1..m
        /\ \A i \in 1..m : Drawn(ans)[i] = [id |-> i, file |-> File(ans, i)]
    BY <2>6, DrawnFacts, LenProperties
  <2>10. Len(Drawn(files)) = m
    <3>2. DOMAIN Drawn(files) = 1..Smaller(FirstRows, files.n) /\ DOMAIN Drawn(ans) = 1..Smaller(FirstRows, ans.n)
      BY DEF Drawn
    <3>3. Drawn(files) \in Seq(Row) /\ Drawn(ans) \in Seq(Row)
      BY <2>1, <2>6, DrawnFacts DEF GridType
    <3>4. DOMAIN Drawn(files) = DOMAIN Drawn(ans)
      BY <2>7, <3>2
    <3>5. /\ DOMAIN Drawn(files) = 1..Len(Drawn(files)) /\ Len(Drawn(files)) \in Nat
          /\ DOMAIN Drawn(ans) = 1..Len(Drawn(ans)) /\ Len(Drawn(ans)) \in Nat
      BY <3>3, LenProperties
    <3> DEFINE a == Len(Drawn(files))
               b == Len(Drawn(ans))
    <3>6. a \in Nat /\ b \in Nat /\ 1..a = 1..b
      BY <3>4, <3>5
    <3>7. a = b
      <4> HIDE DEF a, b
      <4> QED
        BY <3>6
    <3> QED
      BY <3>7
  <2> HIDE DEF m
  <2>11. files \in Answers /\ files.n \in Nat /\ Len(rows) \in Nat
    BY <2>1, GridFacts
  <2>12. \A i \in 1..m : rows[i] = Drawn(ans)[i]
    <3> TAKE i \in 1..m
    <3>1. rows[i] = [id |-> i, file |-> File(files, i)]
      BY <2>8, <2>10 DEF FirstFiles
    <3>2. files.n > 0
      BY <2>7, <2>9, <2>11, Bounds
    <3>3. File(files, i) = File(ans, i)
      BY <2>7, <3>2 DEF File
    <3> QED
      BY <2>9, <3>1, <3>3
  <2>13. ASSUME rows # <<>> PROVE rows[1].file[1] = trim(box)
    <3>1. files.n # 0
      BY <2>8, <2>13 DEF FirstFiles
    <3>2. 1 \in 1..m
      BY <2>7, <2>9, <2>11, <3>1, Bounds
    <3>3. rows[1] = [id |-> 1, file |-> File(ans, 1)]
      BY <2>9, <2>12, <3>2
    <3> QED
      BY <2>6, <3>3 DEF File
  <2>14. Len(rows) >= m
    BY <2>8, <2>9, <2>10, <2>11, Bounds DEF FirstFiles
  <2>15. ShowsBox
    BY <2>3, <2>6, <2>9, <2>12, <2>13, <2>14 DEF ShowsBox, m
  <2> QED
    BY <2>4, <2>15
<1> QED
  BY <1>1, PageAlways, PTL

\* A batch command looks the selected ids up by position in files; while no
\* search is pending it is given exactly the files the selected rows show.
THEOREM BatchHitsSelected == Spec => []BatchHitsSelectionWhenSettled
<1>1. ASSUME PageInv PROVE BatchHitsSelectionWhenSettled
  <2> SUFFICES ASSUME heard, key = "up", search_timeout.n = 0 PROVE grid_selectd_files = SelectedFiles
    BY DEF BatchHitsSelectionWhenSettled
  <2>1. GridType /\ HeardInv
    BY <1>1 DEF PageInv
  <2>2. IdsAreNumbers
    BY <2>1 DEF HeardInv, HeardText, RowsShowFiles, Settled
  <2>3. DOMAIN rows = 1..Len(rows)
    BY <2>1, GridFacts, LenProperties
  <2>4. \A id \in sel : id \in DOMAIN rows /\ rows[id].id \in sel /\ rows[id].file = File(files, id)
    BY <2>2, <2>3 DEF IdsAreNumbers
  <2>5. ASSUME NEW k \in DOMAIN rows, rows[k].id \in sel PROVE k \in sel /\ rows[k].file = File(files, k)
    <3>1. rows[k].id \in 1..Len(rows)
      BY <2>2, <2>5 DEF IdsAreNumbers
    <3>2. rows[k].id \in {0, k} /\ rows[k].id # 0
      BY <2>1, <2>3, <3>1 DEF GridType, RowsCountUp
    <3> QED
      BY <2>4, <2>5, <3>2
  <2> QED
    BY <2>4, <2>5 DEF grid_selectd_files, SelectedFiles
<1> QED
  BY <1>1, PageAlways, PTL

\* The rows count up in the answers they come from, so no file is shown
\* twice, though cur_page_end outlives a search and files changes under the
\* rows.
THEOREM NoFileTwice == Spec => []NoRowTwice
<1>1. ASSUME PageInv PROVE NoRowTwice
  <2> SUFFICES ASSUME NEW k \in DOMAIN rows, NEW l \in DOMAIN rows, rows[k].file = rows[l].file PROVE k = l
    BY DEF NoRowTwice
  <2>1. GridType
    BY <1>1 DEF PageInv
  <2>2. k \in 1..Len(rows) /\ l \in 1..Len(rows) /\ Len(rows) \in Nat
    BY <2>1, GridFacts, LenProperties
  <2>3. /\ k < l => rows[k].file[3] < rows[l].file[3]
        /\ l < k => rows[l].file[3] < rows[k].file[3]
        /\ rows[k].file[3] \in Nat /\ rows[l].file[3] = rows[k].file[3]
    BY <2>1, <2>2, GridFacts DEF GridType, RowsCountUp
  <2> DEFINE i == rows[k].file[3]
  <2>4. i \in Nat /\ ~(k < l) /\ ~(l < k)
    <3>1. i \in Nat /\ rows[l].file[3] = i
      BY <2>3
    <3>2. ~(i < i)
      BY <3>1
    <3> QED
      BY <2>3, <3>1, <3>2
  <2> QED
    BY <2>2, <2>4
<1> QED
  BY <1>1, PageAlways, PTL
===============================================================================
