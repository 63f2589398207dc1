----------------------------- MODULE HistoryList -----------------------------
(***************************************************************************)
(* What the recent-file list promises, with no ring and no slots: the      *)
(* record at each place, and which places of the first page are pinned.    *)
(* A pinned place keeps its record while the records of the unpinned       *)
(* places move past it, newest first.                                      *)
(***************************************************************************)
EXTENDS Integers, FiniteSets

CONSTANTS Name, Empty, MAX_HISTORY, VIEW_HISTORY

VARIABLES shown, pinned

Place == 0 .. MAX_HISTORY - 1
Page == 0 .. VIEW_HISTORY - 1
Unpinned(p) == Place \ p

\* The number of unpinned places before w when the places of p are pinned.
Rank(w, p) == Cardinality({v \in Unpinned(p) : v < w})
AtRank(k, p) == CHOOSE w \in Unpinned(p) : Rank(w, p) = k
LastRank == Cardinality(Unpinned(pinned)) - 1

Init == shown = [w \in Place |-> Empty] /\ pinned = {}

\* The new file takes the first unpinned place and pushes the others back.
Add(file) ==
  /\ \A w \in Page : shown[w] # file
  /\ shown' = [w \in Place |->
       IF w \in pinned THEN shown[w]
       ELSE IF Rank(w, pinned) = 0 THEN file
       ELSE shown[AtRank(Rank(w, pinned) - 1, pinned)]]
  /\ UNCHANGED pinned

\* The hole is filled with the record of some unpinned place, which is left empty.
\* Which one is left open: history.h:19 says the next place, history.c:134-142 takes the
\* unpinned slot that follows the head, the oldest but one or an unused one.
Delete(w) ==
  /\ \E filler \in Unpinned(pinned) :
       shown' = [shown EXCEPT ![w] = shown[filler], ![filler] = Empty]
  /\ UNCHANGED pinned

\* Pinning moves nothing.
Pin(w) == pinned' = pinned \cup {w} /\ UNCHANGED shown

\* The record of w joins the unpinned ones at some rank; their order is kept.
Unpin(w) ==
  /\ w \in pinned
  /\ pinned' = pinned \ {w}
  /\ \E k \in 0 .. LastRank + 1 :
       shown' = [v \in Place |->
         IF v \in pinned' THEN shown[v]
         ELSE LET r == Rank(v, pinned') IN
              IF r = k THEN shown[w]
              ELSE shown[AtRank(IF r < k THEN r ELSE r - 1, pinned)]]

Next ==
  \/ \E file \in Name : Add(file)
  \/ \E w \in Place : Delete(w)
  \/ \E w \in Page : Pin(w) \/ Unpin(w)

Spec == Init /\ [][Next]_<<shown, pinned>>
=============================================================================
