------------------------------- MODULE History -------------------------------
(***************************************************************************)
(* The list of recently opened files, src/filesearch/history.c.            *)
(*                                                                         *)
(* The records live in a ring of MAX_HISTORY slots.  The user sees places  *)
(* 0, 1, 2, ...; place wi ("w" for outside) shows the record of slot       *)
(* n_index_form_w(wi) ("n" for inside).  A place below VIEW_HISTORY may be *)
(* pinned to its slot; new records go round the pinned slots.  File names  *)
(* are abstract values, Empty is the empty string of an unused slot.       *)
(***************************************************************************)
EXTENDS Integers, FiniteSets

CONSTANTS Name, Empty, MAX_HISTORY, VIEW_HISTORY

ASSUME HistoryAssumption ==
  /\ MAX_HISTORY \in Nat
  /\ VIEW_HISTORY \in Nat \ {0}
  /\ VIEW_HISTORY < MAX_HISTORY
  /\ Empty \notin Name

VARIABLES
  his_files,  \* the slots of the ring
  nstart,     \* the slot the next record goes to
  PIN         \* for each place of the first page: wi is the place if pinned, ni its slot

vars == <<his_files, nstart, PIN>>

Slot == 0 .. MAX_HISTORY - 1
Page == 0 .. VIEW_HISTORY - 1
Record == Name \cup {Empty}
PinEntry == [wi : Page \cup {-1}, ni : Slot]

-----------------------------------------------------------------------------
VALID_PIN(wi) == wi \in Page /\ PIN[wi].wi = wi

\* (Mutant) counts every pin, as all_pined does.
pined_before_All(wi) == Cardinality({w \in Page : VALID_PIN(w)})
pined_before(wi) == Cardinality({w \in Page : w < wi /\ VALID_PIN(w)})

\* (Mutant) the loop ends one place early.
occupy_by_pin_ShortLoop(ni) == \E w \in 0 .. VIEW_HISTORY - 2 : VALID_PIN(w) /\ PIN[w].ni = ni
occupy_by_pin(ni) == \E w \in Page : VALID_PIN(w) /\ PIN[w].ni = ni

\* How far ni lies behind the head of the ring; the head itself is the farthest.
distance_to_startp(ni) ==
  IF nstart - ni - 1 < 0 THEN nstart - ni - 1 + MAX_HISTORY ELSE nstart - ni - 1

\* The unpinned slots the backward scan of n_index_form_w passes before it is at ni.
ScannedBefore(ni) ==
  {k \in Slot : ~occupy_by_pin(k) /\ distance_to_startp(k) < distance_to_startp(ni)}

\* The scan of n_index_form_w(wi) returns ni.
IsNIndex(wi, ni) ==
  IF VALID_PIN(wi)
  THEN ni = PIN[wi].ni
  ELSE /\ ~occupy_by_pin(ni)
       /\ Cardinality(ScannedBefore(ni)) + pined_before(wi) = wi

n_index_form_w(wi) == CHOOSE ni \in Slot : IsNIndex(wi, ni)

history_get(wi) == his_files[n_index_form_w(wi)]

\* The first unpinned slot after the head, going up and round the ring.
StepsUp(ni) == IF ni - nstart - 1 < 0 THEN ni - nstart - 1 + MAX_HISTORY ELSE ni - nstart - 1

IsNextFree(nj) ==
  /\ ~occupy_by_pin(nj)
  /\ \A k \in Slot : ~occupy_by_pin(k) => StepsUp(nj) <= StepsUp(k)

\* (Mutants) the head does not go round the ring; it does not skip pinned slots.
inc_start_NoWrap == nstart' = nstart + 1
inc_start_NoSkip == nstart' = (nstart + 1) % MAX_HISTORY
inc_start == \E nj \in Slot : IsNextFree(nj) /\ nstart' = nj

-----------------------------------------------------------------------------
(* Only the first member of the initialiser is given: PIN[0].wi is -1 and  *)
(* every other member of the array is 0.                                   *)
InitPin == [w \in Page |-> [wi |-> IF w = 0 THEN -1 ELSE 0, ni |-> 0]]

Init ==
  /\ his_files = [n \in Slot |-> Empty]
  /\ nstart = 0
  /\ PIN = InitPin

OnFirstPage(file) == \E w \in Page : history_get(w) = file

history_add(file) ==
  /\ ~OnFirstPage(file)
  /\ his_files' = [his_files EXCEPT ![nstart] = file]
  /\ inc_start
  /\ UNCHANGED PIN

\* (Mutant) the record that fills the hole stays where it was as well.
history_delete_KeepsFiller(wi) ==
  \E ni, nj \in Slot :
    /\ IsNIndex(wi, ni)
    /\ IsNextFree(nj)
    /\ his_files' = [his_files EXCEPT ![ni] = his_files[nj]]
    /\ UNCHANGED <<nstart, PIN>>

history_delete(wi) ==
  \E ni, nj \in Slot :
    /\ IsNIndex(wi, ni)
    /\ IsNextFree(nj)
    /\ his_files' = [his_files EXCEPT ![ni] = his_files[nj], ![nj] = Empty]
    /\ UNCHANGED <<nstart, PIN>>

history_pin(wi) ==
  /\ wi \in Page
  /\ \E ni \in Slot :
       /\ IsNIndex(wi, ni)
       /\ PIN' = [PIN EXCEPT ![wi] = [wi |-> wi, ni |-> ni]]
  /\ UNCHANGED <<his_files, nstart>>

history_unpin(wi) ==
  /\ VALID_PIN(wi)
  /\ PIN' = [PIN EXCEPT ![wi].wi = -1]
  /\ UNCHANGED <<his_files, nstart>>

Next ==
  \/ \E file \in Name : history_add(file)
  \/ \E wi \in Slot : history_delete(wi) \/ history_pin(wi) \/ history_unpin(wi)

Spec == Init /\ [][Next]_vars

-----------------------------------------------------------------------------
(* Every variable keeps the range its C type and its uses give it.         *)
TypeOK ==
  /\ his_files \in [Slot -> Record]
  /\ nstart \in Slot
  /\ PIN \in [Page -> PinEntry]

(* No two places are pinned to one slot.                                   *)
PinsDistinct ==
  \A v, w \in Page : VALID_PIN(v) /\ VALID_PIN(w) /\ PIN[v].ni = PIN[w].ni => v = w

(* The head of the ring, which history_add overwrites without looking, is  *)
(* never a pinned slot: adding a file never destroys a pinned record.      *)
HeadNotPinned == ~occupy_by_pin(nstart)

(* Every place shows a record and every slot is shown at one place only,   *)
(* so the unbounded scan of n_index_form_w always returns, no record is    *)
(* hidden and none is shown twice, whatever is pinned.                     *)
PlacesMatchSlots ==
  /\ \A wi \in Slot : \E ni \in Slot : IsNIndex(wi, ni)
  /\ \A wi, wj, ni \in Slot : IsNIndex(wi, ni) /\ IsNIndex(wj, ni) => wi = wj

(* A step that adds a file leaves the record of every pinned place alone.  *)
PinnedRecordsKept ==
  \A w \in Page : VALID_PIN(w) =>
    VALID_PIN(w)' /\ his_files'[PIN'[w].ni] = his_files[PIN[w].ni]
PinnedRecordsKeptByAdd == [][nstart' # nstart => PinnedRecordsKept]_vars

-----------------------------------------------------------------------------
List == INSTANCE HistoryList WITH
  shown  <- [w \in Slot |-> history_get(w)],
  pinned <- {w \in Page : VALID_PIN(w)}

(* The ring of slots with its pins implements the list of places: each     *)
(* operation has an effect the list allows, whatever the position of the   *)
(* head and of the pinned slots.  An addition pushes the unpinned records  *)
(* back in their order, pins stay where they are, and a deletion moves one *)
(* unpinned record and loses none but the deleted one.                     *)
ImplementsList == List!Spec
=============================================================================
