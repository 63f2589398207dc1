-------------------------- MODULE HistoryAppProofs ---------------------------
(***************************************************************************)
(* Proofs about HistoryApp for rings and pages of every size: whatever     *)
(* crashes and failed saves leave in the file, the ring stays sound, and   *)
(* what is on the disk between two saves is what the user sees.            *)
(***************************************************************************)
EXTENDS HistoryApp, HistoryProofs

-----------------------------------------------------------------------------
(* The inductive invariant.  A sound ring is kept by the operations of the *)
(* list (HistoryInv), but history_load brings in whatever the file holds:  *)
(* the head and the pins of the file must be sound as well, also in a file *)
(* that is torn.  FileIsMemory says nothing of a process that has not yet  *)
(* loaded; Synchronised adds that such a process either has saved all its  *)
(* memory or still has the memory it was started with.                     *)
HeadAndPinsSound(n, P) ==
  /\ \A v, w \in Page : P[v].wi = v /\ P[w].wi = w /\ P[v].ni = P[w].ni => v = w
  /\ \A w \in Page : P[w].wi = w => P[w].ni # n

FileSound == HeadAndPinsSound(file.nstart, file.PIN)

MemoryIs(m) == his_files = m.his_files /\ nstart = m.nstart /\ PIN = m.PIN
MemoryIsInitial == his_files = [n \in Slot |-> Empty] /\ nstart = 0 /\ PIN = InitPin

Synchronised ==
  process \in {"off", "on", "on_history"} /\ saved_whole =>
    MemoryIs(Reloaded) \/ (~loaded /\ MemoryIsInitial)

AppInv == AppTypeOK /\ PinsDistinct /\ HeadNotPinned /\ FileSound /\ Synchronised

LEMMA RingIsSound ==
  HeadAndPinsSound(nstart, PIN) <=> PinsDistinct /\ HeadNotPinned
<1>1. QED
  BY DEF HeadAndPinsSound, PinsDistinct, HeadNotPinned, occupy_by_pin, VALID_PIN

LEMMA RingIsSoundNext ==
  HeadAndPinsSound(nstart', PIN') <=> PinsDistinct' /\ HeadNotPinned'
<1>1. QED
  BY DEF HeadAndPinsSound, PinsDistinct, HeadNotPinned, occupy_by_pin, VALID_PIN

LEMMA InitialIsSound == HeadAndPinsSound(0, InitPin)
<1>1. QED
  BY HistoryAssumption DEF HeadAndPinsSound, InitPin, Page

LEMMA InitialTypes ==
  /\ [n \in Slot |-> Empty] \in [Slot -> Record] /\ 0 \in Slot /\ InitPin \in [Page -> PinEntry]
<1>1. QED
  BY HistoryAssumption DEF InitPin, PinEntry, Slot, Page, Record

\* The buttons of both pages stand for places, those of the first page can be pinned.
LEMMA ButtonPlaces ==
  ASSUME NEW i \in Button
  PROVE  i \in Page /\ i \in Slot /\ i + num_per_page \in Slot /\ num_per_page + i \in Slot /\ 0 + i \in Slot
<1>1. QED
  BY HistoryAssumption, PageAssumption DEF Button, Page, Slot

LEMMA PlaceShowsRecord == HistoryInv => \A w \in Slot : history_get(w) \in Record
<1> SUFFICES ASSUME HistoryInv, NEW w \in Slot PROVE history_get(w) \in Record
  OBVIOUS
<1>1. \E ni \in Slot : IsNIndex(w, ni)
  BY InvImpliesPlacesMatch DEF PlacesMatchSlots
<1>2. n_index_form_w(w) \in Slot
  BY <1>1 DEF n_index_form_w
<1>3. QED
  BY <1>2 DEF history_get, HistoryInv, TypeOK

LEMMA PlaceShowsRecordNext == HistoryInv' => \A w \in Slot : history_get(w)' \in Record
<1>1. HistoryInv' => (\A w \in Slot : history_get(w) \in Record)'
  BY PlaceShowsRecord, PTL
<1>2. QED
  BY <1>1

\* What the program writes to the file, whole or torn, is of the file's type and sound.
LEMMA MemoryIsFile ==
  ASSUME TypeOK, PinsDistinct, HeadNotPinned, NEW rows \in 0 .. MAX_HISTORY
  PROVE  Memory(rows) \in FileType /\ HeadAndPinsSound(Memory(rows).nstart, Memory(rows).PIN)
<1>1. [n \in Slot |-> IF n < rows THEN his_files[n] ELSE Empty] \in [Slot -> Record]
  BY DEF TypeOK, Record
<1>2. rows \in NoRows .. MAX_HISTORY
  BY HistoryAssumption DEF NoRows
<1>3. QED
  BY <1>1, <1>2, RingIsSound DEF Memory, FileType, TypeOK

LEMMA EmptyFileType ==
  /\ EmptyFile \in FileType /\ [EmptyFile EXCEPT !.exists = FALSE] \in FileType
  /\ HeadAndPinsSound(EmptyFile.nstart, EmptyFile.PIN)
<1>1. NoRows \in NoRows .. MAX_HISTORY
  BY HistoryAssumption DEF NoRows
<1>2. QED
  BY <1>1, InitialTypes, InitialIsSound DEF EmptyFile, FileType

\* The memory, loaded from any sound file, is sound.
LEMMA LoadKeepsSound ==
  ASSUME TypeOK, PinsDistinct, HeadNotPinned, file \in FileType, FileSound, history_load
  PROVE  TypeOK' /\ PinsDistinct' /\ HeadNotPinned'
<1>1. TypeOK'
  <2>1. file.his_files \in [Slot -> Record] /\ file.nstart \in Slot /\ file.PIN \in [Page -> PinEntry]
    BY DEF FileType
  <2>2. [n \in Slot |-> IF n < file.rows THEN file.his_files[n] ELSE his_files[n]] \in [Slot -> Record]
    BY <2>1 DEF TypeOK
  <2>3. QED
    BY <2>1, <2>2 DEF history_load, TypeOK
<1>2. HeadAndPinsSound(nstart', PIN')
  <2>1. CASE file.rows = NoRows
    BY <2>1, RingIsSound DEF history_load
  <2>2. CASE file.rows # NoRows
    BY <2>2 DEF history_load, FileSound
  <2>3. QED
    BY <2>1, <2>2
<1>3. QED
  BY <1>1, <1>2, RingIsSoundNext

\* After a load the memory is what the file holds, if it was so before or was initial.
LEMMA LoadReloads ==
  ASSUME TypeOK, file \in FileType, file' = file, history_load,
         MemoryIs(Reloaded) \/ MemoryIsInitial
  PROVE  MemoryIs(Reloaded)'
<1>1. \A n \in Slot : ~(n < file.rows) => his_files[n] = Empty
  BY DEF MemoryIs, MemoryIsInitial, Reloaded
<1>2. his_files' = [n \in Slot |-> IF n < file.rows THEN file.his_files[n] ELSE Empty]
  BY <1>1 DEF history_load
<1>3. nstart' = Reloaded.nstart /\ PIN' = Reloaded.PIN
  BY DEF history_load, MemoryIs, MemoryIsInitial, Reloaded
<1>4. Reloaded' = Reloaded
  BY DEF Reloaded
<1>5. QED
  BY <1>2, <1>3, <1>4 DEF MemoryIs, Reloaded

\* A file that was written to its end holds the memory.
LEMMA WholeFileReloads ==
  ASSUME TypeOK, file' = Memory(MAX_HISTORY), UNCHANGED vars
  PROVE  MemoryIs(Reloaded)'
<1>1. his_files = [n \in Slot |-> IF n < MAX_HISTORY THEN his_files[n] ELSE Empty]
  BY HistoryAssumption DEF TypeOK, Slot
<1>2. MAX_HISTORY # NoRows
  BY HistoryAssumption DEF NoRows
<1>3. /\ Reloaded'.nstart = nstart /\ Reloaded'.PIN = PIN
      /\ Reloaded'.his_files = his_files
  <2>1. file'.rows = MAX_HISTORY /\ file'.nstart = nstart /\ file'.PIN = PIN
    BY DEF Memory
  <2>2. file'.his_files = his_files
    BY <1>1 DEF Memory
  <2>3. QED
    BY <1>1, <1>2, <2>1, <2>2 DEF Reloaded
<1>4. QED
  BY <1>3 DEF MemoryIs, vars

-----------------------------------------------------------------------------
LEMMA InitAppInv == AppInit => AppInv
<1> SUFFICES ASSUME AppInit PROVE AppInv
  OBVIOUS
<1>1. HistoryInv
  BY InitHistoryInv DEF AppInit
<1>2. AppTypeOK
  <2>1. TypeOK /\ file \in FileType /\ failures \in 0 .. MaxFailures
    BY <1>1, EmptyFileType, PageAssumption DEF AppInit, HistoryInv
  <2>2. QED
    BY <2>1 DEF AppInit, AppTypeOK
<1>3. FileSound
  BY EmptyFileType DEF AppInit, FileSound, EmptyFile
<1>4. Synchronised
  BY DEF AppInit, Init, Synchronised, MemoryIsInitial
<1>5. QED
  BY <1>1, <1>2, <1>3, <1>4 DEF AppInv, HistoryInv

\* A step that leaves the ring and the file alone.
LEMMA QuietKeepsAppInv ==
  ASSUME AppInv, UNCHANGED <<his_files, nstart, PIN, file>>,
         process' \in {"off", "on", "on_history"} \cup AppSaving \cup Writing,
         loaded' = loaded, saved_whole' \in BOOLEAN,
         process' \in {"off", "on", "on_history"} /\ saved_whole' =>
           process \in {"off", "on", "on_history"} /\ saved_whole,
         screen' \in {screen, Blank}, failures' \in 0 .. MaxFailures
  PROVE  AppInv'
<1>1. TypeOK' /\ PinsDistinct' /\ HeadNotPinned' /\ FileSound'
  BY DEF AppInv, AppTypeOK, TypeOK, PinsDistinct, HeadNotPinned, occupy_by_pin, VALID_PIN, FileSound
<1>2. AppTypeOK'
  BY <1>1 DEF AppInv, AppTypeOK
<1>3. Synchronised'
  BY DEF AppInv, Synchronised, MemoryIs, MemoryIsInitial, Reloaded
<1>4. QED
  BY <1>1, <1>2, <1>3 DEF AppInv

LEMMA ShowKeepsAppInv ==
  ASSUME AppInv, NEW start \in {0, num_per_page}, ShowHistory(start)
  PROVE  AppInv'
<1>1. TypeOK /\ PinsDistinct /\ HeadNotPinned /\ FileSound /\ file \in FileType /\ Synchronised
  BY DEF AppInv, AppTypeOK
<1>2. history_load /\ file' = file /\ saved_whole' = saved_whole /\ failures' = failures /\ process' = "on"
  BY DEF ShowHistory
<1>3. TypeOK' /\ PinsDistinct' /\ HeadNotPinned'
  BY <1>1, <1>2, LoadKeepsSound
<1>4. screen' \in [start : {0, num_per_page}, hs : [Button -> Record],
                   handler : [Button -> {"hisPin", "hisUnpin"}]]
  <2>1. HistoryInv'
    BY <1>3 DEF HistoryInv
  <2>2. \A i \in Button : history_get(start + i)' \in Record
    BY <2>1, PlaceShowsRecordNext, ButtonPlaces
  <2>3. QED
    BY <2>2 DEF ShowHistory
<1>5. AppTypeOK'
  BY <1>2, <1>3, <1>4 DEF AppInv, AppTypeOK, history_load
<1>6. Synchronised'
  <2>1. ASSUME saved_whole PROVE MemoryIs(Reloaded)'
    <3>1. process \in {"on", "on_history"}
      BY DEF ShowHistory
    <3>2. MemoryIs(Reloaded) \/ MemoryIsInitial
      BY <1>1, <2>1, <3>1 DEF Synchronised
    <3>3. QED
      BY <1>1, <1>2, <3>2, LoadReloads
  <2>2. QED
    BY <1>2, <2>1 DEF Synchronised
<1>7. FileSound'
  BY <1>1, <1>2 DEF FileSound
<1>8. QED
  BY <1>3, <1>5, <1>6, <1>7 DEF AppInv

\* An operation of the list is always followed by a save.
LEMMA ListStepKeepsAppInv ==
  ASSUME AppInv, HistoryInv', process' \in AppSaving, UNCHANGED <<file, loaded, saved_whole, failures>>,
         screen' \in {screen, Blank}
  PROVE  AppInv'
<1>1. AppTypeOK'
  BY DEF AppInv, AppTypeOK, HistoryInv
<1>2. FileSound' /\ Synchronised'
  BY DEF AppInv, FileSound, Synchronised, AppSaving
<1>3. QED
  BY <1>1, <1>2 DEF AppInv, HistoryInv

LEMMA SaveOpenKeepsAppInv == AppInv /\ SaveOpen => AppInv'
<1> SUFFICES ASSUME AppInv, SaveOpen PROVE AppInv'
  OBVIOUS
<1>1. TypeOK' /\ PinsDistinct' /\ HeadNotPinned'
  BY DEF SaveOpen, AppInv, AppTypeOK, TypeOK, PinsDistinct, HeadNotPinned, occupy_by_pin, VALID_PIN
<1>2. file' = EmptyFile /\ process' \in Writing
  BY DEF SaveOpen, Writing
<1>3. AppTypeOK'
  BY <1>1, <1>2, EmptyFileType DEF SaveOpen, AppInv, AppTypeOK
<1>4. FileSound' /\ Synchronised'
  BY <1>2, EmptyFileType DEF FileSound, Synchronised, Writing
<1>5. QED
  BY <1>1, <1>3, <1>4 DEF AppInv

LEMMA SaveCloseKeepsAppInv == AppInv /\ SaveClose => AppInv'
<1> SUFFICES ASSUME AppInv, SaveClose PROVE AppInv'
  OBVIOUS
<1>1. TypeOK' /\ PinsDistinct' /\ HeadNotPinned'
  BY DEF SaveClose, AppInv, AppTypeOK, TypeOK, PinsDistinct, HeadNotPinned, occupy_by_pin, VALID_PIN
<1>2. file' = Memory(MAX_HISTORY) /\ process' \in {"on", "on_history"} /\ UNCHANGED vars
  BY DEF SaveClose, vars
<1>3. MAX_HISTORY \in 0 .. MAX_HISTORY
  BY HistoryAssumption
<1>4. file' \in FileType /\ FileSound'
  BY <1>2, <1>3, MemoryIsFile DEF AppInv, AppTypeOK, FileSound
<1>5. AppTypeOK'
  BY <1>1, <1>2, <1>4 DEF SaveClose, AppInv, AppTypeOK
<1>6. Synchronised'
  BY <1>2, WholeFileReloads DEF Synchronised, AppInv, AppTypeOK
<1>7. QED
  BY <1>1, <1>4, <1>5, <1>6 DEF AppInv

\* A file that is torn is sound, too.
LEMMA TornIsSound ==
  ASSUME AppInv, TornWrite
  PROVE  file' \in FileType /\ FileSound'
<1>1. CASE UNCHANGED file
  BY <1>1 DEF AppInv, AppTypeOK, FileSound
<1>2. CASE \E rows \in 0 .. MAX_HISTORY - 1 : file' = Memory(rows)
  <2>1. PICK rows \in 0 .. MAX_HISTORY - 1 : file' = Memory(rows)
    BY <1>2
  <2>2. rows \in 0 .. MAX_HISTORY
    BY HistoryAssumption
  <2>3. QED
    BY <2>1, <2>2, MemoryIsFile DEF AppInv, AppTypeOK, FileSound
<1>3. QED
  BY <1>1, <1>2 DEF TornWrite

LEMMA SaveShortKeepsAppInv == AppInv /\ SaveShort => AppInv'
<1> SUFFICES ASSUME AppInv, SaveShort PROVE AppInv'
  OBVIOUS
<1>1. TypeOK' /\ PinsDistinct' /\ HeadNotPinned'
  BY DEF SaveShort, AppInv, AppTypeOK, TypeOK, PinsDistinct, HeadNotPinned, occupy_by_pin, VALID_PIN
<1>2. file' \in FileType /\ FileSound'
  BY TornIsSound DEF SaveShort
<1>3. AppTypeOK'
  <2>1. failures \in 0 .. MaxFailures /\ failures < MaxFailures /\ failures' = failures + 1
    BY DEF SaveShort, AppInv, AppTypeOK
  <2>2. failures' \in 0 .. MaxFailures
    BY <2>1, PageAssumption
  <2>3. process' \in {"on", "on_history"} /\ saved_whole' = FALSE /\ UNCHANGED <<loaded, screen>>
    BY DEF SaveShort
  <2>4. QED
    BY <1>1, <1>2, <2>2, <2>3 DEF AppInv, AppTypeOK
<1>4. Synchronised'
  BY DEF SaveShort, Synchronised
<1>5. QED
  BY <1>1, <1>2, <1>3, <1>4 DEF AppInv

\* The process ends and leaves a file that is sound.
LEMMA EndProcessKeepsAppInv ==
  ASSUME AppInv, EndProcess, file' \in FileType, FileSound', failures' \in 0 .. MaxFailures
  PROVE  AppInv'
<1>1. TypeOK' /\ PinsDistinct' /\ HeadNotPinned'
  <2>1. HeadAndPinsSound(nstart', PIN')
    BY InitialIsSound DEF EndProcess
  <2>2. QED
    BY <2>1, InitialTypes, RingIsSoundNext DEF EndProcess, TypeOK
<1>2. AppTypeOK'
  BY <1>1 DEF EndProcess, AppTypeOK
<1>3. Synchronised'
  BY DEF EndProcess, Synchronised, MemoryIsInitial
<1>4. QED
  BY <1>1, <1>2, <1>3 DEF AppInv

LEMMA EndsKeepAppInv == AppInv /\ (Quit \/ Crash) => AppInv'
<1> SUFFICES ASSUME AppInv, Quit \/ Crash PROVE AppInv'
  OBVIOUS
<1>1. EndProcess
  BY DEF Quit, Crash
<1>2. failures' \in 0 .. MaxFailures
  BY PageAssumption DEF Quit, Crash, AppInv, AppTypeOK
<1>3. UNCHANGED file \/ TornWrite
  BY DEF Quit, Crash
<1>4. file' \in FileType /\ FileSound'
  BY <1>3, TornIsSound DEF TornWrite
<1>5. QED
  BY <1>1, <1>2, <1>4, EndProcessKeepsAppInv

-----------------------------------------------------------------------------
LEMMA StepKeepsAppInv == AppInv /\ [AppNext]_appVars => AppInv'
<1> SUFFICES ASSUME AppInv, [AppNext]_appVars PROVE AppInv'
  OBVIOUS
<1>1. HistoryInv /\ process \in {"off", "on", "on_history"} \cup AppSaving \cup Writing /\ saved_whole \in BOOLEAN
      /\ failures \in 0 .. MaxFailures
  BY DEF AppInv, AppTypeOK, HistoryInv
<1>2. CASE UNCHANGED appVars
  BY <1>1, <1>2, QuietKeepsAppInv DEF appVars
<1>3. CASE Start \/ Search
  <2>1. /\ UNCHANGED <<his_files, nstart, PIN, file, loaded, saved_whole, failures>>
        /\ process \in {"off", "on"} /\ process' \in {"on", "on_history"}
        /\ screen' \in {screen, Blank}
    BY <1>3 DEF Start, Search
  <2>2. QED
    BY <1>1, <2>1, QuietKeepsAppInv
<1>4. CASE ShowHistory(0) \/ ShowHistory(num_per_page)
  BY <1>4, ShowKeepsAppInv
<1>5. ASSUME NEW name \in Name, OpenFile(name)
      PROVE  AppInv'
  <2>1. HistoryInv'
    BY <1>1, <1>5, AddKeepsInv DEF OpenFile
  <2>2. QED
    BY <1>5, <2>1, ListStepKeepsAppInv DEF OpenFile, AppSaving
<1>6. ASSUME NEW i \in Button, ClickPin(i)
      PROVE  AppInv'
  <2>1. history_pin(i) \/ history_unpin(i) \/ UNCHANGED vars
    BY <1>6 DEF ClickPin
  <2>2. HistoryInv'
    BY <1>1, <2>1, ButtonPlaces, PinKeepsInv, UnpinKeepsInv, StepKeepsInv
  <2>3. QED
    BY <1>6, <2>2, ListStepKeepsAppInv DEF ClickPin, AppSaving
<1>7. ASSUME NEW i \in Button, ClickRemove(i)
      PROVE  AppInv'
  <2>1. screen.start \in {0, num_per_page}
    BY <1>7 DEF ClickRemove, AppInv, AppTypeOK
  <2>2. screen.start + i \in Slot
    BY <2>1, ButtonPlaces
  <2>3. HistoryInv'
    BY <1>1, <1>7, <2>2, DeleteKeepsInv DEF ClickRemove
  <2>4. QED
    BY <1>7, <2>3, ListStepKeepsAppInv DEF ClickRemove, AppSaving
<1>8. CASE SaveOpen \/ SaveClose \/ SaveShort
  BY <1>8, SaveOpenKeepsAppInv, SaveCloseKeepsAppInv, SaveShortKeepsAppInv
<1>9. CASE SaveFails
  <2>1. failures' \in 0 .. MaxFailures
    BY <1>1, <1>9, PageAssumption DEF SaveFails
  <2>2. QED
    BY <1>9, <2>1, QuietKeepsAppInv DEF SaveFails
<1>10. CASE Quit \/ Crash
  BY <1>10, EndsKeepAppInv
<1>11. QED
  BY <1>2, <1>3, <1>4, <1>5, <1>6, <1>7, <1>8, <1>9, <1>10 DEF AppNext

LEMMA AppInvariant == AppSpec => []AppInv
<1>1. QED
  BY InitAppInv, StepKeepsAppInv, PTL DEF AppSpec

-----------------------------------------------------------------------------
(* The ring, the saved file, the process and the page on the screen keep   *)
(* their types through crashes and failed saves.                           *)
THEOREM AppTypeCorrect == AppSpec => []AppTypeOK
<1>1. AppInv => AppTypeOK
  BY DEF AppInv
<1>2. QED
  BY <1>1, AppInvariant, PTL

(* Whatever a crash in history_save leaves in the file, the ring that      *)
(* history_load makes of it has distinct pins and an unpinned head.        *)
THEOREM LoadedRingIsSound == AppSpec => []RingSoundAfterAnyLoad
<1>1. AppInv => RingSoundAfterAnyLoad
  BY DEF AppInv, RingSoundAfterAnyLoad
<1>2. QED
  BY <1>1, AppInvariant, PTL

(* Between two saves, the file holds what the user sees, unless a save of  *)
(* this process failed.                                                    *)
THEOREM FileHoldsMemory == AppSpec => []FileIsMemory
<1>1. AppInv => FileIsMemory
  <2> SUFFICES ASSUME AppInv, process = "on", loaded, saved_whole
               PROVE  Reloaded = [his_files |-> his_files, nstart |-> nstart, PIN |-> PIN]
    BY DEF FileIsMemory
  <2>1. MemoryIs(Reloaded)
    BY DEF AppInv, Synchronised
  <2>2. QED
    BY <2>1 DEF MemoryIs, Reloaded
<1>2. QED
  BY <1>1, AppInvariant, PTL
=============================================================================
