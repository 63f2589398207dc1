----------------------------- MODULE HistoryApp ------------------------------
(***************************************************************************)
(* The recent-file list in use: one browser process of one user            *)
(* (src/browser/cef_plugin.cpp), its start page (src/browser/web/search.js)*)
(* and the file history<USER> that survives the process.                   *)
(*                                                                         *)
(* history_save truncates the file and then writes it through a stdio      *)
(* buffer.  The head of the ring and the pins (64 bytes) are in the first  *)
(* block that reaches the disk, so a process that dies while it saves      *)
(* leaves an empty file, or the whole header and the first rows.           *)
(***************************************************************************)
EXTENDS History

CONSTANTS
  num_per_page,  \* records on one of the two pages the start page can show
  MaxFailures    \* bound on the crashes and failed saves of a behaviour

ASSUME PageAssumption ==
  /\ num_per_page \in Nat \ {0}
  /\ num_per_page <= VIEW_HISTORY
  /\ 2 * num_per_page <= MAX_HISTORY
  /\ MaxFailures \in Nat

VARIABLES
  file,     \* the saved history
  process,  \* "off", "on", or where a history_save in progress stands
  loaded,   \* this process has called history_load
  saved_whole,\* the last history_save of this process wrote the whole file, or there was none
  screen,   \* the page on the screen: its first place, records and button handlers
  failures  \* crashes and failed saves so far

appVars == <<his_files, nstart, PIN, file, process, loaded, saved_whole, screen, failures>>

-----------------------------------------------------------------------------
\* rows: how many rows of his_files the file holds; the header is there if rows >= 0.
NoRows == -1
FileType == [exists : BOOLEAN, rows : NoRows .. MAX_HISTORY,
             his_files : [Slot -> Record], nstart : Slot, PIN : [Page -> PinEntry]]
EmptyFile == [exists |-> TRUE, rows |-> NoRows, his_files |-> [n \in Slot |-> Empty],
              nstart |-> 0, PIN |-> InitPin]
Memory(rows) == [exists |-> TRUE, rows |-> rows, nstart |-> nstart, PIN |-> PIN,
                 his_files |-> [n \in Slot |-> IF n < rows THEN his_files[n] ELSE Empty]]

\* Button i of a page acts on place i; its handler is chosen when the page is drawn.
Button == 0 .. num_per_page - 1
Blank == [start |-> NoRows, hs |-> <<>>, handler |-> <<>>]

AppInit ==
  /\ Init
  /\ file = [EmptyFile EXCEPT !.exists = FALSE]
  /\ process = "off" /\ loaded = FALSE /\ saved_whole = TRUE
  /\ screen = Blank
  /\ failures = 0

-----------------------------------------------------------------------------
\* init_dir: with a directory on the command line the page searches it and does not
\* show the history; without one load_history runs.
Start ==
  /\ process = "off"
  /\ process' \in {"on", "on_history"}
  /\ UNCHANGED <<his_files, nstart, PIN, file, loaded, saved_whole, screen, failures>>

\* (Mutant) the head of the ring is not restored.
history_load_NoHead ==
  /\ nstart' = nstart
  /\ PIN' = IF file.rows = NoRows THEN PIN ELSE file.PIN
  /\ his_files' = [n \in Slot |-> IF n < file.rows THEN file.his_files[n] ELSE his_files[n]]
  /\ loaded' = TRUE

\* Each fread takes what the file has and leaves the rest of the memory as it is.
history_load ==
  /\ nstart' = IF file.rows = NoRows THEN nstart ELSE file.nstart
  /\ PIN' = IF file.rows = NoRows THEN PIN ELSE file.PIN
  /\ his_files' = [n \in Slot |-> IF n < file.rows THEN file.his_files[n] ELSE his_files[n]]
  /\ loaded' = TRUE

\* history_parse: load, list and draw one page.  The pin button of record start+i is
\* drawn and bound by place i.
ShowHistory(start) ==
  /\ process = "on" \/ (process = "on_history" /\ start = 0)
  /\ history_load
  /\ screen' = [start |-> start,
                hs |-> [i \in Button |-> history_get(start + i)'],
                handler |-> [i \in Button |-> IF VALID_PIN(i)' THEN "hisUnpin" ELSE "hisPin"]]
  /\ process' = "on"
  /\ UNCHANGED <<file, saved_whole, failures>>

\* Typing a search hides the page; home and refresh draw it anew.
Search ==
  /\ process = "on" /\ screen # Blank
  /\ screen' = Blank
  /\ UNCHANGED <<his_files, nstart, PIN, file, process, loaded, saved_whole, failures>>

\* A file of the search results or of the page is opened and history_add returns 1.
OpenFile(name) ==
  /\ process = "on"
  /\ screen = Blank \/ \E i \in DOMAIN screen.hs : screen.hs[i] = name
  /\ history_add(name)
  /\ process' = "save"
  /\ UNCHANGED <<file, loaded, saved_whole, screen, failures>>

\* (Mutant) a pin is not saved.
ClickPin_NoSave(i) ==
  /\ process = "on" /\ screen # Blank
  /\ screen.handler[i] = "hisPin" /\ history_pin(i)
  /\ UNCHANGED <<file, process, loaded, saved_whole, screen, failures>>

\* The handler stays bound when the button changes its look.
ClickPin(i) ==
  /\ process = "on" /\ screen # Blank
  /\ \/ screen.handler[i] = "hisPin" /\ history_pin(i)
     \/ screen.handler[i] = "hisUnpin" /\ history_unpin(i)
     \/ screen.handler[i] = "hisUnpin" /\ ~VALID_PIN(i) /\ UNCHANGED vars
  /\ process' = "save"
  /\ UNCHANGED <<file, loaded, saved_whole, screen, failures>>

\* The remove button knows the place of its record; the page is drawn again after it.
ClickRemove(i) ==
  /\ process = "on" /\ screen # Blank
  /\ history_delete(screen.start + i)
  /\ process' = "save_and_show"
  /\ screen' = Blank
  /\ UNCHANGED <<file, loaded, saved_whole, failures>>

-----------------------------------------------------------------------------
AppSaving == {"save", "save_and_show"}
Writing == {"write", "write_and_show"}

SaveOpen ==
  /\ process \in AppSaving
  /\ file' = EmptyFile
  /\ process' = IF process = "save" THEN "write" ELSE "write_and_show"
  /\ UNCHANGED <<his_files, nstart, PIN, loaded, saved_whole, screen, failures>>

\* fopen fails: history_save returns 0, which its callers ignore.
SaveFails ==
  /\ process \in AppSaving /\ failures < MaxFailures
  /\ process' = IF process = "save" THEN "on" ELSE "on_history"
  /\ saved_whole' = FALSE
  /\ failures' = failures + 1
  /\ UNCHANGED <<his_files, nstart, PIN, file, loaded, screen>>

SaveClose ==
  /\ process \in Writing
  /\ file' = Memory(MAX_HISTORY)
  /\ process' = IF process = "write" THEN "on" ELSE "on_history"
  /\ saved_whole' = TRUE
  /\ UNCHANGED <<his_files, nstart, PIN, loaded, screen, failures>>

\* What can be on the disk before the file is closed.
TornWrite == UNCHANGED file \/ \E rows \in 0 .. MAX_HISTORY - 1 : file' = Memory(rows)

\* A write that does not reach the disk goes unnoticed: history_save returns 1.
SaveShort ==
  /\ process \in Writing /\ failures < MaxFailures
  /\ TornWrite
  /\ process' = IF process = "write" THEN "on" ELSE "on_history"
  /\ saved_whole' = FALSE
  /\ failures' = failures + 1
  /\ UNCHANGED <<his_files, nstart, PIN, loaded, screen>>

\* The memory of the process is gone; the next one starts from the static initialisers.
EndProcess ==
  /\ his_files' = [n \in Slot |-> Empty] /\ nstart' = 0 /\ PIN' = InitPin
  /\ process' = "off" /\ loaded' = FALSE /\ saved_whole' = TRUE
  /\ screen' = Blank

Quit == process = "on" /\ EndProcess /\ UNCHANGED <<file, failures>>

\* A crash while the file is written leaves what the buffer had flushed.
Crash ==
  /\ process \in AppSaving \cup Writing /\ failures < MaxFailures
  /\ UNCHANGED file \/ (process \in Writing /\ TornWrite)
  /\ failures' = failures + 1
  /\ EndProcess

AppNext ==
  \/ Start
  \/ ShowHistory(0)
  \/ ShowHistory(num_per_page)
  \/ Search
  \/ \E name \in Name : OpenFile(name)
  \/ \E i \in Button : ClickPin(i)
  \/ \E i \in Button : ClickRemove(i)
  \/ SaveOpen
  \/ SaveFails
  \/ SaveClose
  \/ SaveShort
  \/ Quit
  \/ Crash

AppSpec == AppInit /\ [][AppNext]_appVars

-----------------------------------------------------------------------------
(* The ring, the file, the process and the page have their types.          *)
AppTypeOK ==
  /\ TypeOK
  /\ file \in FileType
  /\ process \in {"off", "on", "on_history"} \cup AppSaving \cup Writing
  /\ loaded \in BOOLEAN /\ saved_whole \in BOOLEAN
  /\ screen = Blank \/ screen \in [start : {0, num_per_page}, hs : [Button -> Record],
                                   handler : [Button -> {"hisPin", "hisUnpin"}]]
  /\ failures \in 0 .. MaxFailures

(* Whatever a crash leaves in the file, what history_load makes of it has  *)
(* distinct pins and an unpinned head: a torn file can lose records, it    *)
(* can never make n_index_form_w loop or history_add overwrite a pin.      *)
RingSoundAfterAnyLoad == PinsDistinct /\ HeadNotPinned

(* Once a process has loaded the history, and unless a save failed, the    *)
(* next process would load what the user sees now, whenever no save is     *)
(* under way, even when this one began with a torn file.                   *)
Reloaded ==
  [his_files |-> [n \in Slot |-> IF n < file.rows THEN file.his_files[n] ELSE Empty],
   nstart |-> IF file.rows = NoRows THEN 0 ELSE file.nstart,
   PIN |-> IF file.rows = NoRows THEN InitPin ELSE file.PIN]
FileIsMemory ==
  process = "on" /\ loaded /\ saved_whole =>
    Reloaded = [his_files |-> his_files, nstart |-> nstart, PIN |-> PIN]
=============================================================================
