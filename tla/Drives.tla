------------------------------- MODULE Drives --------------------------------
(***************************************************************************)
(* The life of the index of each drive in the search service on Windows:   *)
(* start, scan, rescan, drives that come and go, the database files and    *)
(* the offline drives (src/filesearch/main_win.c, write.c, drive_win.c,    *)
(* drive_change.c, server.c).                                              *)
(*                                                                         *)
(* Slots 0 .. DIRVE_COUNT-1 are the drive letters, the slots above hold    *)
(* trees of drives that are not there.  A tree is one entry of heap: the   *)
(* volume it was read from, how many entries it has, its root included,    *)
(* and whether it has been freed.  What is inside a tree is NtfsIndex's.   *)
(*                                                                         *)
(* No lock is taken anywhere: the threads below interleave at the places   *)
(* where they touch the shared arrays.                                     *)
(***************************************************************************)
EXTENDS Integers, Sequences, SequencesExt, FiniteSets, FiniteSetsExt

CONSTANTS
  DIRVE_COUNT, DIRVE_COUNT_OFFLINE,
  Volume,        \* serial numbers
  Ntfs,          \* the volumes with an NTFS file system
  Size,          \* files of each volume, its root included
  SerialRescan,  \* TRUE: no drive comes or goes, and no first scan runs, during a rescan
  FollowRaces,   \* FALSE: the file count is given up once two threads have counted at once
  MaxEvents      \* bound on what users, drives and crashes do

NULL == 0
None == 0
Letter == 0 .. DIRVE_COUNT - 1
Offline == DIRVE_COUNT .. DIRVE_COUNT_OFFLINE - 1
Slot == Letter \cup Offline

ASSUME DrivesAssumption ==
  /\ DIRVE_COUNT \in Nat \ {0} /\ DIRVE_COUNT_OFFLINE \in Nat /\ DIRVE_COUNT < DIRVE_COUNT_OFFLINE
  /\ None \notin Volume /\ Ntfs \subseteq Volume
  /\ Size \in [Volume -> Nat \ {0}]
  /\ SerialRescan \in BOOLEAN /\ FollowRaces \in BOOLEAN /\ MaxEvents \in Nat

VARIABLES
  present,   \* the volume behind each letter
  messages,  \* WM_DEVICECHANGE messages not yet handled
  events,    \* events so far
  db,        \* the database file of each volume
  phase, todo,  \* what the service is doing, and the letters it has still to do it for
  g_bVols, g_loaded, g_VolsInfo, g_rootVols, heap, ALL_FILE_COUNT,
  tmpList,   \* files, other than the root, that a failed readfile left behind
  call,      \* where each thread is in scan, rescan or save_db
  sizers,    \* threads of init_size_time_all
  offline,   \* load_offline_dbs: its flag, the files to visit and the next slot
  hollow,    \* slots whose last database had no entry: their root is not of their drive
  raced,     \* two threads have counted files at once
  fault

outside == <<present, messages, events>>
count == <<ALL_FILE_COUNT, raced>>
memory == <<g_bVols, g_loaded, g_VolsInfo, g_rootVols, heap, ALL_FILE_COUNT, tmpList, hollow, raced>>
threads == <<phase, todo, call, sizers, offline>>
vars == <<outside, db, memory, threads, fault>>

-----------------------------------------------------------------------------
\* A database is refused without a trace when it ends in its header or its first entry
\* ("header").  Otherwise it has rows whole entries and ends in the middle of the next ("cut")
\* or after them ("row"), for which readfile takes an end in an entry's first two numbers too.
NoDb == [end |-> "none", rows |-> 0]
Opened == [end |-> "header", rows |-> 0]
Torn(rows) == {Opened} \cup [end : {"cut"}, rows : 1 .. rows - 1] \cup [end : {"row"}, rows : 0 .. rows - 1]
Whole(rows) == [end |-> "row", rows |-> rows]
DbFile == {NoDb, Opened} \cup [end : {"cut"}, rows : Nat \ {0}] \cup [end : {"row"}, rows : Nat]

Thread == {"ScanAll", "rescan_t", "listener", "destory"}
CallAt == {"idle", "check", "fill", "publish", "free", "save", "write"}
SizerAt == {"walk", "save", "write"}
Idle == [at |-> "idle", i |-> 0, v |-> None]
At(t, at, i) == [call EXCEPT ![t] = [at |-> at, i |-> i, v |-> None]]
Return(t) == [call EXCEPT ![t] = Idle]
OfflineIdle == [asked |-> FALSE, names |-> {}, slot |-> DIRVE_COUNT, reading |-> None]

IsNtfs(i) == g_VolsInfo[i] \in Ntfs
Freed(a) == a # NULL /\ ~heap[a].live
Tree(v, rows) == [vol |-> v, rows |-> rows, live |-> TRUE]
Running == fault = "none"
Listening == phase = "on"
Fail(why) == fault' = why /\ UNCHANGED <<outside, db, memory, threads>>

Init ==
  /\ present \in [Letter -> Volume \cup {None}]
  /\ \A i, j \in Letter : present[i] = present[j] /\ present[i] # None => i = j
  /\ messages = <<>> /\ events = 0
  /\ db \in [Volume -> {NoDb} \cup {Whole(Size[v]) : v \in Volume}]
  /\ \A v \in Volume : db[v] \in {NoDb, Whole(Size[v])}
  /\ g_bVols = [i \in Letter |-> FALSE] /\ g_loaded = [s \in Slot |-> FALSE]
  /\ g_VolsInfo = [s \in Slot |-> None] /\ g_rootVols = [s \in Slot |-> NULL]
  /\ heap = <<>> /\ ALL_FILE_COUNT = 0 /\ tmpList = [s \in Slot |-> 0]
  /\ phase = "off" /\ todo = {} /\ call = [t \in Thread |-> Idle] /\ sizers = {}
  /\ offline = OfflineIdle /\ fault = "none" /\ hollow = {} /\ raced = FALSE

-----------------------------------------------------------------------------
(* The number of files.  Every ALL_FILE_COUNT++ and -- is a load, an       *)
(* addition and a store without a lock, one for each file, while the loops *)
(* below are single steps: where the loops of two threads overlap, each    *)
(* may lose any of its updates.                                            *)

\* The threads that count: a rescan from its first deletion on, the listener after it has
\* read a database, and the loader of the offline drives while it has files to visit.
CountsBeside(t) ==
  \/ \E u \in Thread \ {t} : call[u].at \in {"free", "check", "fill"}
  \/ t # "load_offline_dbs_t" /\ offline.names # {}

\* Thread t adds n files, or takes -n files off.
Count(n, t) ==
  /\ raced' = (raced \/ CountsBeside(t))
  /\ ALL_FILE_COUNT' \in IF ~raced' THEN {ALL_FILE_COUNT + n}
                         ELSE IF FollowRaces
                         THEN (ALL_FILE_COUNT .. ALL_FILE_COUNT + n) \cup (ALL_FILE_COUNT + n .. ALL_FILE_COUNT)
                         ELSE {0}

-----------------------------------------------------------------------------
(* Reading a database, write.c.                                            *)

Accepted(v, fresh) == v \in Volume /\ db[v].end = "row" /\ fresh
HeaderRead(v, fresh) == v \in Volume /\ db[v].end \in {"cut", "row"} /\ fresh

\* A file that is cut within an entry is refused after its first entries have been counted,
\* mapped and listed.  build_dir gives those that were listed to the next database accepted
\* in the slot: it is their numbers that decide which of them find a parent in the new tree.
ReadEntries(s, v, fresh, t) ==
  /\ \E found \in 0 .. tmpList[s] :
       heap' = Append(heap, Tree(v, IF Accepted(v, fresh) THEN db[v].rows + found ELSE 1))
  /\ g_rootVols' = [g_rootVols EXCEPT ![s] = Len(heap) + 1]
  /\ hollow' = hollow \ {s}
  /\ Count(db[v].rows, t)
  /\ tmpList' = [tmpList EXCEPT ![s] = IF Accepted(v, fresh) THEN 0 ELSE @ + db[v].rows - 1]

\* A file that ends after its header is accepted; the slot keeps the root it had, if any.
ReadNoEntry(s) ==
  /\ IF g_rootVols[s] = NULL THEN heap' = heap
     ELSE \E found \in 0 .. tmpList[s] : heap' = [heap EXCEPT ![g_rootVols[s]].rows = @ + found]
  /\ hollow' = hollow \cup {s}
  /\ tmpList' = [tmpList EXCEPT ![s] = 0]
  /\ UNCHANGED <<g_rootVols, count>>

readfile(s, v, fresh, t) ==
  \/ HeaderRead(v, fresh) /\ db[v].rows > 0 /\ ReadEntries(s, v, fresh, t)
  \/ Accepted(v, fresh) /\ db[v].rows = 0 /\ ReadNoEntry(s)
  \/ /\ ~HeaderRead(v, fresh)
     /\ UNCHANGED <<heap, g_rootVols, tmpList, hollow, count>>

\* fresh: the header's journal number or date has not expired.
load_online_db(i, v, fresh, t) ==
  /\ readfile(i, v, fresh, t)
  /\ g_loaded' = IF Accepted(v, fresh) THEN [g_loaded EXCEPT ![i] = TRUE] ELSE g_loaded

\* (Mutant) the root is counted off twice.
deleteFile_RootTwice(a, t) ==
  /\ heap' = IF a = NULL THEN heap ELSE [heap EXCEPT ![a].live = FALSE]
  /\ IF a = NULL THEN UNCHANGED count ELSE Count(-heap[a].rows - 1, t)

deleteFile(a, t) ==
  /\ heap' = IF a = NULL THEN heap ELSE [heap EXCEPT ![a].live = FALSE]
  /\ IF a = NULL THEN UNCHANGED count ELSE Count(-heap[a].rows, t)

-----------------------------------------------------------------------------
(* The start of the service: gigaso_init and the thread ScanAll.           *)

\* The drive iterators go through the letters in order, ScanAll first through the NTFS drives.
Turn(i) ==
  /\ i \in todo
  /\ \A j \in todo \ {i} : IF phase = "scan" /\ IsNtfs(i) # IsNtfs(j) THEN IsNtfs(i) ELSE i < j

ValidDrives == {i \in Letter : g_bVols[i] /\ g_VolsInfo[i] # None}

InitDrives ==
  /\ Running /\ phase = "off"
  /\ phase' = "load"
  /\ g_bVols' = [i \in Letter |-> present[i] # None]
  /\ g_VolsInfo' = [s \in Slot |-> IF s \in Letter THEN present[s] ELSE None]
  /\ todo' = {i \in Letter : present[i] # None}
  /\ UNCHANGED <<outside, db, g_loaded, g_rootVols, heap, tmpList, hollow, count,
                 call, sizers, offline, fault>>

LoadOnline ==
  /\ Running /\ phase = "load"
  /\ \E i \in todo, fresh \in BOOLEAN :
       Turn(i) /\ load_online_db(i, g_VolsInfo[i], fresh, "gigaso_init") /\ todo' = todo \ {i}
  /\ UNCHANGED <<outside, db, g_bVols, g_VolsInfo, phase, call, sizers, offline, fault>>

\* NTFS drives first; the server takes commands from now on.
StartScanAll ==
  /\ Running /\ phase = "load" /\ todo = {}
  /\ phase' = "scan" /\ todo' = ValidDrives
  /\ UNCHANGED <<outside, db, memory, call, sizers, offline, fault>>

NextScan ==
  /\ Running /\ phase = "scan" /\ call["ScanAll"] = Idle
  /\ \E i \in todo : Turn(i) /\ call' = At("ScanAll", "check", i) /\ todo' = todo \ {i}
  /\ UNCHANGED <<outside, db, memory, phase, sizers, offline, fault>>

StartDriveChangeMonitorThread ==
  /\ Running /\ phase = "scan" /\ todo = {} /\ call["ScanAll"] = Idle
  /\ phase' = "on"
  /\ UNCHANGED <<outside, db, memory, todo, call, sizers, offline, fault>>

-----------------------------------------------------------------------------
(* scan(i), in whichever thread t calls it, and the save that follows it.  *)

Step(t, at) == Running /\ call[t].at = at /\ UNCHANGED <<outside, phase, todo, offline>>

ScanCheck(t) ==
  LET i == call[t].i IN
  /\ Step(t, "check")
  /\ call' = IF g_loaded[i] THEN Return(t) ELSE At(t, "fill", i)
  /\ tmpList' = IF g_loaded[i] THEN tmpList ELSE [tmpList EXCEPT ![i] = 0]
  /\ UNCHANGED <<db, g_bVols, g_loaded, g_VolsInfo, g_rootVols, heap, hollow, count, sizers, fault>>

\* ScanMFT reads the volume the handle was opened for, scanRoot whatever the letter names.
Found(i) == IF IsNtfs(i) /\ present[i] # g_VolsInfo[i] THEN None ELSE present[i]

\* (Mutant) the root is not counted.
ScanFill_RootNotCounted(t) ==
  LET i == call[t].i
      a == Len(heap) + 1
      tree == Tree(Found(i), IF Found(i) = None THEN 1 ELSE Size[Found(i)])
  IN /\ Step(t, "fill")
     /\ heap' = Append(heap, tree)
     /\ g_rootVols' = [g_rootVols EXCEPT ![i] = a]
     /\ hollow' = hollow \ {i}
     /\ Count(tree.rows - 1, t)
     /\ sizers' = IF IsNtfs(i) THEN sizers \cup {[root |-> a, at |-> "walk", i |-> i, v |-> None]} ELSE sizers
     /\ call' = At(t, "publish", i)
     /\ UNCHANGED <<db, g_bVols, g_loaded, g_VolsInfo, tmpList, fault>>

ScanFill(t) ==
  LET i == call[t].i
      a == Len(heap) + 1
      tree == Tree(Found(i), IF Found(i) = None THEN 1 ELSE Size[Found(i)])
  IN /\ Step(t, "fill")
     /\ heap' = Append(heap, tree)
     /\ g_rootVols' = [g_rootVols EXCEPT ![i] = a]
     /\ hollow' = hollow \ {i}
     /\ Count(tree.rows, t)
     /\ sizers' = IF IsNtfs(i) THEN sizers \cup {[root |-> a, at |-> "walk", i |-> i, v |-> None]} ELSE sizers
     /\ call' = At(t, "publish", i)
     /\ UNCHANGED <<db, g_bVols, g_loaded, g_VolsInfo, tmpList, fault>>

\* (Mutant) only an NTFS drive is marked loaded.
ScanPublish_NtfsOnly(t) ==
  LET i == call[t].i IN
  /\ Step(t, "publish")
  /\ g_loaded' = [g_loaded EXCEPT ![i] = IsNtfs(i)]
  /\ call' = IF IsNtfs(i) THEN Return(t) ELSE At(t, "save", i)
  /\ UNCHANGED <<db, g_bVols, g_VolsInfo, g_rootVols, heap, tmpList, hollow, count, sizers, fault>>

ScanPublish(t) ==
  LET i == call[t].i IN
  /\ Step(t, "publish")
  /\ g_loaded' = [g_loaded EXCEPT ![i] = TRUE]
  /\ call' = IF IsNtfs(i) THEN Return(t) ELSE At(t, "save", i)
  /\ UNCHANGED <<db, g_bVols, g_VolsInfo, g_rootVols, heap, tmpList, hollow, count, sizers, fault>>

\* save_db does nothing for a drive that is not loaded; fopen may fail.
SaveOpen(t) ==
  LET i == call[t].i IN
  /\ Step(t, "save")
  /\ \/ /\ g_loaded[i]
        /\ call' = [call EXCEPT ![t] = [at |-> "write", i |-> i, v |-> g_VolsInfo[i]]]
        /\ db' = [db EXCEPT ![g_VolsInfo[i]] = Opened]
     \/ call' = Return(t) /\ UNCHANGED db
  /\ UNCHANGED <<memory, sizers, fault>>

Written(i) == Whole(IF g_rootVols[i] = NULL THEN 0 ELSE heap[g_rootVols[i]].rows)

SaveWrite(t) ==
  /\ call[t].at = "write"
  /\ IF Freed(g_rootVols[call[t].i]) THEN Running /\ Fail("freed")
     ELSE /\ Step(t, "write")
          /\ db' = [db EXCEPT ![call[t].v] = Written(call[t].i)]
          /\ call' = Return(t)
          /\ UNCHANGED <<memory, sizers, fault>>

-----------------------------------------------------------------------------
(* init_size_time_all, one thread per scanned NTFS tree.                   *)

SizerStep(z, w) ==
  /\ sizers' = (sizers \ {z}) \cup w
  /\ UNCHANGED <<outside, memory, phase, todo, call, offline, fault>>

SizerWalk(z) ==
  /\ Running /\ z.at = "walk"
  /\ IF Freed(z.root) THEN Fail("freed")
     ELSE SizerStep(z, {[z EXCEPT !.at = "save"]}) /\ UNCHANGED db

SizerOpen(z) ==
  /\ Running /\ z.at = "save"
  /\ \/ /\ g_loaded[z.i]
        /\ SizerStep(z, {[z EXCEPT !.at = "write", !.v = g_VolsInfo[z.i]]})
        /\ db' = [db EXCEPT ![g_VolsInfo[z.i]] = Opened]
     \/ SizerStep(z, {}) /\ UNCHANGED db

SizerWrite(z) ==
  /\ Running /\ z.at = "write"
  /\ IF Freed(g_rootVols[z.i]) THEN Fail("freed")
     ELSE SizerStep(z, {}) /\ db' = [db EXCEPT ![z.v] = Written(z.i)]

-----------------------------------------------------------------------------
(* Commands of the browser, server.c.                                      *)

Event == Running /\ events < MaxEvents /\ events' = events + 1 /\ UNCHANGED <<present, messages>>
Serving == phase \in {"scan", "on"}

\* (Mutant) the drive stays loaded while its tree is freed.
rescan_StaysLoaded(i) ==
  /\ Event /\ Serving /\ call["rescan_t"] = Idle
  /\ SerialRescan => Listening /\ messages = <<>> /\ call["listener"] = Idle
  /\ g_loaded[i]
  /\ call' = At("rescan_t", "free", i)
  /\ UNCHANGED <<db, memory, phase, todo, sizers, offline, fault>>

\* The thread reads the drive number from a stack frame that may be gone: any loaded drive.
rescan(i) ==
  /\ Event /\ Serving /\ call["rescan_t"] = Idle
  /\ SerialRescan => Listening /\ messages = <<>> /\ call["listener"] = Idle
  /\ g_loaded[i]
  /\ g_loaded' = [g_loaded EXCEPT ![i] = FALSE]
  /\ call' = At("rescan_t", "free", i)
  /\ UNCHANGED <<db, g_bVols, g_VolsInfo, g_rootVols, heap, tmpList, hollow, count,
                 phase, todo, sizers, offline, fault>>

RescanFree ==
  LET i == call["rescan_t"].i IN
  /\ call["rescan_t"].at = "free"
  /\ IF Freed(g_rootVols[i]) THEN Running /\ Fail("freed")
     ELSE /\ Step("rescan_t", "free")
          /\ deleteFile(g_rootVols[i], "rescan_t")
          /\ call' = At("rescan_t", "check", i)
          /\ UNCHANGED <<db, g_bVols, g_loaded, g_VolsInfo, g_rootVols, tmpList, hollow, sizers, fault>>

LoadOfflineDb ==
  /\ Event /\ Serving /\ ~offline.asked
  /\ offline' = [asked |-> TRUE, names |-> {v \in Volume : db[v].end # "none"},
                 slot |-> DIRVE_COUNT, reading |-> None]
  /\ UNCHANGED <<db, memory, phase, todo, call, sizers, fault>>

LoadedName(v) == \E s \in Slot : g_loaded[s] /\ g_VolsInfo[s] = v

\* offline_db_visitor skips a file whose volume is loaded and reads the others.
VisitDb(v) ==
  LET s == offline.slot IN
  /\ Running /\ offline.reading = None /\ v \in offline.names
  /\ IF LoadedName(v)
     THEN UNCHANGED memory
     ELSE /\ readfile(s, v, TRUE, "load_offline_dbs_t")
          /\ \/ g_VolsInfo' = [g_VolsInfo EXCEPT ![s] = v]
             \/ ~HeaderRead(v, TRUE) /\ UNCHANGED g_VolsInfo
          /\ UNCHANGED <<g_bVols, g_loaded>>
  /\ offline' = [offline EXCEPT !.names = @ \ {v},
                                !.reading = IF ~LoadedName(v) /\ Accepted(v, TRUE) THEN v ELSE None]
  /\ UNCHANGED <<outside, db, phase, todo, call, sizers, fault>>

\* build_dir, after_build, g_loaded; the iteration ends with the last slot.
OfflineLoaded ==
  /\ Running /\ offline.reading # None
  /\ g_loaded' = [g_loaded EXCEPT ![offline.slot] = TRUE]
  /\ offline' = [offline EXCEPT !.slot = @ + 1, !.reading = None,
                                !.names = IF offline.slot + 1 >= DIRVE_COUNT_OFFLINE THEN {} ELSE @]
  /\ UNCHANGED <<outside, db, g_bVols, g_VolsInfo, g_rootVols, heap, tmpList, hollow, count,
                 phase, todo, call, sizers, fault>>

\* The offline drives of the status dialog.
loaded_offline_dbs == {s \in Slot : g_loaded[s] /\ ~(s \in Letter /\ g_bVols[s])}

Writing == {call[t].v : t \in Thread} \cup {z.v : z \in sizers}

\* The file is deleted by a shell command, which fails while the file is open.
del_offline_db(s) ==
  LET v == g_VolsInfo[s] IN
  /\ Running /\ Serving /\ s \in loaded_offline_dbs
  /\ IF Freed(g_rootVols[s]) THEN Fail("freed")
     ELSE /\ g_loaded' = [g_loaded EXCEPT ![s] = FALSE]
          /\ deleteFile(g_rootVols[s], "command_exec")
          /\ db' = IF v \in Volume /\ v \notin Writing THEN [db EXCEPT ![v] = NoDb] ELSE db
          /\ UNCHANGED <<outside, g_bVols, g_VolsInfo, g_rootVols, tmpList, hollow, threads, fault>>

\* The slots a search walks: offline ones by their root alone, letters up to the first
\* loaded drive whose root has no children.
AllFilesIterate(off) ==
  IF off THEN {s \in Offline : g_rootVols[s] # NULL}
  ELSE {i \in Letter : /\ g_loaded[i] /\ g_rootVols[i] # NULL
                       /\ \A j \in 0 .. i : g_loaded[j] /\ g_rootVols[j] # NULL =>
                            heap[g_rootVols[j]].rows > 1}

SearchOffline ==
  /\ Running /\ Serving
  /\ \E s \in AllFilesIterate(TRUE) : Freed(g_rootVols[s])
  /\ Fail("freed")

-----------------------------------------------------------------------------
(* Drives that come and go, and the end of the service.                    *)

\* Without the window of the listener the message is lost.
Notify(i, add) == messages' = IF Listening THEN Append(messages, [i |-> i, add |-> add]) ELSE messages

DriveEvent ==
  /\ Running /\ events < MaxEvents /\ events' = events + 1
  /\ SerialRescan => call["rescan_t"] = Idle
  /\ UNCHANGED <<db, memory, threads, fault>>

PlugIn(i, v) ==
  /\ DriveEvent
  /\ present[i] = None /\ \A j \in Letter : present[j] # v
  /\ present' = [present EXCEPT ![i] = v]
  /\ Notify(i, TRUE)

\* A drive stays until its arrival is handled: InitDrive is not asked about one that is gone.
Unplug(i) ==
  /\ DriveEvent
  /\ present[i] # None /\ [i |-> i, add |-> TRUE] \notin Range(messages)
  /\ present' = [present EXCEPT ![i] = None]
  /\ Notify(i, FALSE)

Message(add) ==
  /\ Running /\ Listening /\ call["listener"] = Idle
  /\ messages # <<>> /\ Head(messages).add = add
  /\ messages' = Tail(messages)
  /\ UNCHANGED <<present, events, db, phase, todo, sizers, offline>>

DriveAdded ==
  LET i == Head(messages).i
  IN /\ Message(TRUE)
     /\ g_bVols' = [g_bVols EXCEPT ![i] = TRUE]
     /\ g_VolsInfo' = [g_VolsInfo EXCEPT ![i] = present[i]]
     /\ \E fresh \in BOOLEAN : load_online_db(i, present[i], fresh, "listener")
     /\ call' = At("listener", "check", i)
     /\ UNCHANGED fault

FreeSlots == {s \in Offline : ~g_loaded[s]}

\* (Mutant) the letter stays loaded.
DriveRemoved_StaysLoaded ==
  LET i == Head(messages).i
      off_id == Min(FreeSlots)
  IN /\ Message(FALSE)
     /\ FreeSlots # {}
     /\ g_bVols' = [g_bVols EXCEPT ![i] = FALSE]
     /\ g_loaded' = [g_loaded EXCEPT ![off_id] = TRUE]
     /\ g_VolsInfo' = [g_VolsInfo EXCEPT ![off_id] = g_VolsInfo[i]]
     /\ g_rootVols' = [g_rootVols EXCEPT ![off_id] = g_rootVols[i]]
     /\ hollow' = (hollow \ {off_id}) \cup (IF i \in hollow THEN {off_id} ELSE {})
     /\ UNCHANGED <<heap, tmpList, count, call, fault>>

\* The tree goes to the next offline slot, which is -1 when none is free.
DriveRemoved ==
  LET i == Head(messages).i
      off_id == Min(FreeSlots)
  IN /\ Message(FALSE)
     /\ g_bVols' = [g_bVols EXCEPT ![i] = FALSE]
     /\ IF FreeSlots = {}
        THEN /\ fault' = "slot"
             /\ g_loaded' = [g_loaded EXCEPT ![i] = FALSE]
             /\ UNCHANGED <<g_VolsInfo, g_rootVols, hollow>>
        ELSE /\ g_loaded' = [g_loaded EXCEPT ![i] = FALSE, ![off_id] = TRUE]
             /\ g_VolsInfo' = [g_VolsInfo EXCEPT ![off_id] = g_VolsInfo[i]]
             /\ g_rootVols' = [g_rootVols EXCEPT ![off_id] = g_rootVols[i]]
             /\ hollow' = (hollow \ {off_id}) \cup (IF i \in hollow THEN {off_id} ELSE {})
             /\ UNCHANGED fault
     /\ UNCHANGED <<heap, tmpList, count, call>>

\* gigaso_destory saves every valid drive while the threads under way go on; commands and
\* drive messages that arrive in that time are left out.
Stop ==
  /\ Event /\ Listening
  /\ phase' = "stop" /\ todo' = ValidDrives
  /\ UNCHANGED <<db, memory, call, sizers, offline, fault>>

NextSave ==
  /\ Running /\ phase = "stop" /\ call["destory"] = Idle
  /\ \E i \in todo : Turn(i) /\ call' = At("destory", "save", i) /\ todo' = todo \ {i}
  /\ UNCHANGED <<outside, db, memory, phase, sizers, offline, fault>>

\* A file that is being written when the process ends keeps what has reached the disk.
EndProcess ==
  /\ db' \in [Volume -> UNION {Torn(Size[v]) : v \in Volume} \cup {db[v] : v \in Volume}]
  /\ \A v \in Volume : IF v \in Writing THEN db'[v] \in Torn(Size[v]) ELSE db'[v] = db[v]
  /\ g_bVols' = [i \in Letter |-> FALSE] /\ g_loaded' = [s \in Slot |-> FALSE]
  /\ g_VolsInfo' = [s \in Slot |-> None] /\ g_rootVols' = [s \in Slot |-> NULL]
  /\ heap' = <<>> /\ ALL_FILE_COUNT' = 0 /\ tmpList' = [s \in Slot |-> 0]
  /\ hollow' = {} /\ raced' = FALSE
  /\ phase' = "off" /\ todo' = {} /\ call' = [t \in Thread |-> Idle] /\ sizers' = {}
  /\ offline' = OfflineIdle
  /\ messages' = <<>>
  /\ UNCHANGED <<present, fault>>

Exit == Running /\ phase = "stop" /\ todo = {} /\ call["destory"] = Idle /\ EndProcess /\ UNCHANGED events

Crash == Running /\ phase # "off" /\ events < MaxEvents /\ events' = events + 1 /\ EndProcess

-----------------------------------------------------------------------------
Scan(t) == ScanCheck(t) \/ ScanFill(t) \/ ScanPublish(t)
Save(t) == SaveOpen(t) \/ SaveWrite(t)

Next ==
  \/ InitDrives \/ LoadOnline \/ StartScanAll \/ NextScan \/ StartDriveChangeMonitorThread
  \/ \E t \in Thread : ScanCheck(t) \/ ScanFill(t) \/ ScanPublish(t) \/ SaveOpen(t) \/ SaveWrite(t)
  \/ \E z \in sizers : SizerWalk(z) \/ SizerOpen(z) \/ SizerWrite(z)
  \/ \E i \in Letter : rescan(i)
  \/ RescanFree
  \/ LoadOfflineDb \/ OfflineLoaded
  \/ \E v \in Volume : VisitDb(v)
  \/ \E s \in Slot : del_offline_db(s)
  \/ SearchOffline
  \/ \E i \in Letter, v \in Volume : PlugIn(i, v)
  \/ \E i \in Letter : Unplug(i)
  \/ DriveAdded \/ DriveRemoved
  \/ Stop \/ NextSave \/ Exit \/ Crash

\* Every thread of the service runs; nothing is assumed of users and drives.
Fairness ==
  /\ WF_vars(LoadOnline \/ StartScanAll \/ NextScan \/ StartDriveChangeMonitorThread)
  /\ \A t \in Thread : WF_vars(Scan(t) \/ Save(t))
  /\ WF_vars(RescanFree)
  /\ WF_vars(DriveAdded \/ DriveRemoved)
  /\ WF_vars(NextSave \/ Exit)

Spec == Init /\ [][Next]_vars /\ Fairness

-----------------------------------------------------------------------------
(* The arrays, the files and the threads have their types.  A tree has at  *)
(* least its root, the count of files does not fall below zero while one   *)
(* thread counts at a time, and the offline loader never has a slot beyond *)
(* the last while it has files.                                            *)
DrivesTypeOK ==
  /\ present \in [Letter -> Volume \cup {None}] /\ events \in 0 .. MaxEvents
  /\ messages \in Seq([i : Letter, add : BOOLEAN])
  /\ db \in [Volume -> DbFile]
  /\ phase \in {"off", "load", "scan", "on", "stop"} /\ todo \subseteq Letter
  /\ g_bVols \in [Letter -> BOOLEAN] /\ g_loaded \in [Slot -> BOOLEAN]
  /\ g_VolsInfo \in [Slot -> Volume \cup {None}] /\ g_rootVols \in [Slot -> 0 .. Len(heap)]
  /\ heap \in Seq([vol : Volume \cup {None}, rows : Nat \ {0}, live : BOOLEAN])
  /\ ALL_FILE_COUNT \in Int /\ raced \in BOOLEAN /\ (raced \/ ALL_FILE_COUNT \in Nat)
  /\ tmpList \in [Slot -> Nat] /\ hollow \subseteq Slot
  /\ call \in [Thread -> [at : CallAt, i : Letter, v : Volume \cup {None}]]
  /\ sizers \subseteq [root : 1 .. Len(heap), at : SizerAt, i : Letter, v : Volume \cup {None}]
  /\ offline \in [asked : BOOLEAN, names : SUBSET Volume, slot : DIRVE_COUNT .. DIRVE_COUNT_OFFLINE,
                   reading : Volume \cup {None}]
  /\ offline.slot = DIRVE_COUNT_OFFLINE => offline.names = {} /\ offline.reading = None
  /\ fault \in {"none", "freed", "slot"}

(* A drive that is loaded has a live tree: a search of the online drives   *)
(* never starts on freed memory, whatever was loaded, scanned, rescanned,  *)
(* removed and plugged in again before.  Only a database without an entry  *)
(* leaves a drive the root that was there before it.                       *)
OnlineRootsLive ==
  \A i \in Letter \ hollow : g_loaded[i] => g_rootVols[i] # NULL /\ heap[g_rootVols[i]].live

(* No tree is loaded in two slots, although a removed drive leaves its     *)
(* root in both: deleting an offline drive frees no tree another shows,    *)
(* slots with a database without an entry excepted.                        *)
NoSharedTree ==
  \A s, r \in Slot \ hollow :
    g_loaded[s] /\ g_loaded[r] /\ g_rootVols[s] = g_rootVols[r] /\ g_rootVols[s] # NULL => s = r

\* The files of the trees in memory, as pairs of a tree and a number.
FilesInMemory == UNION {{a} \X (1 .. heap[a].rows) : a \in {b \in DOMAIN heap : heap[b].live}}

(* ALL_FILE_COUNT, by which search sizes its list of results, is never     *)
(* less than the number of files of all trees in memory, over refused,     *)
(* torn and shortened databases, rescans and deletions, as long as no two  *)
(* threads have counted at the same time.                                  *)
CountCoversTrees == ~raced => Cardinality(FilesInMemory) <= ALL_FILE_COUNT

(* global.h:33: ALL_FILE_COUNT is the total number of all current files.   *)
(* The threads that scan and the one that loads offline drives count       *)
(* without a lock, so updates are lost and the count falls below.          *)
CountIsTotal == Cardinality(FilesInMemory) <= ALL_FILE_COUNT

(* A drive the service knows of is loaded sooner or later, so the status   *)
(* shown as scanning ends: no interleaving of the first scan, rescans and  *)
(* drive messages leaves a drive unloaded for good.                        *)
ScanningEnds ==
  \A i \in Letter : g_bVols[i] ~> (g_loaded[i] \/ ~g_bVols[i] \/ ~Running)
=============================================================================
