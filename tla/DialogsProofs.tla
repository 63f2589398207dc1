----------------------------- MODULE DialogsProofs -----------------------------
(***************************************************************************)
(* That a status file which says there is a new version names an installer *)
(* with the right hash, for any number of downloads, checks and deaths of  *)
(* the service, and that the refresh of the index dialog is one chain, for *)
(* any number of rescans.  Neither is inductive.  The status of a download *)
(* is written when it starts and when it ends, so one must know that only  *)
(* one runs (OneDownload) and that none runs while the status is "new"     *)
(* (NewIsFinal); and rescan clears only the refresh its handle names, so   *)
(* one must know that it names the one that is pending (RefreshIsOwn).     *)
(***************************************************************************)
EXTENDS Dialogs, TLAPS

Downloading(t) == pc[t] \in {"started", "fetch", "check"}

OneDownload == ~overlap => \A s, t \in Threads : Downloading(s) /\ Downloading(t) => s = t

NewIsFinal ==
    status = "new" /\ ~overlap => installer = "good" /\ \A t \in Threads : ~Downloading(t)

RefreshIsOwn == refresh_timeout.own <=> refresh_timeout.n = 1

DialogsInv == DialogsTypeOK /\ OneDownload /\ NewIsFinal /\ RefreshIsOwn

\* The conjuncts of TypeOK, by the part of the page or of the service they are about.
MessageType ==
    /\ msg \in {"none", "info", "error"} /\ message_timeout \in BOOLEAN /\ fading \in BOOLEAN
    /\ msg # "none" => message_timeout \/ fading

IndexType ==
    /\ done \subseteq Drives /\ shown \subseteq Drives
    /\ refresh_timeout \in [n : 0..1, own : BOOLEAN] /\ RefreshIsOwn
    /\ dialog \in BOOLEAN /\ del_timeout \in BOOLEAN /\ polling \in BOOLEAN
    /\ scanning \in BOOLEAN /\ asked \in BOOLEAN

PageType == requests \in [Hosts -> Nat] /\ info_timeout \in Nat /\ mannual \in BOOLEAN

ServiceType ==
    /\ status \in {"unknown", "done", "new", "downloading"} /\ recent \in BOOLEAN
    /\ installer \in {"none", "partial", "good", "bad"}
    /\ pc \in [Threads -> {"new", "started", "fetch", "check", "ended"}]
    /\ args \in [Threads -> {"good", "lost"}]
    /\ overlap \in BOOLEAN
    /\ OneDownload /\ NewIsFinal

LEMMA InvByParts ==
    DialogsInv <=> MessageType /\ IndexType /\ PageType /\ ServiceType /\ up \in BOOLEAN
<1> QED
  BY DEF DialogsInv, DialogsTypeOK, MessageType, IndexType, PageType, ServiceType

LEMMA InvByPartsNext ==
    DialogsInv' <=> MessageType' /\ IndexType' /\ PageType' /\ ServiceType' /\ up' \in BOOLEAN
<1> QED
  BY DEF DialogsInv, DialogsTypeOK, MessageType, IndexType, PageType, ServiceType

-----------------------------------------------------------------------------
\* What a step leaves alone keeps its types.
LEMMA Unchanged ==
    /\ UNCHANGED message /\ MessageType => MessageType'
    /\ UNCHANGED index /\ IndexType => IndexType'
    /\ UNCHANGED page /\ PageType => PageType'
    /\ UNCHANGED service /\ ServiceType => ServiceType'
<1>1. UNCHANGED message /\ MessageType => MessageType'
  BY DEF message, MessageType
<1>2. UNCHANGED index /\ IndexType => IndexType'
  BY DEF index, IndexType, RefreshIsOwn
<1>3. UNCHANGED page /\ PageType => PageType'
  BY DEF page, PageType
<1>4. UNCHANGED service /\ ServiceType => ServiceType'
  BY DEF service, ServiceType, OneDownload, NewIsFinal, Downloading
<1> QED
  BY <1>1, <1>2, <1>3, <1>4

\* The two values of the timer: none pending, or the one that the handle names.
LEMMA RefreshValues ==
    /\ [n |-> 0, own |-> FALSE] \in [n : 0..1, own : BOOLEAN]
    /\ [n |-> 1, own |-> TRUE] \in [n : 0..1, own : BOOLEAN]
    /\ \A r \in [n : 0..1, own : BOOLEAN] : (r.own <=> r.n = 1) =>
         r = [n |-> 0, own |-> FALSE] \/ r = [n |-> 1, own |-> TRUE]
<1> QED
  OBVIOUS

LEMMA RefreshNext ==
    ASSUME \/ refresh_timeout' = [n |-> 0, own |-> FALSE]
           \/ refresh_timeout' = [n |-> 1, own |-> TRUE]
    PROVE  refresh_timeout' \in [n : 0..1, own : BOOLEAN] /\ RefreshIsOwn'
<1>1. CASE refresh_timeout' = [n |-> 0, own |-> FALSE]
  <2>1. refresh_timeout'.n = 0 /\ refresh_timeout'.own = FALSE
    BY <1>1
  <2> QED
    BY <1>1, <2>1, RefreshValues DEF RefreshIsOwn
<1>2. CASE refresh_timeout' = [n |-> 1, own |-> TRUE]
  <2>1. refresh_timeout'.n = 1 /\ refresh_timeout'.own = TRUE
    BY <1>2
  <2> QED
    BY <1>2, <2>1, RefreshValues DEF RefreshIsOwn
<1> QED
  BY <1>1, <1>2

LEMMA InitInv == DialogsInit => DialogsInv
<1> SUFFICES ASSUME DialogsInit PROVE DialogsInv
  OBVIOUS
<1>1. MessageType /\ PageType /\ up \in BOOLEAN
  BY DEF DialogsInit, MessageType, PageType
<1>2. RefreshIsOwn
  <2>1. refresh_timeout.n = 0 /\ refresh_timeout.own = FALSE
    BY DEF DialogsInit
  <2> QED
    BY <2>1 DEF RefreshIsOwn
<1>4. IndexType
  BY <1>2, RefreshValues, Zenon DEF DialogsInit, IndexType
<1>3. ServiceType
  BY DEF DialogsInit, ServiceType, OneDownload, NewIsFinal, Downloading
<1> QED
  BY <1>1, <1>3, <1>4, InvByParts

\* The message area.
LEMMA MessageStep ==
    ASSUME MessageType, Message
    PROVE  MessageType' /\ UNCHANGED <<index, page, service, up>>
<1>1. CASE command_message
  BY <1>1 DEF command_message, info_or_error, set_hotkey, do_export, show, MessageType
<1>2. CASE hide_message
  BY <1>2 DEF hide_message, MessageType
<1>3. CASE fade_end
  BY <1>3 DEF fade_end, MessageType
<1> QED
  BY <1>1, <1>2, <1>3 DEF Message

\* The index dialog and the scanning picture: a pending refresh is the one that
\* the handle names, so arming it again never makes two.
LEMMA IndexStep ==
    ASSUME IndexType, up \in BOOLEAN, Index
    PROVE  IndexType' /\ UNCHANGED <<message, page, service, up>>
<1>1. CASE index_button \/ close_dialog
  BY <1>1 DEF index_button, close_dialog, show_index_status, IndexType, RefreshIsOwn
<1>2. CASE refreash_index_status
  <2>1. refresh_timeout.n = 1 /\ refresh_timeout.own = TRUE
    BY <1>2, RefreshValues DEF refreash_index_status, IndexType, RefreshIsOwn
  <2>2. \/ refresh_timeout' = [n |-> 1, own |-> TRUE]
        \/ refresh_timeout' = [n |-> 0, own |-> FALSE]
    <3>1. (refresh_timeout.own /\ refresh_timeout.n > 1) = FALSE /\ refresh_timeout.n - 1 = 0
      BY <2>1
    <3> QED
      BY <1>2, <2>1, <3>1, Zenon DEF refreash_index_status
  <2>3. refresh_timeout' \in [n : 0..1, own : BOOLEAN] /\ RefreshIsOwn'
    BY <2>2, RefreshNext
  <2>4. shown' \subseteq Drives /\ dialog' \in BOOLEAN
    BY <1>2 DEF refreash_index_status, show_index_status, IndexType
  <2> QED
    BY <1>2, <2>3, <2>4 DEF refreash_index_status, IndexType
<1>3. CASE scan_img \/ scan_img_error
  BY <1>3 DEF scan_img, scan_img_error, is_scan_finished, IndexType, RefreshIsOwn
<1>4. CASE del_offline_db \/ rescan0
  BY <1>4 DEF del_offline_db, rescan0, show_index_status, IndexType, RefreshIsOwn
<1>5. ASSUME NEW d \in Drives, rescan(d)
      PROVE  IndexType' /\ UNCHANGED <<message, page, service, up>>
  <2>1. (IF refresh_timeout.own THEN refresh_timeout.n ELSE refresh_timeout.n + 1) = 1
    BY RefreshValues DEF IndexType, RefreshIsOwn
  <2>2. refresh_timeout' = [n |-> 1, own |-> TRUE]
    BY <1>5, <2>1, Zenon DEF rescan, arm_refresh
  <2>3. refresh_timeout' \in [n : 0..1, own : BOOLEAN] /\ RefreshIsOwn'
    BY <2>2, RefreshNext
  <2> QED
    BY <1>5, <2>3 DEF rescan, IndexType
<1>6. ASSUME NEW d \in Drives, ScanDone(d)
      PROVE  IndexType' /\ UNCHANGED <<message, page, service, up>>
  BY <1>6 DEF ScanDone, IndexType, RefreshIsOwn
<1> QED
  BY <1>1, <1>2, <1>3, <1>4, <1>5, <1>6 DEF Index

\* The threads of a service that dies are gone.
LEMMA DeadThreads ==
    ASSUME ServiceType, pc' = Dead, UNCHANGED <<status, recent, installer, args, overlap>>
    PROVE  ServiceType'
<1>1. \A t \in Threads : pc'[t] \in {"new", "ended"}
  BY DEF Dead
<1>2. pc' \in [Threads -> {"new", "started", "fetch", "check", "ended"}]
  BY DEF Dead
<1>3. OneDownload' /\ NewIsFinal'
  BY <1>1 DEF ServiceType, OneDownload, NewIsFinal, Downloading
<1> QED
  BY <1>2, <1>3 DEF ServiceType

\* The upgrade: what the page does.
LEMMA AnsweredStep ==
    ASSUME PageType, ServiceType, Answered
    PROVE  PageType' /\ ServiceType' /\ UNCHANGED <<message, index, up>>
<1>1. PICK h \in Hosts : \/ upgrade_none(h) \/ upgrade_error(h)
                         \/ \E t \in Threads : upgrade_success(h, t)
  BY DEF Answered
<1>2. CASE upgrade_none(h)
  <2>1. PageType'
    BY <1>2 DEF upgrade_none, PageType
  <2>2. ServiceType'
    BY <1>2 DEF upgrade_none, ServiceType, OneDownload, NewIsFinal, Downloading
  <2> QED
    BY <1>2, <2>1, <2>2 DEF upgrade_none
<1>3. CASE upgrade_error(h)
  <2>1. PageType'
    BY <1>3 DEF upgrade_error, PageType, Hosts
  <2> QED
    BY <1>3, <2>1, Unchanged DEF upgrade_error
<1>4. ASSUME NEW t \in Threads, upgrade_success(h, t)
      PROVE  PageType' /\ ServiceType' /\ UNCHANGED <<message, index, up>>
  <2>1. PageType'
    BY <1>4 DEF upgrade_success, PageType
  <2>2. /\ pc' \in [Threads -> {"new", "started", "fetch", "check", "ended"}]
        /\ \A s \in Threads : s # t => pc'[s] = pc[s]
    BY <1>4 DEF upgrade_success, ServiceType
  <2>3. ~overlap' => ~overlap /\ \A s \in Threads : ~Downloading(s)
    BY <1>4 DEF upgrade_success, Downloading
  <2>4. OneDownload'
    BY <2>2, <2>3 DEF OneDownload, Downloading
  <2>5. status' = "downloading" /\ recent' = TRUE /\ overlap' \in BOOLEAN /\ UNCHANGED <<installer, args>>
    BY <1>4 DEF upgrade_success, ServiceType
  <2>6. ServiceType'
    BY <2>2, <2>4, <2>5 DEF ServiceType, NewIsFinal
  <2> QED
    BY <1>4, <2>1, <2>6 DEF upgrade_success
<1> QED
  BY <1>1, <1>2, <1>3, <1>4

\* A thread that goes from one stage of its download to a later one: the others stay
\* where they are, so there is one download after it if there was one before.
LEMMA StageStep ==
    ASSUME ServiceType, NEW t \in Threads, Downloading(t),
           NEW stage \in {"fetch", "check", "ended"}, pc' = [pc EXCEPT ![t] = stage],
           UNCHANGED <<args, overlap>>, installer' \in {"none", "partial", "good", "bad"},
           \/ UNCHANGED <<status, recent>>
           \/ stage = "ended" /\ status' = "new" /\ recent' = TRUE /\ installer' = "good"
    PROVE  ServiceType'
<1>1. pc' \in [Threads -> {"new", "started", "fetch", "check", "ended"}]
  BY DEF ServiceType
<1>2. \A s \in Threads : Downloading(s)' => Downloading(s)
  BY DEF Downloading, ServiceType
<1>3. OneDownload'
  BY <1>2 DEF ServiceType, OneDownload
<1>4. CASE UNCHANGED <<status, recent>>
  <2>1. NewIsFinal'
    BY <1>4 DEF ServiceType, NewIsFinal
  <2> QED
    BY <1>1, <1>3, <1>4, <2>1 DEF ServiceType
<1>5. CASE stage = "ended" /\ status' = "new" /\ recent' = TRUE /\ installer' = "good"
  <2>1. ~Downloading(t)'
    BY <1>5 DEF ServiceType, Downloading
  <2>2. ~overlap' => \A s \in Threads : ~Downloading(s)'
    BY <1>2, <2>1 DEF ServiceType, OneDownload
  <2>3. NewIsFinal'
    BY <1>5, <2>2 DEF NewIsFinal
  <2> QED
    BY <1>1, <1>3, <1>5, <2>3 DEF ServiceType
<1> QED
  BY <1>4, <1>5

LEMMA ThreadStep ==
    ASSUME ServiceType, up \in BOOLEAN, NEW t \in Threads,
           OverwriteArgs(t) \/ parse(t) \/ download(t) \/ verify(t)
    PROVE  ServiceType' /\ up' \in BOOLEAN /\ UNCHANGED <<message, index, page>>
<1>1. CASE OverwriteArgs(t)
  <2>1. args' \in [Threads -> {"good", "lost"}]
    BY <1>1 DEF OverwriteArgs, ServiceType
  <2> QED
    BY <1>1, <2>1 DEF OverwriteArgs, ServiceType, OneDownload, NewIsFinal, Downloading
<1>2. CASE parse(t)
  <2>1. CASE args[t] = "good"
    BY <1>2, <2>1, StageStep DEF parse, Downloading
  <2>2. CASE args[t] # "good"
    BY <1>2, <2>2, DeadThreads DEF parse
  <2> QED
    BY <2>1, <2>2
<1>3. CASE download(t)
  <2>1. CASE installer' \in {"good", "bad"} /\ pc' = [pc EXCEPT ![t] = "check"]
    BY <1>3, <2>1, StageStep DEF download, Downloading
  <2>2. CASE pc' = [pc EXCEPT ![t] = "ended"] /\ UNCHANGED installer
    BY <1>3, <2>2, StageStep DEF download, Downloading, ServiceType
  <2> QED
    BY <1>3, <2>1, <2>2 DEF download
<1>4. CASE verify(t)
  BY <1>4, StageStep DEF verify, Downloading, ServiceType
<1> QED
  BY <1>1, <1>2, <1>3, <1>4

LEMMA UpgradeStep ==
    ASSUME MessageType, PageType, ServiceType, up \in BOOLEAN, Upgrade
    PROVE  MessageType' /\ PageType' /\ ServiceType' /\ up' \in BOOLEAN /\ UNCHANGED index
<1>1. ASSUME NEW b \in BOOLEAN, check_upgrade(b)
      PROVE  MessageType' /\ PageType' /\ ServiceType' /\ up' \in BOOLEAN /\ UNCHANGED index
  <2>1. PageType'
    BY <1>1 DEF check_upgrade, PageType, Hosts
  <2> QED
    BY <1>1, <2>1, Unchanged DEF check_upgrade
<1>2. CASE Answered
  BY <1>2, AnsweredStep, Unchanged
<1>3. CASE show_upgrade_info
  <2>1. PageType'
    BY <1>3 DEF show_upgrade_info, PageType
  <2>2. MessageType'
    BY <1>3 DEF show_upgrade_info, show, MessageType
  <2> QED
    BY <1>3, <2>1, <2>2, Unchanged DEF show_upgrade_info
<1>4. CASE DayPasses
  <2>1. ServiceType'
    BY <1>4 DEF DayPasses, ServiceType, OneDownload, NewIsFinal, Downloading
  <2> QED
    BY <1>4, <2>1, Unchanged DEF DayPasses
<1>5. ASSUME NEW t \in Threads, OverwriteArgs(t) \/ parse(t) \/ download(t) \/ verify(t)
      PROVE  MessageType' /\ PageType' /\ ServiceType' /\ up' \in BOOLEAN /\ UNCHANGED index
  BY <1>5, ThreadStep, Unchanged
<1> QED
  BY <1>1, <1>2, <1>3, <1>4, <1>5 DEF Upgrade

LEMMA StepKeepsInv == DialogsInv /\ [DialogsNext]_dialogsVars => DialogsInv'
<1> SUFFICES ASSUME DialogsInv, [DialogsNext]_dialogsVars PROVE DialogsInv'
  OBVIOUS
<1>1. MessageType /\ IndexType /\ PageType /\ ServiceType /\ up \in BOOLEAN
  BY InvByParts
<1>2. CASE Message
  BY <1>1, <1>2, MessageStep, Unchanged, InvByPartsNext
<1>3. CASE Index
  BY <1>1, <1>3, IndexStep, Unchanged, InvByPartsNext
<1>4. CASE Upgrade
  BY <1>1, <1>4, UpgradeStep, Unchanged, InvByPartsNext
<1>5. CASE ServiceDies
  <2>1. ServiceType' /\ up' \in BOOLEAN /\ UNCHANGED <<message, index, page>>
    BY <1>1, <1>5, DeadThreads DEF ServiceDies
  <2> QED
    BY <1>1, <2>1, Unchanged, InvByPartsNext
<1>6. CASE ServiceStarts
  <2>1. IndexType'
    BY <1>1, <1>6 DEF ServiceStarts, IndexType, RefreshIsOwn
  <2>2. up' \in BOOLEAN /\ UNCHANGED <<message, page, service>>
    BY <1>6 DEF ServiceStarts
  <2> QED
    BY <1>1, <2>1, <2>2, Unchanged, InvByPartsNext
<1>7. CASE UNCHANGED dialogsVars
  BY <1>1, <1>7, Unchanged, InvByPartsNext DEF dialogsVars
<1> QED
  BY <1>2, <1>3, <1>4, <1>5, <1>6, <1>7 DEF DialogsNext

LEMMA DialogsInvariant == DialogsSpec => []DialogsInv
<1> QED
  BY InitInv, StepKeepsInv, PTL DEF DialogsSpec

-----------------------------------------------------------------------------
(* At most one refresh of the index dialog is pending, whatever rescans,    *)
(* refreshes and closings do, a message on the screen is about to go away,  *)
(* and all that the page and the service remember keeps its type.           *)
THEOREM DialogsTypeCorrect == DialogsSpec => []DialogsTypeOK
<1>1. DialogsInv => DialogsTypeOK
  BY DEF DialogsInv
<1> QED
  BY <1>1, DialogsInvariant, PTL

(* A status file that says there is a new version names an installer whose  *)
(* hash download_t has compared, for any number of downloads one after      *)
(* another, overwritten arguments and deaths of the service.                *)
THEOREM NewStaysVerified == DialogsSpec => []NewIsVerified
<1>1. DialogsInv => NewIsVerified
  BY DEF DialogsInv, NewIsFinal, NewIsVerified
<1> QED
  BY <1>1, DialogsInvariant, PTL
===============================================================================
