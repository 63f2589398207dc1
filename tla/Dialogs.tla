-------------------------------- MODULE Dialogs --------------------------------
(***************************************************************************)
(* What the page shows beside the files, disk.js and message.js, with the  *)
(* part of the service behind it: the message area, the index status       *)
(* dialog, the scanning picture, and the upgrade: the request to the web   *)
(* hosts, the status file of the service and the thread that downloads.    *)
(*                                                                         *)
(* The page is one thread; downloads, the scans and the hosts run beside   *)
(* it.  The thread download_t reads its arguments from the frame of        *)
(* process, which has returned, so any later request may overwrite them.   *)
(***************************************************************************)
EXTENDS Naturals, FiniteSets

CONSTANTS
    Drives,      \* attached drives
    Threads,     \* download threads that may ever run
    MaxChecks,   \* bound on the upgrade checks of the user
    MaxRescans   \* bound on the rescans the user asks for

ASSUME DialogsAssumption ==
    /\ IsFiniteSet(Drives) /\ IsFiniteSet(Threads)
    /\ MaxChecks \in Nat /\ MaxRescans \in Nat

VARIABLES
    \* message.js
    msg, message_timeout, fading,
    \* the index status dialog and the scanning picture
    done,            \* drives whose index is loaded, as the service reports
    dialog, shown,   \* whether the dialog is open, and the done drives it shows
    refresh_timeout, \* [n, own]: pending refreash_index_status timers
    del_timeout,     \* the deletion of an offline index is pending
    polling, scanning,
    asked, rescans,
    \* the upgrade
    mannual, requests, info_timeout, checks,
    status, recent,  \* the status file, and whether it is younger than a day
    installer,       \* the downloaded file: "none", "partial", "good", "bad"
    pc, args,        \* of each download thread
    up,              \* whether the service runs
    overlap          \* history variable: two downloads have run at once

message     == <<msg, message_timeout, fading>>
index       == <<done, dialog, shown, refresh_timeout, del_timeout, polling, scanning, asked, rescans>>
page        == <<mannual, requests, info_timeout, checks>>
service     == <<status, recent, installer, pc, args, overlap>>
dialogsVars == <<message, index, page, service, up>>

-----------------------------------------------------------------------------
\* The message area.  show_info and show_error clear the pending hide_message;
\* a fade that has begun goes on under the new message.

show(kind) == msg' = kind /\ message_timeout' = TRUE

\* The outcome of a command, of setting the hotkey and of an export.
info_or_error == \E kind \in {"info", "error"} : show(kind)

set_hotkey == \E kind \in {"info", "error"} : show(kind)

do_export == show("info")

command_message ==
    /\ info_or_error \/ set_hotkey \/ do_export
    /\ UNCHANGED <<fading, index, page, service, up>>

hide_message ==
    /\ message_timeout
    /\ message_timeout' = FALSE
    /\ fading' = TRUE
    /\ UNCHANGED <<msg, index, page, service, up>>

fade_end ==
    /\ fading
    /\ fading' = FALSE
    /\ msg' = "none"
    /\ UNCHANGED <<message_timeout, index, page, service, up>>

-----------------------------------------------------------------------------
\* The index status dialog.  Every picture is one request for the state of
\* the service; when the service is down the eval of the answer throws.

todo_dirves == Drives \ done

is_scan_finished == todo_dirves = {}

show_index_status == dialog' = TRUE /\ shown' = done

index_button ==
    /\ up /\ ~dialog
    /\ show_index_status
    /\ asked' = FALSE
    /\ UNCHANGED <<message, done, refresh_timeout, del_timeout, polling, scanning, rescans,
                   page, service, up>>

close_dialog ==
    /\ dialog
    /\ dialog' = FALSE
    /\ asked' = FALSE
    /\ UNCHANGED <<message, done, shown, refresh_timeout, del_timeout, polling, scanning,
                   rescans, page, service, up>>

\* (Mutant) the refresh already pending is left pending
ArmSecondRefresh == [n |-> refresh_timeout.n + 1, own |-> TRUE]

\* rescan arms the refresh after clearing the one its handle names.
arm_refresh ==
    [n |-> IF refresh_timeout.own THEN refresh_timeout.n ELSE refresh_timeout.n + 1,
     own |-> TRUE]

\* The rescan icon of a drive: a spinner, the command, and a refresh later.
rescan(d) ==
    /\ up /\ dialog /\ rescans < MaxRescans
    /\ done' = done \ {d}
    /\ shown' = shown \ {d}
    /\ refresh_timeout' = arm_refresh
    /\ asked' = TRUE
    /\ rescans' = rescans + 1
    /\ UNCHANGED <<message, dialog, del_timeout, polling, scanning, page, service, up>>

\* (Mutant) the refresh does not arm itself again
RefreshOnce ==
    /\ refresh_timeout.n > 0
    /\ IF dialog /\ up THEN show_index_status ELSE UNCHANGED <<dialog, shown>>
    /\ refresh_timeout' = [n |-> refresh_timeout.n - 1, own |-> FALSE]
    /\ UNCHANGED <<message, done, del_timeout, polling, scanning, asked, rescans, page, service, up>>

\* The refresh draws the dialog again and arms itself while the dialog is
\* open.
refreash_index_status ==
    /\ refresh_timeout.n > 0
    /\ IF dialog /\ up
       THEN /\ show_index_status
            /\ refresh_timeout' = [n |-> refresh_timeout.n, own |-> TRUE]
       ELSE /\ refresh_timeout' = [n |-> refresh_timeout.n - 1,
                                   own |-> refresh_timeout.own /\ refresh_timeout.n > 1]
            /\ UNCHANGED <<dialog, shown>>
    /\ UNCHANGED <<message, done, del_timeout, polling, scanning, asked, rescans, page, service, up>>

\* The delete icon of an offline index: the command is sent a little later,
\* and the dialog is closed and opened, also when the user has closed it since.
\* A service that does not answer leaves it closed.
del_offline_db ==
    /\ up /\ dialog /\ ~del_timeout
    /\ del_timeout' = TRUE
    /\ UNCHANGED <<message, done, dialog, shown, refresh_timeout, polling, scanning,
                   asked, rescans, page, service, up>>

rescan0 ==
    /\ del_timeout
    /\ del_timeout' = FALSE
    /\ IF up THEN show_index_status ELSE dialog' = FALSE /\ UNCHANGED shown
    /\ asked' = (asked /\ up)
    /\ UNCHANGED <<message, done, refresh_timeout, polling, scanning, rescans,
                   page, service, up>>

\* The scanning picture is shown while drives are missing, asked every five
\* seconds from the start of the page on.
scan_img ==
    /\ polling /\ up
    /\ scanning' = ~is_scan_finished
    /\ polling' = ~is_scan_finished
    /\ UNCHANGED <<message, done, dialog, shown, refresh_timeout, del_timeout, asked, rescans,
                   page, service, up>>

\* scan_img throws when the service does not answer, and is not armed again.
scan_img_error ==
    /\ polling /\ ~up
    /\ polling' = FALSE
    /\ UNCHANGED <<message, done, dialog, shown, refresh_timeout, del_timeout, scanning, asked,
                   rescans, page, service, up>>

\* The service finishes the scan of a drive.
ScanDone(d) ==
    /\ up
    /\ done' = done \cup {d}
    /\ UNCHANGED <<message, dialog, shown, refresh_timeout, del_timeout, polling, scanning,
                   asked, rescans, page, service, up>>

-----------------------------------------------------------------------------
\* The upgrade, in the page.

\* (Mutant) the age of the file is not looked at
StatusWithoutAge == status

\* The state the service reports: after a day the file no longer counts.
get_update_status == IF recent THEN status ELSE "unknown"

\* check_upgrade asks the main host when the user wants it or nothing is known.
\* With a new version it calls show_upgrade, which throws: it names a variable
\* host that does not exist.
check_upgrade(by_hand) ==
    /\ up /\ checks < MaxChecks
    /\ checks' = checks + 1
    /\ mannual' = by_hand
    /\ requests' = IF by_hand \/ get_update_status = "unknown"
                   THEN [requests EXCEPT !["main"] = @ + 1] ELSE requests
    /\ UNCHANGED <<message, index, info_timeout, service, up>>

\* The host answers that there is a new version: the page hands the address
\* to the service, which starts a thread for it.
upgrade_success(h, t) ==
    /\ requests[h] > 0 /\ up /\ pc[t] = "new"
    /\ requests' = [requests EXCEPT ![h] = @ - 1]
    /\ info_timeout' = info_timeout + 1
    /\ status' = "downloading" /\ recent' = TRUE
    /\ pc' = [pc EXCEPT ![t] = "started"]
    /\ overlap' = (overlap \/ \E s \in Threads : pc[s] \in {"started", "fetch", "check"})
    /\ UNCHANGED <<message, index, mannual, checks, installer, args, up>>

\* The host answers that there is none.
upgrade_none(h) ==
    /\ requests[h] > 0 /\ up
    /\ requests' = [requests EXCEPT ![h] = @ - 1]
    /\ info_timeout' = info_timeout + 1
    /\ status' = "done" /\ recent' = TRUE
    /\ UNCHANGED <<message, index, mannual, checks, installer, pc, args, overlap, up>>

\* The host does not answer: the backup is asked once.
upgrade_error(h) ==
    /\ requests[h] > 0
    /\ requests' = IF h = "main" THEN [requests EXCEPT !["main"] = @ - 1, !["backup"] = @ + 1]
                   ELSE [requests EXCEPT ![h] = @ - 1]
    /\ UNCHANGED <<message, index, mannual, info_timeout, checks, service, up>>

show_upgrade_info ==
    /\ info_timeout > 0
    /\ info_timeout' = info_timeout - 1
    /\ IF mannual THEN show("info") ELSE UNCHANGED <<msg, message_timeout>>
    /\ UNCHANGED <<fading, index, mannual, requests, checks, service, up>>

-----------------------------------------------------------------------------
\* The upgrade, in the service: download_t.

Dead == [t \in Threads |-> IF pc[t] = "new" THEN "new" ELSE "ended"]

\* A request reuses the stack that the arguments of the threads point into.
OverwriteArgs(t) ==
    /\ up /\ pc[t] \in {"started", "fetch"} /\ args[t] = "good"
    /\ args' = [args EXCEPT ![t] = "lost"]
    /\ UNCHANGED <<message, index, page, status, recent, installer, pc, overlap, up>>

\* The address is cut into its parts; without a '?' this writes through NULL.
parse(t) ==
    /\ up /\ pc[t] = "started"
    /\ IF args[t] = "good"
       THEN /\ pc' = [pc EXCEPT ![t] = "fetch"]
            /\ installer' = "partial"
            /\ UNCHANGED up
       ELSE /\ pc' = Dead
            /\ up' = FALSE
            /\ UNCHANGED installer
    /\ UNCHANGED <<message, index, page, status, recent, args, overlap>>

\* URLDownloadToFile ends: with the file, with a damaged one, or it fails.
download(t) ==
    /\ up /\ pc[t] = "fetch"
    /\ \/ /\ installer' \in {"good", "bad"}
          /\ pc' = [pc EXCEPT ![t] = "check"]
       \/ /\ pc' = [pc EXCEPT ![t] = "ended"]
          /\ UNCHANGED installer
    /\ UNCHANGED <<message, index, page, status, recent, args, overlap, up>>

\* (Mutant) the hash is computed and not compared
VerifyNothing(t) ==
    /\ up /\ pc[t] = "check"
    /\ pc' = [pc EXCEPT ![t] = "ended"]
    /\ status' = "new" /\ recent' = TRUE
    /\ UNCHANGED <<message, index, page, installer, args, overlap, up>>

\* The file is new only if its hash is the one the host named; in every other
\* case the status file is left as it is.
verify(t) ==
    /\ up /\ pc[t] = "check"
    /\ pc' = [pc EXCEPT ![t] = "ended"]
    /\ IF args[t] = "good" /\ installer = "good"
       THEN status' = "new" /\ recent' = TRUE
       ELSE UNCHANGED <<status, recent>>
    /\ UNCHANGED <<message, index, page, installer, args, overlap, up>>

DayPasses ==
    /\ recent
    /\ recent' = FALSE
    /\ UNCHANGED <<message, index, page, status, installer, pc, args, overlap, up>>

ServiceDies ==
    /\ up
    /\ up' = FALSE
    /\ pc' = Dead
    /\ UNCHANGED <<message, index, page, status, recent, installer, args, overlap>>

\* The page starts the service again (SearchPage); it scans again.
ServiceStarts ==
    /\ ~up
    /\ up' = TRUE
    /\ done' = {}
    /\ UNCHANGED <<message, dialog, shown, refresh_timeout, del_timeout, polling, scanning,
                   asked, rescans, page, service>>

-----------------------------------------------------------------------------
Hosts == {"main", "backup"}

DialogsInit ==
    /\ msg = "none" /\ message_timeout = FALSE /\ fading = FALSE
    /\ done \in SUBSET Drives
    /\ dialog = FALSE /\ shown = {}
    /\ refresh_timeout = [n |-> 0, own |-> FALSE] /\ del_timeout = FALSE
    /\ polling = TRUE /\ scanning = FALSE /\ asked = FALSE /\ rescans = 0
    /\ mannual = FALSE /\ requests = [h \in Hosts |-> 0]
    /\ info_timeout = 0 /\ checks = 0
    /\ status = "unknown" /\ recent = FALSE /\ installer = "none"
    /\ pc = [t \in Threads |-> "new"] /\ args = [t \in Threads |-> "good"]
    /\ up = TRUE /\ overlap = FALSE

Message == command_message \/ hide_message \/ fade_end

Index ==
    \/ index_button \/ close_dialog \/ refreash_index_status
    \/ scan_img \/ scan_img_error \/ del_offline_db \/ rescan0
    \/ \E d \in Drives : rescan(d) \/ ScanDone(d)

Answered ==
    \E h \in Hosts : \/ upgrade_none(h) \/ upgrade_error(h)
                     \/ \E t \in Threads : upgrade_success(h, t)

Upgrade ==
    \/ \E b \in BOOLEAN : check_upgrade(b)
    \/ Answered \/ show_upgrade_info \/ DayPasses
    \/ \E t \in Threads : OverwriteArgs(t) \/ parse(t) \/ download(t) \/ verify(t)

DialogsNext == Message \/ Index \/ Upgrade \/ ServiceDies \/ ServiceStarts

\* Timers fire, a host answers or the request fails, scans end, and days pass.
DialogsFairness ==
    /\ WF_dialogsVars(Answered) /\ WF_dialogsVars(DayPasses)
    /\ WF_dialogsVars(scan_img) /\ WF_dialogsVars(scan_img_error)
    /\ WF_dialogsVars(refreash_index_status)
    /\ \A d \in Drives : WF_dialogsVars(ScanDone(d))

DialogsSpec == DialogsInit /\ [][DialogsNext]_dialogsVars /\ DialogsFairness

-----------------------------------------------------------------------------
DialogsTypeOK ==
    /\ msg \in {"none", "info", "error"}
    /\ msg # "none" => message_timeout \/ fading
    /\ done \subseteq Drives /\ shown \subseteq Drives
    /\ refresh_timeout \in [n : 0..1, own : BOOLEAN]
    /\ requests \in [Hosts -> Nat] /\ info_timeout \in Nat
    /\ status \in {"unknown", "done", "new", "downloading"}
    /\ installer \in {"none", "partial", "good", "bad"}
    /\ pc \in [Threads -> {"new", "started", "fetch", "check", "ended"}]
    /\ args \in [Threads -> {"good", "lost"}]
    /\ {message_timeout, fading, dialog, del_timeout, polling, scanning, asked, mannual, recent,
        up, overlap} \subseteq BOOLEAN

\* A status file that says there is a new version names an installer with the
\* right hash, as long as downloads do not run at the same time.
NewIsVerified == (status = "new" /\ ~overlap) => installer = "good"

\* A download that failed, was damaged or lost its arguments leaves the status
\* at "downloading"; it does not stay what the page is told.
FailedDownloadIsForgotten ==
    (\A t \in Threads : pc[t] \in {"new", "ended"}) /\ status = "downloading"
        ~> get_update_status # "downloading"

\* A rescan asked for in the dialog is seen to end there, unless the dialog is
\* closed or the service stops answering.
RescanIsShown ==
    (asked /\ dialog /\ refresh_timeout.n > 0) ~> (~asked \/ Drives \subseteq shown \/ ~up)
===============================================================================
