------------------------------ MODULE FormUpload ------------------------------
(***************************************************************************)
(* jquery.form.js: ajaxForm, ajaxSubmit and its fileUpload, which submits  *)
(* a form into an iframe and makes a request out of what happens there.    *)
(* Four things end an upload: the load event of the iframe, the timeout,   *)
(* checkState meeting a document it may not read, and a call of abort by   *)
(* the page, which has the mock xhr from beforeSend on.  Callbacks may     *)
(* throw, which skips the rest of the function that called them.           *)
(*                                                                         *)
(* A submit that a handler vetoes, or that needs no iframe and goes to     *)
(* $.ajax, leaves no state here.                                           *)
(***************************************************************************)
EXTENDS Naturals, FiniteSets

CONSTANTS
    Uploads,       \* calls of fileUpload
    Fields,        \* named elements of the form
    Buttons,       \* its submit elements
    MaxDomChecks   \* the bound domCheckCount starts from (50 in the code)

ASSUME UploadAssumption ==
    IsFiniteSet(Uploads) /\ Fields \cap Buttons = {} /\ MaxDomChecks \in Nat \ {0}

NoButton == "none"

VARIABLES
    up_jq_active,  \* $.active
    clk,           \* form.clk, the submit element last clicked
    clk_timer,     \* the timer that clears it is pending
    enabled,       \* elements that are not disabled
    checked,       \* elements that are checked, selected or filled
    u              \* of each upload, see UploadRecord

uploadVars == <<up_jq_active, clk, clk_timer, enabled, checked, u>>

UploadRecord ==
    [phase   : {"new", "keepalive", "waiting", "sent", "vetoed", "dropped"},
     frame   : {"blank", "answer", "unreadable"},  \* the iframe's document
     aborted : BOOLEAN, callbackProcessed : BOOLEAN, timedOut : BOOLEAN,
     timeout : BOOLEAN,           \* timeoutHandle is pending
     check   : BOOLEAN,           \* a checkState is pending
     listening : BOOLEAN,         \* cb listens to load
     requeued  : BOOLEAN,         \* cb will be called again (Opera)
     domCheckCount : 0..MaxDomChecks,
     data    : SUBSET (Fields \cup Buttons),   \* what ajaxSubmit serialized
     clicked : Buttons \cup {NoButton},        \* form.clk then
     extra   : Buttons \cup {NoButton},        \* the submit element in extraData
     success : 0..1, error : 0..3, complete : 0..3,  \* calls of the callbacks
     threw   : SUBSET {"outcome", "complete", "abort"},
                                  \* history: the callbacks that threw
     user    : BOOLEAN]           \* history: the page called abort

New ==
    [phase |-> "new", frame |-> "blank", aborted |-> FALSE, callbackProcessed |-> FALSE,
     timedOut |-> FALSE, timeout |-> FALSE, check |-> FALSE, listening |-> FALSE,
     requeued |-> FALSE, domCheckCount |-> MaxDomChecks, data |-> {}, clicked |-> NoButton,
     extra |-> NoButton, success |-> 0, error |-> 0, complete |-> 0,
     threw |-> {}, user |-> FALSE]

UploadInit ==
    /\ up_jq_active = 0
    /\ clk = NoButton /\ clk_timer = FALSE
    /\ enabled = Fields \cup Buttons
    /\ checked \in SUBSET Fields
    /\ u = [i \in Uploads |-> New]

-----------------------------------------------------------------------------
\* The form.

\* fieldValue with successful = TRUE: named, enabled, and checked or selected
\* where that applies; of the submit elements the one that was clicked.
fieldValue(el) ==
    /\ el \in enabled
    /\ el \in Buttons => el = clk
    /\ el \in Fields => el \in checked

formToArray == {el \in Fields \cup Buttons : fieldValue(el)}

\* clk is cleared 100 ms after a click on a submit element.
click(b) ==
    /\ b \in enabled
    /\ clk' = b
    /\ clk_timer' = TRUE
    /\ UNCHANGED <<up_jq_active, enabled, checked, u>>

clear_clk ==
    /\ clk_timer
    /\ clk' = NoButton
    /\ clk_timer' = FALSE
    /\ UNCHANGED <<up_jq_active, enabled, checked, u>>

\* selected and enable for one element, called by the page; clearForm and
\* resetForm do it for several in one go.
change_field(el) ==
    /\ \/ checked' = (checked \ {el}) \cup ({el} \ checked) /\ UNCHANGED enabled
       \/ enabled' = (enabled \ {el}) \cup ({el} \ enabled) /\ UNCHANGED checked
    /\ UNCHANGED <<up_jq_active, clk, clk_timer, u>>

-----------------------------------------------------------------------------
\* fileUpload.

\* abort of the mock xhr: no condition, and nothing counts the upload off.  An
\* error callback that throws keeps complete from being called.
Aborted(r) ==
    LET told == [r EXCEPT !.aborted = TRUE, !.frame = "blank", !.error = r.error + 1]
    IN  {[told EXCEPT !.complete = r.complete + 1],
         [told EXCEPT !.threw = r.threw \cup {"abort"}]}

\* The submit element goes into the data the iframe's form gets.
Extra(r) == [r EXCEPT !.extra = IF clk \in enabled THEN clk ELSE NoButton]

\* fileUpload up to doSubmit.  A form with an input named submit is not sent;
\* beforeSend may refuse, which counts the upload off, or call abort, which does
\* not, or do both.
fileUpload(i, r) ==
    /\ enabled' = enabled \cup r.data
    /\ \/ /\ u' = [u EXCEPT ![i] = [Extra(r) EXCEPT !.phase = "waiting"]]
          /\ up_jq_active' = up_jq_active + 1
       \/ /\ u' = [u EXCEPT ![i] = [r EXCEPT !.phase = "vetoed"]]
          /\ UNCHANGED up_jq_active
       \/ \E a \in Aborted(r), refuses \in BOOLEAN :
            /\ u' = [u EXCEPT ![i] = [a EXCEPT !.phase = IF refuses THEN "vetoed" ELSE "dropped",
                                               !.user = TRUE]]
            /\ up_jq_active' = IF refuses THEN up_jq_active ELSE up_jq_active + 1
    /\ UNCHANGED <<clk, clk_timer, checked>>

Serialized(i) == [u[i] EXCEPT !.data = formToArray, !.clicked = clk]

\* ajaxSubmit: at once, or after a request that closes the connection.
ajaxSubmit(i) == u[i].phase = "new" /\ fileUpload(i, Serialized(i))

ajaxSubmit_keepalive(i) ==
    /\ u[i].phase = "new"
    /\ u' = [u EXCEPT ![i] = [Serialized(i) EXCEPT !.phase = "keepalive"]]
    /\ UNCHANGED <<up_jq_active, clk, clk_timer, enabled, checked>>

keepalive_closed(i) == u[i].phase = "keepalive" /\ fileUpload(i, u[i])

\* 10 ms later, or at once (forceSync): timeout, iframe, listener, checkState,
\* submit.  An upload aborted in between is submitted all the same.  The load event
\* of an iframe of the page (iframeTarget) is not listened to.
doSubmit(i) ==
    /\ u[i].phase = "waiting"
    /\ \E listens \in BOOLEAN :
         u' = [u EXCEPT ![i].phase = "sent", ![i].timeout = TRUE,
                        ![i].check = TRUE, ![i].listening = listens]
    /\ UNCHANGED <<up_jq_active, clk, clk_timer, enabled, checked>>

abort(i) ==
    /\ u[i].phase \in {"waiting", "sent"} /\ ~u[i].user
    /\ \E a \in Aborted(u[i]) : u' = [u EXCEPT ![i] = [a EXCEPT !.user = TRUE]]
    /\ UNCHANGED <<up_jq_active, clk, clk_timer, enabled, checked>>

-----------------------------------------------------------------------------
\* cb.

\* (Mutant) cb does not ask whether the upload has been aborted
OverUnlessAborted(r) == r.callbackProcessed

\* The early return of cb.
Over(r) == r.aborted \/ r.callbackProcessed

CountedOff(r) == up_jq_active - 1

\* What cb does with a document that has the answer: the callback of the
\* outcome, the global events, the count, complete; a callback that throws
\* ends it.
Ended(r, outcome, throws) ==
    LET told == [r EXCEPT !.listening = FALSE, !.requeued = FALSE,
                          !.success = IF outcome = "success" THEN 1 ELSE 0,
                          !.error   = IF outcome = "error" THEN r.error + 1 ELSE r.error]
    IN  CASE throws = "outcome"  -> [told EXCEPT !.threw = @ \cup {throws}]
          [] throws = "complete" -> [told EXCEPT !.threw = @ \cup {throws},
                                                 !.complete = r.complete + 1]
          [] OTHER -> [told EXCEPT !.complete = r.complete + 1, !.callbackProcessed = TRUE,
                                   !.timeout = FALSE]

\* A document the DOM of which is not there yet is looked at again; when the
\* count reaches zero it is taken as it is.
Requeued(r) ==
    [r EXCEPT !.listening = FALSE, !.requeued = TRUE, !.domCheckCount = r.domCheckCount - 1]

\* cb on an answer.
cb(i, r) ==
    IF Over(r)
    THEN u' = [u EXCEPT ![i] = [r EXCEPT !.requeued = FALSE]] /\ UNCHANGED up_jq_active
    ELSE \/ r.frame = "unreadable"
            /\ \E a \in Aborted(r) : u' = [u EXCEPT ![i] = [a EXCEPT !.requeued = FALSE]]
            /\ UNCHANGED up_jq_active
         \/ r.frame = "blank"
            /\ u' = [u EXCEPT ![i] = [r EXCEPT !.requeued = FALSE]]
            /\ UNCHANGED up_jq_active
         \/ r.frame = "answer" /\ r.domCheckCount > 1
            /\ u' = [u EXCEPT ![i] = Requeued(r)]
            /\ UNCHANGED up_jq_active
         \/ /\ r.frame = "answer"
            /\ \E outcome \in {"success", "error"}, throws \in {"none", "outcome", "complete"} :
                 /\ u' = [u EXCEPT ![i] = Ended(r, outcome, throws)]
                 /\ up_jq_active' = IF throws = "outcome" THEN up_jq_active ELSE CountedOff(r)

\* The load event: of about:blank, when the iframe is put in the page or goes
\* back to it, or of an answer.
load(i) ==
    /\ u[i].phase = "sent" /\ u[i].listening
    /\ \E f \in {"blank", "answer", "unreadable"} :
         /\ f = "blank" \/ (u[i].frame = "blank" /\ ~u[i].aborted)
         /\ u[i].frame # "blank" => f = u[i].frame
         /\ cb(i, [u[i] EXCEPT !.frame = f])
    /\ UNCHANGED <<clk, clk_timer, enabled, checked>>

cb_again(i) ==
    /\ u[i].requeued
    /\ cb(i, u[i])
    /\ UNCHANGED <<clk, clk_timer, enabled, checked>>

\* (Mutant) the timeout is noted, and nothing is aborted
TimeoutNoted(i) ==
    /\ u[i].timeout
    /\ u' = [u EXCEPT ![i].timeout = FALSE, ![i].timedOut = TRUE]
    /\ UNCHANGED <<up_jq_active, clk, clk_timer, enabled, checked>>

\* The timeout: cb aborts, whether the document can be read or not.
timeout(i) ==
    /\ u[i].timeout
    /\ LET r == [u[i] EXCEPT !.timeout = FALSE, !.timedOut = TRUE] IN
       \E a \in IF Over(r) THEN {r} ELSE Aborted(r) : u' = [u EXCEPT ![i] = a]
    /\ UNCHANGED <<up_jq_active, clk, clk_timer, enabled, checked>>

\* checkState looks again while the document is uninitialized, and ends the
\* upload when it may not be read.
checkState(i) ==
    /\ u[i].check
    /\ \/ u[i].frame # "unreadable"
          /\ \E again \in BOOLEAN : u' = [u EXCEPT ![i].check = again /\ u[i].frame = "blank"]
       \/ ~u[i].aborted /\ u[i].frame # "answer"
          /\ LET r == [u[i] EXCEPT !.check = FALSE, !.timeout = FALSE, !.frame = "unreadable"] IN
             \E a \in IF Over(u[i]) THEN {r} ELSE Aborted(r) : u' = [u EXCEPT ![i] = a]
    /\ UNCHANGED <<up_jq_active, clk, clk_timer, enabled, checked>>

UploadNext ==
    \/ \E b \in Buttons : click(b)
    \/ clear_clk
    \/ \E el \in Fields : change_field(el)
    \/ \E i \in Uploads :
         \/ ajaxSubmit(i) \/ ajaxSubmit_keepalive(i) \/ keepalive_closed(i)
         \/ doSubmit(i) \/ abort(i)
         \/ load(i) \/ cb_again(i) \/ timeout(i) \/ checkState(i)

\* Timers fire.
UploadFairness ==
    \A i \in Uploads : WF_uploadVars(doSubmit(i)) /\ WF_uploadVars(timeout(i))

UploadSpec == UploadInit /\ [][UploadNext]_uploadVars /\ UploadFairness

-----------------------------------------------------------------------------
UploadTypeOK ==
    /\ up_jq_active \in 0..Cardinality(Uploads)
    /\ clk \in Buttons \cup {NoButton} /\ clk_timer \in BOOLEAN
    /\ enabled \subseteq Fields \cup Buttons /\ checked \subseteq Fields
    /\ u \in [Uploads -> UploadRecord]

\* An upload the page does not abort calls complete once at most: the answer,
\* the timeout, checkState and a requeued cb never end it twice, also when the
\* callback of the outcome throws before callbackProcessed is set.  (A complete
\* that throws is called again by the timeout.)
CompleteOnce ==
    \A i \in Uploads :
        (~u[i].user /\ "complete" \notin u[i].threw) => u[i].complete <= 1

\* A submitted upload with a timeout calls complete in the end, whether the
\* server answers, fails or is silent, and even if the callback of the outcome
\* threw; only an error callback that throws in abort keeps it from that.
UploadEnds ==
    \A i \in Uploads : (u[i].phase = "sent") ~> (u[i].complete > 0 \/ "abort" \in u[i].threw)
===============================================================================
