------------------------------ MODULE AjaxRequest ------------------------------
(***************************************************************************)
(* The requests of prototype.js (Ajax.Request, Ajax.Responders) and the    *)
(* two clients of them in the same file that keep state of their own:      *)
(* Ajax.Updater, which is a request whose onComplete first writes the      *)
(* answer into a container, and Ajax.PeriodicalUpdater, which sends one    *)
(* updater after another.                                                  *)
(*                                                                         *)
(* The script is one thread.  The transport, the timers and the caller     *)
(* take turns.  Callbacks given by the caller may throw; what a throw      *)
(* skips is decided by the try block it happens in.                        *)
(***************************************************************************)
EXTENDS Naturals, FiniteSets

CONSTANTS
    Plain,       \* requests of the caller that may be alive at once
    Polls,       \* updaters of the PeriodicalUpdater that may be alive at once
    Answers,     \* texts the server may answer to a poll
    MaxDecay     \* bound on the number of times decay is multiplied

ASSUME AjaxAssumption ==
    IsFiniteSet(Plain) /\ IsFiniteSet(Polls) /\ Plain \cap Polls = {} /\ MaxDecay \in Nat

None == "none"

Requests == Plain \cup Polls

VARIABLES
    rq,                  \* the Ajax.Request objects, see RequestRecord
    activeRequestCount,  \* Ajax.activeRequestCount
    polling,             \* PeriodicalUpdater: started and not stopped
    updater,             \* its last Ajax.Updater
    poll_timer,          \* pending onTimerEvent timers
    decay, lastText,
    container,           \* the element its updaters write to
    poll_threw,          \* history: a throw has ended the polls since the last start
    stop_missed          \* history: the last stop came from a callback of the poll

pollVars == <<polling, updater, poll_timer, decay, lastText, container, poll_threw, stop_missed>>
ajaxVars == <<rq, activeRequestCount, pollVars>>

RequestRecord ==
    [readyState : 0..4,
     state      : {"none", "sent", "broken"},  \* broken: a throw left it unanswered
     _complete  : BOOLEAN,
     deferred   : BOOLEAN,   \* the call of respondToReadyState(1) is pending
     hooked     : BOOLEAN,   \* options.onComplete is defined
     counted    : BOOLEAN]   \* history: onCreate seen by the responders, onComplete not

NoRequest ==
    [readyState |-> 0, state |-> "none", _complete |-> FALSE,
     deferred |-> FALSE, hooked |-> FALSE, counted |-> FALSE]

Outstanding == {r \in Requests : rq[r].state = "sent" /\ ~rq[r]._complete}

\* Finished requests that the count still holds.
Leaked == {r \in Requests : rq[r].counted} \ Outstanding

\* The updaters that will still write and arm a timer.
LivePolls ==
    {r \in Outstanding \cap Polls : rq[r].hooked}

AjaxInit ==
    /\ rq = [r \in Requests |-> NoRequest]
    /\ activeRequestCount = 0
    /\ polling = FALSE /\ updater = None /\ poll_timer = 0
    /\ decay = 0 /\ lastText = None /\ container = None
    /\ poll_threw = FALSE /\ stop_missed = FALSE

-----------------------------------------------------------------------------
\* request(): onCreate, open, the deferred call, send.

Sent ==
    [NoRequest EXCEPT !.readyState = 1, !.state = "sent",
                      !.deferred = TRUE, !.hooked = TRUE, !.counted = TRUE]

request(r) ==
    /\ rq[r].state = "none"
    /\ rq' = [rq EXCEPT ![r] = Sent]
    /\ activeRequestCount' = activeRequestCount + 1
    /\ UNCHANGED pollVars

\* One try block encloses options.onCreate, the responders, open, send and,
\* for a synchronous request, the answer; what was done before the throw
\* stays done.
breaks(r) ==
    \E at \in {"onCreate", "open", "send", "answer"} :
      /\ rq' = [rq EXCEPT ![r] =
                  [NoRequest EXCEPT !.state = "broken",
                                    !.counted = at # "onCreate",
                                    !.readyState = IF at = "send" THEN 1
                                                   ELSE IF at = "answer" THEN 4 ELSE 0,
                                    !.deferred = at = "send"]]
      /\ activeRequestCount' =
           IF at = "onCreate" THEN activeRequestCount ELSE activeRequestCount + 1

request_throws(r) ==
    /\ rq[r].state = "none"
    /\ breaks(r)
    /\ UNCHANGED pollVars

\* dispatch('onComplete') to the responder that counts.
Uncount(count) == count - 1

\* (Mutant) a state change is answered even when the request has completed
HeedsAlways(q) == q.readyState > 1

\* The condition of onStateChange.
Heeds(q) == q.readyState > 1 /\ ~(q.readyState = 4 /\ q._complete)

\* respondToReadyState(4).  onSuccess, onFailure and evalResponse have try
\* blocks of their own, and what they throw ends there unless onException
\* throws as well; onComplete shares one with the dispatch, which a throw
\* of either kind skips.
Completed(q, throws) ==
    [q EXCEPT !._complete = TRUE, !.counted = q.counted /\ throws]

\* A synchronous request: send reaches readyState 4, the browser may have
\* called onStateChange, and request() calls it (again) where the transport
\* has overrideMimeType.  At least one of the two happens.
request_sync(r) ==
    /\ rq[r].state = "none"
    /\ \E throws, fired, forced \in BOOLEAN :
         LET q0 == [Sent EXCEPT !.readyState = 4, !.deferred = FALSE]
             q1 == IF fired /\ Heeds(q0) THEN Completed(q0, throws) ELSE q0
             again == forced /\ Heeds(q1)
             q2 == IF again THEN Completed(q1, throws) ELSE q1
             n0 == activeRequestCount + 1
             n1 == IF fired /\ ~throws THEN Uncount(n0) ELSE n0
         IN  /\ fired \/ forced
             /\ rq' = [rq EXCEPT ![r] = q2]
             /\ activeRequestCount' = IF again /\ ~throws THEN Uncount(n1) ELSE n1
    /\ UNCHANGED pollVars

\* The deferred respondToReadyState(1): onLoading, whatever happened since.
deferred_loading(r) ==
    /\ rq[r].deferred
    /\ rq' = [rq EXCEPT ![r].deferred = FALSE]
    /\ UNCHANGED <<activeRequestCount, pollVars>>

\* readyState 2 and 3: onLoaded and onInteractive.
onStateChange(r) ==
    /\ r \in Outstanding /\ rq[r].readyState < 3
    /\ rq' = [rq EXCEPT ![r].readyState = @ + 1]
    /\ UNCHANGED <<activeRequestCount, pollVars>>

\* readyState 4 of a request without an updater.
onComplete(r) ==
    /\ rq[r].state = "sent" /\ rq[r].readyState < 4
    /\ \E throws \in BOOLEAN :
         LET q == [rq[r] EXCEPT !.readyState = 4] IN
         /\ Heeds(q)
         /\ rq' = [rq EXCEPT ![r] = Completed(q, throws)]
         /\ activeRequestCount' =
              IF throws THEN activeRequestCount ELSE Uncount(activeRequestCount)
    /\ UNCHANGED pollVars

\* readyState 4 of an answer whose X-JSON header cannot be decoded: the
\* Ajax.Response throws before _complete is set.
no_response(r) ==
    /\ rq[r].state = "sent" /\ rq[r].readyState < 4
    /\ rq' = [rq EXCEPT ![r].state = "broken", ![r].readyState = 4]
    /\ poll_threw' = (poll_threw \/ r \in LivePolls)
    /\ UNCHANGED <<activeRequestCount, polling, updater, poll_timer, decay, lastText,
                   container, stop_missed>>

\* The script drops its last reference; a leaked request is kept for the count.
Collect(r) ==
    /\ rq[r]._complete \/ rq[r].state = "broken"
    /\ ~rq[r].counted /\ ~rq[r].deferred /\ r # updater
    /\ rq' = [rq EXCEPT ![r] = NoRequest]
    /\ UNCHANGED <<activeRequestCount, pollVars>>

-----------------------------------------------------------------------------
\* Ajax.PeriodicalUpdater.  Its updaters are asynchronous, with onComplete =
\* updateContent and then updateComplete.

\* PeriodicalUpdater.onTimerEvent: the next updater.  this.updater is set when
\* its constructor has returned: a throw that onException lets through leaves
\* the last one, and a stop called by onCreate unhooks the last one.
poll_send(r, on) ==
    /\ rq[r].state = "none"
    /\ \/ /\ rq' = [rq EXCEPT ![r] = Sent]
          /\ activeRequestCount' = activeRequestCount + 1
          /\ updater' = r
          /\ poll_threw' = FALSE
          /\ \/ polling' = on /\ UNCHANGED stop_missed
             \/ updater # None /\ polling' = FALSE /\ stop_missed' = TRUE
       \/ /\ breaks(r)
          /\ \/ updater' = r /\ polling' = on
             \/ updater' = updater /\ polling' = (on /\ updater # None)
          /\ poll_threw' = TRUE
          /\ stop_missed' = FALSE

\* initialize and start().  The caller starts what it has stopped; one who
\* starts again after a stop that was missed has two chains from there on.
start(r) ==
    /\ ~polling /\ ~stop_missed
    /\ poll_send(r, TRUE)
    /\ UNCHANGED <<poll_timer, decay, lastText, container>>

onTimerEvent(r) ==
    /\ poll_timer > 0
    /\ poll_timer' = poll_timer - 1
    /\ poll_send(r, polling)
    /\ UNCHANGED <<decay, lastText, container>>

\* (Mutant) stop clears the timer and forgets the request in flight
StopTimerOnly ==
    /\ polling \/ stop_missed
    /\ polling' = FALSE /\ stop_missed' = FALSE
    /\ poll_timer' = 0
    /\ UNCHANGED <<rq, activeRequestCount, updater, decay, lastText, container, poll_threw>>

stop ==
    /\ polling \/ stop_missed
    /\ polling' = FALSE /\ stop_missed' = FALSE
    /\ rq' = [rq EXCEPT ![updater].hooked = FALSE]
    /\ poll_timer' = 0
    /\ UNCHANGED <<activeRequestCount, updater, decay, lastText, container, poll_threw>>

updateComplete(text) ==
    /\ decay' = (IF text = lastText
                 THEN (IF decay < MaxDecay THEN decay + 1 ELSE decay) ELSE 0)
    /\ lastText' = text
    /\ poll_timer' = poll_timer + 1

\* readyState 4 of an updater of the PeriodicalUpdater.  The container takes
\* the answer of a success and of a failure; options.insertion may call stop,
\* which comes too late for the updateComplete that follows.
updateContent(r) ==
    /\ rq[r].state = "sent" /\ rq[r].readyState < 4
    /\ \E text \in Answers, throws \in BOOLEAN :
         LET q == [rq[r] EXCEPT !.readyState = 4] IN
         /\ rq' = [rq EXCEPT ![r] = Completed(q, throws)]
         /\ activeRequestCount' =
              IF throws THEN activeRequestCount ELSE Uncount(activeRequestCount)
         /\ IF q.hooked /\ ~throws
            THEN /\ container' = text /\ updateComplete(text)
                 /\ \/ UNCHANGED <<polling, stop_missed>>
                    \/ polling' = FALSE /\ stop_missed' = TRUE
            ELSE /\ container' \in {container} \cup (IF q.hooked THEN {text} ELSE {})
                 /\ UNCHANGED <<poll_timer, decay, lastText, polling, stop_missed>>
         /\ poll_threw' = (poll_threw \/ (q.hooked /\ throws))
    /\ UNCHANGED updater

AjaxNext ==
    \/ \E r \in Plain :
         request(r) \/ request_throws(r) \/ request_sync(r) \/ onComplete(r)
    \/ \E r \in Polls : start(r) \/ onTimerEvent(r) \/ updateContent(r)
    \/ \E r \in Requests :
         deferred_loading(r) \/ onStateChange(r) \/ no_response(r) \/ Collect(r)
    \/ stop

AjaxSpec == AjaxInit /\ [][AjaxNext]_ajaxVars

-----------------------------------------------------------------------------
AjaxTypeOK ==
    /\ rq \in [Requests -> RequestRecord]
    /\ activeRequestCount \in 0..Cardinality(Requests)
    /\ polling \in BOOLEAN
    /\ updater \in Requests \cup {None}
    /\ poll_timer \in 0..1
    /\ decay \in 0..MaxDecay
    /\ {lastText, container} \subseteq Answers \cup {None}
    /\ poll_threw \in BOOLEAN /\ stop_missed \in BOOLEAN

\* activeRequestCount is the number of requests under way plus the number of
\* those that ended in a throw of open, send, the answer or a callback: no
\* request is counted off twice, whatever the browser does for a synchronous
\* one, and nothing else stays counted (prototype.js, onStateChange, _complete).
CountAccountsForRequests ==
    activeRequestCount = Cardinality(Outstanding) + Cardinality(Leaked)

\* A PeriodicalUpdater has one poll, waiting or under way, from start to stop
\* and none after stop, also when it is stopped under a request and started
\* again before that request is answered.  A throw of a poll ends the polls
\* without a stop, and a stop called by onCreate or insertion of a poll
\* does not end them: the next stop does.
OnePollChain ==
    poll_timer + Cardinality(LivePolls) = IF (polling \/ stop_missed) /\ ~poll_threw THEN 1 ELSE 0
===============================================================================
