----------------------------- MODULE FormObservers -----------------------------
(***************************************************************************)
(* The observers of a field or a form: Form.Element.Observer of            *)
(* prototype.js, which looks at the value in an interval, EventObserver,   *)
(* which looks after change events, and DelayedObserver of controls.js,    *)
(* which looks a while after the last key.  Each calls back with the value *)
(* when it differs from the one seen last.                                 *)
(*                                                                         *)
(* The user types, or pastes with the mouse; scripts set the field, also   *)
(* the callback itself, which may throw.  A form is observed like a field, *)
(* its value being what Form.serialize makes of it.                        *)
(***************************************************************************)
EXTENDS Naturals, FiniteSets

CONSTANTS
    FieldValues,
    MaxEdits      \* bound on the edits of the field

ASSUME ObserverAssumption == IsFiniteSet(FieldValues) /\ MaxEdits \in Nat

NotCalled == "not called"
ASSUME NotCalledAssumption == NotCalled \notin FieldValues

VARIABLES
    kind,          \* "timed", "event" or "delayed"
    value,         \* of the field
    seen,          \* lastValue of the observer
    told,          \* history: what the callback was last called with
    timer,         \* timed: the interval runs; delayed: a call is pending
    calling,       \* the value a callback is being called with, or NotCalled;
                   \* while there is one, currentlyExecuting
    keyDown,       \* a key of the last edit is down
    uncommitted,   \* the user changed the field since its last change event
    missed,        \* history: why the observer may not see a change
    edits

observerVars ==
    <<kind, value, seen, told, timer, calling, keyDown, uncommitted, missed, edits>>

ObserverInit ==
    /\ kind \in {"timed", "event", "delayed"}
    /\ value \in FieldValues
    /\ seen = value /\ told = value
    /\ timer = (kind = "timed")
    /\ calling = NotCalled
    /\ keyDown = FALSE /\ uncommitted = FALSE
    /\ missed = {} /\ edits = 0

-----------------------------------------------------------------------------
Edit(v) ==
    /\ edits < MaxEdits /\ v # value
    /\ value' = v
    /\ edits' = edits + 1

Missed(why, kinds) == missed' = IF kind \in kinds THEN missed \cup {why} ELSE missed

key_edit(v) ==
    /\ calling = NotCalled
    /\ Edit(v)
    /\ keyDown' = TRUE /\ uncommitted' = TRUE
    /\ UNCHANGED <<kind, seen, told, timer, calling, missed>>

mouse_edit(v) ==
    /\ calling = NotCalled
    /\ Edit(v)
    /\ uncommitted' = TRUE
    /\ Missed("mouse", {"delayed"})
    /\ UNCHANGED <<kind, seen, told, timer, calling, keyDown>>

\* Also from within the callback.
script_edit(v) ==
    /\ Edit(v)
    /\ Missed("script", {"event", "delayed"})
    /\ UNCHANGED <<kind, seen, told, timer, calling, keyDown, uncommitted>>

-----------------------------------------------------------------------------
\* DelayedObserver: keyup.  A pending call is put off.
delayedListener ==
    /\ keyDown /\ calling = NotCalled
    /\ keyDown' = FALSE
    /\ timer' = (timer \/ (kind = "delayed" /\ seen # value))
    /\ seen' = IF kind = "delayed" THEN value ELSE seen
    /\ UNCHANGED <<kind, value, told, calling, uncommitted, missed, edits>>

\* The callback gets the value the field has then, which need not be the one
\* the last keyup saw.
delayed_onTimerEvent ==
    /\ kind = "delayed" /\ timer /\ calling = NotCalled
    /\ timer' = FALSE
    /\ told' = value /\ calling' = value
    /\ missed' = IF value # seen THEN missed \cup {"ahead"} ELSE missed
    /\ UNCHANGED <<kind, value, seen, keyDown, uncommitted, edits>>

\* TimedObserver.execute and EventObserver.onElementEvent
execute ==
    IF seen # value THEN told' = value /\ calling' = value ELSE UNCHANGED <<told, calling>>

\* PeriodicalExecuter.onTimerEvent: not while the callback is being called.
onTimerEvent_timed ==
    /\ kind = "timed" /\ timer /\ calling = NotCalled
    /\ execute
    /\ UNCHANGED <<kind, value, seen, timer, keyDown, uncommitted, missed, edits>>

\* The field is left: a change event.
onElementEvent ==
    /\ uncommitted /\ calling = NotCalled
    /\ uncommitted' = FALSE
    /\ IF kind = "event" THEN execute ELSE UNCHANGED <<told, calling>>
    /\ UNCHANGED <<kind, value, seen, timer, keyDown, missed, edits>>

\* (Mutant) the value is read again after the callback
SeesCurrent == value

\* ... and the callback returns: what it was called with has been seen.
Sees == calling

callback_return ==
    /\ calling # NotCalled
    /\ seen' = IF kind = "delayed" THEN seen ELSE Sees
    /\ calling' = NotCalled
    /\ UNCHANGED <<kind, value, told, timer, keyDown, uncommitted, missed, edits>>

\* An exception leaves lastValue; finally resets currentlyExecuting.
callback_throws ==
    /\ calling # NotCalled
    /\ calling' = NotCalled
    /\ Missed("threw", {"timed", "event"})
    /\ UNCHANGED <<kind, value, seen, told, timer, keyDown, uncommitted, edits>>

\* PeriodicalExecuter.stop
stop_observer ==
    /\ kind = "timed" /\ timer
    /\ timer' = FALSE
    /\ UNCHANGED <<kind, value, seen, told, calling, keyDown, uncommitted, missed, edits>>

ObserverNext ==
    \/ \E v \in FieldValues : key_edit(v) \/ mouse_edit(v) \/ script_edit(v)
    \/ delayedListener \/ delayed_onTimerEvent \/ onTimerEvent_timed \/ onElementEvent
    \/ callback_return \/ callback_throws \/ stop_observer

\* Timers go off and callbacks end.
ObserverFairness ==
    /\ WF_observerVars(delayed_onTimerEvent) /\ WF_observerVars(onTimerEvent_timed)
    /\ WF_observerVars(callback_return \/ callback_throws)

-----------------------------------------------------------------------------
ObserverTypeOK ==
    /\ kind \in {"timed", "event", "delayed"}
    /\ {value, seen, told} \subseteq FieldValues
    /\ calling \in FieldValues \cup {NotCalled}
    /\ {timer, keyDown, uncommitted} \subseteq BOOLEAN
    /\ missed \subseteq {"mouse", "script", "threw", "ahead"}
    /\ edits \in 0..MaxEdits

\* However keys, timers and callbacks fall, also one that changes the field,
\* the page in the end knows the value the field has: once the key is up, for
\* an EventObserver once the field is left, and unless the observer was
\* stopped.  Changes are missed in four ways only: after a callback threw, a
\* change back is no change; a script's change is seen by the timed observer
\* alone; a change by the mouse sends no keyup; and when a delayed call told
\* a value before its keyup, typing the text of before is no change.  (A keyup
\* that goes to another element is not among the events here.)
FieldIsTold ==
    <>[](\/ told = value
         \/ keyDown
         \/ kind = "event" /\ uncommitted
         \/ kind = "timed" /\ ~timer
         \/ missed # {})
===============================================================================
