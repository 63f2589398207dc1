------------------------------ MODULE EffectQueue ------------------------------
(***************************************************************************)
(* The queues of effects.js: Effect.ScopedQueue and the life of an         *)
(* Effect.Base in it.  A queue starts an effect at a time computed when    *)
(* the effect is added, and one interval runs all effects of the queue.    *)
(*                                                                         *)
(* The clock is in units longer than a frame.  The interval may be late;   *)
(* a pass over the queue is one task, in which the page comes in by the    *)
(* callbacks of an effect: of a frame that is drawn, of the last one, and  *)
(* of the finish.  What an effect draws is left out.                       *)
(***************************************************************************)
EXTENDS Naturals, Sequences, SequencesExt, FiniteSets, FiniteSetsExt

CONSTANTS
    Effects,      \* the effects the page may start, started in order
    MayThrow,     \* the ones that may be bad: every frame of theirs throws
    Delays, Durations,
    MaxClock      \* bound on the clock and on the times of the effects

ASSUME EffectAssumption ==
    /\ Effects \subseteq Nat /\ IsFiniteSet(Effects) /\ MayThrow \subseteq Effects
    /\ Delays \cup Durations \subseteq Nat /\ MaxClock \in Nat \ {0}

Positions == {"parallel", "front", "with-last", "end"}

VARIABLES
    ef,         \* the effects, see EffectRecord
    queue,      \* ScopedQueue.effects
    interval,   \* whether the interval runs
    clock,
    pass,       \* the pass under way, see PassRecord
    before      \* history: what was queued when an effect was added at the end

effectVars == <<ef, queue, interval, clock, pass, before>>

EffectRecord ==
    [state : {"new", "idle", "running", "finished"},
     position : Positions, bad : BOOLEAN,
     startOn : 0..MaxClock, finishOn : 0..MaxClock]

PassRecord ==
    [on : BOOLEAN, i : Nat, len : Nat, timePos : 0..MaxClock,
     at : SUBSET Effects,      \* the effect whose callbacks are being called, if any
     stage : {"drawn", "last", "over"},        \* and which of its callbacks they are
     seen : SUBSET Effects]    \* history: the effects the pass has looked at

NoPass ==
    [on |-> FALSE, i |-> 0, len |-> 0, timePos |-> 0, at |-> {}, stage |-> "over", seen |-> {}]

Effect(state) ==
    [state |-> state, position |-> "parallel", bad |-> FALSE, startOn |-> 0, finishOn |-> 0]

EffectInit ==
    /\ ef = [e \in Effects |-> Effect("new")]
    /\ queue = <<>> /\ interval = FALSE
    /\ clock = 1
    /\ pass = NoPass
    /\ before = [e \in Effects |-> {}]

PageRuns == ~pass.on \/ pass.at # {}

-----------------------------------------------------------------------------
Queued == ToSet(queue)

\* (Mutant) an effect at the end starts with the last one
StartWithLast(position) ==
    IF position \in {"with-last", "end"} /\ queue # <<>>
    THEN Max({ef[e].startOn : e \in Queued}) ELSE clock

\* ScopedQueue.add: the time the effect's own times are counted from.
timestamp(position) ==
    CASE position = "with-last" /\ queue # <<>> -> Max({ef[e].startOn : e \in Queued})
      [] position = "end" /\ queue # <<>>       -> Max({ef[e].finishOn : e \in Queued})
      [] OTHER                                  -> clock

\* ... for the front, effects not yet started are put off.
Put_off(position, finishOn) ==
    [e \in Effects |->
        IF position = "front" /\ e \in Queued /\ ef[e].state = "idle"
        THEN [ef[e] EXCEPT !.startOn = @ + finishOn, !.finishOn = @ + finishOn]
        ELSE ef[e]]

\* ... and with a limit a full queue does not take the effect.
add(e, limit) ==
    /\ queue' = IF limit = 0 \/ Len(queue) < limit THEN Append(queue, e) ELSE queue
    /\ interval' = TRUE

\* Base.start
start_effect(e, position, delay, duration, limit, bad) ==
    /\ PageRuns
    /\ ef[e].state = "new" /\ \A f \in Effects : f < e => ef[f].state # "new"
    /\ LET startOn == timestamp(position) + delay
           new == [state |-> "idle", position |-> position, bad |-> bad,
                   startOn |-> startOn, finishOn |-> startOn + duration]
       IN  ef' = [Put_off(position, delay + duration) EXCEPT ![e] = new]
    /\ \A f \in Effects : ef'[f].finishOn <= MaxClock
    /\ add(e, limit)
    /\ before' = [before EXCEPT ![e] = IF position = "end" THEN Queued ELSE {}]
    /\ UNCHANGED <<clock, pass>>

\* Effect.toggle starts the effect that shows or hides the element, unless one
\* is in the queue of the element.
toggle(e, duration) == start_effect(e, "end", 0, duration, 1, FALSE)

\* (Mutant) the interval is stopped with the effect
RemoveAndStop(e) ==
    /\ queue' = RemoveFirst(queue, e)
    /\ interval' = FALSE

\* ScopedQueue.remove, of an effect that the queue holds once.
remove(e) ==
    /\ queue' = RemoveFirst(queue, e)
    /\ interval' = (interval /\ queue' # <<>>)

\* Base.cancel, called by the page.
cancel(e) ==
    /\ PageRuns
    /\ e \in Queued
    /\ remove(e)
    /\ ef' = [ef EXCEPT ![e] = [Effect("finished") EXCEPT !.bad = ef[e].bad]]
    /\ UNCHANGED <<clock, pass, before>>

-----------------------------------------------------------------------------
\* ScopedQueue.loop, one pass: len is read once, and the effects that follow a
\* removed one move up, so that the next is passed over.
loop ==
    /\ interval /\ ~pass.on
    /\ pass' = [NoPass EXCEPT !.on = TRUE, !.i = 1, !.len = Len(queue), !.timePos = clock]
    /\ UNCHANGED <<ef, queue, interval, clock, before>>

Looks == pass.on /\ pass.at = {} /\ pass.i <= pass.len /\ pass.i <= Len(queue)

Current == queue[pass.i]

\* Base.render: the first time the effect is set up.
render_effect(e) == [ef EXCEPT ![e].state = "running"]

\* Base.loop of an effect that is not due, or is under way: a frame is drawn.
loop_effect ==
    /\ Looks /\ pass.timePos < ef[Current].finishOn
    /\ LET drawn == pass.timePos > ef[Current].startOn
       IN  /\ ef' = IF drawn THEN render_effect(Current) ELSE ef
           /\ pass' = [pass EXCEPT !.i = @ + 1, !.seen = @ \cup {Current},
                                   !.at = IF drawn THEN {Current} ELSE {},
                                   !.stage = IF drawn THEN "drawn" ELSE "over"]
    /\ UNCHANGED <<queue, interval, clock, before>>

\* Base.loop of an effect whose time is over: the last frame is drawn ...
last_frame ==
    /\ Looks /\ pass.timePos >= ef[Current].finishOn
    /\ ef' = render_effect(Current)
    /\ pass' = [pass EXCEPT !.stage = "last", !.at = {Current}]
    /\ UNCHANGED <<queue, interval, clock, before>>

\* ... and the effect finishes; a callback may have cancelled it.
finish_effect(e) ==
    /\ pass.at = {e} /\ pass.stage = "last" /\ ~ef[e].bad
    /\ ef' = [ef EXCEPT ![e] = Effect("finished")]
    /\ IF e \in Queued THEN remove(e) ELSE UNCHANGED <<queue, interval>>
    /\ pass' = [pass EXCEPT !.i = @ + 1, !.stage = "over"]
    /\ UNCHANGED <<clock, before>>

\* The callbacks of a frame return.
drawn_returns(e) ==
    /\ pass.at = {e} /\ pass.stage = "drawn" /\ ~ef[e].bad
    /\ pass' = [pass EXCEPT !.at = {}, !.stage = "over"]
    /\ UNCHANGED <<ef, queue, interval, clock, before>>

\* A frame throws out of the pass.
throws_out(e) ==
    /\ pass.at = {e} /\ ef[e].bad
    /\ pass' = NoPass
    /\ UNCHANGED <<ef, queue, interval, clock, before>>

\* The callbacks of the finish return, or one throws out of the pass.
finish_returns ==
    /\ pass.at # {} /\ pass.stage = "over"
    /\ pass' = NoPass \/ pass' = [pass EXCEPT !.at = {}]
    /\ UNCHANGED <<ef, queue, interval, clock, before>>

\* The rest of the pass finds no effect.
pass_over ==
    /\ pass.on /\ pass.at = {} /\ ~Looks
    /\ pass' = NoPass
    /\ UNCHANGED <<ef, queue, interval, clock, before>>

Time ==
    /\ clock < MaxClock
    /\ clock' = clock + 1
    /\ UNCHANGED <<ef, queue, interval, pass, before>>

EffectLoop ==
    \/ loop \/ loop_effect \/ last_frame \/ finish_returns \/ pass_over
    \/ \E e \in Effects : finish_effect(e) \/ drawn_returns(e) \/ throws_out(e)

EffectNext ==
    \/ \E e \in Effects :
          \/ cancel(e)
          \/ \E position \in Positions, delay \in Delays, duration \in Durations,
                bad \in {FALSE, (e \in MayThrow)} :
                   start_effect(e, position, delay, duration, 0, bad)
          \/ \E duration \in Durations : toggle(e, duration)
    \/ EffectLoop \/ Time

\* The interval comes again and again, a pass ends, time goes on meanwhile.
EffectFairness == WF_effectVars(EffectLoop) /\ WF_effectVars(interval /\ Time)

EffectSpec == EffectInit /\ [][EffectNext]_effectVars /\ EffectFairness

-----------------------------------------------------------------------------
EffectTypeOK ==
    /\ ef \in [Effects -> EffectRecord]
    /\ Queued \subseteq Effects /\ Len(queue) = Cardinality(Queued)
    /\ interval \in BOOLEAN /\ clock \in 1..MaxClock
    /\ pass \in PassRecord

Starts(e) == pass.on /\ pass.at = {} /\ ef[e].state = "idle" /\ ef'[e].state # "idle"

\* The pass has gone by the place of an effect without looking at it.
SteppedOver(f) ==
    f \notin pass.seen /\ \E k \in DOMAIN queue : k < pass.i /\ queue[k] = f

\* "Start effect after last queued effect has finished" (effects.js:189): when a pass
\* starts an effect that was queued at the end, each one queued before
\* it has finished, or the pass has stepped over it (effects.js, ScopedQueue.add
\* and loop): whatever callbacks start, put in front and cancel, however late the
\* interval is and whatever earlier passes stepped over.  None that the pass has
\* looked at is still under way.
EndWaits ==
    [][\A e \in Effects : ef[e].position = "end" /\ Starts(e) =>
            \A f \in before[e] : ef[f].state = "finished" \/ SteppedOver(f)]_effectVars

\* Every effect in a queue leaves it: finished or cancelled, whatever is added,
\* put in front or removed while it waits, and although a pass skips effects.
\* Only an effect whose frames throw stays for ever, and all behind it.
EffectsFinish ==
    \A e \in Effects :
        e \in Queued ~> (e \notin Queued \/ \E f \in Queued : ef[f].bad)
===============================================================================
