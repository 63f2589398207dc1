------------------------------ MODULE EffectStyles ------------------------------
(***************************************************************************)
(* The combination effects of effects.js and the style of the element they *)
(* move, scale, fade and clip.  An effect remembers style when it is       *)
(* created and when it is set up, and puts it back when it finishes; a     *)
(* second effect on the element may come between any two of these steps.   *)
(*                                                                         *)
(* Of an inline style it is known whether the frame of an effect has drawn *)
(* it or it is a computed value written inline; when frames come is left   *)
(* open (EffectQueue has the queues).  The content of an element that      *)
(* slides is not positioned by the style sheet.  Opera's own cases and the *)
(* options of a page that replace handlers are left out.                   *)
(***************************************************************************)
EXTENDS Naturals, Sequences, SequencesExt, TLC

CONSTANT MaxStarted      \* bound on the effects a page starts

ASSUME StartedAssumption == MaxStarted \in Nat

\* The inline styles effects draw; "innerBottom" is the one of the content of
\* a sliding element.
Styles ==
    {"top", "left", "width", "height", "fontSize", "opacity", "background", "innerBottom"}

\* What an inline style holds.
Inline == {"none", "drawn", "computed"}

VARIABLES
    elem,         \* the element, see ElementRecord
    own,          \* its own position: from the style sheet
    running,      \* the effects under way: at most two, see CombinedTypeOK
    started,      \* history: how many were started
    overlapped,   \* history: two were under way at once
    disturbed     \* history: one was cancelled, or toggles were mixed

styleVars == <<elem, own, running, started, overlapped, disturbed>>

Positionings == {"static", "relative", "absolute"}

ElementRecord ==
    [visible : BOOLEAN,
     position : Positionings,
     clipped : BOOLEAN,                     \* _overflow is set
     made : BOOLEAN, innerMade : BOOLEAN,   \* _madePositioned of it and of its content
     style : [Styles -> Inline]]

-----------------------------------------------------------------------------
\* The methods of Element that effects call.
makePositioned(x) ==
    IF x.position = "static" THEN [x EXCEPT !.position = "relative", !.made = TRUE] ELSE x

setStyle(x, new) == [x EXCEPT !.style = new @@ @]

SetAll(x, styles, value) == setStyle(x, [s \in styles |-> value])

\* The inline style, or the computed one; that of a place is auto, and nothing is
\* got, where the element is static.
getStyle(x, s) ==
    IF \/ x.style[s] # "none"
       \/ s \in {"top", "left"} /\ x.position = "static"
       \/ s = "innerBottom" /\ ~x.innerMade
    THEN x.style[s] ELSE "computed"

undoPositioned(x) ==
    IF x.made THEN [SetAll(x, {"top", "left"}, "none") EXCEPT !.position = "static", !.made = FALSE]
    ELSE x

inner_undoPositioned(x) ==
    IF x.innerMade THEN [SetAll(x, {"innerBottom"}, "none") EXCEPT !.innerMade = FALSE] ELSE x

makeClipping(x) == [x EXCEPT !.clipped = TRUE]
undoClipping(x) == [x EXCEPT !.clipped = FALSE]

absolutize(x) ==
    IF x.position = "absolute" THEN x
    ELSE [SetAll(x, {"top", "left", "width", "height"}, "drawn") EXCEPT !.position = "absolute"]

\* What is remembered of an element: inline styles, and styles got with getStyle.
Remember(x, inline, got) ==
    [s \in inline \union got |-> IF s \in got THEN getStyle(x, s) ELSE x.style[s]]

NotRemembered == [style |-> <<>>, position |-> "static"]

\* A chain of calls of a handler.
Call(x, method, old) ==
    CASE method = "hide"                -> [x EXCEPT !.visible = FALSE]
      [] method = "show"                -> [x EXCEPT !.visible = TRUE]
      [] method = "makePositioned"      -> makePositioned(x)
      [] method = "undoPositioned"      -> undoPositioned(x)
      [] method = "innerMakePositioned" -> [x EXCEPT !.innerMade = TRUE]
      [] method = "innerUndoPositioned" -> inner_undoPositioned(x)
      [] method = "makeClipping"        -> makeClipping(x)
      [] method = "undoClipping"        -> undoClipping(x)
      [] method = "absolutize"          -> absolutize(x)
      [] method = "setOpacity"          -> SetAll(x, {"opacity"}, "drawn")
      [] method = "zeroHeight"          -> SetAll(x, {"height"}, "drawn")
      [] method = "oldStyle"            -> setStyle(x, old.style)
      [] method = "oldPosition"         -> [x EXCEPT !.position = old.position]

Calls_of(x, methods, old) == FoldLeft(LAMBDA y, m : Call(y, m, old), x, methods)

-----------------------------------------------------------------------------
\* The core effects: what one draws, and what it does when it is set up.
Core(draws) ==
    [draws |-> draws, positions |-> FALSE, keeps |-> {}, gets |-> {}, opaque |-> FALSE,
     afterSetup |-> <<>>]

\* setOpacity(1) takes the style away.
Opacity(to) == [Core({"opacity"}) EXCEPT !.opaque = (to = 1)]

Move == [Core({"top", "left"}) EXCEPT !.positions = TRUE]

Scale(draws, restoreAfterFinish) ==
    [Core(draws) EXCEPT !.keeps =
        IF restoreAfterFinish THEN {"top", "left", "width", "height", "fontSize"} ELSE {}]

Keeps(core) == core.keeps \union core.gets # {}

\* Base.render of a core effect: it is set up before the first frame.
SetUp(r, core) ==
    LET x == IF core.positions THEN makePositioned(r.elem) ELSE r.elem
    IN  [r EXCEPT !.elem = Calls_of(x, core.afterSetup, NotRemembered),
                  !.kept = IF Keeps(core) THEN Remember(x, core.keeps, core.gets) ELSE @]

Draw(r, core, last) ==
    [r EXCEPT !.elem = SetAll(@, core.draws, IF last /\ core.opaque THEN "none" ELSE "drawn")]

\* Scale.finish and Highlight.finish
Finish(r, core) == IF Keeps(core) THEN [r EXCEPT !.elem = setStyle(@, r.kept)] ELSE r

\* Parallel.update and Parallel.finish: one after the other.
Frame(r, cores, first, last) ==
    FoldLeft(LAMBDA q, c : Draw(IF first THEN SetUp(q, c) ELSE q, c, last), r, cores)

FinishAll(r, cores) == FoldLeft(LAMBDA q, c : Finish(Draw(q, c, TRUE), c), r, cores)

-----------------------------------------------------------------------------
\* A combination: calls when it is created, the inline styles it remembers then
\* and those it gets, and its stages, each started by the end of the one before.
\* A stage has the calls of beforeSetup, core effects, and the calls of
\* afterFinishInternal.
Stage(begin, cores, over) == [begin |-> begin, cores |-> cores, over |-> over]

Combine(created, remembers, stages) ==
    [created |-> created, remembers |-> remembers, gets |-> {}, stages |-> stages]

Highlight ==
    Combine(<<>>, {}, <<Stage(<<>>, <<[Core({"background"}) EXCEPT !.gets = {"background"}]>>,
                              <<>>)>>)

Fade == Combine(<<>>, {"opacity"}, <<Stage(<<>>, <<Opacity(0)>>, <<"hide", "oldStyle">>)>>)

Appear == Combine(<<>>, {}, <<Stage(<<"setOpacity", "show">>, <<Opacity(1)>>, <<>>)>>)

Puff ==
    Combine(<<>>, {"opacity", "top", "left", "width", "height"},
        <<Stage(<<"absolutize">>,
                <<Scale({"top", "left", "width", "height", "fontSize"}, TRUE), Opacity(0)>>,
                <<"hide", "oldStyle", "oldPosition">>)>>)

BlindUp ==
    Combine(<<"makeClipping">>, {},
        <<Stage(<<>>, <<Scale({"height"}, TRUE)>>, <<"hide", "undoClipping">>)>>)

BlindDown ==
    Combine(<<>>, {},
        <<Stage(<<>>,
                <<[Scale({"height"}, TRUE) EXCEPT
                    !.afterSetup = <<"makeClipping", "zeroHeight", "show">>]>>,
                <<"undoClipping">>)>>)

\* (Mutant) the second stage of SwitchOff is left positioned
SwitchOffPositioned ==
    Combine(<<>>, {"opacity"},
        <<Appear.stages[1],
          Stage(<<"makePositioned", "makeClipping">>, <<Scale({"top", "height"}, TRUE)>>,
                <<"hide", "undoClipping", "oldStyle">>)>>)

SwitchOff ==
    Combine(<<>>, {"opacity"},
        <<Appear.stages[1],
          Stage(<<"makePositioned", "makeClipping">>, <<Scale({"top", "height"}, TRUE)>>,
                <<"hide", "undoClipping", "undoPositioned", "oldStyle">>)>>)

DropOut ==
    [Combine(<<>>, {"opacity"},
        <<Stage(<<"makePositioned">>, <<Move, Opacity(0)>>,
                <<"hide", "undoPositioned", "oldStyle">>)>>) EXCEPT !.gets = {"top", "left"}]

Shake ==
    [Combine(<<>>, {},
        [i \in 1..6 |->
            Stage(<<>>, <<Move>>, IF i = 6 THEN <<"undoPositioned", "oldStyle">> ELSE <<>>)])
     EXCEPT !.gets = {"top", "left"}]

\* afterUpdateInternal draws the bottom of the content.
SlideDown ==
    [Combine(<<>>, {},
        <<Stage(<<>>,
                <<[Scale({"height", "innerBottom"}, TRUE) EXCEPT
                    !.afterSetup = <<"makePositioned", "innerMakePositioned", "makeClipping",
                                     "zeroHeight", "show">>]>>,
                <<"undoClipping", "undoPositioned", "innerUndoPositioned", "oldStyle">>)>>)
     EXCEPT !.gets = {"innerBottom"}]

SlideUp ==
    [Combine(<<>>, {},
        <<Stage(<<>>,
                <<[Scale({"height", "innerBottom"}, TRUE) EXCEPT
                    !.afterSetup = <<"makePositioned", "innerMakePositioned", "makeClipping",
                                     "show">>]>>,
                <<"hide", "undoClipping", "undoPositioned", "innerUndoPositioned",
                  "oldStyle">>)>>)
     EXCEPT !.gets = {"innerBottom"}]

Squish ==
    Combine(<<>>, {},
        <<Stage(<<"makeClipping">>, <<Scale({"width", "height", "fontSize"}, TRUE)>>,
                <<"hide", "undoClipping">>)>>)

Grow ==
    Combine(<<>>, {"top", "left", "width", "height", "opacity"},
        <<Stage(<<"hide", "makeClipping", "makePositioned">>, <<Move>>, <<>>),
          Stage(<<"zeroHeight", "show">>,
                <<Opacity(1), Move, Scale({"width", "height", "fontSize"}, TRUE)>>,
                <<"undoClipping", "undoPositioned", "oldStyle">>)>>)

Shrink ==
    Combine(<<"makePositioned", "makeClipping">>, {"top", "left", "width", "height", "opacity"},
        <<Stage(<<>>,
                <<Opacity(0), Scale({"width", "height", "fontSize"}, TRUE), Move>>,
                <<"hide", "undoClipping", "undoPositioned", "oldStyle">>)>>)

Pulsate == Combine(<<>>, {"opacity"}, <<Stage(<<>>, <<Opacity(1)>>, <<"oldStyle">>)>>)

Fold ==
    Combine(<<"makeClipping">>, {"top", "left", "width", "height"},
        <<Stage(<<>>, <<Scale({"height"}, FALSE)>>, <<>>),
          Stage(<<>>, <<Scale({"width"}, FALSE)>>, <<"hide", "undoClipping", "oldStyle">>)>>)

Combination ==
    [Highlight |-> Highlight, Fade |-> Fade, Appear |-> Appear, Puff |-> Puff,
     BlindUp |-> BlindUp, BlindDown |-> BlindDown, SwitchOff |-> SwitchOff,
     DropOut |-> DropOut, Shake |-> Shake, SlideDown |-> SlideDown, SlideUp |-> SlideUp,
     Squish |-> Squish, Grow |-> Grow, Shrink |-> Shrink, Pulsate |-> Pulsate, Fold |-> Fold]

Combinations == DOMAIN Combination

PAIRS ==
    [slide  |-> [show |-> "SlideDown", hide |-> "SlideUp"],
     blind  |-> [show |-> "BlindDown", hide |-> "BlindUp"],
     appear |-> [show |-> "Appear",    hide |-> "Fade"]]

-----------------------------------------------------------------------------
IsStyles(f) == DOMAIN f \subseteq Styles /\ \A s \in DOMAIN f : f[s] \in Inline

\* An effect under way: its stage, whether that is set up, what it remembers, the
\* styles kept when it was set up, and its pair, when Effect.toggle started it.
CombinedTypeOK(e) ==
    /\ e.name \in Combinations /\ e.stage \in DOMAIN Combination[e.name].stages
    /\ e.setUp \in BOOLEAN
    /\ IsStyles(e.old.style) /\ e.old.position \in Positionings /\ IsStyles(e.kept)
    /\ e.toggles \in {"no"} \union DOMAIN PAIRS

StyleInit ==
    /\ own \in Positionings
    /\ \E visible \in BOOLEAN :
          elem = [visible |-> visible, position |-> own, clipped |-> FALSE, made |-> FALSE,
                  innerMade |-> FALSE, style |-> [s \in Styles |-> "none"]]
    /\ running = <<>>
    /\ started = 0 /\ overlapped = FALSE /\ disturbed = FALSE

Created(name) == Calls_of(elem, Combination[name].created, NotRemembered)

\* An effect is created: its function runs, and the first of its effects waits.
create_effect(name, toggles) ==
    /\ started < MaxStarted /\ Len(running) < 2
    /\ LET c == Combination[name]
       IN  running' = Append(running,
              [name |-> name, stage |-> 1, setUp |-> FALSE, toggles |-> toggles, kept |-> <<>>,
               old |-> [style |-> Remember(elem, c.remembers, c.gets),
                        position |-> elem.position]])
    /\ elem' = Created(name)
    /\ started' = started + 1
    /\ overlapped' = (overlapped \/ running # <<>>)
    /\ UNCHANGED <<own, disturbed>>

\* Effect.toggle: the queue of the element takes one effect.  The function of
\* an effect that is not taken has run all the same.
toggle_element(pair) ==
    LET name == IF elem.visible THEN PAIRS[pair].hide ELSE PAIRS[pair].show
        queued == {i \in DOMAIN running : running[i].toggles # "no"}
    IN  IF queued = {} THEN create_effect(name, pair)
        ELSE /\ elem' = Created(name)
             /\ disturbed' = (disturbed \/ \E i \in queued : running[i].toggles # pair)
             /\ UNCHANGED <<own, running, started, overlapped>>

Current_stage(e) == Combination[e.name].stages[e.stage]

\* Highlight.setup cancels the effect on an element that is hidden.
cancels_itself(e) == e.name = "Highlight" /\ ~e.setUp /\ ~elem.visible

\* The effect with its element once a frame is drawn.
Rendered(e, last) ==
    LET stage == Current_stage(e)
        x == IF e.setUp THEN elem ELSE Calls_of(elem, stage.begin, e.old)
    IN  Frame([elem |-> x, kept |-> e.kept], stage.cores, ~e.setUp, last)

\* Base.loop while the effect is under way.
render_frame(i) ==
    /\ ~cancels_itself(running[i])
    /\ LET r == Rendered(running[i], FALSE)
       IN  /\ elem' = r.elem
           /\ running' = [running EXCEPT ![i].setUp = TRUE, ![i].kept = r.kept]
    /\ UNCHANGED <<own, started, overlapped, disturbed>>

\* Base.loop at the end: the last frame, finish, and afterFinishInternal,
\* which may start the next stage.
finish_stage(i) ==
    /\ ~cancels_itself(running[i])
    /\ LET e == running[i]
           stage == Current_stage(e)
           r == FinishAll(Rendered(e, TRUE), stage.cores)
       IN  /\ elem' = Calls_of(r.elem, stage.over, e.old)
           /\ running' = IF e.stage < Len(Combination[e.name].stages)
                         THEN [running EXCEPT ![i] = [e EXCEPT !.stage = @ + 1, !.setUp = FALSE,
                                                               !.kept = <<>>]]
                         ELSE RemoveAt(running, i)
    /\ UNCHANGED <<own, started, overlapped, disturbed>>

\* Base.cancel, called by Highlight.setup; by the page it leaves the element as
\* it is.
cancel_combined(i) ==
    /\ running' = RemoveAt(running, i)
    /\ disturbed' = (disturbed \/ ~cancels_itself(running[i]))
    /\ UNCHANGED <<elem, own, started, overlapped>>

StyleNext ==
    \/ \E name \in Combinations : create_effect(name, "no")
    \/ \E pair \in DOMAIN PAIRS : toggle_element(pair)
    \/ \E i \in DOMAIN running : render_frame(i) \/ finish_stage(i) \/ cancel_combined(i)

-----------------------------------------------------------------------------
StyleTypeOK ==
    /\ elem \in ElementRecord
    /\ own \in Positionings
    /\ Len(running) <= 2 /\ \A i \in DOMAIN running : CombinedTypeOK(running[i])
    /\ started \in 0..MaxStarted /\ overlapped \in BOOLEAN /\ disturbed \in BOOLEAN

\* The inline styles that hold a computed value for good: Highlight writes the
\* background it has got, DropOut and Shake the place of an element that is
\* positioned by its style sheet.
Fixed(s) == s = "background" \/ (s \in {"top", "left"} /\ own # "static")

\* When no effect is under way the element is neither clipped nor made
\* positioned, whatever two effects came together on it in whatever order, and
\* however often one pair was toggled while it ran: the flags _overflow and
\* _madePositioned are one for all effects, and the first to finish takes
\* them.  When no two effects came together, no style shows what a frame drew,
\* and a computed value was written inline for the styles in Fixed only.  Broken
\* by an effect cancelled half way, and by a toggle of one pair refused while
\* another runs: BlindUp has clipped the element by then (effects.js, finish and
\* afterFinishInternal of the combination effects).
StyleIsPutBack ==
    running = <<>> /\ ~disturbed =>
        /\ ~elem.clipped /\ ~elem.made /\ ~elem.innerMade
        /\ ~overlapped =>
              /\ elem.position = own
              /\ \A s \in Styles :
                    elem.style[s] = "none" \/ (elem.style[s] = "computed" /\ Fixed(s))
===============================================================================
