------------------------------- MODULE DragDrop -------------------------------
(***************************************************************************)
(* The sortable lists of dragdrop.js: Sortable with its SortableObservers, *)
(* and the Draggables and Droppables it makes of the items and the lists.  *)
(* While an item is dragged it is moved in the document as it hovers over  *)
(* other items; when the drag ends the observer of a list whose order has  *)
(* changed since the drag began calls onUpdate.                            *)
(*                                                                         *)
(* Mouse and key events, the delay before a drag, the scrolling that runs  *)
(* while the pointer is near an edge, and the effects of a drag's end come *)
(* in any order; a mouse button released outside the window sends nothing. *)
(* The pointer is over an item, over the free part of a list, or away from *)
(* both.  The page's onChange and onUpdate may throw; its effects are the  *)
(* default ones.  Drawing, hover classes and the drop marker are left out, *)
(* and the options tree and only; the droppables have no onDrop, as those  *)
(* of a Sortable.  Lists are made anew or set by the page between drags.   *)
(* The clone that an onChange may leave behind is forgotten once its item  *)
(* is dragged again.                                                       *)
(***************************************************************************)
EXTENDS Naturals, Sequences, SequencesExt, FiniteSets

CONSTANTS
    Items, Lists,
    DragOptions,  \* the options Sortable.create may be given, see DragOption
    MaxEffects    \* bound on the pending effects of a drag's end

Nothing == "nothing"

DragOption ==
    [scroll : BOOLEAN, ghosting : BOOLEAN, delay : BOOLEAN, quiet : BOOLEAN,
     dropOnEmpty : BOOLEAN,
     shared : BOOLEAN,     \* containment names all lists, else the list itself
     ident : [Items -> Items \cup {Nothing}]]  \* what format takes of each id

ASSUME DragAssumption ==
    /\ IsFiniteSet(Items) /\ IsFiniteSet(Lists) /\ Items \cap Lists = {}
    /\ DragOptions \subseteq {o \in DragOption : ~(o.ghosting /\ o.delay)}
    /\ MaxEffects \in Nat

VARIABLES
    dd,            \* the options
    order,         \* the items of each list, as the document has them
    reported,      \* what the page knows: its own setting or the last onUpdate
    lastValue,     \* of the SortableObserver of each list: its order, and whether a
                   \* clone stood in it
    activeDraggable,
    dragging,      \* draggables whose dragging is true
    delta,         \* draggables whose delta is set: dragged at least once
    _clone,        \* draggables that have a clone in the document
    scrollInterval,\* draggables with a running interval
    _dragging,     \* Draggable._dragging: its key is the text of an element,
                   \* which is the same for all items
    effects,       \* pending effects of drag ends
    waiting,       \* draggables with a pending delay
    _timeout,      \* the draggable whose delay the handle names
    _lastPointer,  \* whether Draggables._lastPointer is set
    lost           \* history: why a change may never be reported

observed == <<reported, lastValue>>
dragVars == <<dd, order, observed, activeDraggable, dragging, delta, _clone, scrollInterval,
              _dragging, effects, waiting, _timeout, _lastPointer, lost>>

Arrangement(o) ==
    /\ \A i \in Items : Cardinality({l \in Lists : Contains(o[l], i)}) = 1
    /\ \A l \in Lists : \A j, k \in 1..Len(o[l]) : o[l][j] = o[l][k] => j = k

\* What the page is told of a list: nothing of an id that the format does not
\* match, and the same of ids that differ outside the part it takes.
sequence(items) == [k \in DOMAIN items |-> dd.ident[items[k]]]

\* What a list is compared by: its sequence, and a clone in it.
serialize(items, clone) == <<sequence(items), clone>>

\* Sortable.create makes an observer, which takes the order as it is.
DragInit ==
    /\ dd \in DragOptions
    /\ order \in [Lists -> SeqOf(Items, Cardinality(Items))] /\ Arrangement(order)
    /\ reported = order /\ lastValue = [l \in Lists |-> serialize(order[l], FALSE)]
    /\ activeDraggable = Nothing
    /\ dragging = {} /\ delta = {} /\ _clone = {} /\ scrollInterval = {}
    /\ _dragging = FALSE /\ effects = 0
    /\ waiting = {} /\ _timeout = Nothing /\ _lastPointer = FALSE
    /\ lost = {}

-----------------------------------------------------------------------------
\* Where the dragged item goes.

ListOf(i) == CHOOSE l \in Lists : Contains(order[l], i)

Without(i) == [l \in Lists |-> Remove(order[l], i)]

isContained(i, drop) ==
    dd.shared \/ ListOf(i) = (IF drop \in Lists THEN drop ELSE ListOf(drop))

\* Droppables.add: the items, and the lists with dropOnEmpty.
drops == Items \cup (IF dd.dropOnEmpty THEN Lists ELSE {})

\* Position.within: an item lies in its list.
Within(point) == {point} \cup (IF point \in Items THEN {ListOf(point)} ELSE {})

isAffected(point, i, drop) == drop # i /\ isContained(i, drop) /\ drop \in Within(point)

findDeepestChild(ds) ==
    IF ds \cap Items # {} THEN CHOOSE d \in ds : d \in Items
    ELSE CHOOSE d \in ds : TRUE

\* Sortable.onHover: before or after the item it hovers over.
onHover(i, dropon) ==
    LET l == ListOf(dropon)
        s == Without(i)[l]
        p == CHOOSE k \in 1..Len(s) : s[k] = dropon
    IN  {[Without(i) EXCEPT ![l] = InsertAt(s, k, i)] : k \in {p, p + 1}}

\* Sortable.onEmptyHover: into the list, by the place of the pointer.
onEmptyHover(i, dropon) ==
    LET s == Without(i)[dropon]
    IN  {[Without(i) EXCEPT ![dropon] = InsertAt(s, k, i)] : k \in 1..Len(s) + 1}

\* The droppable that Droppables.show picks.
drop(point, i) ==
    LET affected == {d \in drops : isAffected(point, i, d)}
    IN  IF affected = {} THEN Nothing ELSE findDeepestChild(affected)

\* Droppables.show: the orders it may leave.
droppables_show(point, i) ==
    LET d == drop(point, i)
    IN  IF d = Nothing THEN {order}
        ELSE IF d \in Items THEN onHover(i, d) ELSE onEmptyHover(i, d)

\* Whether a show that leaves the order o has called the page's onChange: for an
\* item that has moved, if only past its clone, and always for a list.
onChange(point, i, o) ==
    LET d == drop(point, i)
    IN  d # Nothing /\ (d \in Items => o # order \/ dd.ghosting)

-----------------------------------------------------------------------------
\* The observers of the lists.

\* (Mutant) the observer keeps the order it has seen when it was made
OnStartKeepsFirst(i) == lastValue

\* The clone of a ghosting drag is in the list before the observers look.
onStart(i) == [l \in Lists |-> serialize(order[l], dd.ghosting /\ l = ListOf(i))]

\* The lists whose observers call onUpdate; the clone is gone by then.
onEnd(o) == {l \in Lists : lastValue[l] # serialize(o[l], FALSE)}

-----------------------------------------------------------------------------
\* Events.

Activated(i) ==
    /\ activeDraggable' = i
    /\ lost' = IF dragging # {} THEN lost \cup {"overlap"} ELSE lost

\* Draggables.activate.  A delay that is pending already loses its handle; one
\* delay an item.
draggables_activate(i) ==
    IF dd.delay
    THEN /\ i \notin waiting
         /\ waiting' = waiting \cup {i}
         /\ _timeout' = i
         /\ UNCHANGED <<activeDraggable, lost>>
    ELSE Activated(i) /\ UNCHANGED <<waiting, _timeout>>

\* The mouse button goes down on an item.
initDrag(i) ==
    /\ ~_dragging
    /\ draggables_activate(i)
    /\ UNCHANGED <<dd, order, observed, dragging, delta, _clone, scrollInterval, _dragging,
                   effects, _lastPointer>>

delay_over(i) ==
    /\ i \in waiting
    /\ waiting' = waiting \ {i}
    /\ _timeout' = Nothing
    /\ Activated(i)
    /\ UNCHANGED <<dd, order, observed, dragging, delta, _clone, scrollInterval, _dragging,
                   effects, _lastPointer>>

\* Draggable.startDrag; the default starteffect sets _dragging.
startDrag(i) ==
    /\ dragging' = dragging \cup {i}
    /\ delta' = delta \cup {i}
    /\ _clone' = IF dd.ghosting THEN _clone \cup {i} ELSE _clone
    /\ lastValue' = onStart(i)
    /\ _dragging' = TRUE

startScrolling(i) ==
    IF dd.scroll THEN {scrollInterval \ {i}, scrollInterval \cup {i}} ELSE {scrollInterval}

\* A mouse move: Draggables.updateDrag and Draggable.updateDrag.  An onChange
\* that throws leaves the scrolling as it was.
updateDrag(point) ==
    /\ activeDraggable # Nothing
    /\ _lastPointer' = TRUE
    /\ IF activeDraggable \in dragging
       THEN UNCHANGED <<dragging, delta, _clone, lastValue, _dragging>>
       ELSE startDrag(activeDraggable)
    /\ order' \in IF dd.quiet THEN {order} ELSE droppables_show(point, activeDraggable)
    /\ \/ scrollInterval' \in startScrolling(activeDraggable)
       \/ /\ ~dd.quiet /\ onChange(point, activeDraggable, order')
          /\ UNCHANGED scrollInterval
    /\ UNCHANGED <<dd, reported, activeDraggable, effects, waiting, _timeout, lost>>

\* Draggables.notify tells the observers one after the other; an onUpdate that
\* throws keeps the rest from hearing of the end.
notify_end(o, told, throws) ==
    /\ told \subseteq onEnd(o)
    /\ told # onEnd(o) => throws
    /\ throws => told # {}
    /\ reported' = [l \in Lists |-> IF l \in told THEN o[l] ELSE reported[l]]
    /\ lost' = IF told # onEnd(o) THEN lost \cup {"threw"} ELSE lost

\* Draggable.finishDrag after the show of a quiet drag, which leaves the order
\* o.  Three things may throw: removing a clone that is not there, an onUpdate,
\* and the revert of an item that has never been dragged.  What follows is
\* skipped: observers, end effect, deactivate.
finishDrag(i, o) ==
    /\ dragging' = dragging \ {i}
    /\ order' = o
    /\ _clone' = _clone \ {i}
    /\ IF dd.ghosting /\ i \notin _clone
       THEN UNCHANGED <<reported, lost, effects, activeDraggable>>
       ELSE \E told \in SUBSET Lists, throws \in BOOLEAN :
              /\ notify_end(o, told, throws)
              /\ IF throws \/ i \notin delta
                 THEN UNCHANGED <<effects, activeDraggable>>
                 ELSE /\ effects < MaxEffects
                      /\ effects' = effects + 1
                      /\ activeDraggable' = Nothing

\* Draggable.finishDrag of a quiet drag whose show leaves the order o and whose
\* onChange then throws: nobody hears of the end, and the drag stays active.
\* The next move of the mouse starts it again, from the changed order.
finishDrag_throws(i, o) ==
    /\ dragging' = dragging \ {i}
    /\ order' = o
    /\ lost' = IF onEnd(o) # {} THEN lost \cup {"changed"} ELSE lost
    /\ UNCHANGED <<_clone, reported, effects, activeDraggable>>

\* Esc: Draggables.keyPress.  The event has no pointer, so a quiet drag moves
\* nothing; scrolling is not stopped.
keyPress ==
    /\ activeDraggable # Nothing
    /\ finishDrag(activeDraggable, order)
    /\ UNCHANGED <<dd, lastValue, delta, scrollInterval, _dragging, waiting, _timeout,
                   _lastPointer>>

\* The mouse button comes up: Draggables.endDrag clears the delay its handle
\* names.  A draggable that was not moved is only let go.
endDrag(point) ==
    /\ waiting' = waiting \ {_timeout}
    /\ _timeout' = Nothing
    /\ IF activeDraggable = Nothing
       THEN UNCHANGED <<order, reported, activeDraggable, dragging, _clone, scrollInterval,
                        effects, _lastPointer, lost>>
       ELSE /\ _lastPointer' = FALSE
            /\ IF activeDraggable \in dragging
               THEN /\ scrollInterval' = scrollInterval \ {activeDraggable}
                    /\ \E o \in IF dd.quiet THEN droppables_show(point, activeDraggable) ELSE {order} :
                          \/ finishDrag(activeDraggable, o)
                          \/ /\ dd.quiet /\ onChange(point, activeDraggable, o)
                             /\ finishDrag_throws(activeDraggable, o)
               ELSE /\ activeDraggable' = Nothing
                    /\ UNCHANGED <<order, reported, dragging, _clone, scrollInterval,
                                   effects, lost>>
    /\ UNCHANGED <<dd, lastValue, delta, _dragging>>

\* The interval of a draggable: the page moves under the pointer.  Without a
\* pointer the call throws and the interval goes on.
scroll(i, point) ==
    /\ i \in scrollInterval /\ _lastPointer
    /\ order' \in droppables_show(point, i)
    /\ lost' = IF order' # order /\ i \notin dragging THEN lost \cup {"scrolled"} ELSE lost
    /\ UNCHANGED <<dd, observed, activeDraggable, dragging, delta, _clone, scrollInterval,
                   _dragging, effects, waiting, _timeout, _lastPointer>>

\* afterFinish of the end effect, also under the next drag.
end_effect ==
    /\ effects > 0
    /\ effects' = effects - 1
    /\ _dragging' = FALSE
    /\ UNCHANGED <<dd, order, observed, activeDraggable, dragging, delta, _clone,
                   scrollInterval, waiting, _timeout, _lastPointer, lost>>

\* Sortable.destroy: the draggables of the list go, with what they know.
destroy_sortable(l) ==
    /\ delta' = delta \ ToSet(order[l])
    /\ _clone' = _clone \ ToSet(order[l])

\* The page makes a list anew, or sets its order.  Lists whose items move to
\* other lists are made once.
create(l) ==
    /\ ~dd.shared
    /\ activeDraggable = Nothing /\ dragging = {}
    /\ lastValue' = [lastValue EXCEPT ![l] = serialize(order[l], FALSE)]
    /\ reported' = [reported EXCEPT ![l] = order[l]]
    /\ destroy_sortable(l)
    /\ UNCHANGED <<dd, order, activeDraggable, dragging, scrollInterval, _dragging,
                   effects, waiting, _timeout, _lastPointer, lost>>

\* Items that it cannot tell by their ids would be taken out.
setSequence(l) ==
    /\ \A i, j \in ToSet(order[l]) :
          dd.ident[i] # Nothing /\ (dd.ident[i] = dd.ident[j] => i = j)
    /\ activeDraggable = Nothing /\ dragging = {}
    /\ order' = [order EXCEPT ![l] = Reverse(@)]
    /\ reported' = [reported EXCEPT ![l] = order'[l]]
    /\ UNCHANGED <<dd, lastValue, activeDraggable, dragging, delta, _clone, scrollInterval,
                   _dragging, effects, waiting, _timeout, _lastPointer, lost>>

Points == Items \cup Lists \cup {Nothing}

DragNext ==
    \/ \E i \in Items : initDrag(i) \/ delay_over(i)
    \/ \E p \in Points : \/ updateDrag(p) \/ endDrag(p)
                         \/ \E i \in Items : scroll(i, p)
    \/ keyPress \/ end_effect
    \/ \E l \in Lists : create(l) \/ setSequence(l)

DragSpec == DragInit /\ [][DragNext]_dragVars

-----------------------------------------------------------------------------
DragTypeOK ==
    /\ dd \in DragOption
    /\ Arrangement(order)
    /\ activeDraggable \in Items \cup {Nothing}
    /\ dragging \subseteq delta /\ delta \subseteq Items
    /\ _clone \subseteq delta
    /\ scrollInterval \subseteq Items /\ waiting \subseteq Items
    /\ effects \in 0..MaxEffects
    /\ _timeout \in waiting \cup {Nothing}
    /\ {_dragging, _lastPointer} \subseteq BOOLEAN
    /\ lost \subseteq {"overlap", "threw", "scrolled", "changed"}

\* Between drags the page has been told the sequence each list shows: by
\* onUpdate at the end of the drag, however the drag was ended and how often
\* the items went back to where they had been.  A change is lost in four ways:
\* an onUpdate threw before another list's, an onChange threw at the end of a
\* quiet drag, Esc left the scrolling on, which goes on sorting, or a delay that
\* could not be cleared started a second drag under the first (dragdrop.js,
\* SortableObserver, finishDrag, keyPress).
SettledOrderIsReported ==
    (activeDraggable = Nothing /\ dragging = {}) =>
        (lost # {} \/ \A l \in Lists : sequence(reported[l]) = sequence(order[l]))
===============================================================================
