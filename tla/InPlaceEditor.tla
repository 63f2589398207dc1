----------------------------- MODULE InPlaceEditor -----------------------------
(***************************************************************************)
(* Ajax.InPlaceEditor of controls.js: an element that a click turns into a *)
(* form and a submission into "Saving...", with the text of the form taken *)
(* from the element or loaded from the server first.  The collection       *)
(* editor is the same with a longer load: the list, then the text.         *)
(*                                                                         *)
(* A save is an Ajax.Updater, or with htmlResponse: false a plain request: *)
(* of a success the element takes the answer of an updater, of a failure   *)
(* onFailure is called; onComplete is wrapUp in every case, also when      *)
(* onFailure threw.  Throws of onEnterEditMode, onFormCustomization,       *)
(* onLeaveHover and onLeaveEditMode, which cannot reach the text, and the  *)
(* option submitOnBlur are left out.                                       *)
(***************************************************************************)
EXTENDS Naturals, FiniteSets

CONSTANTS
    Values,      \* texts of the element
    Calls,       \* requests that may be under way at once
    MaxClicks    \* bound on the number of times the editor is entered

ASSUME EditorAssumption == IsFiniteSet(Calls) /\ MaxClicks \in Nat

Saving == "Saving..."
Loading == "Loading..."
Null == "null"

\* What the editor puts in place of a text is no text.
ASSUME TextsAssumption == {Saving, Loading, Null} \cap Values = {}

VARIABLES
    ipe,         \* fixed options, see Options
    element,     \* its innerHTML
    shown,       \* whether the element is shown
    _editing, _saving,
    _oldInnerHTML,
    _form,       \* 0, or the number of the form
    editor,      \* the value of the form's field, Loading while it is disabled
    calls,       \* the requests under way
    clicks,      \* forms made so far
    dropped      \* history: the text that Saving stands for was given up

editVars == <<ipe, element, shown, _editing, _saving, _oldInnerHTML, _form, editor,
              calls, clicks, dropped>>

Options ==
    [load      : {"none", "text", "list", "collection"},
                 \* loadTextURL, loadCollectionURL, or (collection) both
     onFailure : {"default", "custom"},
     htmlResponse : BOOLEAN,
     focusable : BOOLEAN]     \* whether the element itself can get keydown events

NoCall == "none"

EditInit ==
    /\ ipe \in Options
    /\ element \in Values
    /\ shown = TRUE
    /\ _editing = FALSE /\ _saving = FALSE
    /\ _oldInnerHTML = Null
    /\ _form = 0 /\ editor = Null
    /\ calls = [c \in Calls |-> NoCall]
    /\ clicks = 0
    /\ dropped = FALSE

-----------------------------------------------------------------------------
\* The steps the handlers are made of.

\* The tests of _oldInnerHTML by its truth value take the empty text for none.
Truthy(t) == t \notin {Null, ""}

\* The text is given up if this step leaves Saving in its place; it is no
\* longer missed once the element shows a text again.
GivesUp(how) == dropped' = (element' = Saving /\ (dropped \/ how))

send(c, kind) ==
    /\ calls[c] = NoCall
    /\ calls' = [calls EXCEPT ![c] = kind]

\* removeForm also drops the controls.
removeForm == _form' = 0 /\ editor' = Null

leaveEditMode ==
    /\ removeForm
    /\ shown' = TRUE
    /\ _saving' = FALSE /\ _editing' = FALSE
    /\ _oldInnerHTML' = Null

\* wrapUp also calls onComplete, which only colours the element.
wrapUp == leaveEditMode

\* The early return of enterEditMode.
mayEnter == ~(_saving \/ _editing)

\* createEditField of the editor loads the text or takes it from the element;
\* the collection editor loads its list first.  The field is disabled meanwhile.
createEditField(c) ==
    IF ipe.load = "none"
    THEN editor' = element /\ UNCHANGED calls
    ELSE editor' = Loading /\ send(c, ipe.load)

createForm(c) == _form' = clicks + 1 /\ createEditField(c)

enterEditMode(c) ==
    /\ shown /\ clicks < MaxClicks
    /\ mayEnter
    /\ _editing' = TRUE
    /\ shown' = FALSE
    /\ clicks' = clicks + 1
    /\ createForm(c)
    /\ UNCHANGED <<ipe, element, _saving, _oldInnerHTML, dropped>>

\* The user types in the form's field, unless it is disabled.
edit_field(v) ==
    /\ _form # 0 /\ editor \notin {Loading, v}
    /\ editor' = v
    /\ UNCHANGED <<ipe, element, shown, _editing, _saving, _oldInnerHTML, _form, calls,
                   clicks, dropped>>

\* Keys reach the element itself only while it is shown and can have the focus.
checkForEscapeOrReturn == ipe.focusable /\ _editing /\ shown

\* Cancel in the form, or Esc on the element, which is shown while it saves.
handleFormCancellation ==
    /\ _form # 0 \/ checkForEscapeOrReturn
    /\ wrapUp
    /\ UNCHANGED <<ipe, element, calls, clicks>>
    /\ GivesUp(_saving)

\* (Mutant) the text to go back to is not kept
ShowSavingOnly == element' = Saving /\ shown' = TRUE /\ _oldInnerHTML' = _oldInnerHTML

showSaving == element' = Saving /\ shown' = TRUE /\ _oldInnerHTML' = element

prepareSubmission ==
    /\ _saving' = TRUE
    /\ removeForm
    /\ showSaving

\* Ok in the form.  options.callback may throw, and then nothing is sent.
\* Return on the element while it saves throws at once, for there is no field,
\* and changes nothing.
handleFormSubmission(c) ==
    /\ _form # 0
    /\ prepareSubmission
    /\ send(c, "save") \/ UNCHANGED calls
    /\ UNCHANGED <<ipe, _editing, clicks, dropped>>

-----------------------------------------------------------------------------
\* Answers.

endCall(c) == calls' = [calls EXCEPT ![c] = NoCall]

\* updateContent, then wrapUp, whatever has been done since the submission.
\* Without htmlResponse it is left to the page to show the text.
saved(c) ==
    /\ calls[c] = "save"
    /\ endCall(c)
    /\ element' \in Values \cup (IF ipe.htmlResponse THEN {} ELSE {element})
    /\ wrapUp
    /\ UNCHANGED <<ipe, clicks>>
    /\ GivesUp(~ipe.htmlResponse)

\* Whether onFailure returns.  The default one takes its arguments in the other
\* order and throws; one of the page may throw, or not be called because
\* ajaxOptions has a handler for the status.
Returns == {FALSE, ipe.onFailure = "custom"}

PutsBack(returns) == returns /\ Truthy(_oldInnerHTML)

handleAJAXFailure(returns) ==
    element' = IF PutsBack(returns) THEN _oldInnerHTML ELSE element

save_fails(c) ==
    /\ calls[c] = "save"
    /\ endCall(c)
    /\ wrapUp
    /\ UNCHANGED <<ipe, clicks>>
    /\ \E returns \in Returns :
         /\ handleAJAXFailure(returns)
         /\ GivesUp(~PutsBack(returns))

\* The list of a collection editor is in: the text is loaded next.  With no
\* form the throw in showLoadingText ends the load.
collection_loaded(c) ==
    /\ calls[c] = "collection"
    /\ IF _form # 0
       THEN /\ calls' = [calls EXCEPT ![c] = "text"]
            /\ editor' = Loading
       ELSE endCall(c) /\ UNCHANGED editor
    /\ UNCHANGED <<ipe, element, shown, _editing, _saving, _oldInnerHTML, _form, clicks, dropped>>

\* onSuccess of loadExternalText, or of loadCollection with no text to load:
\* into the form there is, not the one that asked.
text_loaded(c) ==
    /\ calls[c] \in {"text", "list"}
    /\ endCall(c)
    /\ IF _form # 0 THEN editor' \in Values ELSE UNCHANGED editor
    /\ UNCHANGED <<ipe, element, shown, _editing, _saving, _oldInnerHTML, _form, clicks, dropped>>

\* A load fails: the editor's handler is that of a save, and puts the old text
\* back under a save; the collection editor has none.  The field stays disabled.
load_fails(c) ==
    /\ calls[c] \in {"text", "list", "collection"}
    /\ endCall(c)
    /\ \E returns \in (IF ipe.load = "text" THEN Returns ELSE {FALSE}) :
         /\ handleAJAXFailure(returns)
         /\ _oldInnerHTML' = IF PutsBack(returns) THEN Null ELSE _oldInnerHTML
    /\ UNCHANGED <<ipe, shown, _editing, _saving, _form, editor, clicks>>
    /\ GivesUp(FALSE)

\* destroy; the listeners go, so the editor is never entered again.
destroy ==
    /\ clicks < MaxClicks
    /\ clicks' = MaxClicks
    /\ element' = IF Truthy(_oldInnerHTML) THEN _oldInnerHTML ELSE element
    /\ leaveEditMode
    /\ UNCHANGED <<ipe, calls>>
    /\ GivesUp(_oldInnerHTML = "")

EditNext ==
    \/ \E c \in Calls :
         \/ enterEditMode(c) \/ handleFormSubmission(c)
         \/ saved(c) \/ save_fails(c)
         \/ collection_loaded(c) \/ text_loaded(c) \/ load_fails(c)
    \/ \E v \in Values : edit_field(v)
    \/ handleFormCancellation
    \/ destroy

EditSpec == EditInit /\ [][EditNext]_editVars

-----------------------------------------------------------------------------
EditTypeOK ==
    /\ ipe \in Options
    /\ element \in Values \cup {Saving}
    /\ {shown, _editing, _saving, dropped} \subseteq BOOLEAN
    /\ _oldInnerHTML \in Values \cup {Saving, Null}
    /\ _form \in 0..MaxClicks /\ (_form # 0 <=> ~shown)
    /\ editor \in Values \cup {Saving, Loading, Null}
    /\ calls \in [Calls -> {NoCall, "save", "text", "list", "collection"}]
    /\ clicks \in 0..MaxClicks

\* A text is either shown, being edited, or kept while "Saving..." stands in
\* its place, through every late answer.  It is lost by Esc on the element
\* under a save, by a save without htmlResponse whose answer the page does not
\* show, by a failure whose onFailure does not return, and by a failure or a
\* destroy when it is empty; then until the element shows a text again
\* (controls.js, handleAJAXFailure, showSaving, leaveEditMode, destroy).
TextIsNeverLost ==
    element = Saving => (_saving /\ _oldInnerHTML # Null) \/ dropped
===============================================================================
