----------------------------- MODULE Autocompleter -----------------------------
(***************************************************************************)
(* Autocompleter.Base of controls.js with its two sources of choices:      *)
(* Ajax.Autocompleter, which asks the server and applies the answer when   *)
(* it comes, and Autocompleter.Local, which applies the choices at once.   *)
(*                                                                         *)
(* The text box holds one token.  A keydown comes before the change it     *)
(* makes, but its timer fires after, so a key and its change are one step. *)
(* An answer is applied by the onComplete of its request, for a success    *)
(* and for a failure; a failure has no list in it.                         *)
(***************************************************************************)
EXTENDS Naturals, Sequences, FiniteSets, SequencesExt

CONSTANTS
    Tokens,        \* texts the user may type
    Entries(_),    \* the entries offered for a text, a sequence of texts
    MinChars(_),   \* whether a text has minChars characters
    MaxAsked,      \* bound on the requests under way
    MaxKeys        \* bound on the keys and edits of the user

ASSUME AutocompleterAssumption ==
    /\ \A t \in Tokens : Entries(t) \in Seq(Tokens) /\ MinChars(t) \in BOOLEAN
    /\ MaxAsked \in Nat /\ MaxKeys \in Nat

VARIABLES
    options,       \* [Local, autoSelect], fixed when the object is made
    text,          \* element.value
    bounds,        \* the text tokenBounds was computed for, or "unset"
    hasFocus, changed, active, index, entryCount,
    list,          \* the token whose entries are in the menu, or "nothing"
    observer,      \* the observer timer is pending
    display,       \* of the menu: "none", "shown", "fading"
    hide_timers,   \* pending hides of onBlur: 0 or 1
    indicator,     \* whether the indicator is shown
    asked,         \* tokens of the requests under way, oldest first
    keys,          \* keys and edits so far
    crossed        \* history: why the menu may be about another text

acVars == <<options, text, bounds, hasFocus, changed, active, index, entryCount, list, observer,
            display, hide_timers, indicator, asked, keys, crossed>>

NoList == "nothing"
Unset == "unset"

AcInit ==
    /\ options \in [Local : BOOLEAN, autoSelect : BOOLEAN]
    /\ text \in {t \in Tokens : ~MinChars(t)}
    /\ bounds = Unset
    /\ hasFocus = FALSE /\ changed = FALSE /\ active = FALSE
    /\ index = 0 /\ entryCount = 0 /\ list = NoList
    /\ observer = FALSE /\ display = "none" /\ hide_timers = 0 /\ indicator = FALSE
    /\ asked = <<>> /\ keys = 0 /\ crossed = {}

-----------------------------------------------------------------------------
\* The menu.  show opens a menu whose display is none, so it does nothing for
\* one that is still fading, and the fade then closes it.

show == IF display = "none" THEN "shown" ELSE display

\* hide also stops the indicator.
hide == IF display = "shown" THEN "fading" ELSE display

fade_ends ==
    /\ display = "fading"
    /\ display' = "none"
    /\ UNCHANGED <<text, bounds, hasFocus, changed, active, index, entryCount, list,
                   observer, hide_timers, indicator, asked, keys, crossed>>

\* render, for a menu of n entries while the box has the focus or not.
render(n) ==
    IF n > 0
    THEN /\ active' = (active \/ hasFocus)
         /\ display' = IF hasFocus THEN show ELSE display
    ELSE /\ active' = FALSE
         /\ display' = hide

\* The entry the menu holds at a place; a list that is no list has none.
getEntry(i) == Entries(list)[i + 1]

\* getTokenBounds keeps the bounds of the last observer event.  In a text that
\* has changed since they cut off, or leave in place, some of its characters,
\* which makes some other text.
Fresh(b) == b \in {Unset, text}

getToken(b) == IF Fresh(b) THEN {text} ELSE Tokens

\* updateElement puts an entry between the bounds.
updateElement(b, entry) == text' \in IF Fresh(b) THEN {entry} ELSE Tokens

selectEntry(entry) ==
    /\ updateElement(bounds, entry)
    /\ bounds' = IF bounds = Unset THEN text ELSE bounds
    /\ active' = FALSE

-----------------------------------------------------------------------------
\* Keys.  The alternatives are the cases of onKeyPress.

PressKey == keys < MaxKeys /\ keys' = keys + 1

\* Any key but the ones below: the text changes and the observer timer is
\* cleared and set.  An open menu stays open and active.
type(t) ==
    /\ PressKey
    /\ text' = t
    /\ changed' = TRUE
    /\ hasFocus' = TRUE
    /\ observer' = TRUE
    /\ UNCHANGED <<bounds, active, index, entryCount, list, display, hide_timers,
                   indicator, asked, crossed>>

\* Tab or Return on an active menu: select, then fall through to the case of
\* Esc.  A menu whose list was overwritten by an answer without one has no
\* entry, and the throw leaves it active.
enter ==
    /\ active
    /\ PressKey
    /\ IF list = NoList
       THEN UNCHANGED <<text, bounds, display, indicator, active, crossed>>
       ELSE /\ selectEntry(getEntry(index))
            /\ display' = hide
            /\ indicator' = FALSE
            /\ crossed' = crossed \cup {"picked"}
    /\ UNCHANGED <<hasFocus, changed, index, entryCount, list, observer, hide_timers, asked>>

escape ==
    /\ active
    /\ PressKey
    /\ active' = FALSE
    /\ display' = hide
    /\ indicator' = FALSE
    /\ UNCHANGED <<text, bounds, hasFocus, changed, index, entryCount, list, observer,
                   hide_timers, asked, crossed>>

\* (Mutant) the last entry is followed by one that is not there
NextUnwrapped == index + 1

markNext == IF index < entryCount - 1 THEN index + 1 ELSE 0

markPrevious == IF index > 0 THEN index - 1 ELSE entryCount - 1

\* Up or Down on an active menu, where a missing list throws after the index
\* is set; and onHover, which may also come after the box has lost the focus.
mark ==
    /\ PressKey
    /\ \/ active /\ index' \in {markNext, markPrevious}
       \/ /\ display # "none" /\ list # NoList
          /\ index' \in (0..entryCount - 1) \ {index}
    /\ IF list = NoList THEN UNCHANGED <<active, display>> ELSE render(entryCount)
    /\ UNCHANGED <<text, bounds, hasFocus, changed, entryCount, list, observer, hide_timers,
                   indicator, asked, crossed>>

\* The user pastes, or the page assigns: no event is observed.
edit(t) ==
    /\ PressKey
    /\ text' = t
    /\ crossed' = crossed \cup {"pasted"}
    /\ UNCHANGED <<bounds, hasFocus, changed, active, index, entryCount, list, observer,
                   display, hide_timers, indicator, asked>>

\* A click on an entry, as a rule after the blur it causes; updateElement gives
\* the focus back, which no handler observes.
onClick(i) ==
    /\ PressKey
    /\ display # "none" /\ list # NoList /\ i < entryCount
    /\ index' = i
    /\ selectEntry(getEntry(i))
    /\ display' = hide
    /\ indicator' = FALSE
    /\ crossed' = crossed \cup {"picked"}
    /\ UNCHANGED <<hasFocus, hide_timers, changed, entryCount, list, observer, asked>>

\* (Mutant) the menu of a box without the focus stays active
BlurKeepsActive ==
    /\ hasFocus
    /\ PressKey
    /\ hide_timers' = 1
    /\ hasFocus' = FALSE
    /\ UNCHANGED <<text, bounds, changed, active, index, entryCount, list, observer, display,
                   indicator, asked, crossed>>

onBlur ==
    /\ hasFocus
    /\ PressKey
    /\ hide_timers' = 1
    /\ hasFocus' = FALSE
    /\ active' = FALSE
    /\ UNCHANGED <<text, bounds, changed, index, entryCount, list, observer, display,
                   indicator, asked, crossed>>

\* The hide that onBlur left, also when the user has come back since.
blur_hide ==
    /\ hide_timers > 0
    /\ hide_timers' = 0
    /\ display' = hide
    /\ indicator' = FALSE
    /\ UNCHANGED <<text, bounds, hasFocus, changed, active, index, entryCount, list,
                   observer, asked, keys, crossed>>

-----------------------------------------------------------------------------
\* Choices.

\* An only entry is selected without being offered.
Selects(token) == options.autoSelect /\ Len(Entries(token)) = 1

\* updateChoices with the entries for a token, once its condition (unchanged
\* text, focus) holds, and render for a box that has the focus.
updateChoices(token, b) ==
    LET n == Len(Entries(token)) IN
    /\ list' = token
    /\ entryCount' = n
    /\ index' = 0
    /\ indicator' = FALSE
    /\ IF Selects(token) THEN updateElement(b, Entries(token)[1]) ELSE UNCHANGED text
    /\ active' = (n > 0 /\ ~Selects(token))
    /\ display' = IF active' THEN show ELSE hide

\* The condition of updateChoices fails.
ignoreChoices == UNCHANGED <<list, entryCount, index, indicator, text, active, display>>

Picked(token) == IF Selects(token) THEN {"picked"} ELSE {}

\* Autocompleter.Local's getUpdatedChoices applies its choices at once;
\* Ajax.Autocompleter's sends a request.  A request for the whole text, sent
\* while no other is under way, ends what made the menu stale.
getUpdatedChoices(focus, b) ==
    \E token \in getToken(b) :
       IF options.Local
       THEN /\ IF focus THEN updateChoices(token, b) ELSE ignoreChoices
            /\ crossed' = (IF Fresh(b) THEN {} ELSE crossed) \cup Picked(token)
            /\ UNCHANGED asked
       ELSE /\ Len(asked) < MaxAsked
            /\ asked' = Append(asked, token)
            /\ indicator' = TRUE
            /\ crossed' = IF asked = <<>> /\ Fresh(b) THEN {} ELSE crossed
            /\ UNCHANGED <<list, entryCount, index, text, active, display>>

onObserverEvent ==
    /\ observer
    /\ observer' = FALSE
    /\ changed' = FALSE
    /\ bounds' = IF MinChars(text) THEN text ELSE Unset
    /\ IF MinChars(text)
       THEN getUpdatedChoices(hasFocus, text)
       ELSE /\ active' = FALSE
            /\ display' = hide
            /\ indicator' = FALSE
            /\ crossed' = crossed \cup {"emptied"}
            /\ UNCHANGED <<list, entryCount, index, text, asked>>
    /\ UNCHANGED <<hasFocus, hide_timers, keys>>

\* The page opens the menu for the text as it is, by the bounds as they are.
activate ==
    /\ PressKey
    /\ changed' = FALSE
    /\ hasFocus' = TRUE
    /\ bounds' = IF bounds = Unset /\ MinChars(text) THEN text ELSE bounds
    /\ getUpdatedChoices(TRUE, bounds)
    /\ UNCHANGED <<observer, hide_timers>>

\* The onComplete of a request, answered in any order.
onAnswer(i) ==
    LET heeded == ~changed /\ hasFocus IN
    /\ asked' = RemoveAt(asked, i)
    /\ crossed' = crossed \cup (IF i > 1 THEN {"overtaken"} ELSE {})
                           \cup (IF heeded THEN Picked(asked[i]) ELSE {})
    /\ IF heeded THEN updateChoices(asked[i], bounds) ELSE ignoreChoices
    /\ UNCHANGED <<bounds, hasFocus, changed, observer, hide_timers, keys>>

\* An answer without a list replaces the menu, then throws: the entries go and
\* their count, the indicator and active stay.
onFailedAnswer(i) ==
    /\ asked' = RemoveAt(asked, i)
    /\ IF ~changed /\ hasFocus
       THEN list' = NoList /\ crossed' = crossed \cup {"failed"}
       ELSE UNCHANGED <<list, crossed>>
    /\ UNCHANGED <<text, bounds, hasFocus, changed, active, index, entryCount, observer,
                   display, hide_timers, indicator, keys>>

AcNext ==
    /\ \/ \E t \in Tokens : type(t) \/ edit(t)
       \/ enter \/ escape \/ mark \/ activate
       \/ \E i \in 0..entryCount - 1 : onClick(i)
       \/ onBlur \/ blur_hide \/ fade_ends
       \/ onObserverEvent
       \/ \E i \in 1..Len(asked) : onAnswer(i) \/ onFailedAnswer(i)
    /\ UNCHANGED options

AcSpec == AcInit /\ [][AcNext]_acVars

-----------------------------------------------------------------------------
AcTypeOK ==
    /\ options \in [Local : BOOLEAN, autoSelect : BOOLEAN]
    /\ text \in Tokens
    /\ bounds \in Tokens \cup {Unset}
    /\ {hasFocus, changed, active, observer, indicator} \subseteq BOOLEAN
    /\ list \in Tokens \cup {NoList}
    /\ index \in Nat /\ entryCount \in Nat /\ (active => index < entryCount)
    /\ display \in {"none", "shown", "fading"}
    /\ hide_timers \in 0..1
    /\ asked \in Seq(Tokens) /\ Len(asked) <= MaxAsked
    /\ keys \in 0..MaxKeys
    /\ crossed \subseteq {"overtaken", "picked", "pasted", "failed", "emptied"}

Settled == ~observer /\ ~changed /\ asked = <<>>

\* When the timer has fired and every answer is in, a menu that takes keys
\* offers entries for the text in the box, unless answers overtook each other,
\* an entry was picked, the box was emptied (a late answer, or the mouse on a
\* menu that still fades, opens it again), an answer had no list, or the text
\* was changed without a key.  updateChoices compares no token: these are the
\* ways the menu goes stale, and there is no other.
SettledMenuIsForText == Settled /\ active => list = text \/ crossed # {}
===============================================================================
