---------------------------------- MODULE MCPages ----------------------------------
(* What the pages of the browser and of the site may never do.  Their scripts *)
(* share nothing, so a behaviour is one of the sessions of the history, of    *)
(* requests and polls, of an autocompleter, of an in place editor, of         *)
(* sortable lists, or of the styles effects draw.                             *)
EXTENDS HistoryApp, AjaxRequest, Autocompleter, InPlaceEditor, DragDrop, EffectStyles

VARIABLE part

MCEntries(t) ==
    CASE t = "a"  -> <<"ab", "abc">>
      [] t = "ab" -> <<"abc">>
      [] OTHER    -> <<>>

MCMinChars(t) == t # ""

(* Lists that scroll and ghost, that wait, that sort at the end of the drag   *)
(* and keep to themselves, and plain ones without dropOnEmpty, one of whose   *)
(* items has an id that the format does not match.                            *)
MCDragOptions ==
    LET plain == [scroll |-> FALSE, ghosting |-> FALSE, delay |-> FALSE, quiet |-> FALSE,
                  dropOnEmpty |-> TRUE, shared |-> TRUE, ident |-> [i \in Items |-> i]]
    IN  {[plain EXCEPT !.scroll = TRUE, !.ghosting = TRUE],
         [plain EXCEPT !.delay = TRUE],
         [plain EXCEPT !.quiet = TRUE, !.shared = FALSE],
         [plain EXCEPT !.dropOnEmpty = FALSE, !.ident["i2"] = Nothing]}

MCInit ==
    /\ AppInit /\ AjaxInit /\ AcInit /\ EditInit /\ DragInit /\ StyleInit
    /\ part \in {"history", "ajax", "autocompleter", "editor", "drag", "styles"}
    /\ part # "autocompleter" => ~options.Local /\ ~options.autoSelect
    /\ part # "editor" => /\ element = "a"
                          /\ ipe = [load |-> "none", onFailure |-> "default",
                                    htmlResponse |-> TRUE, focusable |-> FALSE]
    /\ part # "drag" => /\ dd = CHOOSE o \in DragOptions : TRUE
                        /\ order = CHOOSE o \in [Lists -> {<<>>, <<"i1", "i2">>}] : Arrangement(o)
    /\ part # "styles" => elem.visible /\ own = "static"

(* Once a change of a sorted list is known to be lost the drag stops.         *)
MCNext ==
    /\ \/ /\ part = "history" /\ AppNext
          /\ UNCHANGED <<ajaxVars, acVars, editVars, dragVars, styleVars>>
       \/ /\ part = "ajax" /\ AjaxNext
          /\ UNCHANGED <<appVars, acVars, editVars, dragVars, styleVars>>
       \/ /\ part = "autocompleter" /\ AcNext
          /\ UNCHANGED <<appVars, ajaxVars, editVars, dragVars, styleVars>>
       \/ /\ part = "editor" /\ EditNext
          /\ UNCHANGED <<appVars, ajaxVars, acVars, dragVars, styleVars>>
       \/ /\ part = "drag" /\ lost = {} /\ DragNext
          /\ UNCHANGED <<appVars, ajaxVars, acVars, editVars, styleVars>>
       \/ /\ part = "styles" /\ StyleNext
          /\ UNCHANGED <<appVars, ajaxVars, acVars, editVars, dragVars>>
    /\ UNCHANGED part

MCSpec ==
    /\ MCInit
    /\ [][MCNext]_<<appVars, ajaxVars, acVars, editVars, dragVars, styleVars, part>>

PagesTypeOK == /\ AppTypeOK /\ AjaxTypeOK /\ AcTypeOK /\ EditTypeOK /\ DragTypeOK /\ StyleTypeOK
=============================================================================
