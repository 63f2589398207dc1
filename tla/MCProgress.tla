-------------------------------- MODULE MCProgress --------------------------------
(* What must come about on the pages, by timers, answers and frames that come *)
(* in the end.  A behaviour is one of uploads, of a queue of effects, of an   *)
(* observed field, or of the dialogs: either the page is opened while a drive *)
(* is scanned and the index dialog is used, or every drive is done and        *)
(* upgrades are checked for, with two threads so that a second download can   *)
(* start while the first one runs.                                            *)
EXTENDS FormUpload, EffectQueue, FormObservers, Dialogs

VARIABLE part

MCInit ==
    /\ UploadInit /\ EffectInit /\ ObserverInit /\ DialogsInit
    /\ part \in {"upload", "effects", "observer", "index", "upgrade"}
    /\ part # "upload" => checked = {}
    /\ part # "observer" => kind = "timed" /\ value = "x"
    /\ part # "index" => done = Drives

DialogsPart ==
    \/ part = "index" /\ (Index \/ command_message)
    \/ part = "upgrade" /\ (Upgrade \/ scan_img \/ scan_img_error)
    \/ part = "upgrade" /\ \E d \in Drives : ScanDone(d)
    \/ hide_message \/ fade_end \/ ServiceDies \/ ServiceStarts

MCNext ==
    /\ \/ /\ part = "upload" /\ UploadNext
          /\ UNCHANGED <<effectVars, observerVars, dialogsVars>>
       \/ /\ part = "effects" /\ EffectNext
          /\ UNCHANGED <<uploadVars, observerVars, dialogsVars>>
       \/ /\ part = "observer" /\ ObserverNext
          /\ UNCHANGED <<uploadVars, effectVars, dialogsVars>>
       \/ /\ part \in {"index", "upgrade"} /\ DialogsPart
          /\ UNCHANGED <<uploadVars, effectVars, observerVars>>
    /\ UNCHANGED part

(* The fairness of Dialogs, for the behaviours its steps happen in.           *)
DialogsPartFairness ==
    /\ WF_dialogsVars(part = "upgrade" /\ Answered)
    /\ WF_dialogsVars(part = "upgrade" /\ DayPasses)
    /\ WF_dialogsVars(part = "index" /\ refreash_index_status)
    /\ \A d \in Drives : WF_dialogsVars(part = "index" /\ ScanDone(d))

MCSpec ==
    /\ MCInit /\ [][MCNext]_<<uploadVars, effectVars, observerVars, dialogsVars, part>>
    /\ UploadFairness /\ EffectFairness /\ ObserverFairness /\ DialogsPartFairness

ProgressTypeOK == /\ UploadTypeOK /\ EffectTypeOK /\ ObserverTypeOK /\ DialogsTypeOK
=============================================================================
