------------------------------ MODULE WebProofs -------------------------------
(***************************************************************************)
(* Proofs about the script libraries of the web site: the requests of      *)
(* Prototype, the in place editor, the autocompleter, the sorted lists and *)
(* the effect queues of script.aculo.us, and the frame upload of the form  *)
(* plugin, each for any number of requests, keys, drags, uploads and       *)
(* effects. The six have no variable in common.                            *)
(***************************************************************************)
EXTENDS AjaxRequest, InPlaceEditor, FormUpload, Autocompleter, DragDrop, EffectQueue,
        FiniteSetTheorems, SequenceTheorems, WellFoundedInduction, NaturalsInduction, TLAPS

(***************************************************************************)
(* The count of active requests and the single chain of polls, for any     *)
(* number of requests.  Both follow from RequestInv, which says in which   *)
(* states a request may be: above all that a request under way is counted, *)
(* and that readyState 4 and _complete go together, so that a request is   *)
(* completed once.                                                         *)
(***************************************************************************)

Counted == {r \in Requests : rq[r].counted}

Live(q) == q.state = "sent" /\ ~q._complete /\ q.hooked

RequestInv(q) ==
    /\ q \in RequestRecord
    /\ q.state = "none" => ~q.counted /\ ~q._complete
    /\ q.state = "broken" => ~q._complete
    /\ q.state = "sent" => (q._complete <=> q.readyState = 4)
    /\ q.state = "sent" /\ ~q._complete => q.counted

RequestsInv == rq \in [Requests -> RequestRecord] /\ \A r \in Requests : RequestInv(rq[r])

CountInv == activeRequestCount = Cardinality(Counted)

\* The chain is at its timer or at its updater, and there is none after stop.
ChainInv ==
    /\ polling \in BOOLEAN /\ poll_threw \in BOOLEAN /\ stop_missed \in BOOLEAN
    /\ updater \in Polls \cup {None}
    /\ polling \/ stop_missed => updater \in Polls
    /\ IF (polling \/ stop_missed) /\ ~poll_threw
       THEN \/ poll_timer = 1 /\ LivePolls = {}
            \/ poll_timer = 0 /\ LivePolls = {updater}
       ELSE poll_timer = 0 /\ LivePolls = {}

AjaxInv == RequestsInv /\ CountInv /\ ChainInv

-----------------------------------------------------------------------------
\* What a step that replaces one request does to the sets of requests.
LEMMA ReplaceRequest ==
    ASSUME RequestsInv, NEW r \in Requests, NEW q, RequestInv(q),
           rq' = [rq EXCEPT ![r] = q]
    PROVE  /\ RequestsInv'
           /\ Counted' = IF q.counted THEN Counted \cup {r} ELSE Counted \ {r}
           /\ LivePolls' = IF Live(q) /\ r \in Polls THEN LivePolls \cup {r}
                           ELSE LivePolls \ {r}
<1>1. RequestsInv'
  BY DEF RequestsInv, RequestInv
<1>2. Counted' = IF q.counted THEN Counted \cup {r} ELSE Counted \ {r}
  BY DEF Counted, RequestsInv
<1>3. LivePolls' = IF Live(q) /\ r \in Polls THEN LivePolls \cup {r} ELSE LivePolls \ {r}
  BY DEF LivePolls, Outstanding, RequestsInv, Requests, Live
<1> QED
  BY <1>1, <1>2, <1>3

\* The count of a finite set of requests after one is added or taken away.
LEMMA CountChanges ==
    ASSUME NEW r \in Requests
    PROVE  /\ IsFiniteSet(Counted) /\ Cardinality(Counted) \in Nat
           /\ r \notin Counted => Cardinality(Counted \cup {r}) = Cardinality(Counted) + 1
           /\ r \in Counted => /\ Cardinality(Counted \ {r}) = Cardinality(Counted) - 1
                               /\ Counted \cup {r} = Counted
           /\ r \notin Counted => Counted \ {r} = Counted
<1>1. IsFiniteSet(Counted)
  <2>1. IsFiniteSet(Requests)
    BY AjaxAssumption, FS_Union DEF Requests
  <2> QED
    BY <2>1, FS_Subset DEF Counted
<1>2. Cardinality(Counted) \in Nat
  BY <1>1, FS_CardinalityType
<1>3. r \notin Counted => Cardinality(Counted \cup {r}) = Cardinality(Counted) + 1
  BY <1>1, <1>2, FS_AddElement
<1>4. r \in Counted => Cardinality(Counted \ {r}) = Cardinality(Counted) - 1
  BY <1>1, <1>2, FS_RemoveElement
<1>5. (r \in Counted => Counted \cup {r} = Counted) /\ (r \notin Counted => Counted \ {r} = Counted)
  OBVIOUS
<1> QED
  BY <1>1, <1>2, <1>3, <1>4, <1>5

\* A record is built from its fields.
LEMMA RecordOfFields ==
    ASSUME NEW n \in 0..4, NEW st \in {"none", "sent", "broken"},
           NEW b1 \in BOOLEAN, NEW b2 \in BOOLEAN, NEW b3 \in BOOLEAN, NEW b4 \in BOOLEAN
    PROVE  [readyState |-> n, state |-> st, _complete |-> b1, deferred |-> b2,
            hooked |-> b3, counted |-> b4] \in RequestRecord
BY Zenon DEF RequestRecord

\* A slot without a request.
LEMMA IdleRequest == RequestInv(NoRequest) /\ ~NoRequest.counted /\ ~Live(NoRequest)
BY DEF RequestInv, NoRequest, Live, RequestRecord

\* A new request is one that is sent, counted and hooked.
LEMMA SentRequest == RequestInv(Sent) /\ Sent.counted /\ Live(Sent)
<1>1. NoRequest \in RequestRecord
  BY IdleRequest DEF RequestInv
<1>2. Sent \in RequestRecord
  <2> DEFINE States == 0..4
             Record == [readyState : States, state : {"none", "sent", "broken"},
                        _complete : BOOLEAN, deferred : BOOLEAN,
                        hooked : BOOLEAN, counted : BOOLEAN]
  <2>1. NoRequest \in Record /\ 1 \in States
    BY <1>1 DEF RequestRecord
  <2> HIDE DEF States
  <2>2. Sent \in Record
    BY <2>1 DEF Sent
  <2> QED
    BY <2>2 DEF RequestRecord, States
<1>3. Sent.state = "sent" /\ Sent.readyState = 1 /\ Sent.counted = TRUE /\ Sent.hooked = TRUE
  BY <1>1 DEF Sent, RequestRecord
<1>4. Sent._complete = FALSE
  BY <1>1 DEF Sent, NoRequest, RequestRecord
<1> QED
  BY <1>2, <1>3, <1>4 DEF RequestInv, Live

\* A request whose request() caught a throw.
LEMMA BrokenRequest ==
    ASSUME NEW n \in 0..4, NEW b \in BOOLEAN, NEW d \in BOOLEAN, NEW q,
           q = [NoRequest EXCEPT !.state = "broken", !.counted = b, !.readyState = n,
                                 !.deferred = d]
    PROVE  RequestInv(q) /\ (q.counted <=> b) /\ ~Live(q)
<1>1. NoRequest \in RequestRecord
  BY IdleRequest DEF RequestInv
<1>2. q \in RequestRecord
  <2> DEFINE States == 0..4
             Record == [readyState : States, state : {"none", "sent", "broken"},
                        _complete : BOOLEAN, deferred : BOOLEAN,
                        hooked : BOOLEAN, counted : BOOLEAN]
  <2>1. NoRequest \in Record /\ n \in States
    BY <1>1 DEF RequestRecord
  <2> HIDE DEF States
  <2>2. q \in Record
    BY <2>1
  <2> QED
    BY <2>2 DEF RequestRecord, States
<1>3. q.state = "broken" /\ q.counted = b
  BY <1>1 DEF RequestRecord
<1>4. q._complete = FALSE
  BY <1>1 DEF NoRequest, RequestRecord
<1>5. ~Live(q)
  BY <1>3 DEF Live
<1> QED
  BY <1>2, <1>3, <1>4, <1>5, Zenon DEF RequestInv

\* What request() leaves when it throws.
LEMMA BreaksRequest ==
    ASSUME NEW r \in Requests, breaks(r)
    PROVE  \E q : /\ RequestInv(q) /\ ~Live(q) /\ rq' = [rq EXCEPT ![r] = q]
                 /\ activeRequestCount' =
                      IF q.counted THEN activeRequestCount + 1 ELSE activeRequestCount
<1>1. PICK at \in {"onCreate", "open", "send", "answer"} :
         /\ rq' = [rq EXCEPT ![r] =
                    [NoRequest EXCEPT !.state = "broken",
                                      !.counted = at # "onCreate",
                                      !.readyState = IF at = "send" THEN 1
                                                     ELSE IF at = "answer" THEN 4 ELSE 0,
                                      !.deferred = at = "send"]]
         /\ activeRequestCount' =
              IF at = "onCreate" THEN activeRequestCount ELSE activeRequestCount + 1
  BY DEF breaks
<1> DEFINE b == at # "onCreate"
           d == at = "send"
           n == IF at = "send" THEN 1 ELSE IF at = "answer" THEN 4 ELSE 0
           q == [NoRequest EXCEPT !.state = "broken", !.counted = b, !.readyState = n,
                                  !.deferred = d]
<1>2. b \in BOOLEAN /\ d \in BOOLEAN /\ n \in 0..4
  OBVIOUS
<1>3. RequestInv(q) /\ (q.counted <=> b) /\ ~Live(q)
  <2> HIDE DEF b, d, n
  <2> QED
    BY <1>2, BrokenRequest
<1>4. rq' = [rq EXCEPT ![r] = q]
  BY <1>1
<1> HIDE DEF q
<1> QED
  BY <1>1, <1>3, <1>4

\* A synchronous request: completed once, by the browser or by request().
LEMMA SyncRequest ==
    ASSUME NEW throws \in BOOLEAN, NEW q0, NEW q,
           q0 = [Sent EXCEPT !.readyState = 4, !.deferred = FALSE], q = Completed(q0, throws)
    PROVE  RequestInv(q) /\ (q.counted <=> throws) /\ Heeds(q0) /\ ~Heeds(q)
<1>1. Sent \in RequestRecord /\ Sent.state = "sent" /\ Sent.counted /\ ~Sent._complete
  BY SentRequest DEF RequestInv, Live
<1>2. q0 \in RequestRecord
  <2> DEFINE States == 0..4
             Record == [readyState : States, state : {"none", "sent", "broken"},
                        _complete : BOOLEAN, deferred : BOOLEAN,
                        hooked : BOOLEAN, counted : BOOLEAN]
  <2>1. Sent \in Record /\ 4 \in States
    BY <1>1 DEF RequestRecord
  <2> HIDE DEF States
  <2>2. q0 \in Record
    BY <2>1
  <2> QED
    BY <2>2 DEF RequestRecord, States
<1>3. q0.readyState = 4 /\ q0.state = "sent" /\ q0.counted /\ ~q0._complete
  BY <1>1 DEF RequestRecord
<1>4. q \in RequestRecord
  <2> DEFINE b == q0.counted /\ throws
  <2>1. b \in BOOLEAN /\ q = [q0 EXCEPT !._complete = TRUE, !.counted = b]
    BY Zenon DEF Completed
  <2> HIDE DEF b
  <2> QED
    BY <1>2, <2>1 DEF RequestRecord
<1>5. q.state = "sent" /\ q.readyState = 4 /\ q._complete = TRUE
  BY <1>2, <1>3 DEF RequestRecord, Completed
<1>6. q.counted <=> throws
  <2>1. q.counted = (q0.counted /\ throws)
    BY <1>2 DEF RequestRecord, Completed
  <2> QED
    BY <1>3, <2>1, Zenon
<1>7. RequestInv(q)
  BY <1>4, <1>5, Zenon DEF RequestInv
<1>8. Heeds(q0) /\ ~Heeds(q)
  BY <1>3, <1>5 DEF Heeds
<1> QED
  BY <1>6, <1>7, <1>8

\* A request under way that completes: counted off unless its callback throws.
LEMMA CompletedRequest ==
    ASSUME NEW q0, RequestInv(q0), q0.state = "sent", q0.readyState < 4, NEW throws \in BOOLEAN,
           NEW q, q = Completed([q0 EXCEPT !.readyState = 4], throws)
    PROVE  /\ q0.counted /\ ~q0._complete
           /\ RequestInv(q) /\ (q.counted <=> throws) /\ ~Live(q)
<1>1. q0.counted /\ ~q0._complete
  BY DEF RequestInv, RequestRecord
<1>2. q = [readyState |-> 4, state |-> "sent", _complete |-> TRUE, deferred |-> q0.deferred,
           hooked |-> q0.hooked, counted |-> throws]
  <2>1. q0.counted = TRUE
    BY <1>1 DEF RequestInv, RequestRecord
  <2>2. (q0.counted /\ throws) = throws
    BY <2>1, Zenon
  <2>3. q = [[q0 EXCEPT !.readyState = 4] EXCEPT !._complete = TRUE, !.counted = throws]
    BY <2>2 DEF Completed
  <2> QED
    BY <2>3 DEF RequestInv, RequestRecord
<1>3. q.counted <=> throws
  BY <1>2
<1>4. RequestInv(q)
  <2>1. q0.deferred \in BOOLEAN /\ q0.hooked \in BOOLEAN
    BY DEF RequestInv, RequestRecord
  <2>2. 4 \in 0..4
    OBVIOUS
  <2>3. q \in RequestRecord
    <3>1. "sent" \in {"none", "sent", "broken"} /\ TRUE \in BOOLEAN
      OBVIOUS
    <3>2. [readyState |-> 4, state |-> "sent", _complete |-> TRUE, deferred |-> q0.deferred,
           hooked |-> q0.hooked, counted |-> throws] \in RequestRecord
      <4> DEFINE n == 4
      <4>1. n \in 0..4
        BY <2>2
      <4> HIDE DEF n
      <4>2. [readyState |-> n, state |-> "sent", _complete |-> TRUE, deferred |-> q0.deferred,
             hooked |-> q0.hooked, counted |-> throws] \in RequestRecord
        BY <2>1, <3>1, <4>1, Zenon DEF RequestRecord
      <4> QED
        BY <4>2 DEF n
    <3> QED
      BY <1>2, <3>2, Zenon
  <2>4. q.state = "sent" /\ q._complete = TRUE /\ q.readyState = 4
    BY <1>2
  <2> QED
    BY <2>3, <2>4, Zenon DEF RequestInv
<1>5. ~Live(q)
  BY <1>2 DEF Live
<1> QED
  BY <1>1, <1>3, <1>4, <1>5

-----------------------------------------------------------------------------
\* A step that starts a request in an empty slot.
LEMMA RequestStarts ==
    ASSUME AjaxInv, NEW r \in Requests, rq[r].state = "none", NEW q, RequestInv(q),
           rq' = [rq EXCEPT ![r] = q],
           activeRequestCount' = IF q.counted THEN activeRequestCount + 1 ELSE activeRequestCount
    PROVE  RequestsInv' /\ CountInv'
<1>1. r \notin Counted
  BY DEF AjaxInv, RequestsInv, RequestInv, Counted
<1>2. /\ RequestsInv'
      /\ Counted' = IF q.counted THEN Counted \cup {r} ELSE Counted \ {r}
  BY ReplaceRequest DEF AjaxInv
<1>3. CountInv'
  BY <1>1, <1>2, CountChanges DEF AjaxInv, CountInv
<1> QED
  BY <1>2, <1>3

\* A step that completes a request under way.
LEMMA RequestCompletes ==
    ASSUME AjaxInv, NEW r \in Requests, rq[r].state = "sent", rq[r].readyState < 4,
           NEW throws \in BOOLEAN,
           rq' = [rq EXCEPT ![r] = Completed([rq[r] EXCEPT !.readyState = 4], throws)],
           activeRequestCount' = IF throws THEN activeRequestCount ELSE activeRequestCount - 1
    PROVE  /\ RequestsInv' /\ CountInv'
           /\ LivePolls' = LivePolls \ {r}
<1> DEFINE q == Completed([rq[r] EXCEPT !.readyState = 4], throws)
<1>1. rq[r].counted /\ RequestInv(q) /\ (q.counted <=> throws) /\ ~Live(q)
  BY CompletedRequest DEF AjaxInv, RequestsInv
<1> HIDE DEF q
<1>2. rq' = [rq EXCEPT ![r] = q]
  BY DEF q
<1>3. /\ RequestsInv'
      /\ Counted' = IF q.counted THEN Counted \cup {r} ELSE Counted \ {r}
      /\ LivePolls' = LivePolls \ {r}
  BY <1>1, <1>2, ReplaceRequest DEF AjaxInv
<1>4. r \in Counted
  BY <1>1 DEF Counted
<1>5. CountInv'
  BY <1>1, <1>3, <1>4, CountChanges DEF AjaxInv, CountInv
<1> QED
  BY <1>3, <1>5

\* A step that changes a request and leaves what is counted, and what is live.
LEMMA RequestStays ==
    ASSUME AjaxInv, NEW r \in Requests, NEW q, RequestInv(q),
           rq' = [rq EXCEPT ![r] = q], q.counted <=> rq[r].counted,
           activeRequestCount' = activeRequestCount
    PROVE  RequestsInv' /\ CountInv'
<1>1. /\ RequestsInv'
      /\ Counted' = IF q.counted THEN Counted \cup {r} ELSE Counted \ {r}
  BY ReplaceRequest DEF AjaxInv
<1>2. r \in Counted <=> q.counted
  BY DEF Counted
<1> QED
  BY <1>1, <1>2, CountChanges DEF AjaxInv, CountInv

-----------------------------------------------------------------------------
\* No step but a poll's touches the chain.
LEMMA ChainStays ==
    ASSUME ChainInv, LivePolls' = LivePolls,
           UNCHANGED <<polling, updater, poll_timer, poll_threw, stop_missed>>
    PROVE  ChainInv'
BY DEF ChainInv

\* The caller sends a request, or fails to.
LEMMA RequestStep ==
    ASSUME AjaxInv, NEW r \in Plain, request(r) \/ request_throws(r) \/ request_sync(r)
    PROVE  AjaxInv'
<1>1. r \in Requests /\ r \notin Polls /\ r \notin LivePolls
  BY AjaxAssumption DEF Requests, LivePolls
<1>2. rq[r].state = "none" /\ UNCHANGED pollVars
  BY DEF request, request_throws, request_sync
<1>3. \E q : /\ RequestInv(q) /\ rq' = [rq EXCEPT ![r] = q]
             /\ activeRequestCount' =
                  IF q.counted THEN activeRequestCount + 1 ELSE activeRequestCount
  <2>1. CASE request(r)
    BY <2>1, SentRequest DEF request
  <2>2. CASE request_throws(r)
    BY <1>1, <2>2, BreaksRequest DEF request_throws
  <2>3. CASE request_sync(r)
    <3> DEFINE q0 == [Sent EXCEPT !.readyState = 4, !.deferred = FALSE]
               n0 == activeRequestCount + 1
    <3>1. PICK throws \in BOOLEAN, fired \in BOOLEAN, forced \in BOOLEAN :
            LET q1 == IF fired /\ Heeds(q0) THEN Completed(q0, throws) ELSE q0
                again == forced /\ Heeds(q1)
                q2 == IF again THEN Completed(q1, throws) ELSE q1
                n1 == IF fired /\ ~throws THEN Uncount(n0) ELSE n0
            IN  /\ fired \/ forced
                /\ rq' = [rq EXCEPT ![r] = q2]
                /\ activeRequestCount' = IF again /\ ~throws THEN Uncount(n1) ELSE n1
      BY <2>3 DEF request_sync
    <3> DEFINE q == Completed(q0, throws)
    <3>2. RequestInv(q) /\ (q.counted <=> throws) /\ Heeds(q0) /\ ~Heeds(q)
      BY SyncRequest
    <3> HIDE DEF q0, q
    <3>3. /\ rq' = [rq EXCEPT ![r] = q]
          /\ activeRequestCount' = IF throws THEN n0 ELSE Uncount(n0)
      <4>1. CASE fired
        BY <3>1, <3>2, <4>1 DEF q
      <4>2. CASE ~fired
        BY <3>1, <3>2, <4>2 DEF q
      <4> QED
        BY <4>1, <4>2
    <3>4. Uncount(n0) = activeRequestCount
      <4>1. Cardinality(Counted) \in Nat
        BY <1>1, CountChanges
      <4> QED
        BY <4>1 DEF Uncount, AjaxInv, CountInv
    <3> QED
      BY <3>2, <3>3, <3>4
  <2> QED
    BY <2>1, <2>2, <2>3
<1>4. PICK q : /\ RequestInv(q) /\ rq' = [rq EXCEPT ![r] = q]
               /\ activeRequestCount' =
                    IF q.counted THEN activeRequestCount + 1 ELSE activeRequestCount
  BY <1>3
<1>5. RequestsInv' /\ CountInv'
  BY <1>1, <1>2, <1>4, RequestStarts
<1>6. LivePolls' = LivePolls
  <2>1. LivePolls' = IF Live(q) /\ r \in Polls THEN LivePolls \cup {r} ELSE LivePolls \ {r}
    BY <1>1, <1>4, ReplaceRequest, Zenon DEF AjaxInv
  <2> QED
    BY <1>1, <2>1
<1> QED
  BY <1>2, <1>5, <1>6, ChainStays DEF AjaxInv, pollVars

\* A request of the caller completes.
LEMMA CompleteStep ==
    ASSUME AjaxInv, NEW r \in Plain, onComplete(r)
    PROVE  AjaxInv'
<1>1. r \in Requests /\ r \notin LivePolls
  BY AjaxAssumption DEF Requests, LivePolls
<1>2. PICK throws \in BOOLEAN :
         /\ rq[r].state = "sent" /\ rq[r].readyState < 4
         /\ rq' = [rq EXCEPT ![r] = Completed([rq[r] EXCEPT !.readyState = 4], throws)]
         /\ activeRequestCount' = IF throws THEN activeRequestCount ELSE activeRequestCount - 1
         /\ UNCHANGED pollVars
  BY DEF onComplete, Uncount
<1>3. RequestsInv' /\ CountInv' /\ LivePolls' = LivePolls \ {r}
  BY <1>1, <1>2, RequestCompletes
<1> QED
  BY <1>1, <1>2, <1>3, ChainStays DEF AjaxInv, pollVars

\* The steps of the browser and the collector, which concern no timer.
LEMMA OtherStep ==
    ASSUME AjaxInv, NEW r \in Requests, deferred_loading(r) \/ onStateChange(r) \/ Collect(r)
    PROVE  AjaxInv'
<1>1. RequestInv(rq[r]) /\ rq[r] \in RequestRecord
  BY DEF AjaxInv, RequestsInv, RequestInv
<1>2. \E q : /\ RequestInv(q) /\ rq' = [rq EXCEPT ![r] = q]
             /\ (q.counted <=> rq[r].counted) /\ (Live(q) <=> Live(rq[r]))
  <2>1. CASE deferred_loading(r)
    <3> DEFINE q == [rq[r] EXCEPT !.deferred = FALSE]
    <3>1. q \in RequestRecord
      BY <1>1 DEF RequestRecord
    <3>2. /\ q.state = rq[r].state /\ q._complete = rq[r]._complete
          /\ q.readyState = rq[r].readyState
          /\ q.counted = rq[r].counted /\ q.hooked = rq[r].hooked
      BY <1>1 DEF RequestRecord
    <3>3. rq' = [rq EXCEPT ![r] = q]
      BY <2>1 DEF deferred_loading
    <3> HIDE DEF q
    <3>4. RequestInv(q) /\ (q.counted <=> rq[r].counted) /\ (Live(q) <=> Live(rq[r]))
      BY <1>1, <3>1, <3>2, Zenon DEF RequestInv, Live
    <3> QED
      BY <3>3, <3>4
  <2>2. CASE onStateChange(r)
    <3> DEFINE q == [rq[r] EXCEPT !.readyState = @ + 1]
    <3>1. /\ rq[r].readyState + 1 \in 0..4 /\ rq[r].readyState + 1 # 4
          /\ rq[r].state = "sent" /\ ~rq[r]._complete
      BY <1>1, <2>2 DEF onStateChange, Outstanding, RequestRecord
    <3>2. q \in RequestRecord
      BY <1>1, <3>1 DEF RequestRecord
    <3>3. /\ q.state = rq[r].state /\ q._complete = rq[r]._complete
          /\ q.readyState = rq[r].readyState + 1
          /\ q.counted = rq[r].counted /\ q.hooked = rq[r].hooked
      BY <1>1 DEF RequestRecord
    <3>4. rq' = [rq EXCEPT ![r] = q]
      BY <2>2 DEF onStateChange
    <3> HIDE DEF q
    <3>5. RequestInv(q) /\ (q.counted <=> rq[r].counted) /\ (Live(q) <=> Live(rq[r]))
      BY <1>1, <3>1, <3>2, <3>3, Zenon DEF RequestInv, Live
    <3> QED
      BY <3>4, <3>5
  <2>3. CASE Collect(r)
    <3>1. ~rq[r].counted /\ ~Live(rq[r]) /\ rq' = [rq EXCEPT ![r] = NoRequest]
      BY <2>3 DEF Collect, Live
    <3> QED
      BY <3>1, IdleRequest
  <2> QED
    BY <2>1, <2>2, <2>3
<1>3. PICK q : /\ RequestInv(q) /\ rq' = [rq EXCEPT ![r] = q]
               /\ (q.counted <=> rq[r].counted) /\ (Live(q) <=> Live(rq[r]))
  BY <1>2
<1>4. UNCHANGED <<activeRequestCount, polling, updater, poll_timer, poll_threw, stop_missed>>
  BY DEF deferred_loading, onStateChange, Collect, pollVars
<1>5. RequestsInv' /\ CountInv'
  BY <1>3, <1>4, RequestStays
<1>6. r \in LivePolls <=> (Live(rq[r]) /\ r \in Polls)
  BY Zenon DEF LivePolls, Live, Outstanding
<1>7. LivePolls' = LivePolls
  <2>1. LivePolls' = IF Live(q) /\ r \in Polls THEN LivePolls \cup {r} ELSE LivePolls \ {r}
    BY <1>3, ReplaceRequest DEF AjaxInv
  <2> QED
    BY <1>3, <1>6, <2>1
<1> QED
  BY <1>4, <1>5, <1>7, ChainStays DEF AjaxInv

\* An answer that throws before it is one leaves the request as it is for ever;
\* a poll it ends is the only one.
LEMMA NoResponseStep ==
    ASSUME AjaxInv, NEW r \in Requests, no_response(r)
    PROVE  AjaxInv'
<1> DEFINE q == [rq[r] EXCEPT !.state = "broken", !.readyState = 4]
<1>1. RequestInv(rq[r]) /\ rq[r] \in RequestRecord
  BY DEF AjaxInv, RequestsInv, RequestInv
<1>2. /\ rq' = [rq EXCEPT ![r] = q] /\ rq[r].state = "sent" /\ rq[r].readyState < 4
      /\ poll_threw' = (poll_threw \/ r \in LivePolls)
      /\ UNCHANGED <<activeRequestCount, polling, updater, poll_timer, stop_missed>>
  <2>1. rq' = [rq EXCEPT ![r] = q]
    BY <1>1 DEF no_response, RequestRecord, AjaxInv, RequestsInv
  <2> QED
    BY <2>1 DEF no_response
<1>3. q \in RequestRecord
  <2> DEFINE n == 4
  <2>1. n \in 0..4
    OBVIOUS
  <2>2. q = [rq[r] EXCEPT !.state = "broken", !.readyState = n]
    OBVIOUS
  <2> HIDE DEF n
  <2> QED
    BY <1>1, <2>1, <2>2 DEF RequestRecord
<1>4. /\ q.state = "broken" /\ q._complete = rq[r]._complete /\ q.counted = rq[r].counted
      /\ ~rq[r]._complete
  <2>1. rq[r].readyState # 4
    BY <1>1, <1>2 DEF RequestRecord
  <2> QED
    BY <1>1, <1>2, <2>1 DEF RequestRecord, RequestInv
<1> HIDE DEF q
<1>5. RequestInv(q) /\ (q.counted <=> rq[r].counted) /\ ~Live(q)
  BY <1>3, <1>4 DEF RequestInv, Live
<1>6. RequestsInv' /\ CountInv'
  BY <1>2, <1>5, RequestStays
<1>7. LivePolls' = LivePolls \ {r}
  BY <1>2, <1>5, ReplaceRequest DEF AjaxInv
<1>8. ChainInv'
  <2>1. CASE r \in LivePolls
    <3>1. poll_threw' = TRUE /\ poll_timer = 0 /\ LivePolls = {updater}
      BY <1>2, <2>1 DEF AjaxInv, ChainInv
    <3> QED
      BY <1>2, <1>7, <2>1, <3>1 DEF AjaxInv, ChainInv
  <2>2. CASE r \notin LivePolls
    <3>1. LivePolls' = LivePolls /\ poll_threw' = poll_threw
      BY <1>2, <1>7, <2>2 DEF AjaxInv, ChainInv
    <3> QED
      BY <1>2, <3>1, ChainStays DEF AjaxInv
  <2> QED
    BY <2>1, <2>2
<1> QED
  BY <1>6, <1>8 DEF AjaxInv

\* A poll is sent, by start or by the timer of the chain.
LEMMA PollStep ==
    ASSUME AjaxInv, NEW r \in Polls, start(r) \/ onTimerEvent(r)
    PROVE  AjaxInv'
<1>1. r \in Requests
  BY DEF Requests
<1>2. PICK on \in BOOLEAN :
         poll_send(r, on) /\ (on \/ stop_missed) /\ (stop_missed => on = polling /\ updater \in Polls)
  <2>1. CASE start(r)
    BY <2>1 DEF start
  <2>2. CASE onTimerEvent(r)
    BY <2>2 DEF onTimerEvent, AjaxInv, ChainInv
  <2> QED
    BY <2>1, <2>2
<1>3. poll_timer' = 0 /\ LivePolls = {} /\ stop_missed \in BOOLEAN /\ updater \in Polls \cup {None}
  <2>1. CASE start(r)
    <3>1. ~polling /\ ~stop_missed /\ poll_timer' = poll_timer
      BY <2>1 DEF start
    <3> QED
      BY <3>1 DEF AjaxInv, ChainInv
  <2>2. CASE onTimerEvent(r)
    <3>1. poll_timer > 0 /\ poll_timer' = poll_timer - 1
      BY <2>2 DEF onTimerEvent
    <3>2. poll_timer = 1 /\ LivePolls = {}
      BY <3>1 DEF AjaxInv, ChainInv
    <3> QED
      BY <3>1, <3>2 DEF AjaxInv, ChainInv
  <2> QED
    BY <2>1, <2>2
<1>4. CASE /\ rq' = [rq EXCEPT ![r] = Sent] /\ activeRequestCount' = activeRequestCount + 1
           /\ updater' = r /\ poll_threw' = FALSE
           /\ \/ polling' = on /\ UNCHANGED stop_missed
              \/ updater # None /\ polling' = FALSE /\ stop_missed' = TRUE
  <2>1. rq[r].state = "none"
    BY <1>2 DEF poll_send
  <2>2. RequestsInv' /\ CountInv'
    BY <1>1, <1>4, <2>1, SentRequest, RequestStarts
  <2>3. LivePolls' = LivePolls \cup {r}
    BY <1>1, <1>4, SentRequest, ReplaceRequest DEF AjaxInv
  <2>4. ChainInv'
    BY <1>2, <1>3, <1>4, <2>3 DEF ChainInv
  <2> QED
    BY <2>2, <2>4 DEF AjaxInv
<1>5. CASE /\ breaks(r) /\ poll_threw' = TRUE /\ stop_missed' = FALSE
           /\ \/ updater' = r /\ polling' = on
              \/ updater' = updater /\ polling' = (on /\ updater # None)
  <2>1. PICK q : /\ RequestInv(q) /\ ~Live(q) /\ rq' = [rq EXCEPT ![r] = q]
                 /\ activeRequestCount' =
                      IF q.counted THEN activeRequestCount + 1 ELSE activeRequestCount
    BY <1>1, <1>5, BreaksRequest
  <2>2. rq[r].state = "none"
    BY <1>2 DEF poll_send
  <2>3. RequestsInv' /\ CountInv'
    BY <1>1, <2>1, <2>2, RequestStarts
  <2>4. LivePolls' = LivePolls \ {r}
    BY <1>1, <2>1, ReplaceRequest DEF AjaxInv
  <2>5. updater' \in Polls \cup {None} /\ polling' \in BOOLEAN /\ (polling' => updater' \in Polls)
    <3>1. CASE updater' = r /\ polling' = on
      BY <3>1
    <3>2. CASE updater' = updater /\ polling' = (on /\ updater # None)
      <4>1. (on /\ updater # None) \in BOOLEAN
        OBVIOUS
      <4> QED
        BY <1>3, <3>2, <4>1
    <3> QED
      BY <1>5, <3>1, <3>2
  <2>6. ChainInv'
    BY <1>3, <1>5, <2>4, <2>5 DEF ChainInv
  <2> QED
    BY <2>3, <2>6 DEF AjaxInv
<1> QED
  BY <1>2, <1>4, <1>5 DEF poll_send

\* A poll is answered: a hooked one goes on to its timer unless it throws, one
\* that was stopped ends.
LEMMA AnswerStep ==
    ASSUME AjaxInv, NEW r \in Polls, updateContent(r)
    PROVE  AjaxInv'
<1>1. r \in Requests
  BY DEF Requests
<1> DEFINE hooked == rq[r].hooked
<1>2. PICK throws \in BOOLEAN :
         /\ rq[r].state = "sent" /\ rq[r].readyState < 4 /\ updater' = updater
         /\ rq' = [rq EXCEPT ![r] = Completed([rq[r] EXCEPT !.readyState = 4], throws)]
         /\ activeRequestCount' = IF throws THEN activeRequestCount ELSE activeRequestCount - 1
         /\ IF hooked /\ ~throws
            THEN /\ poll_timer' = poll_timer + 1
                 /\ \/ UNCHANGED <<polling, stop_missed>>
                    \/ polling' = FALSE /\ stop_missed' = TRUE
            ELSE UNCHANGED <<poll_timer, polling, stop_missed>>
         /\ poll_threw' = (poll_threw \/ (hooked /\ throws))
  <2>1. [rq[r] EXCEPT !.readyState = 4].hooked = rq[r].hooked
    BY <1>1 DEF AjaxInv, RequestsInv, RequestRecord
  <2> QED
    BY <2>1 DEF updateContent, updateComplete, Uncount
<1>3. RequestsInv' /\ CountInv' /\ LivePolls' = LivePolls \ {r}
  BY <1>1, <1>2, RequestCompletes
<1>4. (r \in LivePolls <=> hooked) /\ hooked \in BOOLEAN
  <2>1. ~rq[r]._complete
    BY <1>1, <1>2 DEF AjaxInv, RequestsInv, RequestInv, RequestRecord
  <2>2. hooked \in BOOLEAN
    BY <1>1 DEF AjaxInv, RequestsInv, RequestRecord
  <2> QED
    BY <1>1, <1>2, <2>1, <2>2, Zenon DEF LivePolls, Outstanding
<1> HIDE DEF hooked
<1>5. ChainInv'
  <2>1. CASE ~hooked
    <3>1. LivePolls' = LivePolls /\ poll_threw' = poll_threw /\ UNCHANGED <<poll_timer, polling, stop_missed>>
      BY <1>2, <1>3, <1>4, <2>1 DEF AjaxInv, ChainInv
    <3> QED
      BY <1>2, <3>1, ChainStays DEF AjaxInv
  <2>2. CASE hooked
    <3>1. /\ poll_timer = 0 /\ LivePolls = {updater} /\ r = updater /\ ~poll_threw
          /\ (polling \/ stop_missed) /\ LivePolls' = {}
      BY <1>3, <1>4, <2>2 DEF AjaxInv, ChainInv
    <3>2. CASE throws
      BY <1>2, <2>2, <3>1, <3>2 DEF AjaxInv, ChainInv
    <3>3. CASE ~throws
      <4>0. /\ poll_timer' = poll_timer + 1 /\ updater' = updater
            /\ \/ UNCHANGED <<polling, stop_missed>>
               \/ polling' = FALSE /\ stop_missed' = TRUE
        BY <1>2, <2>2, <3>3, Zenon
      <4>1. polling \in BOOLEAN /\ stop_missed \in BOOLEAN /\ poll_threw \in BOOLEAN /\ updater \in Polls
        BY <3>1 DEF AjaxInv, ChainInv
      <4>2. poll_timer' = 1
        BY <3>1, <4>0
      <4>5. poll_threw' = FALSE
        <5>1. poll_threw' = (poll_threw \/ (hooked /\ throws))
          BY <1>2
        <5>2. ~(poll_threw \/ (hooked /\ throws))
          BY <3>1, <3>3
        <5> QED
          BY <5>1, <5>2
      <4>3. CASE UNCHANGED <<polling, stop_missed>>
        <5>1. polling' \in BOOLEAN /\ stop_missed' \in BOOLEAN /\ (polling' \/ stop_missed')
          BY <3>1, <4>1, <4>3, Zenon
        <5>2. LivePolls' = {} /\ updater' \in Polls
          BY <3>1, <4>0, <4>1, Zenon
        <5> QED
          BY <4>2, <4>5, <5>1, <5>2 DEF ChainInv
      <4>4. CASE polling' = FALSE /\ stop_missed' = TRUE
        <5>1. polling' \in BOOLEAN /\ stop_missed' \in BOOLEAN /\ (polling' \/ stop_missed')
          BY <4>4, Zenon
        <5>2. LivePolls' = {} /\ updater' \in Polls
          BY <3>1, <4>0, <4>1, Zenon
        <5> QED
          BY <4>2, <4>5, <5>1, <5>2 DEF ChainInv
      <4> QED
        BY <4>0, <4>3, <4>4
    <3> QED
      BY <3>2, <3>3
  <2> QED
    BY <1>4, <2>1, <2>2
<1> QED
  BY <1>3, <1>5 DEF AjaxInv

\* stop clears the timer and unhooks the updater, so no chain is left.
LEMMA StopStep ==
    ASSUME AjaxInv, stop
    PROVE  AjaxInv'
<1> DEFINE q == [rq[updater] EXCEPT !.hooked = FALSE]
<1>1. updater \in Polls /\ updater \in Requests /\ LivePolls \subseteq {updater}
  BY DEF AjaxInv, ChainInv, stop, Requests
<1>2. RequestInv(rq[updater]) /\ rq[updater] \in RequestRecord
  BY <1>1 DEF AjaxInv, RequestsInv, RequestInv
<1>3. q \in RequestRecord
  BY <1>2 DEF RequestRecord
<1>4. /\ q.state = rq[updater].state /\ q._complete = rq[updater]._complete
      /\ q.readyState = rq[updater].readyState
      /\ q.counted = rq[updater].counted /\ q.hooked = FALSE
  BY <1>2 DEF RequestRecord
<1>5. rq' = [rq EXCEPT ![updater] = q] /\ activeRequestCount' = activeRequestCount
  BY DEF stop
<1> HIDE DEF q
<1>6. RequestInv(q) /\ (q.counted <=> rq[updater].counted) /\ ~Live(q)
  BY <1>2, <1>3, <1>4, Zenon DEF RequestInv, Live
<1>7. RequestsInv' /\ CountInv'
  BY <1>1, <1>5, <1>6, RequestStays
<1>8. LivePolls' = LivePolls \ {updater}
  BY <1>1, <1>5, <1>6, ReplaceRequest DEF AjaxInv
<1>9. ChainInv'
  <2>1. /\ polling' = FALSE /\ stop_missed' = FALSE /\ poll_timer' = 0 /\ poll_threw' = poll_threw
        /\ updater' = updater /\ poll_threw \in BOOLEAN
    BY DEF stop, AjaxInv, ChainInv
  <2>2. LivePolls' = {}
    BY <1>1, <1>8
  <2> QED
    BY <1>1, <2>1, <2>2 DEF ChainInv
<1> QED
  BY <1>7, <1>9 DEF AjaxInv

-----------------------------------------------------------------------------
\* The inductive invariant holds in every reachable state.
LEMMA AjaxInvariant == AjaxSpec => []AjaxInv
<1>1. AjaxInit => AjaxInv
  <2> SUFFICES ASSUME AjaxInit PROVE AjaxInv
    OBVIOUS
  <2>1. RequestsInv
    BY IdleRequest DEF AjaxInit, RequestsInv, RequestInv
  <2>2. Counted = {} /\ LivePolls = {}
    BY DEF AjaxInit, Counted, LivePolls, Outstanding, NoRequest
  <2> QED
    BY <2>1, <2>2, FS_EmptySet DEF AjaxInit, AjaxInv, CountInv, ChainInv
<1>2. AjaxInv /\ [AjaxNext]_ajaxVars => AjaxInv'
  <2> SUFFICES ASSUME AjaxInv, [AjaxNext]_ajaxVars PROVE AjaxInv'
    OBVIOUS
  <2>1. CASE AjaxNext
    BY <2>1, RequestStep, CompleteStep, OtherStep, NoResponseStep, PollStep, AnswerStep, StopStep
       DEF AjaxNext
  <2>2. CASE UNCHANGED ajaxVars
    BY <2>2 DEF ajaxVars, pollVars, AjaxInv, RequestsInv, RequestInv, CountInv, ChainInv,
                Counted, LivePolls, Outstanding
  <2> QED
    BY <2>1, <2>2
<1> QED
  BY <1>1, <1>2, PTL DEF AjaxSpec

\* CountAccountsForRequests for any number of requests: however transports,
\* callbacks that throw, synchronous requests and polls interleave, no request
\* is counted off twice and none stays counted but those that ended in a throw
\* (prototype.js, Ajax.Request, the responders of Ajax.activeRequestCount).
THEOREM CountAccounts == AjaxSpec => []CountAccountsForRequests
<1>1. AjaxInv => CountAccountsForRequests
  <2> SUFFICES ASSUME AjaxInv PROVE CountAccountsForRequests
    OBVIOUS
  <2>1. IsFiniteSet(Requests)
    BY AjaxAssumption, FS_Union DEF Requests
  <2>2. IsFiniteSet(Counted) /\ IsFiniteSet(Outstanding) /\ IsFiniteSet(Leaked)
    BY <2>1, FS_Subset DEF Counted, Outstanding, Leaked
  <2>3. /\ Counted = Outstanding \cup Leaked /\ Outstanding \cap Leaked = {}
    BY DEF AjaxInv, RequestsInv, RequestInv, Counted, Outstanding, Leaked
  <2>4. Cardinality(Counted) = Cardinality(Outstanding) + Cardinality(Leaked)
    <3>1. Cardinality(Outstanding \cup Leaked) =
            Cardinality(Outstanding) + Cardinality(Leaked) - Cardinality(Outstanding \cap Leaked)
      BY <2>2, FS_Union
    <3>2. Cardinality(Outstanding) \in Nat /\ Cardinality(Leaked) \in Nat
      BY <2>2, FS_CardinalityType
    <3>3. Cardinality(Outstanding \cap Leaked) = 0
      BY <2>3, FS_EmptySet
    <3> QED
      BY <2>3, <3>1, <3>2, <3>3
  <2> QED
    BY <2>4 DEF AjaxInv, CountInv, CountAccountsForRequests
<1> QED
  BY <1>1, AjaxInvariant, PTL

\* OnePollChain for any number of requests: a PeriodicalUpdater that is stopped
\* under a request and started again is polled by one chain, until a throw of
\* one of its polls leaves it with none (prototype.js, Ajax.PeriodicalUpdater,
\* stop and updateComplete).
THEOREM OneChain == AjaxSpec => []OnePollChain
<1>1. AjaxInv => OnePollChain
  <2> SUFFICES ASSUME AjaxInv PROVE OnePollChain
    OBVIOUS
  <2>1. Cardinality({}) = 0 /\ Cardinality({updater}) = 1
    BY FS_EmptySet, FS_Singleton
  <2> QED
    BY <2>1 DEF AjaxInv, ChainInv, OnePollChain
<1> QED
  BY <1>1, AjaxInvariant, PTL

-----------------------------------------------------------------------------
(***************************************************************************)
(* That the in place editor never loses a text, for any texts, any number  *)
(* of requests under way and any number of clicks.  TextIsNeverLost is not *)
(* inductive: destroy and a failed request put back whatever               *)
(* _oldInnerHTML holds, so one must also know that a text is kept only     *)
(* under "Saving...", and this itself only after a text has been given up  *)
(* (KeptIsText), and for that, that nothing is submitted while a save is   *)
(* under way (NoFormWhileSaving).                                          *)
(***************************************************************************)
KeptIsText ==
    /\ _oldInnerHTML # Null => element = Saving
    /\ _oldInnerHTML = Saving => dropped

NoFormWhileSaving == _saving => _form = 0

EditInv == EditTypeOK /\ TextIsNeverLost /\ KeptIsText /\ NoFormWhileSaving

-----------------------------------------------------------------------------
\* leaveEditMode, the common end of cancelling, wrapping up and destroying,
\* keeps the types and leaves no form behind.
LEMMA LeaveTypes ==
    ASSUME leaveEditMode
    PROVE  /\ shown' = TRUE /\ _editing' = FALSE /\ _saving' = FALSE
           /\ _form' = 0 /\ _form' \in 0..MaxClicks
           /\ editor' = Null /\ _oldInnerHTML' = Null
<1>1. _form' = 0 => _form' \in 0..MaxClicks
  BY EditorAssumption
<1> QED
  BY <1>1, Zenon DEF leaveEditMode, removeForm

LEMMA GiveUpType ==
    ASSUME NEW how, GivesUp(how)
    PROVE  dropped' \in BOOLEAN
BY DEF GivesUp

\* The page shows the element with one of the texts, and nothing is under way.
LEMMA EditInitially == EditInit => EditInv
<1> SUFFICES ASSUME EditInit PROVE EditInv
  OBVIOUS
<1>1. _form \in 0..MaxClicks /\ clicks \in 0..MaxClicks /\ (_form # 0 <=> ~shown)
  BY EditorAssumption DEF EditInit
<1>2. calls \in [Calls -> {NoCall, "save", "text", "list", "collection"}]
  BY DEF EditInit, NoCall
<1>3. EditTypeOK
  BY <1>1, <1>2, Zenon DEF EditInit, EditTypeOK
<1>4. TextIsNeverLost /\ KeptIsText /\ NoFormWhileSaving
  BY TextsAssumption DEF EditInit, TextIsNeverLost, KeptIsText, NoFormWhileSaving, Saving, Null
<1> QED
  BY <1>3, <1>4 DEF EditInv

\* Every handler and every answer keeps the types, and the form is there
\* exactly while the element is hidden.
LEMMA EditStepTypes ==
    ASSUME EditTypeOK, EditNext
    PROVE  EditTypeOK'
<1> USE EditorAssumption DEF EditTypeOK
<1>1. CASE \E c \in Calls : enterEditMode(c)
  <2>1. PICK c \in Calls : enterEditMode(c)
    BY <1>1
  <2>2. editor' \in Values \cup {Saving, Loading, Null}
    BY <2>1 DEF enterEditMode, createForm, createEditField
  <2>3. calls' \in [Calls -> {NoCall, "save", "text", "list", "collection"}]
    BY <2>1 DEF enterEditMode, createForm, createEditField, send, Options, NoCall
  <2>4. /\ _form' \in 0..MaxClicks /\ _form' # 0 /\ clicks' \in 0..MaxClicks
    BY <2>1 DEF enterEditMode, createForm
  <2>5. shown' = FALSE /\ _editing' = TRUE
    BY <2>1 DEF enterEditMode
  <2> QED
    BY <2>1, <2>2, <2>3, <2>4, <2>5 DEF enterEditMode
<1>2. CASE \E c \in Calls : handleFormSubmission(c)
  BY <1>2 DEF handleFormSubmission, prepareSubmission, removeForm, showSaving, send
<1>3. CASE \E c \in Calls : saved(c)
  <2>1. PICK c \in Calls : saved(c)
    BY <1>3
  <2>2. element' \in Values \cup {Saving}
    BY <2>1 DEF saved
  <2>3. calls' \in [Calls -> {NoCall, "save", "text", "list", "collection"}]
    BY <2>1 DEF saved, endCall, NoCall
  <2> QED
    BY <2>1, <2>2, <2>3, LeaveTypes, GiveUpType DEF saved, wrapUp
<1>4. CASE \E c \in Calls : save_fails(c)
  <2>1. PICK c \in Calls : save_fails(c)
    BY <1>4
  <2>2. PICK returns \in Returns : handleAJAXFailure(returns) /\ GivesUp(~PutsBack(returns))
    BY <2>1 DEF save_fails
  <2>3. element' \in Values \cup {Saving}
    BY <2>2 DEF handleAJAXFailure, PutsBack, Truthy
  <2>4. calls' \in [Calls -> {NoCall, "save", "text", "list", "collection"}]
    BY <2>1 DEF save_fails, endCall, NoCall
  <2> QED
    BY <2>1, <2>2, <2>3, <2>4, LeaveTypes, GiveUpType DEF save_fails, wrapUp
<1>5. CASE \E c \in Calls : collection_loaded(c)
  BY <1>5 DEF collection_loaded, endCall, NoCall
<1>6. CASE \E c \in Calls : text_loaded(c)
  BY <1>6 DEF text_loaded, endCall, NoCall
<1>7. CASE \E c \in Calls : load_fails(c)
  <2>1. PICK c \in Calls : load_fails(c)
    BY <1>7
  <2>2. PICK returns : /\ handleAJAXFailure(returns)
                       /\ _oldInnerHTML' = IF PutsBack(returns) THEN Null ELSE _oldInnerHTML
    BY <2>1 DEF load_fails
  <2>3. element' \in Values \cup {Saving} /\ _oldInnerHTML' \in Values \cup {Saving, Null}
    BY <2>2 DEF handleAJAXFailure, PutsBack, Truthy
  <2>4. calls' \in [Calls -> {NoCall, "save", "text", "list", "collection"}]
    BY <2>1 DEF load_fails, endCall, NoCall
  <2> QED
    BY <2>1, <2>3, <2>4, GiveUpType DEF load_fails
<1>8. CASE \E v \in Values : edit_field(v)
  BY <1>8 DEF edit_field
<1>9. CASE handleFormCancellation
  BY <1>9, LeaveTypes, GiveUpType DEF handleFormCancellation, wrapUp
<1>10. CASE destroy
  <2>1. element' \in Values \cup {Saving}
    BY <1>10 DEF destroy, Truthy
  <2>2. dropped' \in BOOLEAN
    BY <1>10 DEF destroy, GivesUp
  <2>3. leaveEditMode /\ ipe' = ipe /\ calls' = calls /\ clicks' = MaxClicks
    BY <1>10, Zenon DEF destroy
  <2> QED
    BY <2>1, <2>2, <2>3, LeaveTypes
<1> QED
  BY <1>1, <1>2, <1>3, <1>4, <1>5, <1>6, <1>7, <1>8, <1>9, <1>10 DEF EditNext

\* Every handler and every answer keeps the text, or notes that it was given up.
LEMMA EditStepKeeps ==
    ASSUME EditInv, EditNext
    PROVE  TextIsNeverLost' /\ KeptIsText' /\ NoFormWhileSaving'
<1> USE TextsAssumption DEF EditInv, TextIsNeverLost, KeptIsText, NoFormWhileSaving
<1>1. CASE \E c \in Calls : enterEditMode(c)
  BY <1>1 DEF enterEditMode, mayEnter
<1>2. CASE \E c \in Calls : handleFormSubmission(c)
  <2>1. PICK c \in Calls : handleFormSubmission(c)
    BY <1>2
  <2>2. element # Null
    BY DEF EditTypeOK, Saving, Null
  <2>3. /\ _saving' /\ _form' = 0 /\ dropped' = dropped
        /\ element' = Saving /\ _oldInnerHTML' = element
    BY <2>1 DEF handleFormSubmission, prepareSubmission, showSaving, removeForm
  <2>4. element = Saving => dropped
    BY <2>1 DEF handleFormSubmission
  <2> QED
    BY <2>2, <2>3, <2>4
<1>3. CASE \E c \in Calls : saved(c)
  <2>1. PICK c \in Calls : saved(c)
    BY <1>3
  <2>2. element' = Saving => dropped'
    BY <2>1 DEF saved, GivesUp
  <2> QED
    BY <2>1, <2>2, LeaveTypes DEF saved, wrapUp, Saving, Null
<1>4. CASE \E c \in Calls : save_fails(c)
  <2>1. PICK c \in Calls : save_fails(c)
    BY <1>4
  <2>2. PICK returns \in Returns : handleAJAXFailure(returns) /\ GivesUp(~PutsBack(returns))
    BY <2>1 DEF save_fails
  <2>3. ASSUME element' = Saving PROVE dropped'
    <3>1. CASE PutsBack(returns)
      BY <2>2, <2>3, <3>1 DEF handleAJAXFailure, GivesUp
    <3>2. CASE ~PutsBack(returns)
      BY <2>2, <2>3, <3>2 DEF GivesUp
    <3> QED
      BY <3>1, <3>2
  <2> QED
    BY <2>1, <2>3, LeaveTypes DEF save_fails, wrapUp, Saving, Null
<1>5. CASE \E c \in Calls : collection_loaded(c) \/ text_loaded(c)
  BY <1>5 DEF collection_loaded, text_loaded
<1>6. CASE \E c \in Calls : load_fails(c)
  <2>1. PICK c \in Calls : load_fails(c)
    BY <1>6
  <2>2. PICK returns : /\ handleAJAXFailure(returns)
                       /\ _oldInnerHTML' = IF PutsBack(returns) THEN Null ELSE _oldInnerHTML
    BY <2>1 DEF load_fails
  <2>3. (element' = Saving /\ dropped => dropped') /\ UNCHANGED <<_saving, _form>>
    BY <2>1 DEF load_fails, GivesUp
  <2>4. CASE PutsBack(returns)
    <3>1. element' = _oldInnerHTML /\ _oldInnerHTML' = Null
      BY <2>2, <2>4 DEF handleAJAXFailure
    <3> QED
      BY <2>3, <3>1 DEF Saving, Null
  <2>5. CASE ~PutsBack(returns)
    <3>1. element' = element /\ _oldInnerHTML' = _oldInnerHTML
      BY <2>2, <2>5 DEF handleAJAXFailure
    <3>2. element = Saving /\ dropped => dropped'
      BY <2>3, <3>1
    <3>3. TextIsNeverLost' /\ KeptIsText'
      <4>1. CASE dropped
        BY <3>1, <3>2, <4>1 DEF Saving, Null
      <4>2. CASE ~dropped
        <5>1. element = Saving => _saving /\ _oldInnerHTML # Null
          BY <4>2
        <5>2. _saving' = _saving
          BY <2>3
        <5> QED
          BY <3>1, <4>2, <5>1, <5>2
      <4> QED
        BY <4>1, <4>2
    <3> QED
      BY <2>3, <3>3
  <2> QED
    BY <2>4, <2>5
<1>7. CASE \E v \in Values : edit_field(v)
  BY <1>7 DEF edit_field
<1>8. CASE handleFormCancellation
  BY <1>8, LeaveTypes DEF handleFormCancellation, wrapUp, GivesUp, Saving, Null
<1>9. CASE destroy
  <2>1. ASSUME element' = Saving PROVE dropped'
    <3>1. CASE Truthy(_oldInnerHTML)
      BY <1>9, <2>1, <3>1 DEF destroy, GivesUp
    <3>2. CASE ~Truthy(_oldInnerHTML)
      BY <1>9, <2>1, <3>2 DEF destroy, GivesUp, Truthy
    <3> QED
      BY <3>1, <3>2
  <2> QED
    BY <1>9, <2>1, LeaveTypes DEF destroy, Saving, Null
<1> QED
  BY <1>1, <1>2, <1>3, <1>4, <1>5, <1>6, <1>7, <1>8, <1>9 DEF EditNext

\* TextIsNeverLost for every set of texts, requests and clicks: whatever order
\* clicks, keys, cancellations, submissions, loads, late answers, failures and
\* destroy come in (controls.js, Ajax.InPlaceEditor), "Saving..." stands in
\* the element only while the text it replaces is kept, or after the text was
\* given up in one of the ways GivesUp is told of.
THEOREM EditorNeverLosesText == EditSpec => []TextIsNeverLost
<1>1. EditInit => EditInv
  BY EditInitially
<1>2. EditInv /\ [EditNext]_editVars => EditInv'
  <2> SUFFICES ASSUME EditInv, [EditNext]_editVars PROVE EditInv'
    OBVIOUS
  <2>1. CASE EditNext
    BY <2>1, EditStepTypes, EditStepKeeps DEF EditInv
  <2>2. CASE UNCHANGED editVars
    BY <2>2 DEF editVars, EditInv, EditTypeOK, TextIsNeverLost, KeptIsText, NoFormWhileSaving
  <2> QED
    BY <2>1, <2>2
<1>3. EditInv => TextIsNeverLost
  BY DEF EditInv
<1> QED
  BY <1>1, <1>2, <1>3, PTL DEF EditSpec

-----------------------------------------------------------------------------
(***************************************************************************)
(* The frame upload. An upload can end in several ways that race: its load *)
(* event, the timeout, checkState, cb put back in the queue, and an abort  *)
(* by the page. CompleteOnce is not inductive: one must know that every    *)
(* call of a callback is paid for by an abort or by the last chance of cb  *)
(* to run (Spent, MayEnd), and that the count of uploads under way lies    *)
(* between those that may still count off and those that have counted on   *)
(* (CountSound), so that up_jq_active never goes below zero.               *)
(***************************************************************************)
\* cb may still meet the document of the upload.
MayEnd(r) == r.phase \in {"new", "keepalive", "waiting"} \/ r.listening \/ r.requeued

\* What the calls of the callbacks are paid with: an abort by the page, an
\* abort by anything else, an answer.
Spent(r) ==
    (IF r.user THEN 1 ELSE 0) + (IF r.aborted THEN 1 ELSE 0) + (IF MayEnd(r) THEN 0 ELSE 1)

Sound(r) ==
    /\ r.phase \in {"new", "keepalive"} => ~r.user /\ ~r.aborted
    /\ r.phase # "sent" => ~r.timeout /\ ~r.check /\ ~r.listening /\ ~r.requeued
    /\ r.error <= Spent(r) /\ r.complete <= Spent(r)
    /\ ~r.user /\ "complete" \notin r.threw => r.complete <= IF Over(r) THEN 1 ELSE 0

CountedIn(r)     == r.phase \in {"waiting", "sent", "dropped"}
MayCountOff(r) == r.phase = "waiting" \/ r.listening \/ r.requeued

CountSound ==
    /\ Cardinality({i \in Uploads : MayCountOff(u[i])}) <= up_jq_active
    /\ up_jq_active <= Cardinality({i \in Uploads : CountedIn(u[i])})

FormType ==
    /\ clk \in Buttons \cup {NoButton} /\ clk_timer \in BOOLEAN
    /\ enabled \subseteq Fields \cup Buttons /\ checked \subseteq Fields

UploadInv ==
    /\ FormType /\ up_jq_active \in Nat /\ CountSound
    /\ u \in [Uploads -> UploadRecord]
    /\ \A i \in Uploads : Sound(u[i])

-----------------------------------------------------------------------------
LEMMA AbortedFacts ==
    ASSUME NEW r \in UploadRecord, r.error + 1 \in 0..3, r.complete + 1 \in 0..3, NEW a \in Aborted(r)
    PROVE  /\ a \in UploadRecord
           /\ a.aborted = TRUE /\ a.error = r.error + 1
           /\ a.complete \in {r.complete, r.complete + 1}
           /\ "complete" \in a.threw <=> "complete" \in r.threw
           /\ a.phase = r.phase /\ a.user = r.user /\ a.callbackProcessed = r.callbackProcessed
           /\ a.timeout = r.timeout /\ a.check = r.check
           /\ a.listening = r.listening /\ a.requeued = r.requeued
<1> DEFINE told == [r EXCEPT !.aborted = TRUE, !.frame = "blank", !.error = r.error + 1]
<1>1. /\ told \in UploadRecord
      /\ told.aborted = TRUE /\ told.error = r.error + 1
      /\ told.complete = r.complete /\ told.threw = r.threw
      /\ told.phase = r.phase /\ told.user = r.user /\ told.callbackProcessed = r.callbackProcessed
      /\ told.timeout = r.timeout /\ told.check = r.check
      /\ told.listening = r.listening /\ told.requeued = r.requeued
  BY ZenonT(30) DEF UploadRecord
<1> HIDE DEF told
<1>2. \/ a = [told EXCEPT !.complete = r.complete + 1]
      \/ a = [told EXCEPT !.threw = r.threw \cup {"abort"}]
  BY Zenon DEF Aborted, told
<1>3. CASE a = [told EXCEPT !.complete = r.complete + 1]
  BY <1>1, <1>3, ZenonT(30) DEF UploadRecord
<1>4. CASE a = [told EXCEPT !.threw = r.threw \cup {"abort"}]
  <2>1. r.threw \cup {"abort"} \in SUBSET {"outcome", "complete", "abort"}
    BY DEF UploadRecord
  <2>2. "complete" \in (r.threw \cup {"abort"}) <=> "complete" \in r.threw
    OBVIOUS
  <2> QED
    BY <1>1, <1>4, <2>1, <2>2, ZenonT(30) DEF UploadRecord
<1> QED
  BY <1>2, <1>3, <1>4

\* An abort by anything but the page, which asks first whether the upload is over.
LEMMA AbortSound ==
    ASSUME NEW r \in UploadRecord, Sound(r), ~Over(r), r.phase = "sent", NEW a \in Aborted(r)
    PROVE  a \in UploadRecord /\ Sound(a) /\ (MayCountOff(a) <=> MayCountOff(r)) /\ a.phase = r.phase
<1>1. r.error \in 0..2 /\ r.complete \in 0..2 /\ r.error + 1 \in 0..3 /\ r.complete + 1 \in 0..3
  BY DEF Sound, Spent, Over, UploadRecord
<1>2. /\ a \in UploadRecord
      /\ a.aborted = TRUE /\ a.error = r.error + 1
      /\ a.complete \in {r.complete, r.complete + 1}
      /\ "complete" \in a.threw <=> "complete" \in r.threw
      /\ a.phase = r.phase /\ a.user = r.user /\ a.callbackProcessed = r.callbackProcessed
      /\ a.timeout = r.timeout /\ a.check = r.check
      /\ a.listening = r.listening /\ a.requeued = r.requeued
  BY <1>1, AbortedFacts, Zenon
<1>3. Sound(a)
  BY <1>1, <1>2 DEF Sound, Spent, Over, MayEnd
<1> QED
  BY <1>2, <1>3 DEF MayCountOff

\* An abort by the page, which comes once.
UserAborted(a, p) == [a EXCEPT !.phase = p, !.user = TRUE]

LEMMA UserAbortSound ==
    ASSUME NEW r \in UploadRecord, Sound(r), ~r.user, NEW a \in Aborted(r),
           NEW p \in {"waiting", "sent", "vetoed", "dropped"},
           r.phase \in {"new", "keepalive"} => p \in {"vetoed", "dropped"},
           r.phase \notin {"new", "keepalive"} => p = r.phase
    PROVE  /\ UserAborted(a, p) \in UploadRecord /\ Sound(UserAborted(a, p))
           /\ MayCountOff(UserAborted(a, p)) => MayCountOff(r)
           /\ UserAborted(a, p).phase = p
<1> DEFINE b == UserAborted(a, p)
<1>1. r.error \in 0..2 /\ r.complete \in 0..2 /\ r.error + 1 \in 0..3 /\ r.complete + 1 \in 0..3
  BY DEF Sound, Spent, Over, UploadRecord
<1>2. /\ a \in UploadRecord
      /\ a.aborted = TRUE /\ a.error = r.error + 1
      /\ a.complete \in {r.complete, r.complete + 1}
      /\ a.phase = r.phase /\ a.user = r.user /\ a.callbackProcessed = r.callbackProcessed
      /\ a.timeout = r.timeout /\ a.check = r.check
      /\ a.listening = r.listening /\ a.requeued = r.requeued
  BY <1>1, AbortedFacts, Zenon
<1>3. /\ b \in UploadRecord
      /\ b.phase = p /\ b.user = TRUE
      /\ b.aborted = a.aborted /\ b.error = a.error /\ b.complete = a.complete
      /\ b.timeout = a.timeout /\ b.check = a.check
      /\ b.listening = a.listening /\ b.requeued = a.requeued
  BY <1>2, ZenonT(30) DEF UploadRecord, UserAborted
<1> HIDE DEF b
<1>4. Sound(b)
  BY <1>1, <1>2, <1>3 DEF Sound, Spent, Over, MayEnd
<1> QED
  BY <1>2, <1>3, <1>4 DEF MayCountOff, b

-----------------------------------------------------------------------------
\* A step replaces the record of one upload.  It may count the upload, once, or
\* count it off, once.
CountStep(r, x) ==
    \/ /\ up_jq_active' = up_jq_active
       /\ MayCountOff(x) => MayCountOff(r)
       /\ CountedIn(r) => CountedIn(x)
    \/ up_jq_active' = up_jq_active + 1 /\ ~CountedIn(r) /\ CountedIn(x)
    \/ /\ up_jq_active' = up_jq_active - 1
       /\ MayCountOff(r) /\ ~MayCountOff(x)
       /\ CountedIn(r) => CountedIn(x)

LEMMA ReplaceCounts ==
    ASSUME UploadInv, NEW i \in Uploads, NEW x \in UploadRecord,
           u' = [u EXCEPT ![i] = x], CountStep(u[i], x)
    PROVE  up_jq_active' \in Nat /\ CountSound'
<1> DEFINE S == {j \in Uploads : MayCountOff(u[j])}
           T == {j \in Uploads : CountedIn(u[j])}
           S1 == {j \in Uploads : MayCountOff(u'[j])}
           T1 == {j \in Uploads : CountedIn(u'[j])}
<1>1. u'[i] = x /\ \A j \in Uploads : j # i => u'[j] = u[j]
  BY DEF UploadInv
<1>2. /\ i \in S1 <=> MayCountOff(x)
      /\ i \in T1 <=> CountedIn(x)
      /\ i \in S <=> MayCountOff(u[i])
      /\ i \in T <=> CountedIn(u[i])
      /\ S1 \ {i} = S \ {i} /\ T1 \ {i} = T \ {i}
  BY <1>1
<1>3. /\ IsFiniteSet(S) /\ IsFiniteSet(T) /\ IsFiniteSet(S1) /\ IsFiniteSet(T1)
      /\ Cardinality(S) \in Nat /\ Cardinality(T) \in Nat
      /\ Cardinality(S1) \in Nat /\ Cardinality(T1) \in Nat
  BY UploadAssumption, FS_Subset, FS_CardinalityType
<1>4. up_jq_active \in Nat /\ Cardinality(S) <= up_jq_active /\ up_jq_active <= Cardinality(T)
  BY DEF UploadInv, CountSound
<1> HIDE DEF S, T, S1, T1
<1>5. CASE up_jq_active' = up_jq_active /\ (i \in S1 => i \in S) /\ (i \in T => i \in T1)
  <2>1. S1 \subseteq S /\ T \subseteq T1
    BY <1>2, <1>5
  <2>2. Cardinality(S1) <= Cardinality(S) /\ Cardinality(T) <= Cardinality(T1)
    BY <1>3, <2>1, FS_Subset
  <2> QED
    BY <1>3, <1>4, <1>5, <2>2 DEF CountSound, S1, T1
<1>6. CASE up_jq_active' = up_jq_active + 1 /\ i \notin T /\ i \in T1
  <2>1. S1 \subseteq S \cup {i} /\ T1 = T \cup {i}
    BY <1>2, <1>6
  <2>2. Cardinality(T1) = Cardinality(T) + 1
    BY <1>3, <1>6, <2>1, FS_AddElement
  <2>3. IsFiniteSet(S \cup {i}) /\ Cardinality(S \cup {i}) <= Cardinality(S) + 1
    <3>1. /\ IsFiniteSet(S \cup {i})
          /\ i \in S => Cardinality(S \cup {i}) = Cardinality(S)
          /\ i \notin S => Cardinality(S \cup {i}) = Cardinality(S) + 1
      BY <1>3, FS_AddElement
    <3> QED
      BY <1>3, <3>1
  <2>4. Cardinality(S1) <= Cardinality(S \cup {i}) /\ Cardinality(S \cup {i}) \in Nat
    BY <2>1, <2>3, FS_Subset, FS_CardinalityType
  <2> QED
    BY <1>3, <1>4, <1>6, <2>2, <2>3, <2>4 DEF CountSound, S1, T1
<1>7. CASE up_jq_active' = up_jq_active - 1 /\ i \in S /\ i \notin S1 /\ (i \in T => i \in T1)
  <2>1. S1 = S \ {i} /\ T \subseteq T1
    BY <1>2, <1>7
  <2>2. Cardinality(S1) = Cardinality(S) - 1
    BY <1>3, <1>7, <2>1, FS_RemoveElement
  <2>3. Cardinality(T) <= Cardinality(T1)
    BY <1>3, <2>1, FS_Subset
  <2> QED
    BY <1>3, <1>4, <1>7, <2>2, <2>3 DEF CountSound, S1, T1
<1> QED
  BY <1>2, <1>5, <1>6, <1>7 DEF CountStep

LEMMA ReplaceUpload ==
    ASSUME UploadInv, NEW i \in Uploads, NEW x \in UploadRecord, Sound(x),
           u' = [u EXCEPT ![i] = x], CountStep(u[i], x), FormType'
    PROVE  UploadInv'
<1>1. up_jq_active' \in Nat /\ CountSound'
  BY ReplaceCounts
<1>2. u' \in [Uploads -> UploadRecord]
  BY DEF UploadInv
<1>3. \A j \in Uploads : Sound(u'[j])
  BY DEF UploadInv
<1> QED
  BY <1>1, <1>2, <1>3 DEF UploadInv

\* A step of the form alone.
LEMMA FormStep ==
    ASSUME UploadInv, UNCHANGED <<up_jq_active, u>>, FormType'
    PROVE  UploadInv'
<1>1. CountSound'
  BY DEF UploadInv, CountSound, MayCountOff, CountedIn
<1>2. \A i \in Uploads : Sound(u'[i])
  BY DEF UploadInv
<1> QED
  BY <1>1, <1>2 DEF UploadInv

LEMMA InitUploadInv == UploadInit => UploadInv
<1> SUFFICES ASSUME UploadInit PROVE UploadInv
  OBVIOUS
<1>1. New \in UploadRecord
  BY UploadAssumption DEF New, UploadRecord
<1>2. Sound(New) /\ ~MayCountOff(New) /\ ~CountedIn(New)
  BY DEF New, Sound, Spent, MayEnd, Over, MayCountOff, CountedIn
<1>3. {i \in Uploads : MayCountOff(u[i])} = {} /\ {i \in Uploads : CountedIn(u[i])} = {}
  BY <1>2 DEF UploadInit
<1>4. CountSound
  <2>1. up_jq_active = 0
    BY DEF UploadInit
  <2>2. /\ Cardinality({i \in Uploads : MayCountOff(u[i])}) = 0
        /\ Cardinality({i \in Uploads : CountedIn(u[i])}) = 0
    BY <1>3, FS_EmptySet, Zenon
  <2> QED
    BY <2>1, <2>2 DEF CountSound
<1> QED
  BY <1>1, <1>2, <1>4 DEF UploadInit, UploadInv, FormType

-----------------------------------------------------------------------------
LEMMA FileUploadKeeps ==
    ASSUME UploadInv, NEW i \in Uploads, NEW r \in UploadRecord, Sound(r),
           u[i].phase \in {"new", "keepalive"}, r.phase \in {"new", "keepalive"}, fileUpload(i, r)
    PROVE  UploadInv'
<1>1. FormType'
  BY DEF fileUpload, UploadInv, FormType, UploadRecord
<1>2. ~CountedIn(u[i]) /\ ~MayCountOff(u[i]) /\ ~MayCountOff(r) /\ ~r.user
  BY DEF UploadInv, Sound, CountedIn, MayCountOff
<1>3. CASE /\ u' = [u EXCEPT ![i] = [Extra(r) EXCEPT !.phase = "waiting"]]
           /\ up_jq_active' = up_jq_active + 1
  <2> DEFINE x == [Extra(r) EXCEPT !.phase = "waiting"]
  <2>1. (IF clk \in enabled THEN clk ELSE NoButton) \in Buttons \cup {NoButton}
    BY DEF UploadInv, FormType
  <2>2. /\ x \in UploadRecord /\ x.phase = "waiting"
        /\ x.user = r.user /\ x.aborted = r.aborted /\ x.callbackProcessed = r.callbackProcessed
        /\ x.timeout = r.timeout /\ x.check = r.check /\ x.listening = r.listening
        /\ x.requeued = r.requeued /\ x.error = r.error /\ x.complete = r.complete
        /\ x.threw = r.threw
    BY <2>1, Zenon DEF Extra, UploadRecord
  <2> HIDE DEF x
  <2>3. Sound(x) /\ CountedIn(x)
    BY <2>2 DEF Sound, Spent, MayEnd, Over, CountedIn
  <2> QED
    BY <1>1, <1>2, <1>3, <2>2, <2>3, ReplaceUpload DEF CountStep, x
<1>4. CASE u' = [u EXCEPT ![i] = [r EXCEPT !.phase = "vetoed"]] /\ UNCHANGED up_jq_active
  <2> DEFINE x == [r EXCEPT !.phase = "vetoed"]
  <2>1. /\ x \in UploadRecord /\ x.phase = "vetoed"
        /\ x.user = r.user /\ x.aborted = r.aborted /\ x.callbackProcessed = r.callbackProcessed
        /\ x.timeout = r.timeout /\ x.check = r.check /\ x.listening = r.listening
        /\ x.requeued = r.requeued /\ x.error = r.error /\ x.complete = r.complete
        /\ x.threw = r.threw
    BY ZenonT(30) DEF UploadRecord
  <2> HIDE DEF x
  <2>2. r.error \in 0..3 /\ r.complete \in 0..3
    BY DEF UploadRecord
  <2>3. Sound(x) /\ ~MayCountOff(x)
    BY <2>1, <2>2 DEF Sound, Spent, MayEnd, Over, MayCountOff
  <2> QED
    BY <1>1, <1>2, <1>4, <2>1, <2>3, ReplaceUpload DEF CountStep, x
<1>5. ASSUME NEW a \in Aborted(r), NEW refuses \in BOOLEAN,
             u' = [u EXCEPT ![i] = [a EXCEPT !.phase = IF refuses THEN "vetoed" ELSE "dropped",
                                             !.user = TRUE]],
             up_jq_active' = IF refuses THEN up_jq_active ELSE up_jq_active + 1
      PROVE  UploadInv'
  <2> DEFINE p == IF refuses THEN "vetoed" ELSE "dropped"
             x == UserAborted(a, p)
  <2>1. p \in {"vetoed", "dropped"}
    OBVIOUS
  <2> HIDE DEF p
  <2>2. x \in UploadRecord /\ Sound(x) /\ (MayCountOff(x) => MayCountOff(r)) /\ x.phase = p
    <3>1. /\ p \in {"waiting", "sent", "vetoed", "dropped"}
          /\ r.phase \in {"new", "keepalive"} => p \in {"vetoed", "dropped"}
          /\ r.phase \notin {"new", "keepalive"} => p = r.phase
      BY <2>1
    <3> QED
      BY <1>2, <3>1, UserAbortSound
  <2> HIDE DEF x
  <2>3. CountStep(u[i], x)
    BY <1>2, <1>5, <2>2 DEF CountStep, CountedIn, p
  <2> QED
    BY <1>1, <1>5, <2>2, <2>3, ReplaceUpload DEF x, p, UserAborted
<1> QED
  BY <1>3, <1>4, <1>5 DEF fileUpload

LEMMA SubmitKeeps ==
    ASSUME UploadInv, NEW i \in Uploads,
           \/ ajaxSubmit(i) \/ ajaxSubmit_keepalive(i) \/ keepalive_closed(i)
    PROVE  UploadInv'
<1> DEFINE r == Serialized(i)
<1>1. u[i] \in UploadRecord /\ Sound(u[i])
  BY DEF UploadInv
<1>2. formToArray \in SUBSET (Fields \cup Buttons) /\ clk \in Buttons \cup {NoButton}
  BY DEF formToArray, UploadInv, FormType
<1>3. /\ r \in UploadRecord /\ r.phase = u[i].phase
      /\ r.user = u[i].user /\ r.aborted = u[i].aborted
      /\ r.callbackProcessed = u[i].callbackProcessed
      /\ r.timeout = u[i].timeout /\ r.check = u[i].check /\ r.listening = u[i].listening
      /\ r.requeued = u[i].requeued /\ r.error = u[i].error /\ r.complete = u[i].complete
      /\ r.threw = u[i].threw
  BY <1>1, <1>2, Zenon DEF Serialized, UploadRecord
<1> HIDE DEF r
<1>4. Sound(r)
  BY <1>1, <1>3 DEF Sound, Spent, MayEnd, Over
<1>5. CASE ajaxSubmit(i)
  BY <1>3, <1>4, <1>5, FileUploadKeeps DEF ajaxSubmit, r
<1>6. CASE keepalive_closed(i)
  BY <1>1, <1>6, FileUploadKeeps DEF keepalive_closed
<1>7. CASE ajaxSubmit_keepalive(i)
  <2> DEFINE x == [r EXCEPT !.phase = "keepalive"]
  <2>1. /\ x \in UploadRecord /\ x.phase = "keepalive"
        /\ x.user = r.user /\ x.aborted = r.aborted /\ x.callbackProcessed = r.callbackProcessed
        /\ x.timeout = r.timeout /\ x.check = r.check /\ x.listening = r.listening
        /\ x.requeued = r.requeued /\ x.error = r.error /\ x.complete = r.complete
        /\ x.threw = r.threw
    BY <1>3, ZenonT(30) DEF UploadRecord
  <2>2. u[i].phase = "new" /\ u' = [u EXCEPT ![i] = x]
    BY <1>7 DEF ajaxSubmit_keepalive, r
  <2> HIDE DEF x
  <2>3. Sound(x)
    BY <1>3, <1>4, <2>1, <2>2 DEF Sound, Spent, MayEnd, Over
  <2>4. CountStep(u[i], x)
    BY <1>3, <1>4, <1>7, <2>1, <2>2 DEF CountStep, ajaxSubmit_keepalive, Sound, CountedIn, MayCountOff
  <2>5. FormType'
    BY <1>7 DEF ajaxSubmit_keepalive, UploadInv, FormType
  <2> QED
    BY <2>1, <2>2, <2>3, <2>4, <2>5, ReplaceUpload
<1> QED
  BY <1>5, <1>6, <1>7

LEMMA DoSubmitKeeps ==
    ASSUME UploadInv, NEW i \in Uploads, doSubmit(i)
    PROVE  UploadInv'
<1>1. u[i] \in UploadRecord /\ Sound(u[i]) /\ u[i].phase = "waiting"
  BY DEF UploadInv, doSubmit
<1>2. PICK listens \in BOOLEAN :
        u' = [u EXCEPT ![i].phase = "sent", ![i].timeout = TRUE,
                       ![i].check = TRUE, ![i].listening = listens]
  BY Zenon DEF doSubmit
<1> DEFINE x == [u[i] EXCEPT !.phase = "sent", !.timeout = TRUE, !.check = TRUE, !.listening = listens]
<1>3. /\ x \in UploadRecord /\ x.phase = "sent"
      /\ x.user = u[i].user /\ x.aborted = u[i].aborted
      /\ x.callbackProcessed = u[i].callbackProcessed
      /\ x.error = u[i].error /\ x.complete = u[i].complete /\ x.threw = u[i].threw
  BY <1>1, <1>2, ZenonT(30) DEF UploadRecord
<1>4. u' = [u EXCEPT ![i] = x]
  BY <1>2, Zenon DEF UploadInv
<1> HIDE DEF x
<1>5. Sound(x)
  <2>1. Spent(u[i]) <= Spent(x) /\ Spent(x) \in Nat /\ Spent(u[i]) \in Nat
    BY <1>1, <1>3 DEF Spent, MayEnd
  <2>2. Over(x) <=> Over(u[i])
    BY <1>3 DEF Over
  <2>3. x.error \in Nat /\ x.complete \in Nat
    BY <1>1, <1>3 DEF UploadRecord
  <2> QED
    BY <1>1, <1>3, <2>1, <2>2, <2>3 DEF Sound
<1>6. CountStep(u[i], x)
  BY <1>1, <1>3 DEF CountStep, MayCountOff, CountedIn, doSubmit
<1>7. FormType'
  BY DEF doSubmit, UploadInv, FormType
<1> QED
  BY <1>3, <1>4, <1>5, <1>6, <1>7, ReplaceUpload

LEMMA AbortKeeps ==
    ASSUME UploadInv, NEW i \in Uploads, abort(i)
    PROVE  UploadInv'
<1>1. u[i] \in UploadRecord /\ Sound(u[i]) /\ u[i].phase \in {"waiting", "sent"} /\ ~u[i].user
  BY DEF UploadInv, abort
<1>2. PICK a \in Aborted(u[i]) : u' = [u EXCEPT ![i] = [a EXCEPT !.user = TRUE]]
  BY DEF abort
<1>3. u[i].error \in 0..2 /\ u[i].complete \in 0..2 /\ u[i].error + 1 \in 0..3 /\ u[i].complete + 1 \in 0..3
  BY <1>1 DEF Sound, Spent, UploadRecord
<1>4. a \in UploadRecord /\ a.phase = u[i].phase
  BY <1>1, <1>3, AbortedFacts, Zenon
<1> DEFINE x == UserAborted(a, u[i].phase)
<1>5. x = [a EXCEPT !.user = TRUE]
  BY <1>4 DEF UploadRecord, UserAborted
<1>6. x \in UploadRecord /\ Sound(x) /\ (MayCountOff(x) => MayCountOff(u[i])) /\ x.phase = u[i].phase
  <2>1. /\ u[i].phase \in {"waiting", "sent", "vetoed", "dropped"}
        /\ u[i].phase \notin {"new", "keepalive"}
    BY <1>1
  <2> QED
    BY <1>1, <2>1, UserAbortSound, Zenon
<1> HIDE DEF x
<1>7. CountStep(u[i], x)
  BY <1>6 DEF CountStep, CountedIn, abort
<1>8. FormType'
  BY DEF abort, UploadInv, FormType
<1> QED
  BY <1>2, <1>5, <1>6, <1>7, <1>8, ReplaceUpload

\* cb on the record r, which differs from that of the upload in the document alone.
LEMMA CbKeeps ==
    ASSUME UploadInv, NEW i \in Uploads, NEW r \in UploadRecord, Sound(r),
           r.phase = "sent", u[i].phase = "sent", MayCountOff(r), MayCountOff(u[i]),
           cb(i, r), FormType'
    PROVE  UploadInv'
<1>1. r.error \in 0..3 /\ r.complete \in 0..3
  BY DEF UploadRecord
<1> DEFINE Quiet(x) == /\ u' = [u EXCEPT ![i] = x] /\ up_jq_active' = up_jq_active
                       /\ x \in UploadRecord /\ Sound(x) /\ x.phase = "sent"
<1>2. ASSUME NEW x, Quiet(x) PROVE UploadInv'
  <2>1. CountStep(u[i], x)
    BY <1>2 DEF CountStep, CountedIn
  <2> QED
    BY <1>2, <2>1, ReplaceUpload
<1>3. [r EXCEPT !.requeued = FALSE] \in UploadRecord /\ Sound([r EXCEPT !.requeued = FALSE])
  <2> DEFINE x == [r EXCEPT !.requeued = FALSE]
  <2>1. /\ x \in UploadRecord /\ x.phase = r.phase
        /\ x.user = r.user /\ x.aborted = r.aborted /\ x.callbackProcessed = r.callbackProcessed
        /\ x.timeout = r.timeout /\ x.check = r.check /\ x.listening = r.listening
        /\ x.requeued = FALSE /\ x.error = r.error /\ x.complete = r.complete
        /\ x.threw = r.threw
    BY ZenonT(30) DEF UploadRecord
  <2> HIDE DEF x
  <2>2. Sound(x)
    BY <1>1, <2>1 DEF Sound, Spent, MayEnd, Over
  <2> QED
    BY <2>1, <2>2 DEF x
<1>4. CASE u' = [u EXCEPT ![i] = [r EXCEPT !.requeued = FALSE]] /\ UNCHANGED up_jq_active
  <2>1. [r EXCEPT !.requeued = FALSE].phase = "sent"
    BY DEF UploadRecord
  <2> QED
    BY <1>2, <1>3, <1>4, <2>1
<1>5. ASSUME ~Over(r), NEW a \in Aborted(r), u' = [u EXCEPT ![i] = [a EXCEPT !.requeued = FALSE]],
             UNCHANGED up_jq_active
      PROVE  UploadInv'
  <2>1. a \in UploadRecord /\ Sound(a) /\ a.phase = "sent"
    BY <1>5, AbortSound
  <2> DEFINE x == [a EXCEPT !.requeued = FALSE]
  <2>2. /\ x \in UploadRecord /\ x.phase = a.phase
        /\ x.user = a.user /\ x.aborted = a.aborted /\ x.callbackProcessed = a.callbackProcessed
        /\ x.timeout = a.timeout /\ x.check = a.check /\ x.listening = a.listening
        /\ x.requeued = FALSE /\ x.error = a.error /\ x.complete = a.complete
        /\ x.threw = a.threw
    BY <2>1, ZenonT(30) DEF UploadRecord
  <2>3. a.error \in 0..3 /\ a.complete \in 0..3
    BY <2>1 DEF UploadRecord
  <2> HIDE DEF x
  <2>4. Sound(x)
    BY <2>1, <2>2, <2>3 DEF Sound, Spent, MayEnd, Over
  <2> QED
    BY <1>2, <1>5, <2>1, <2>2, <2>4 DEF x
<1>6. CASE r.domCheckCount > 1 /\ u' = [u EXCEPT ![i] = Requeued(r)] /\ UNCHANGED up_jq_active
  <2> DEFINE x == Requeued(r)
  <2>1. r.domCheckCount - 1 \in 0..MaxDomChecks
    BY <1>6, UploadAssumption DEF UploadRecord
  <2>2. /\ x \in UploadRecord /\ x.phase = r.phase
        /\ x.user = r.user /\ x.aborted = r.aborted /\ x.callbackProcessed = r.callbackProcessed
        /\ x.timeout = r.timeout /\ x.check = r.check /\ x.listening = FALSE
        /\ x.requeued = TRUE /\ x.error = r.error /\ x.complete = r.complete
        /\ x.threw = r.threw
    BY <2>1, ZenonT(30) DEF UploadRecord, Requeued
  <2> HIDE DEF x
  <2>3. Sound(x)
    BY <1>1, <2>2 DEF Sound, Spent, MayEnd, Over, MayCountOff
  <2> QED
    BY <1>2, <1>6, <2>2, <2>3 DEF x
<1>7. ASSUME ~Over(r), NEW outcome \in {"success", "error"}, NEW throws \in {"none", "outcome", "complete"},
             u' = [u EXCEPT ![i] = Ended(r, outcome, throws)],
             up_jq_active' = IF throws = "outcome" THEN up_jq_active ELSE CountedOff(r)
      PROVE  UploadInv'
  <2> DEFINE x == Ended(r, outcome, throws)
             told == [r EXCEPT !.listening = FALSE, !.requeued = FALSE,
                               !.success = IF outcome = "success" THEN 1 ELSE 0,
                               !.error   = IF outcome = "error" THEN r.error + 1 ELSE r.error]
  <2>1. /\ r.error \in 0..2 /\ r.complete \in 0..2
        /\ r.error + 1 \in 0..3 /\ r.complete + 1 \in 0..3
    BY <1>1, <1>7 DEF Sound, Spent, MayEnd, Over, MayCountOff
  <2>2. /\ (IF outcome = "success" THEN 1 ELSE 0) \in 0..1
        /\ (IF outcome = "error" THEN r.error + 1 ELSE r.error) \in 0..3
        /\ (IF outcome = "error" THEN r.error + 1 ELSE r.error) <= r.error + 1
    BY <1>1, <2>1
  <2>3. /\ told \in UploadRecord
        /\ told.phase = r.phase
        /\ told.user = r.user /\ told.aborted = r.aborted
        /\ told.callbackProcessed = r.callbackProcessed
        /\ told.timeout = r.timeout /\ told.check = r.check /\ told.listening = FALSE
        /\ told.requeued = FALSE /\ told.complete = r.complete /\ told.threw = r.threw
        /\ told.error = IF outcome = "error" THEN r.error + 1 ELSE r.error
    <3> DEFINE s1 == IF outcome = "success" THEN 1 ELSE 0
               e1 == IF outcome = "error" THEN r.error + 1 ELSE r.error
               y  == [r EXCEPT !.listening = FALSE, !.requeued = FALSE, !.success = s1, !.error = e1]
    <3>1. s1 \in 0..1 /\ e1 \in 0..3
      BY <2>2
    <3>2. /\ y \in UploadRecord /\ y.phase = r.phase
          /\ y.user = r.user /\ y.aborted = r.aborted /\ y.callbackProcessed = r.callbackProcessed
          /\ y.timeout = r.timeout /\ y.check = r.check /\ y.listening = FALSE
          /\ y.requeued = FALSE /\ y.complete = r.complete /\ y.threw = r.threw
          /\ y.error = e1
      <4> HIDE DEF s1, e1
      <4> QED
        BY <3>1, ZenonT(60) DEF UploadRecord
    <3> QED
      BY <3>2, Zenon
  <2> HIDE DEF told
  <2>4. /\ x \in UploadRecord /\ x.phase = "sent" /\ x.error = told.error
        /\ x.user = r.user /\ x.aborted = r.aborted
        /\ x.listening = FALSE /\ x.requeued = FALSE
        /\ \/ x.complete = r.complete /\ x.callbackProcessed = r.callbackProcessed
           \/ x.complete = r.complete + 1 /\ "complete" \in x.threw
           \/ x.complete = r.complete + 1 /\ x.callbackProcessed = TRUE
        /\ "complete" \in r.threw => "complete" \in x.threw
    <3>1. CASE throws = "outcome"
      <4>1. x = [told EXCEPT !.threw = @ \cup {"outcome"}]
        BY <3>1 DEF Ended, told
      <4>2. told.threw \cup {"outcome"} \in SUBSET {"outcome", "complete", "abort"}
        BY <2>3 DEF UploadRecord
      <4>3. "complete" \in r.threw => "complete" \in told.threw \cup {"outcome"}
        BY <2>3
      <4>4. /\ x \in UploadRecord /\ x.phase = told.phase /\ x.error = told.error
            /\ x.user = told.user /\ x.aborted = told.aborted
            /\ x.listening = told.listening /\ x.requeued = told.requeued
            /\ x.complete = told.complete /\ x.callbackProcessed = told.callbackProcessed
            /\ x.threw = told.threw \cup {"outcome"}
        <5>1. told \in UploadRecord
          BY <2>3
        <5> QED
          BY <4>1, <4>2, <5>1, ZenonT(60) DEF UploadRecord
      <4> QED
        BY <1>7, <2>3, <4>3, <4>4
    <3>2. CASE throws = "complete"
      <4>1. x = [told EXCEPT !.threw = @ \cup {"complete"}, !.complete = r.complete + 1]
        BY <3>2 DEF Ended, told
      <4>2. told.threw \cup {"complete"} \in SUBSET {"outcome", "complete", "abort"}
        BY <2>3 DEF UploadRecord
      <4>3. "complete" \in told.threw \cup {"complete"}
        OBVIOUS
      <4>4. /\ x \in UploadRecord /\ x.phase = told.phase /\ x.error = told.error
            /\ x.user = told.user /\ x.aborted = told.aborted
            /\ x.listening = told.listening /\ x.requeued = told.requeued
            /\ x.complete = r.complete + 1 /\ x.threw = told.threw \cup {"complete"}
        <5>1. told \in UploadRecord /\ r.complete + 1 \in 0..3
          BY <2>1, <2>3
        <5> QED
          BY <4>1, <4>2, <5>1, ZenonT(60) DEF UploadRecord
      <4> QED
        BY <1>7, <2>3, <4>3, <4>4
    <3>3. CASE throws = "none"
      <4>1. x = [told EXCEPT !.complete = r.complete + 1, !.callbackProcessed = TRUE, !.timeout = FALSE]
        BY <3>3 DEF Ended, told
      <4>4. /\ x \in UploadRecord /\ x.phase = told.phase /\ x.error = told.error
            /\ x.user = told.user /\ x.aborted = told.aborted
            /\ x.listening = told.listening /\ x.requeued = told.requeued
            /\ x.complete = r.complete + 1 /\ x.threw = told.threw /\ x.callbackProcessed = TRUE
        <5>1. told \in UploadRecord /\ r.complete + 1 \in 0..3
          BY <2>1, <2>3
        <5> QED
          BY <4>1, <5>1, ZenonT(60) DEF UploadRecord
      <4> QED
        BY <1>7, <2>3, <4>4
    <3> QED
      BY <3>1, <3>2, <3>3
  <2> HIDE DEF x
  <2>5. Sound(x)
    BY <1>1, <1>7, <2>1, <2>2, <2>3, <2>4 DEF Sound, Spent, MayEnd, Over, MayCountOff
  <2>6. CountStep(u[i], x)
    BY <1>7, <2>4 DEF CountStep, MayCountOff, CountedIn, CountedOff
  <2> QED
    BY <1>7, <2>4, <2>5, <2>6, ReplaceUpload DEF x
<1> QED
  BY <1>4, <1>5, <1>6, <1>7 DEF cb

\* A record that differs in fields no one asks about: the document, a timer.
LEMMA SameOutcome ==
    ASSUME NEW r \in UploadRecord, Sound(r), r.phase = "sent", NEW x \in UploadRecord,
           x.phase = r.phase, x.user = r.user, x.aborted = r.aborted,
           x.callbackProcessed = r.callbackProcessed, x.listening = r.listening,
           x.requeued = r.requeued, x.error = r.error, x.complete = r.complete, x.threw = r.threw
    PROVE  Sound(x) /\ (MayCountOff(x) <=> MayCountOff(r)) /\ (Over(x) <=> Over(r))
<1> QED
  BY DEF Sound, Spent, MayEnd, Over, MayCountOff

LEMMA LoadKeeps ==
    ASSUME UploadInv, NEW i \in Uploads, load(i) \/ cb_again(i)
    PROVE  UploadInv'
<1>1. u[i] \in UploadRecord /\ Sound(u[i])
  BY DEF UploadInv
<1>2. u[i].phase = "sent" /\ MayCountOff(u[i])
  BY <1>1 DEF load, cb_again, Sound, MayCountOff
<1>3. CASE load(i)
  <2>1. PICK f \in {"blank", "answer", "unreadable"} : cb(i, [u[i] EXCEPT !.frame = f])
    BY <1>3 DEF load
  <2> DEFINE r == [u[i] EXCEPT !.frame = f]
  <2>2. /\ r \in UploadRecord /\ r.phase = u[i].phase
        /\ r.user = u[i].user /\ r.aborted = u[i].aborted
        /\ r.callbackProcessed = u[i].callbackProcessed /\ r.listening = u[i].listening
        /\ r.requeued = u[i].requeued /\ r.error = u[i].error /\ r.complete = u[i].complete
        /\ r.threw = u[i].threw
    BY <1>1, ZenonT(30) DEF UploadRecord
  <2> HIDE DEF r
  <2>3. Sound(r) /\ MayCountOff(r) /\ r.phase = "sent"
    BY <1>1, <1>2, <2>2, SameOutcome
  <2>4. UNCHANGED <<clk, clk_timer, enabled, checked>>
    BY <1>3 DEF load
  <2>5. FormType'
    BY <2>4 DEF UploadInv, FormType
  <2>6. cb(i, r)
    BY <2>1 DEF r
  <2> QED
    BY <1>2, <2>2, <2>3, <2>5, <2>6, CbKeeps
<1>4. CASE cb_again(i)
  <2>1. FormType'
    BY <1>4 DEF cb_again, UploadInv, FormType
  <2> QED
    BY <1>1, <1>2, <1>4, <2>1, CbKeeps DEF cb_again
<1> QED
  BY <1>3, <1>4

\* The timeout and checkState abort an upload that is not over.
LEMMA TimerKeeps ==
    ASSUME UploadInv, NEW i \in Uploads, timeout(i) \/ checkState(i)
    PROVE  UploadInv'
<1>1. u[i] \in UploadRecord /\ Sound(u[i]) /\ u[i].phase = "sent"
  BY DEF UploadInv, timeout, checkState, Sound
<1>2. FormType' /\ up_jq_active' = up_jq_active
  BY DEF timeout, checkState, UploadInv, FormType
<1> DEFINE Like(r) == /\ r \in UploadRecord /\ r.phase = u[i].phase
                      /\ r.user = u[i].user /\ r.aborted = u[i].aborted
                      /\ r.callbackProcessed = u[i].callbackProcessed /\ r.listening = u[i].listening
                      /\ r.requeued = u[i].requeued /\ r.error = u[i].error
                      /\ r.complete = u[i].complete /\ r.threw = u[i].threw
<1>3. ASSUME NEW r, Like(r),
             \/ u' = [u EXCEPT ![i] = r]
             \/ ~Over(u[i]) /\ \E a \in Aborted(r) : u' = [u EXCEPT ![i] = a]
      PROVE  UploadInv'
  <2>1. Sound(r) /\ (MayCountOff(r) <=> MayCountOff(u[i])) /\ (Over(r) <=> Over(u[i])) /\ r.phase = "sent"
    BY <1>1, <1>3, SameOutcome
  <2>2. CASE u' = [u EXCEPT ![i] = r]
    <3>1. CountStep(u[i], r)
      BY <1>2, <2>1 DEF CountStep, CountedIn
    <3> QED
      BY <1>2, <1>3, <2>1, <2>2, <3>1, ReplaceUpload
  <2>3. ASSUME ~Over(u[i]), NEW a \in Aborted(r), u' = [u EXCEPT ![i] = a]
        PROVE  UploadInv'
    <3>1. a \in UploadRecord /\ Sound(a) /\ (MayCountOff(a) <=> MayCountOff(r)) /\ a.phase = r.phase
      BY <1>3, <2>1, <2>3, AbortSound
    <3>2. CountStep(u[i], a)
      BY <1>2, <2>1, <3>1 DEF CountStep, CountedIn
    <3> QED
      BY <1>2, <2>3, <3>1, <3>2, ReplaceUpload
  <2> QED
    BY <1>3, <2>2, <2>3
<1>4. CASE timeout(i)
  <2> DEFINE r == [u[i] EXCEPT !.timeout = FALSE, !.timedOut = TRUE]
  <2>1. Like(r)
    BY <1>1, ZenonT(30) DEF UploadRecord
  <2>2. PICK a \in IF Over(r) THEN {r} ELSE Aborted(r) : u' = [u EXCEPT ![i] = a]
    BY <1>4 DEF timeout
  <2> HIDE DEF r
  <2>3. Over(r) <=> Over(u[i])
    BY <1>1, <2>1, SameOutcome
  <2> QED
    BY <1>3, <2>1, <2>2, <2>3
<1>5. CASE checkState(i)
  <2>1. ASSUME NEW again \in BOOLEAN,
               u' = [u EXCEPT ![i].check = again /\ u[i].frame = "blank"]
        PROVE  UploadInv'
    <3> DEFINE r == [u[i] EXCEPT !.check = again /\ u[i].frame = "blank"]
    <3>1. u' = [u EXCEPT ![i] = r]
      BY <2>1 DEF UploadInv
    <3>2. (again /\ u[i].frame = "blank") \in BOOLEAN
      OBVIOUS
    <3>3. Like(r)
      BY <1>1, <3>2, ZenonT(30) DEF UploadRecord
    <3> QED
      BY <1>3, <3>1, <3>3
  <2> DEFINE r == [u[i] EXCEPT !.check = FALSE, !.timeout = FALSE, !.frame = "unreadable"]
  <2>2. ASSUME NEW a \in IF Over(u[i]) THEN {r} ELSE Aborted(r), u' = [u EXCEPT ![i] = a]
        PROVE  UploadInv'
    <3>1. Like(r)
      BY <1>1, ZenonT(30) DEF UploadRecord
    <3> HIDE DEF r
    <3> QED
      BY <1>3, <2>2, <3>1
  <2> QED
    BY <1>5, <2>1, <2>2 DEF checkState
<1> QED
  BY <1>4, <1>5

LEMMA StepKeepsUploadInv == UploadInv /\ [UploadNext]_uploadVars => UploadInv'
<1> SUFFICES ASSUME UploadInv, [UploadNext]_uploadVars PROVE UploadInv'
  OBVIOUS
<1>1. ASSUME NEW b \in Buttons, click(b) PROVE UploadInv'
  <2>1. FormType'
    BY <1>1 DEF click, UploadInv, FormType
  <2> QED
    BY <1>1, <2>1, FormStep DEF click
<1>2. CASE clear_clk
  <2>1. FormType'
    BY <1>2 DEF clear_clk, UploadInv, FormType
  <2> QED
    BY <1>2, <2>1, FormStep DEF clear_clk
<1>3. ASSUME NEW el \in Fields, change_field(el) PROVE UploadInv'
  <2>1. FormType'
    BY <1>3 DEF change_field, UploadInv, FormType
  <2> QED
    BY <1>3, <2>1, FormStep DEF change_field
<1>4. ASSUME NEW i \in Uploads,
             \/ ajaxSubmit(i) \/ ajaxSubmit_keepalive(i) \/ keepalive_closed(i)
             \/ doSubmit(i) \/ abort(i)
             \/ load(i) \/ cb_again(i) \/ timeout(i) \/ checkState(i)
      PROVE  UploadInv'
  BY <1>4, SubmitKeeps, DoSubmitKeeps, AbortKeeps, LoadKeeps, TimerKeeps
<1>5. CASE UNCHANGED uploadVars
  <2>1. FormType'
    BY <1>5 DEF uploadVars, UploadInv, FormType
  <2> QED
    BY <1>5, <2>1, FormStep DEF uploadVars
<1> QED
  BY <1>1, <1>2, <1>3, <1>4, <1>5 DEF UploadNext

LEMMA UploadInvariant == UploadSpec => []UploadInv
<1> QED
  BY InitUploadInv, StepKeepsUploadInv, PTL DEF UploadSpec

(* $.active stays between 0 and the number of uploads, callbacks are called  *)
(* at most three times (by an answer, an abort of the page and one of        *)
(* anything else), and the rest of an upload keeps its type.                 *)
THEOREM UploadTypeCorrect == UploadSpec => []UploadTypeOK
<1>1. UploadInv => UploadTypeOK
  <2> SUFFICES ASSUME UploadInv PROVE UploadTypeOK
    OBVIOUS
  <2>1. Cardinality({i \in Uploads : CountedIn(u[i])}) <= Cardinality(Uploads)
    BY UploadAssumption, FS_Subset
  <2>2. /\ Cardinality({i \in Uploads : CountedIn(u[i])}) \in Nat /\ Cardinality(Uploads) \in Nat
    BY UploadAssumption, FS_Subset, FS_CardinalityType
  <2>3. up_jq_active \in 0..Cardinality(Uploads)
    BY <2>1, <2>2 DEF UploadInv, CountSound
  <2> QED
    BY <2>3 DEF UploadInv, FormType, UploadTypeOK
<1> QED
  BY <1>1, UploadInvariant, PTL

(* For any number of uploads, the answer, the timeout, checkState and a      *)
(* requeued cb never end an upload twice, in whatever order they come and    *)
(* whichever callback throws.                                                *)
THEOREM UploadCompletesOnce == UploadSpec => []CompleteOnce
<1>1. UploadInv => CompleteOnce
  <2> SUFFICES ASSUME UploadInv, NEW i \in Uploads, ~u[i].user, "complete" \notin u[i].threw
               PROVE  u[i].complete <= 1
    BY DEF CompleteOnce
  <2>1. u[i] \in UploadRecord /\ Sound(u[i])
    BY DEF UploadInv
  <2> QED
    BY <2>1 DEF Sound, UploadRecord
<1> QED
  BY <1>1, UploadInvariant, PTL

-----------------------------------------------------------------------------
(***************************************************************************)
(* The autocompleter.  Until something is crossed, and with no observer    *)
(* event to come, a box that has the focus has the request sent last, or   *)
(* when none is under way its menu, for its text.  A box without the focus *)
(* may have an old menu, since it ignores answers, but cannot make it      *)
(* active; whatever gives it the focus asks again.                         *)
(***************************************************************************)
LastIsForText ==
    /\ Fresh(bounds)
    /\ hasFocus => IF asked = <<>> THEN list = text ELSE asked[Len(asked)] = text

AcInv ==
    /\ {hasFocus, changed, active, observer} \subseteq BOOLEAN
    /\ asked \in Seq(Tokens)
    /\ options.Local => asked = <<>>
    /\ changed => observer
    /\ active => hasFocus
    /\ crossed = {} /\ ~observer => LastIsForText

LEMMA InitAcInv == AcInit => AcInv
<1> SUFFICES ASSUME AcInit PROVE AcInv
  OBVIOUS
<1>1. {hasFocus, changed, active, observer} \subseteq BOOLEAN
  BY Zenon DEF AcInit
<1>0. asked \in Seq(Tokens)
  BY DEF AcInit
<1>2. LastIsForText /\ asked = <<>> /\ ~changed /\ ~active
  BY DEF AcInit, LastIsForText, Fresh
<1>3. QED
  BY <1>0, <1>1, <1>2 DEF AcInv

\* Without its first member a queue of two or more ends as before.
LEMMA RemoveAtLast ==
  ASSUME NEW S, NEW s \in Seq(S), NEW i \in 1..Len(s)
  PROVE  /\ RemoveAt(s, i) \in Seq(S) /\ Len(RemoveAt(s, i)) = Len(s) - 1 /\ Len(s) \in Nat
         /\ s # <<>> /\ (Len(s) = 1 \/ Len(s) > 1)
         /\ i = 1 /\ Len(s) > 1 => /\ RemoveAt(s, i) # <<>>
                                   /\ RemoveAt(s, i)[Len(RemoveAt(s, i))] = s[Len(s)]
         /\ i = 1 => (RemoveAt(s, i) = <<>> <=> Len(s) = 1)
<1>1. Len(s) \in Nat /\ i \in Nat /\ i >= 1 /\ i <= Len(s) /\ s # <<>>
  OBVIOUS
<1>2. SubSeq(s, 1, i - 1) \in Seq(S) /\ SubSeq(s, i + 1, Len(s)) \in Seq(S)
  BY <1>1
<1>3. RemoveAt(s, i) \in Seq(S) /\ Len(RemoveAt(s, i)) = Len(s) - 1
  <2> DEFINE front == SubSeq(s, 1, i - 1)
             rest == SubSeq(s, i + 1, Len(s))
  <2>1. Len(front) = i - 1
    BY <1>1
  <2>2. Len(rest) = Len(s) - i
    BY <1>1
  <2>3. front \in Seq(S) /\ rest \in Seq(S) /\ RemoveAt(s, i) = front \o rest
    BY <1>2 DEF RemoveAt
  <2> HIDE DEF front, rest
  <2>4. Len(front \o rest) = Len(front) + Len(rest) /\ front \o rest \in Seq(S)
    BY <2>3
  <2>5. Len(front \o rest) = Len(s) - 1
    BY <1>1, <2>1, <2>2, <2>4
  <2>6. QED
    BY <2>3, <2>4, <2>5
<1>4. ASSUME i = 1
      PROVE  /\ Len(RemoveAt(s, i)) = Len(s) - 1
             /\ \A k \in 1..Len(s) - 1 : RemoveAt(s, i)[k] = s[k + 1]
  <2>1. SubSeq(s, 1, 0) = <<>> /\ SubSeq(s, 1 + 1, Len(s)) \in Seq(S)
    BY <1>1, <1>2, <1>4
  <2>2. RemoveAt(s, 1) = SubSeq(s, 2, Len(s))
    BY <1>1, <2>1 DEF RemoveAt
  <2>3. Len(SubSeq(s, 2, Len(s))) = Len(s) - 1
    BY <1>1
  <2>4. \A k \in 1..Len(s) - 1 : SubSeq(s, 2, Len(s))[k] = s[k + 1]
    BY <1>1
  <2>5. QED
    BY <1>4, <2>2, <2>3, <2>4
<1>5. ASSUME i = 1, Len(s) > 1
      PROVE  RemoveAt(s, i) # <<>> /\ RemoveAt(s, i)[Len(RemoveAt(s, i))] = s[Len(s)]
  <2>1. Len(RemoveAt(s, i)) = Len(s) - 1 /\ Len(s) - 1 \in 1..Len(s) - 1
    BY <1>1, <1>4, <1>5
  <2>2. RemoveAt(s, i)[Len(s) - 1] = s[Len(s) - 1 + 1]
    BY <1>4, <1>5, <2>1
  <2>3. QED
    BY <1>1, <1>3, <2>1, <2>2
<1>6. ASSUME i = 1 PROVE RemoveAt(s, i) = <<>> <=> Len(s) = 1
  BY <1>1, <1>3, <1>4, <1>6
<1>7. Len(s) = 1 \/ Len(s) > 1
  <2>1. \A n \in Nat : n >= 1 => n = 1 \/ n > 1
    OBVIOUS
  <2>2. Len(s) \in Nat /\ Len(s) >= 1
    BY <1>1
  <2>3. QED
    BY <2>1, <2>2
<1>8. QED
  BY <1>1, <1>3, <1>5, <1>6, <1>7

\* What a step leaves alone: the queue, its text and the focus.
LEMMA QuietKeeps ==
  ASSUME AcInv, UNCHANGED <<options, asked, text, bounds, list, hasFocus, changed, observer>>,
         crossed \subseteq crossed', active' \in BOOLEAN, active' => active \/ hasFocus
  PROVE  AcInv'
<1>1. QED
  BY DEF AcInv, LastIsForText, Fresh

\* A step that crosses something owes the text nothing.
LEMMA CrossedKeeps ==
  ASSUME AcInv, UNCHANGED <<options, asked, hasFocus, changed, observer>>,
         crossed' # {}, active' \in BOOLEAN, active' => active
  PROVE  AcInv'
<1>1. QED
  BY DEF AcInv

LEMMA KeysKeep ==
  ASSUME AcInv, UNCHANGED options,
         \/ \E t \in Tokens : type(t) \/ edit(t)
         \/ enter \/ escape \/ mark \/ onBlur \/ blur_hide \/ fade_ends
         \/ \E i \in 0..entryCount - 1 : onClick(i)
  PROVE  AcInv'
<1>0. {hasFocus, changed, active, observer} \subseteq BOOLEAN
  BY DEF AcInv
<1>1. ASSUME NEW t \in Tokens, type(t) PROVE AcInv'
  BY <1>1 DEF type, AcInv
<1>2. ASSUME NEW t \in Tokens, edit(t) PROVE AcInv'
  BY <1>0, <1>2, CrossedKeeps DEF edit
<1>3. CASE enter
  <2>1. CASE list = NoList
    BY <1>0, <1>3, <2>1, QuietKeeps DEF enter
  <2>2. CASE list # NoList
    BY <1>0, <1>3, <2>2, CrossedKeeps DEF enter, selectEntry
  <2>3. QED
    BY <2>1, <2>2
<1>4. CASE escape
  BY <1>0, <1>4, QuietKeeps DEF escape
<1>5. CASE mark
  <2>1. active' \in BOOLEAN /\ (active' => active \/ hasFocus)
    BY <1>0, <1>5 DEF mark, render
  <2>2. QED
    BY <1>5, <2>1, QuietKeeps DEF mark
<1>6. CASE onBlur
  BY <1>6 DEF onBlur, AcInv, LastIsForText, Fresh
<1>7. CASE blur_hide \/ fade_ends
  BY <1>0, <1>7, QuietKeeps DEF blur_hide, fade_ends
<1>8. ASSUME NEW i \in 0..entryCount - 1, onClick(i) PROVE AcInv'
  BY <1>0, <1>8, CrossedKeeps DEF onClick, selectEntry
<1>9. QED
  BY <1>1, <1>2, <1>3, <1>4, <1>5, <1>6, <1>7, <1>8

\* Asking for the whole text, or for another one while an observer event is to come.
LEMMA AskingKeeps ==
  ASSUME AcInv, UNCHANGED options, NEW focus \in BOOLEAN, NEW b,
         getUpdatedChoices(focus, b),
         hasFocus' = focus, changed' = FALSE, observer' \in BOOLEAN,
         text \in Tokens,
         Fresh(b) => bounds' \in {Unset, text},
         crossed = {} /\ ~observer' => Fresh(b),
         active => focus
  PROVE  AcInv'
<1>1. PICK token \in getToken(b) :
        IF options.Local
        THEN /\ IF focus THEN updateChoices(token, b) ELSE ignoreChoices
             /\ crossed' = (IF Fresh(b) THEN {} ELSE crossed) \cup Picked(token)
             /\ UNCHANGED asked
        ELSE /\ Len(asked) < MaxAsked
             /\ asked' = Append(asked, token)
             /\ indicator' = TRUE
             /\ crossed' = IF asked = <<>> /\ Fresh(b) THEN {} ELSE crossed
             /\ UNCHANGED <<list, entryCount, index, text, active, display>>
  BY DEF getUpdatedChoices
<1>2. token \in Tokens /\ (Fresh(b) => token = text)
  BY <1>1 DEF getToken
<1>3. {hasFocus, changed, active, observer} \subseteq BOOLEAN /\ asked \in Seq(Tokens)
  BY DEF AcInv
<1>4. CASE options.Local
  <2>1. asked = <<>> /\ asked' = <<>>
    BY <1>1, <1>4 DEF AcInv
  <2>2. CASE focus
    <3>1. list' = token /\ active' \in BOOLEAN
      BY <1>1, <1>4, <2>2 DEF updateChoices
    <3>2. crossed' = {} => ~Selects(token) /\ (~observer' => Fresh(b))
      BY <1>1, <1>4 DEF Picked
    <3>3. ~Selects(token) => text' = text
      BY <1>1, <1>4, <2>2 DEF updateChoices
    <3>4. crossed' = {} /\ ~observer' => LastIsForText'
      BY <1>2, <2>1, <3>1, <3>2, <3>3 DEF LastIsForText, Fresh
    <3>5. QED
      BY <1>3, <2>1, <2>2, <3>1, <3>4 DEF AcInv
  <2>3. CASE ~focus
    <3>1. text' = text /\ list' = list /\ active' = active
      BY <1>1, <1>4, <2>3 DEF ignoreChoices
    <3>2. crossed' = {} => (~observer' => Fresh(b))
      BY <1>1, <1>4 DEF Picked
    <3>3. crossed' = {} /\ ~observer' => LastIsForText'
      BY <2>1, <2>3, <3>1, <3>2 DEF LastIsForText, Fresh
    <3>4. QED
      BY <1>3, <2>1, <2>3, <3>1, <3>3 DEF AcInv
  <2>4. QED
    BY <2>2, <2>3
<1>5. CASE ~options.Local
  <2>1. /\ asked' = Append(asked, token)
        /\ UNCHANGED <<list, text, active>>
        /\ crossed' = IF asked = <<>> /\ Fresh(b) THEN {} ELSE crossed
    BY <1>1, <1>5
  <2>2. asked' \in Seq(Tokens) /\ asked' # <<>> /\ asked'[Len(asked')] = token
    BY <1>2, <1>3, <2>1
  <2>3. crossed' = {} /\ ~observer' => Fresh(b)
    BY <2>1
  <2>4. crossed' = {} /\ ~observer' => LastIsForText'
    BY <1>2, <2>1, <2>2, <2>3 DEF LastIsForText, Fresh
  <2>5. QED
    BY <1>3, <1>5, <2>1, <2>2, <2>4 DEF AcInv
<1>6. QED
  BY <1>4, <1>5

LEMMA ObserverEventKeeps ==
  ASSUME AcInv, UNCHANGED options, text \in Tokens, onObserverEvent
  PROVE  AcInv'
<1>1. CASE MinChars(text)
  <2>1. /\ getUpdatedChoices(hasFocus, text) /\ hasFocus' = hasFocus /\ changed' = FALSE
        /\ observer' = FALSE /\ bounds' = text
    BY <1>1 DEF onObserverEvent
  <2>2. Fresh(text) /\ hasFocus \in BOOLEAN /\ (active => hasFocus)
    BY DEF Fresh, AcInv
  <2>3. QED
    BY <2>1, <2>2, AskingKeeps
<1>2. CASE ~MinChars(text)
  BY <1>2 DEF onObserverEvent, AcInv
<1>3. QED
  BY <1>1, <1>2

LEMMA ActivateKeeps ==
  ASSUME AcInv, UNCHANGED options, text \in Tokens, activate
  PROVE  AcInv'
<1>1. /\ getUpdatedChoices(TRUE, bounds) /\ hasFocus' = TRUE /\ changed' = FALSE
      /\ observer' = observer /\ bounds' = IF bounds = Unset /\ MinChars(text) THEN text ELSE bounds
  BY DEF activate
<1>2. observer \in BOOLEAN
  BY DEF AcInv
<1>3. Fresh(bounds) => bounds' \in {Unset, text}
  BY <1>1 DEF Fresh
<1>4. crossed = {} /\ ~observer => Fresh(bounds)
  BY DEF AcInv, LastIsForText
<1>5. QED
  BY <1>1, <1>2, <1>3, <1>4, AskingKeeps

\* The oldest answer leaves the last one asked for; any other one is crossed.
LEMMA AnswerKeeps ==
  ASSUME AcInv, UNCHANGED options, NEW i \in 1..Len(asked), onAnswer(i) \/ onFailedAnswer(i)
  PROVE  AcInv'
<1>1. /\ asked \in Seq(Tokens) /\ asked' = RemoveAt(asked, i)
      /\ {hasFocus, changed, active, observer} \subseteq BOOLEAN
      /\ UNCHANGED <<bounds, hasFocus, changed, observer>>
  BY DEF onAnswer, onFailedAnswer, AcInv
<1>2. /\ asked' \in Seq(Tokens) /\ asked # <<>>
      /\ i = 1 /\ Len(asked) > 1 => asked' # <<>> /\ asked'[Len(asked')] = asked[Len(asked)]
      /\ i = 1 => (asked' = <<>> <=> Len(asked) = 1)
  BY <1>1, RemoveAtLast
<1>3. ~options.Local
  BY <1>2 DEF AcInv
<1>4. crossed' = {} => crossed = {}
  BY DEF onAnswer, onFailedAnswer
<1>5. active' \in BOOLEAN /\ (active' => active \/ hasFocus)
  BY <1>1 DEF onAnswer, onFailedAnswer, updateChoices, ignoreChoices
<1>6. ASSUME onAnswer(i), crossed' = {}, ~observer' PROVE LastIsForText'
  <2>1. i = 1
    BY <1>6 DEF onAnswer
  <2>2. LastIsForText /\ ~changed
    BY <1>1, <1>4, <1>6 DEF AcInv
  <2>3. text' = text /\ (hasFocus => list' = asked[1])
    BY <1>6, <2>1, <2>2 DEF onAnswer, Picked, updateChoices, ignoreChoices
  <2>4. hasFocus /\ asked' = <<>> => asked[1] = text
    BY <1>2, <2>1, <2>2 DEF LastIsForText
  <2>5. hasFocus /\ asked' # <<>> => asked'[Len(asked')] = text
    <3>1. Len(asked) = 1 \/ Len(asked) > 1
      BY <1>1, RemoveAtLast
    <3>2. QED
      BY <1>2, <2>1, <2>2, <3>1 DEF LastIsForText
  <2>6. QED
    BY <1>1, <2>2, <2>3, <2>4, <2>5 DEF LastIsForText, Fresh
<1>7. ASSUME onFailedAnswer(i), crossed' = {}, ~observer' PROVE LastIsForText'
  <2>1. LastIsForText /\ ~changed /\ ~hasFocus /\ text' = text
    BY <1>1, <1>4, <1>7 DEF onFailedAnswer, AcInv
  <2>2. QED
    BY <1>1, <2>1 DEF LastIsForText, Fresh
<1>8. QED
  BY <1>1, <1>2, <1>3, <1>5, <1>6, <1>7 DEF AcInv

LEMMA StepKeepsAcInv == AcInv /\ text \in Tokens /\ [AcNext]_acVars => AcInv'
<1> SUFFICES ASSUME AcInv, text \in Tokens, [AcNext]_acVars PROVE AcInv'
  OBVIOUS
<1>1. CASE UNCHANGED acVars
  BY <1>1, Zenon DEF acVars, AcInv, LastIsForText, Fresh
<1>2. CASE AcNext
  BY <1>2, KeysKeep, ObserverEventKeeps, ActivateKeeps, AnswerKeeps DEF AcNext
<1>3. QED
  BY <1>1, <1>2

-----------------------------------------------------------------------------
\* The count of entries is the one of the list, so that an active menu has its entry.
AcTypeInv == AcTypeOK /\ (list # NoList => entryCount = Len(Entries(list)))

LEMMA EntriesAreTokens ==
  ASSUME NEW t \in Tokens
  PROVE  /\ Len(Entries(t)) \in Nat
         /\ \A k \in Nat : k < Len(Entries(t)) => Entries(t)[k + 1] \in Tokens
         /\ Len(Entries(t)) = 1 => Entries(t)[1] \in Tokens
<1>1. Entries(t) \in Seq(Tokens)
  BY AutocompleterAssumption
<1>2. \A k \in Nat : k < Len(Entries(t)) => k + 1 \in 1..Len(Entries(t))
  BY <1>1
<1>3. QED
  BY <1>1, <1>2

LEMMA InitAcTypeInv == AcInit => AcTypeInv
<1> SUFFICES ASSUME AcInit PROVE AcTypeInv
  OBVIOUS
<1>1. {hasFocus, changed, active, observer, indicator} \subseteq BOOLEAN /\ ~active
  BY Zenon DEF AcInit
<1>2. asked \in Seq(Tokens) /\ Len(asked) <= MaxAsked /\ keys \in 0..MaxKeys
  BY AutocompleterAssumption DEF AcInit
<1>3. QED
  BY <1>1, <1>2 DEF AcInit, AcTypeInv, AcTypeOK

LEMMA PickTypes ==
  ASSUME AcTypeInv, list # NoList, NEW k \in Nat, k < entryCount, selectEntry(getEntry(k))
  PROVE  text' \in Tokens /\ bounds' \in Tokens \cup {Unset} /\ active' = FALSE
<1>1. list \in Tokens /\ text \in Tokens /\ bounds \in Tokens \cup {Unset}
  BY DEF AcTypeInv, AcTypeOK
<1>2. getEntry(k) \in Tokens
  BY <1>1, EntriesAreTokens DEF getEntry, AcTypeInv
<1>3. QED
  BY <1>1, <1>2 DEF selectEntry, updateElement

LEMMA KeyTypes ==
  ASSUME AcTypeInv, UNCHANGED options,
         \/ \E t \in Tokens : type(t) \/ edit(t)
         \/ enter \/ escape \/ mark \/ onBlur \/ blur_hide \/ fade_ends
         \/ \E i \in 0..entryCount - 1 : onClick(i)
  PROVE  AcTypeInv'
<1> USE DEF AcTypeInv, AcTypeOK
<1>1. PressKey => keys' \in 0..MaxKeys
  BY AutocompleterAssumption DEF PressKey
<1>2. ASSUME NEW t \in Tokens, type(t) PROVE AcTypeInv'
  BY <1>1, <1>2 DEF type
<1>3. ASSUME NEW t \in Tokens, edit(t) PROVE AcTypeInv'
  BY <1>1, <1>3 DEF edit
<1>4. CASE enter
  <2>1. CASE list = NoList
    BY <1>1, <1>4, <2>1 DEF enter
  <2>2. CASE list # NoList
    <3>1. text' \in Tokens /\ bounds' \in Tokens \cup {Unset} /\ active' = FALSE
      BY <1>4, <2>2, PickTypes DEF enter
    <3>2. QED
      BY <1>1, <1>4, <2>2, <3>1 DEF enter, hide
  <2>3. QED
    BY <2>1, <2>2
<1>5. CASE escape
  BY <1>1, <1>5 DEF escape, hide
<1>6. CASE mark
  <2>1. index' \in Nat /\ index' < entryCount
    BY <1>6 DEF mark, markNext, markPrevious
  <2>2. active' \in BOOLEAN /\ display' \in {"none", "shown", "fading"}
    BY <1>6 DEF mark, render, show, hide
  <2>3. /\ keys' \in 0..MaxKeys
        /\ UNCHANGED <<text, bounds, hasFocus, changed, entryCount, list, observer, hide_timers,
                       indicator, asked, crossed>>
    BY <1>1, <1>6 DEF mark
  <2>4. QED
    BY <2>1, <2>2, <2>3
<1>7. CASE onBlur
  <2>1. /\ keys' \in 0..MaxKeys /\ hide_timers' = 1 /\ hasFocus' = FALSE /\ active' = FALSE
        /\ UNCHANGED <<text, bounds, changed, index, entryCount, list, observer, display,
                       indicator, asked, crossed>>
    BY <1>1, <1>7 DEF onBlur
  <2>2. {hasFocus', changed', active', observer', indicator'} \subseteq BOOLEAN
    BY <2>1, Zenon
  <2>3. hide_timers' \in 0..1
    BY <2>1
  <2>4. QED
    BY <2>1, <2>2, <2>3
<1>8. CASE blur_hide \/ fade_ends
  <2>1. /\ display' \in {"none", "shown", "fading"} /\ hide_timers' \in 0..1
        /\ UNCHANGED <<text, bounds, hasFocus, changed, active, index, entryCount, list, observer,
                       asked, keys, crossed>>
    BY <1>8 DEF blur_hide, fade_ends, hide
  <2>2. indicator' \in BOOLEAN
    BY <1>8 DEF blur_hide, fade_ends
  <2>3. {hasFocus', changed', active', observer', indicator'} \subseteq BOOLEAN
    BY <2>1, <2>2, Zenon
  <2>4. QED
    BY <2>1, <2>3
<1>9. ASSUME NEW i \in 0..entryCount - 1, onClick(i) PROVE AcTypeInv'
  <2>1. i \in Nat /\ i < entryCount /\ list # NoList
    BY <1>9 DEF onClick
  <2>2. text' \in Tokens /\ bounds' \in Tokens \cup {Unset} /\ active' = FALSE
    BY <1>9, <2>1, PickTypes DEF onClick
  <2>3. QED
    BY <1>1, <1>9, <2>1, <2>2 DEF onClick, hide
<1>10. QED
  BY <1>2, <1>3, <1>4, <1>5, <1>6, <1>7, <1>8, <1>9

\* Choices for a token are its entries, the first of them marked.
MenuTypes ==
    /\ text' \in Tokens /\ list' \in Tokens \cup {NoList}
    /\ active' \in BOOLEAN /\ indicator' \in BOOLEAN
    /\ index' \in Nat /\ entryCount' \in Nat /\ (active' => index' < entryCount')
    /\ display' \in {"none", "shown", "fading"}
    /\ list' # NoList => entryCount' = Len(Entries(list'))

LEMMA ChoicesTypes ==
  ASSUME AcTypeInv, NEW token \in Tokens, NEW b,
         updateChoices(token, b) \/ (ignoreChoices /\ indicator' \in BOOLEAN)
  PROVE  MenuTypes
<1>1. CASE updateChoices(token, b)
  <2>1. text' \in Tokens
    BY <1>1, EntriesAreTokens DEF updateChoices, updateElement, Selects, AcTypeInv, AcTypeOK
  <2>2. display' \in {"none", "shown", "fading"} /\ active' \in BOOLEAN
    BY <1>1 DEF updateChoices, show, hide, AcTypeInv, AcTypeOK
  <2>3. QED
    BY <1>1, <2>1, <2>2, EntriesAreTokens DEF updateChoices, MenuTypes
<1>2. CASE ignoreChoices /\ indicator' \in BOOLEAN
  BY <1>2 DEF ignoreChoices, MenuTypes, AcTypeInv, AcTypeOK
<1>3. QED
  BY <1>1, <1>2

CrossedReasons == {"overtaken", "picked", "pasted", "failed", "emptied"}

LEMMA AskingTypes ==
  ASSUME AcTypeInv, UNCHANGED options, NEW focus \in BOOLEAN, NEW b,
         getUpdatedChoices(focus, b),
         hasFocus' = focus, changed' = FALSE, observer' \in BOOLEAN,
         bounds' \in Tokens \cup {Unset}, hide_timers' = hide_timers, keys' \in 0..MaxKeys
  PROVE  AcTypeInv'
<1>0. /\ text \in Tokens /\ asked \in Seq(Tokens) /\ Len(asked) <= MaxAsked
      /\ {hasFocus, changed, active, observer, indicator} \subseteq BOOLEAN
      /\ crossed \subseteq CrossedReasons
  BY DEF AcTypeInv, AcTypeOK, CrossedReasons
<1>1. PICK token \in getToken(b) :
        IF options.Local
        THEN /\ IF focus THEN updateChoices(token, b) ELSE ignoreChoices
             /\ crossed' = (IF Fresh(b) THEN {} ELSE crossed) \cup Picked(token)
             /\ UNCHANGED asked
        ELSE /\ Len(asked) < MaxAsked
             /\ asked' = Append(asked, token)
             /\ indicator' = TRUE
             /\ crossed' = IF asked = <<>> /\ Fresh(b) THEN {} ELSE crossed
             /\ UNCHANGED <<list, entryCount, index, text, active, display>>
  BY DEF getUpdatedChoices
<1>2. token \in Tokens
  BY <1>0, <1>1 DEF getToken
<1>3. MenuTypes
  <2>1. CASE options.Local /\ focus
    BY <1>1, <1>2, <2>1, ChoicesTypes
  <2>2. CASE options.Local /\ ~focus
    <3>1. indicator' \in BOOLEAN
      BY <1>0, <1>1, <2>2 DEF ignoreChoices
    <3>2. QED
      BY <1>1, <1>2, <2>2, <3>1, ChoicesTypes
  <2>3. CASE ~options.Local
    BY <1>1, <2>3 DEF MenuTypes, AcTypeInv, AcTypeOK
  <2>4. QED
    BY <2>1, <2>2, <2>3
<1>4. crossed' \subseteq CrossedReasons
  BY <1>0, <1>1 DEF Picked, CrossedReasons
<1>5. asked' \in Seq(Tokens) /\ Len(asked') <= MaxAsked
  <2>1. CASE options.Local
    BY <1>0, <1>1, <2>1
  <2>2. CASE ~options.Local
    <3>1. asked' = Append(asked, token) /\ Len(asked) < MaxAsked
      BY <1>1, <2>2
    <3>2. asked' \in Seq(Tokens) /\ Len(asked') = Len(asked) + 1 /\ Len(asked) \in Nat
      BY <1>0, <1>2, <3>1
    <3>3. QED
      BY <3>1, <3>2, AutocompleterAssumption
  <2>3. QED
    BY <2>1, <2>2
<1>6. {hasFocus', changed', active', observer', indicator'} \subseteq BOOLEAN
  BY <1>3, Zenon DEF MenuTypes
<1>7. QED
  BY <1>3, <1>4, <1>5, <1>6 DEF AcTypeInv, AcTypeOK, MenuTypes, CrossedReasons

LEMMA AnswerTypes ==
  ASSUME AcTypeInv, UNCHANGED options, NEW i \in 1..Len(asked), onAnswer(i) \/ onFailedAnswer(i)
  PROVE  AcTypeInv'
<1>0. /\ asked \in Seq(Tokens) /\ Len(asked) <= MaxAsked /\ asked[i] \in Tokens
      /\ {hasFocus, changed, active, observer, indicator} \subseteq BOOLEAN
      /\ crossed \subseteq CrossedReasons
  BY DEF AcTypeInv, AcTypeOK, CrossedReasons
<1>1. /\ asked' = RemoveAt(asked, i)
      /\ UNCHANGED <<bounds, hasFocus, changed, observer, hide_timers, keys>>
  BY DEF onAnswer, onFailedAnswer
<1>2. asked' \in Seq(Tokens) /\ Len(asked') <= MaxAsked
  <2>1. asked' \in Seq(Tokens) /\ Len(asked') = Len(asked) - 1 /\ Len(asked) \in Nat
    BY <1>0, <1>1, RemoveAtLast
  <2>2. QED
    BY <1>0, <2>1, AutocompleterAssumption
<1>3. MenuTypes
  <2>1. CASE onAnswer(i)
    <3>1. updateChoices(asked[i], bounds) \/ (ignoreChoices /\ indicator' \in BOOLEAN)
      BY <1>0, <2>1 DEF onAnswer, ignoreChoices
    <3>2. QED
      BY <1>0, <3>1, ChoicesTypes
  <2>2. CASE onFailedAnswer(i)
    BY <2>2 DEF onFailedAnswer, MenuTypes, AcTypeInv, AcTypeOK
  <2>3. QED
    BY <2>1, <2>2
<1>4. crossed' \subseteq CrossedReasons
  BY <1>0 DEF onAnswer, onFailedAnswer, Picked, CrossedReasons
<1>5. {hasFocus', changed', active', observer', indicator'} \subseteq BOOLEAN
  BY <1>0, <1>1, <1>3, Zenon DEF MenuTypes
<1>6. QED
  BY <1>1, <1>2, <1>3, <1>4, <1>5 DEF AcTypeInv, AcTypeOK, MenuTypes, CrossedReasons

LEMMA StepKeepsAcTypes == AcTypeInv /\ [AcNext]_acVars => AcTypeInv'
<1> SUFFICES ASSUME AcTypeInv, [AcNext]_acVars PROVE AcTypeInv'
  OBVIOUS
<1>0. /\ text \in Tokens /\ bounds \in Tokens \cup {Unset} /\ keys \in 0..MaxKeys
      /\ {hasFocus, changed, active, observer, indicator} \subseteq BOOLEAN
      /\ hasFocus \in BOOLEAN /\ observer \in BOOLEAN
      /\ crossed \subseteq CrossedReasons
  BY DEF AcTypeInv, AcTypeOK, CrossedReasons
<1>1. CASE UNCHANGED acVars
  BY <1>1, Zenon DEF acVars, AcTypeInv, AcTypeOK
<1>2. ASSUME onObserverEvent, UNCHANGED options PROVE AcTypeInv'
  <2>1. /\ observer' = FALSE /\ changed' = FALSE /\ UNCHANGED <<hasFocus, hide_timers, keys>>
        /\ bounds' \in Tokens \cup {Unset}
    BY <1>0, <1>2 DEF onObserverEvent
  <2>2. CASE MinChars(text)
    <3>1. getUpdatedChoices(hasFocus, text)
      BY <1>2, <2>2 DEF onObserverEvent
    <3>2. QED
      BY <1>0, <1>2, <2>1, <3>1, AskingTypes
  <2>3. CASE ~MinChars(text)
    <3>1. /\ active' = FALSE /\ indicator' = FALSE /\ display' \in {"none", "shown", "fading"}
          /\ UNCHANGED <<list, entryCount, index, text, asked>>
      BY <1>2, <2>3 DEF onObserverEvent, hide, AcTypeInv, AcTypeOK
    <3>2. crossed' \subseteq CrossedReasons
      BY <1>0, <1>2, <2>3 DEF onObserverEvent, CrossedReasons
    <3>3. {hasFocus', changed', active', observer', indicator'} \subseteq BOOLEAN
      BY <1>0, <2>1, <3>1, Zenon
    <3>4. QED
      BY <1>2, <2>1, <3>1, <3>2, <3>3 DEF AcTypeInv, AcTypeOK, CrossedReasons
  <2>4. QED
    BY <2>2, <2>3
<1>3. ASSUME activate, UNCHANGED options PROVE AcTypeInv'
  <2>1. /\ changed' = FALSE /\ hasFocus' = TRUE /\ UNCHANGED <<observer, hide_timers>>
        /\ getUpdatedChoices(TRUE, bounds) /\ PressKey
    BY <1>3, Zenon DEF activate
  <2>2. bounds' \in Tokens \cup {Unset}
    BY <1>0, <1>3 DEF activate
  <2>3. keys' \in 0..MaxKeys
    BY <1>0, <2>1, AutocompleterAssumption DEF PressKey
  <2>4. QED
    BY <1>0, <1>3, <2>1, <2>2, <2>3, AskingTypes
<1>4. CASE AcNext
  BY <1>2, <1>3, <1>4, KeyTypes, AnswerTypes DEF AcNext
<1>5. QED
  BY <1>1, <1>4

LEMMA AcInvariant == AcSpec => [](AcTypeInv /\ AcInv)
<1>1. AcTypeInv /\ AcInv /\ [AcNext]_acVars => (AcTypeInv /\ AcInv)'
  BY StepKeepsAcTypes, StepKeepsAcInv DEF AcTypeInv, AcTypeOK
<1>2. QED
  BY <1>1, InitAcTypeInv, InitAcInv, PTL DEF AcSpec

(* The autocompleter keeps its types, and an active menu has the entry it    *)
(* has marked, for any texts and any entries offered for them.               *)
THEOREM AutocompleterTypeCorrect == AcSpec => []AcTypeOK
<1>1. AcTypeInv => AcTypeOK
  BY DEF AcTypeInv
<1>2. QED
  BY <1>1, AcInvariant, PTL

(* For any texts, entries, keys and requests under way: a menu that takes    *)
(* keys when all is quiet is about the text in the box, or one of the five   *)
(* things that make it stale has happened since the last clean request.      *)
THEOREM MenuIsForText == AcSpec => []SettledMenuIsForText
<1>1. AcInv => SettledMenuIsForText
  BY DEF AcInv, LastIsForText, SettledMenuIsForText, Settled
<1>2. QED
  BY <1>1, AcInvariant, PTL

-----------------------------------------------------------------------------
(***************************************************************************)
(* Sorted lists.  While an item is dragged its observers remember the      *)
(* sequence last reported; when none is, the reported one is what shows.   *)
(* A change that is not known to be lost is sorted by the active draggable *)
(* alone, and a ghosting drag has its clone, so that its end is not        *)
(* skipped.                                                                *)
(***************************************************************************)
OnLists(f) == f = [l \in Lists |-> f[l]]

Remembers == \A l \in Lists : \E clone \in BOOLEAN : lastValue[l] = serialize(reported[l], clone)

Told == \A l \in Lists : sequence(reported[l]) = sequence(order[l])

NothingLost ==
    /\ dragging = {} => Told
    /\ dragging # {} => Remembers
    /\ dragging \subseteq {activeDraggable}

DragInv ==
    /\ OnLists(order) /\ OnLists(reported) /\ OnLists(lastValue)
    /\ dd.ghosting \in BOOLEAN
    /\ dd.ghosting => dragging \subseteq _clone
    /\ lost = {} => NothingLost

LEMMA InitDragInv == DragInit => DragInv
<1>1. QED
  BY DragAssumption DEF DragInit, DragInv, OnLists, NothingLost, Told, DragOption, SeqOf

LEMMA DroppablesShowLists ==
  ASSUME OnLists(order), NEW point, NEW i, NEW o \in droppables_show(point, i)
  PROVE  OnLists(o)
<1>1. CASE drop(point, i) = Nothing
  BY <1>1 DEF droppables_show
<1>2. CASE drop(point, i) # Nothing /\ drop(point, i) \in Items
  <2>1. o \in onHover(i, drop(point, i))
    BY <1>2 DEF droppables_show
  <2>2. PICK l, s : o = [Without(i) EXCEPT ![l] = s]
    BY <2>1, Zenon DEF onHover
  <2>3. QED
    BY <2>2 DEF OnLists, Without
<1>3. CASE drop(point, i) # Nothing /\ drop(point, i) \notin Items
  <2>1. o \in onEmptyHover(i, drop(point, i))
    BY <1>3 DEF droppables_show
  <2>2. PICK s : o = [Without(i) EXCEPT ![drop(point, i)] = s]
    BY <2>1, Zenon DEF onEmptyHover
  <2>3. QED
    BY <2>2 DEF OnLists, Without
<1>4. QED
  BY <1>1, <1>2, <1>3

\* A draggable becomes active: with another still dragged the change may be lost.
LEMMA ActivatedKeeps ==
  ASSUME DragInv, NEW i, Activated(i), UNCHANGED <<dd, order, observed, dragging, _clone>>
  PROVE  DragInv'
<1>1. /\ UNCHANGED <<dd, order, reported, lastValue, dragging, _clone>> /\ activeDraggable' = i
      /\ lost' = {} => lost = {} /\ dragging = {}
  BY DEF Activated, observed
<1>2. (Told => Told') /\ (Remembers => Remembers')
  BY <1>1 DEF Told, Remembers, sequence, serialize
<1>3. lost' = {} => NothingLost'
  BY <1>1, <1>2 DEF DragInv, NothingLost
<1>4. QED
  BY <1>1, <1>3 DEF DragInv, OnLists

LEMMA UpdateDragKeeps ==
  ASSUME DragInv, NEW point, updateDrag(point)
  PROVE  DragInv'
<1>1. OnLists(order') /\ reported' = reported /\ dd' = dd /\ lost' = lost
      /\ activeDraggable' = activeDraggable
  BY DroppablesShowLists DEF updateDrag, DragInv
<1>2. CASE activeDraggable \in dragging
  BY <1>1, <1>2 DEF updateDrag, DragInv, NothingLost, Told, Remembers, OnLists, sequence, serialize
<1>3. CASE activeDraggable \notin dragging
  <2>1. startDrag(activeDraggable)
    BY <1>3 DEF updateDrag
  <2>2. OnLists(lastValue') /\ OnLists(reported')
    BY <1>1, <2>1 DEF startDrag, onStart, OnLists, DragInv
  <2>3. dd'.ghosting \in BOOLEAN /\ (dd'.ghosting => dragging' \subseteq _clone')
    BY <1>1, <2>1 DEF startDrag, DragInv
  <2>4. ASSUME lost = {} PROVE NothingLost'
    <3>1. dragging = {} /\ Told /\ dragging' = {activeDraggable}
      BY <1>3, <2>1, <2>4 DEF DragInv, NothingLost, startDrag
    <3>2. \A l \in Lists : lastValue'[l] = serialize(order[l], dd.ghosting /\ l = ListOf(activeDraggable))
      BY <2>1 DEF startDrag, onStart
    <3>3. Remembers'
      BY <1>1, <3>1, <3>2 DEF Remembers, Told, sequence, serialize
    <3>4. QED
      BY <1>1, <3>1, <3>3 DEF NothingLost
  <2>5. QED
    BY <1>1, <2>2, <2>3, <2>4 DEF DragInv
<1>4. QED
  BY <1>2, <1>3

\* The end of a drag: the observers tell the page the lists that have changed.
LEMMA FinishDragKeeps ==
  ASSUME DragInv, NEW o, OnLists(o), finishDrag(activeDraggable, o),
         activeDraggable \notin dragging => o = order,
         dd' = dd, lastValue' = lastValue
  PROVE  DragInv'
<1>1. dragging' = dragging \ {activeDraggable} /\ order' = o /\ _clone' = _clone \ {activeDraggable}
  BY DEF finishDrag
<1>2. /\ OnLists(order') /\ OnLists(lastValue') /\ dd'.ghosting \in BOOLEAN
      /\ dd'.ghosting => dragging' \subseteq _clone'
  BY <1>1 DEF DragInv
<1>3. CASE dd.ghosting /\ activeDraggable \notin _clone
  <2>1. /\ activeDraggable \notin dragging /\ o = order /\ dragging' = dragging
        /\ reported' = reported /\ lost' = lost /\ activeDraggable' = activeDraggable
    BY <1>1, <1>3 DEF finishDrag, DragInv
  <2>2. QED
    BY <1>1, <1>2, <2>1 DEF DragInv, NothingLost, Told, Remembers, OnLists, sequence, serialize
<1>4. CASE ~(dd.ghosting /\ activeDraggable \notin _clone)
  <2>1. PICK told \in SUBSET Lists, throws \in BOOLEAN : notify_end(o, told, throws)
    BY <1>4 DEF finishDrag
  <2>2. reported' = [l \in Lists |-> IF l \in told THEN o[l] ELSE reported[l]]
    BY <2>1 DEF notify_end
  <2>3. OnLists(reported')
    BY <2>2 DEF OnLists
  <2>4. ASSUME lost' = {} PROVE NothingLost'
    <3>1. lost = {} /\ told = onEnd(o)
      BY <2>1, <2>4 DEF notify_end
    <3>2. dragging' = {}
      BY <1>1, <3>1 DEF DragInv, NothingLost
    <3>3. ASSUME NEW l \in Lists PROVE sequence(reported'[l]) = sequence(o[l])
      <4>1. CASE l \in told
        BY <2>2, <4>1
      <4>2. CASE l \notin told
        <5>1. reported'[l] = reported[l] /\ lastValue[l] = serialize(o[l], FALSE)
          BY <2>2, <3>1, <4>2 DEF onEnd
        <5>2. CASE dragging = {}
          BY <3>1, <5>1, <5>2 DEF DragInv, NothingLost, Told
        <5>3. CASE dragging # {}
          <6>1. \E clone \in BOOLEAN : lastValue[l] = serialize(reported[l], clone)
            BY <3>1, <5>3 DEF DragInv, NothingLost, Remembers
          <6>2. QED
            BY <5>1, <6>1 DEF serialize
        <5>4. QED
          BY <5>2, <5>3
      <4>3. QED
        BY <4>1, <4>2
    <3>4. Told'
      BY <1>1, <3>3 DEF Told, sequence
    <3>5. QED
      BY <3>2, <3>4 DEF NothingLost
  <2>5. QED
    BY <1>2, <2>3, <2>4 DEF DragInv
<1>5. QED
  BY <1>3, <1>4

\* An onChange that throws at the end of a quiet drag: no observer has anything
\* to tell, or the change is known to be lost.
LEMMA FinishDragThrowsKeeps ==
  ASSUME DragInv, NEW o, OnLists(o), finishDrag_throws(activeDraggable, o),
         dd' = dd, lastValue' = lastValue, activeDraggable \in dragging
  PROVE  DragInv'
<1>1. /\ dragging' = dragging \ {activeDraggable} /\ order' = o
      /\ UNCHANGED <<_clone, reported, activeDraggable>>
      /\ lost' = {} => lost = {} /\ onEnd(o) = {}
  BY DEF finishDrag_throws
<1>2. ASSUME lost' = {} PROVE NothingLost'
  <2>1. dragging' = {} /\ Remembers
    BY <1>1, <1>2 DEF DragInv, NothingLost
  <2>2. \A l \in Lists : lastValue[l] = serialize(o[l], FALSE)
    BY <1>1, <1>2 DEF onEnd
  <2>3. ASSUME NEW l \in Lists PROVE sequence(reported[l]) = sequence(o[l])
    <3>1. \E clone \in BOOLEAN : lastValue[l] = serialize(reported[l], clone)
      BY <2>1 DEF Remembers
    <3>2. lastValue[l] = serialize(o[l], FALSE)
      BY <2>2
    <3>3. QED
      BY <3>1, <3>2 DEF serialize
  <2>4. Told'
    BY <1>1, <2>3 DEF Told, sequence
  <2>5. QED
    BY <2>1, <2>4 DEF NothingLost
<1>3. QED
  BY <1>1, <1>2 DEF DragInv

LEMMA EndDragKeeps ==
  ASSUME DragInv, NEW point, endDrag(point)
  PROVE  DragInv'
<1>1. dd' = dd /\ lastValue' = lastValue
  BY DEF endDrag
<1>2. CASE activeDraggable = Nothing
  BY <1>1, <1>2 DEF endDrag, DragInv, NothingLost, Told, Remembers, OnLists, sequence, serialize
<1>3. CASE activeDraggable # Nothing /\ activeDraggable \in dragging
  <2>1. PICK o \in IF dd.quiet THEN droppables_show(point, activeDraggable) ELSE {order} :
           finishDrag(activeDraggable, o) \/ finishDrag_throws(activeDraggable, o)
    BY <1>3, Zenon DEF endDrag
  <2>2. OnLists(o)
    BY <2>1, DroppablesShowLists DEF DragInv
  <2>3. QED
    BY <1>1, <1>3, <2>1, <2>2, FinishDragKeeps, FinishDragThrowsKeeps
<1>4. CASE activeDraggable # Nothing /\ activeDraggable \notin dragging
  <2>1. activeDraggable' = Nothing
        /\ UNCHANGED <<order, reported, dragging, _clone, lost>>
    BY <1>4 DEF endDrag
  <2>2. lost = {} => dragging = {}
    BY <1>4 DEF DragInv, NothingLost
  <2>3. QED
    BY <1>1, <2>1, <2>2 DEF DragInv, NothingLost, Told, Remembers, OnLists, sequence, serialize
<1>5. QED
  BY <1>2, <1>3, <1>4

LEMMA ScrollKeeps ==
  ASSUME DragInv, NEW i, NEW point, scroll(i, point)
  PROVE  DragInv'
<1>1. /\ OnLists(order') /\ dd' = dd /\ reported' = reported /\ lastValue' = lastValue
      /\ activeDraggable' = activeDraggable /\ dragging' = dragging /\ _clone' = _clone
  BY DroppablesShowLists DEF scroll, observed, DragInv
<1>2. lost' = {} => lost = {} /\ (order' = order \/ i \in dragging)
  BY DEF scroll
<1>3. QED
  BY <1>1, <1>2 DEF DragInv, NothingLost, Told, Remembers, OnLists, sequence, serialize

\* The page makes a list anew or sets it while nothing is dragged.
LEMMA PageKeeps ==
  ASSUME DragInv, NEW l \in Lists, create(l) \/ setSequence(l)
  PROVE  DragInv'
<1>1. /\ dragging = {} /\ dragging' = {} /\ dd' = dd /\ lost' = lost
      /\ reported' = [reported EXCEPT ![l] = order'[l]]
      /\ order' = order \/ order' = [order EXCEPT ![l] = Reverse(order[l])]
      /\ lastValue' = lastValue \/ lastValue' = [lastValue EXCEPT ![l] = serialize(order[l], FALSE)]
  BY DEF create, setSequence
<1>2. OnLists(order') /\ OnLists(reported') /\ OnLists(lastValue')
  BY <1>1 DEF DragInv, OnLists
<1>3. ASSUME lost = {} PROVE Told'
  <2>1. Told
    BY <1>1, <1>3 DEF DragInv, NothingLost
  <2>2. \A k \in Lists : reported'[k] = order'[k] \/ (reported'[k] = reported[k] /\ order'[k] = order[k])
    BY <1>1 DEF DragInv, OnLists
  <2>3. QED
    BY <1>1, <2>1, <2>2 DEF Told, sequence
<1>4. QED
  BY <1>1, <1>2, <1>3 DEF DragInv, NothingLost

LEMMA StepKeepsDragInv == DragInv /\ [DragNext]_dragVars => DragInv'
<1> SUFFICES ASSUME DragInv, [DragNext]_dragVars PROVE DragInv'
  OBVIOUS
<1>1. ASSUME NEW i \in Items, initDrag(i) PROVE DragInv'
  <2>1. CASE dd.delay
    BY <1>1, <2>1 DEF initDrag, draggables_activate, observed, DragInv, NothingLost, Told, Remembers, OnLists, sequence, serialize
  <2>2. CASE ~dd.delay
    BY <1>1, <2>2, ActivatedKeeps DEF initDrag, draggables_activate
  <2>3. QED
    BY <2>1, <2>2
<1>2. ASSUME NEW i \in Items, delay_over(i) PROVE DragInv'
  BY <1>2, ActivatedKeeps DEF delay_over
<1>3. ASSUME NEW p \in Points, updateDrag(p) \/ endDrag(p) \/ \E i \in Items : scroll(i, p)
      PROVE  DragInv'
  BY <1>3, UpdateDragKeeps, EndDragKeeps, ScrollKeeps
<1>4. CASE keyPress
  BY <1>4, FinishDragKeeps DEF keyPress, DragInv
<1>5. CASE end_effect
  BY <1>5 DEF end_effect, observed, DragInv, NothingLost, Told, Remembers, OnLists, sequence, serialize
<1>6. ASSUME NEW l \in Lists, create(l) \/ setSequence(l) PROVE DragInv'
  BY <1>6, PageKeeps
<1>7. CASE UNCHANGED dragVars
  BY <1>7 DEF dragVars, observed, DragInv, NothingLost, Told, Remembers, OnLists, sequence, serialize
<1>8. QED
  BY <1>1, <1>2, <1>3, <1>4, <1>5, <1>6, <1>7 DEF DragNext

(* For any lists and items: when no item is dragged the page knows the       *)
(* sequence every list shows, or the change was lost in one of the four ways. *)
THEOREM SortedListsAreReported == DragSpec => []SettledOrderIsReported
<1>1. DragInv => SettledOrderIsReported
  BY DEF DragInv, NothingLost, Told, SettledOrderIsReported
<1>2. QED
  BY <1>1, InitDragInv, StepKeepsDragInv, PTL DEF DragSpec

-----------------------------------------------------------------------------
(***************************************************************************)
(* The queues of effects, for any effects, durations and times.  An effect *)
(* queued at the end waits because those before it stand before it in the  *)
(* queue and end before it starts (Awaits), and because an effect that a   *)
(* pass has looked at and left in the queue is not over (PassInOrder).     *)
(***************************************************************************)

QueueSound ==
    /\ ef \in [Effects -> EffectRecord] /\ \A e \in Effects : ef[e].startOn <= ef[e].finishOn
    /\ queue \in Seq(Effects) /\ IsInjective(queue)
    /\ \A n \in DOMAIN queue : ef[queue[n]].state \in {"idle", "running"}
    /\ interval \in BOOLEAN /\ clock \in 1..MaxClock
    /\ before \in [Effects -> SUBSET Effects]
    /\ pass \in PassRecord /\ (pass.on => pass.i # 0)

\* f stands before e, and ends before e is to start.
Ahead(f, e) ==
    /\ \E m, n \in DOMAIN queue : m < n /\ queue[m] = f /\ queue[n] = e
    /\ ef[f].finishOn <= ef[e].startOn

Awaits ==
    \A e \in Effects : ef[e].state = "idle" /\ ef[e].position = "end" /\ (\E n \in DOMAIN queue : queue[n] = e) =>
        \A f \in before[e] : ef[f].state = "finished" \/ Ahead(f, e)

PassInOrder ==
    /\ \A f \in pass.seen : ef[f].state # "new"
    /\ \A n \in DOMAIN queue : queue[n] \in pass.seen => pass.timePos < ef[queue[n]].finishOn

QueueInv == QueueSound /\ Awaits /\ PassInOrder

\* What RemoveFirst makes of a queue.
LEMMA RemoveFirstFacts ==
    ASSUME NEW s \in Seq(Effects), IsInjective(s), NEW n \in DOMAIN s
    PROVE  /\ RemoveFirst(s, s[n]) \in Seq(Effects) /\ Len(RemoveFirst(s, s[n])) = Len(s) - 1
           /\ \A k \in 1..Len(s) - 1 : RemoveFirst(s, s[n])[k] = IF k < n THEN s[k] ELSE s[k + 1]
<1> DEFINE front == SubSeq(s, 1, n - 1)
           back == SubSeq(s, n + 1, Len(s))
<1>0. Len(s) \in Nat /\ DOMAIN s = 1..Len(s) /\ n \in 1..Len(s)
  BY LenProperties
<1>1. \A k \in 1..Len(s) : s[k] = s[n] <=> k = n
  BY <1>0 DEF IsInjective
<1>2. RemoveFirst(s, s[n]) = front \o back
  <2>1. SelectInSeq(s, LAMBDA x : x = s[n]) = n
    <3>1. {k \in 1..Len(s) : s[k] = s[n]} = {n}
      BY <1>0, <1>1
    <3>2. Min({n}) = n
      BY <1>0 DEF Min
    <3> QED
      BY <3>1, <3>2 DEF SelectInSeq
  <2>2. QED
    BY <1>0, <2>1 DEF RemoveFirst, RemoveAt
<1>3. /\ front \in Seq(Effects) /\ Len(front) = n - 1 /\ \A k \in 1..n - 1 : front[k] = s[k]
  BY <1>0, SubSeqProperties
<1>4. /\ back \in Seq(Effects) /\ Len(back) = Len(s) - n /\ \A k \in 1..Len(s) - n : back[k] = s[n + k]
  BY <1>0, SubSeqProperties
<1> HIDE DEF front, back
<1>5. front \o back \in Seq(Effects) /\ Len(front \o back) = Len(front) + Len(back)
  BY <1>3, <1>4, ConcatProperties
<1>6. Len(front \o back) = Len(s) - 1
  BY <1>0, <1>3, <1>4, <1>5
<1>7. ASSUME NEW k \in 1..Len(s) - 1
      PROVE  (front \o back)[k] = IF k < n THEN s[k] ELSE s[k + 1]
  <2>1. k \in 1..Len(front) + Len(back)
    BY <1>0, <1>3, <1>4
  <2>2. (front \o back)[k] = IF k <= Len(front) THEN front[k] ELSE back[k - Len(front)]
    BY <1>3, <1>4, <2>1, ConcatProperties
  <2>3. CASE k < n
    <3>1. k <= Len(front) /\ k \in 1..n - 1
      BY <1>0, <1>3, <2>3
    <3> QED
      BY <1>3, <2>2, <2>3, <3>1
  <2>4. CASE ~(k < n)
    <3>1. ~(k <= Len(front)) /\ k - Len(front) \in 1..Len(s) - n /\ n + (k - Len(front)) = k + 1
      BY <1>0, <1>3, <2>4
    <3> QED
      BY <1>4, <2>2, <2>4, <3>1
  <2> QED
    BY <2>3, <2>4
<1> QED
  BY <1>2, <1>5, <1>6, <1>7

LEMMA GreatestUpTo ==
    ASSUME NEW M \in Nat, NEW S \in SUBSET (0..M), S # {}
    PROVE  Max(S) \in S /\ \A x \in S : x <= Max(S)
<1> DEFINE T == {M - x : x \in S}
<1>0. \A x \in S : x \in 0..M /\ M - x \in Nat
  OBVIOUS
<1>1. T \in SUBSET Nat /\ T # {}
  BY <1>0
<1>2. PICK t \in T : \A y \in T : ~(<<y, t>> \in OpToRel(<, Nat))
  BY <1>1, NatLessThanWellFounded, WFMin
<1>3. PICK m \in S : t = M - m
  OBVIOUS
<1>4. ASSUME NEW x \in S PROVE x <= m
  <2>1. M - x \in T /\ M - x \in Nat /\ t \in Nat
    OBVIOUS
  <2>2. ~(<<M - x, t>> \in OpToRel(<, Nat))
    BY <1>2, <2>1
  <2>3. ~(M - x < t)
    BY <2>1, <2>2 DEF OpToRel
  <2> QED
    BY <1>3, <2>1, <2>3
<1> QED
  BY <1>4 DEF Max

LEMMA QueueFacts ==
    ASSUME QueueSound
    PROVE  /\ Len(queue) \in Nat /\ DOMAIN queue = 1..Len(queue)
           /\ \A n \in DOMAIN queue : queue[n] \in Effects /\ queue[n] \in Queued
           /\ \A e \in Queued : \E n \in DOMAIN queue : queue[n] = e
<1>1. queue \in Seq(Effects)
  BY DEF QueueSound
<1>2. Len(queue) \in Nat /\ DOMAIN queue = 1..Len(queue) /\ \A n \in DOMAIN queue : queue[n] \in Effects
  BY <1>1, LenProperties
<1> QED
  BY <1>2 DEF Queued, ToSet

\* The time from which the times of an added effect are counted; with "end" the effect is to
\* start when all that are queued are over.
LEMMA TimestampFacts ==
    ASSUME QueueSound, NEW position \in Positions
    PROVE  /\ timestamp(position) \in Nat
           /\ position = "end" => \A n \in DOMAIN queue : ef[queue[n]].finishOn <= timestamp(position)
<1>1. /\ Len(queue) \in Nat /\ DOMAIN queue = 1..Len(queue)
      /\ \A n \in DOMAIN queue : queue[n] \in Effects /\ queue[n] \in Queued
      /\ \A e \in Queued : \E n \in DOMAIN queue : queue[n] = e
  BY QueueFacts
<1>2. MaxClock \in Nat /\ clock \in 1..MaxClock /\ clock \in Nat
  BY EffectAssumption DEF QueueSound
<1>3. \A e \in Queued : ef[e].startOn \in 0..MaxClock /\ ef[e].finishOn \in 0..MaxClock
  BY <1>1 DEF QueueSound, EffectRecord
<1>4. CASE queue = <<>>
  <2>1. DOMAIN queue = {}
    BY <1>4
  <2> QED
    BY <1>2, <1>4, <2>1 DEF timestamp
<1>5. CASE queue # <<>>
  <2>0. queue \in Seq(Effects)
    BY DEF QueueSound
  <2>1. 1 \in DOMAIN queue
    BY <1>1, <1>5, <2>0, EmptySeq
  <2>2. queue[1] \in Queued
    BY <1>1, <2>1
  <2> DEFINE starts == {ef[e].startOn : e \in Queued}
             ends == {ef[e].finishOn : e \in Queued}
  <2>3. Max(starts) \in starts /\ starts \in SUBSET (0..MaxClock)
    BY <1>2, <1>3, <2>2, GreatestUpTo
  <2>4. Max(ends) \in ends /\ (\A x \in ends : x <= Max(ends)) /\ ends \in SUBSET (0..MaxClock)
    BY <1>2, <1>3, <2>2, GreatestUpTo
  <2>5. Max(starts) \in Nat /\ Max(ends) \in Nat
    BY <2>3, <2>4
  <2>6. \A n \in DOMAIN queue : ef[queue[n]].finishOn <= Max(ends)
    BY <1>1, <2>4
  <2>7. timestamp("end") = Max(ends) /\ timestamp("with-last") = Max(starts)
    BY <1>5 DEF timestamp
  <2>8. position \notin {"end", "with-last"} => timestamp(position) = clock
    BY <1>5 DEF timestamp
  <2> HIDE DEF starts, ends
  <2> QED
    BY <1>2, <2>5, <2>6, <2>7, <2>8
<1> QED
  BY <1>4, <1>5

LEMMA InitQueueInv == EffectInit => QueueInv
<1> SUFFICES ASSUME EffectInit PROVE QueueInv
  OBVIOUS
<1>0. MaxClock \in Nat \ {0}
  BY EffectAssumption
<1>1. queue = <<>> /\ queue \in Seq(Effects) /\ DOMAIN queue = {} /\ IsInjective(queue)
  BY DEF EffectInit, IsInjective
<1>2. Effect("new") \in EffectRecord /\ Effect("new").startOn = 0 /\ Effect("new").finishOn = 0
  BY <1>0 DEF Effect, EffectRecord, Positions
<1>3. ef \in [Effects -> EffectRecord] /\ \A e \in Effects : ef[e].startOn <= ef[e].finishOn
  BY <1>2 DEF EffectInit
<1>4. pass \in PassRecord /\ ~pass.on /\ pass.seen = {}
  BY <1>0 DEF EffectInit, NoPass, PassRecord
<1>5. QueueSound
  <2>1. before \in [Effects -> SUBSET Effects] /\ clock \in 1..MaxClock /\ interval = FALSE
    BY <1>0 DEF EffectInit
  <2> QED
    BY <1>1, <1>3, <1>4, <2>1 DEF QueueSound
<1> QED
  BY <1>1, <1>4, <1>5 DEF QueueInv, Awaits, PassInOrder

\* An effect leaves the queue.
LEMMA RemoveKeeps ==
    ASSUME QueueSound, Awaits, NEW n \in DOMAIN queue, remove(queue[n]), before' = before,
           NEW over \in EffectRecord, over.state = "finished", over.startOn <= over.finishOn,
           ef' = [ef EXCEPT ![queue[n]] = over]
    PROVE  /\ ef' \in [Effects -> EffectRecord] /\ \A e \in Effects : ef'[e].startOn <= ef'[e].finishOn
           /\ queue' \in Seq(Effects) /\ IsInjective(queue') /\ interval' \in BOOLEAN
           /\ \A k \in DOMAIN queue' : ef'[queue'[k]].state \in {"idle", "running"}
           /\ \A k \in DOMAIN queue' : ef'[queue'[k]] = ef[queue'[k]]
           /\ \A k \in DOMAIN queue' : \E j \in DOMAIN queue : queue'[k] = queue[j]
           /\ Awaits'
<1>0. /\ Len(queue) \in Nat /\ DOMAIN queue = 1..Len(queue) /\ n \in 1..Len(queue)
      /\ \A k \in DOMAIN queue : queue[k] \in Effects
      /\ queue \in Seq(Effects) /\ IsInjective(queue)
  BY QueueFacts DEF QueueSound
<1>1. /\ queue' \in Seq(Effects) /\ Len(queue') = Len(queue) - 1
      /\ \A k \in 1..Len(queue) - 1 : queue'[k] = IF k < n THEN queue[k] ELSE queue[k + 1]
  BY <1>0, RemoveFirstFacts DEF remove
<1>2. DOMAIN queue' = 1..Len(queue) - 1
  BY <1>1, LenProperties
<1>4. /\ ef \in [Effects -> EffectRecord] /\ ef'[queue[n]] = over
      /\ ef' \in [Effects -> EffectRecord] /\ \A e \in Effects : e # queue[n] => ef'[e] = ef[e]
  BY <1>0 DEF QueueSound
<1>5. \A e \in Effects : ef'[e].startOn <= ef'[e].finishOn
  BY <1>4 DEF QueueSound
\* Where an effect of the new queue stood before.
<1> DEFINE Was(k) == IF k < n THEN k ELSE k + 1
<1>6. \A k \in DOMAIN queue' : Was(k) \in DOMAIN queue /\ Was(k) # n /\ queue'[k] = queue[Was(k)]
  BY <1>0, <1>1, <1>2
<1>7. \A j, k \in DOMAIN queue' : Was(j) = Was(k) => j = k
  BY <1>0, <1>2
<1>8. \A k \in DOMAIN queue : k # n => \E j \in DOMAIN queue' : Was(j) = k
  <2>1. ASSUME NEW k \in DOMAIN queue, k < n PROVE k \in DOMAIN queue' /\ Was(k) = k
    BY <1>0, <1>2, <2>1
  <2>2. ASSUME NEW k \in DOMAIN queue, k > n PROVE k - 1 \in DOMAIN queue' /\ Was(k - 1) = k
    BY <1>0, <1>2, <2>2
  <2> QED
    BY <1>0, <2>1, <2>2
<1>9. \A j, k \in DOMAIN queue' : Was(j) < Was(k) => j < k
  BY <1>0, <1>2
<1> HIDE DEF Was
<1>10. IsInjective(queue')
  BY <1>0, <1>6, <1>7 DEF IsInjective
<1>11. \A k \in DOMAIN queue' : queue'[k] # queue[n] /\ queue'[k] \in Effects
  BY <1>0, <1>6 DEF IsInjective
<1>12. \A k \in DOMAIN queue' : ef'[queue'[k]].state \in {"idle", "running"}
  BY <1>4, <1>6, <1>11 DEF QueueSound
<1>13. Awaits'
  <2> SUFFICES ASSUME NEW e \in Effects, ef'[e].state = "idle", ef'[e].position = "end",
                      NEW x \in DOMAIN queue', queue'[x] = e, NEW f \in before[e]
               PROVE  ef'[f].state = "finished" \/ Ahead(f, e)'
    BY DEF Awaits
  <2>1. e # queue[n] /\ ef'[e] = ef[e] /\ queue[Was(x)] = e /\ Was(x) \in DOMAIN queue
    BY <1>4, <1>6, <1>11
  <2>2. f \in Effects
    BY DEF QueueSound
  <2>3. ef[f].state = "finished" \/ Ahead(f, e)
    BY <2>1 DEF Awaits
  <2>4. CASE f = queue[n]
    BY <1>4, <2>4
  <2>5. CASE f # queue[n] /\ ef[f].state = "finished"
    BY <1>4, <2>2, <2>5
  <2>6. CASE f # queue[n] /\ Ahead(f, e)
    <3>1. PICK j, k \in DOMAIN queue : j < k /\ queue[j] = f /\ queue[k] = e
      BY <2>6 DEF Ahead
    <3>2. j # n /\ k # n
      BY <2>1, <2>6, <3>1
    <3>3. PICK j1, k1 \in DOMAIN queue' : Was(j1) = j /\ Was(k1) = k
      BY <1>8, <3>1, <3>2
    <3>4. j1 < k1 /\ queue'[j1] = f /\ queue'[k1] = e
      BY <1>6, <1>9, <3>1, <3>3
    <3>5. ef'[f].finishOn <= ef'[e].startOn
      BY <1>4, <2>1, <2>2, <2>6 DEF Ahead
    <3> QED
      BY <3>4, <3>5 DEF Ahead
  <2> QED
    BY <2>3, <2>4, <2>5, <2>6
<1>14. interval' \in BOOLEAN
  BY DEF remove, QueueSound
<1> QED
  BY <1>1, <1>4, <1>5, <1>6, <1>10, <1>11, <1>12, <1>13, <1>14

\* What an effect is when it is over.
LEMMA FinishedFacts ==
    ASSUME NEW bad \in BOOLEAN
    PROVE  LET over == [Effect("finished") EXCEPT !.bad = bad]
           IN  /\ over \in EffectRecord /\ over.state = "finished"
               /\ over.startOn = 0 /\ over.finishOn = 0
<1> QED
  BY EffectAssumption DEF Effect, EffectRecord, Positions

\* A step that removes an effect leaves what the pass has seen as it was.
LEMMA RemoveKeepsPass ==
    ASSUME QueueInv, pass'.seen = pass.seen, pass'.timePos = pass.timePos, NEW d,
           NEW over, over.state = "finished", ef' = [ef EXCEPT ![d] = over],
           \A k \in DOMAIN queue' : ef'[queue'[k]] = ef[queue'[k]],
           \A k \in DOMAIN queue' : \E j \in DOMAIN queue : queue'[k] = queue[j]
    PROVE  PassInOrder'
<1>1. pass.seen \subseteq Effects /\ ef \in [Effects -> EffectRecord]
  BY DEF QueueInv, QueueSound, PassRecord
<1>2. \A f \in pass.seen : ef'[f].state # "new"
  <2> SUFFICES ASSUME NEW f \in pass.seen PROVE ef'[f].state # "new"
    OBVIOUS
  <2>1. CASE f = d
    BY <1>1, <2>1
  <2>2. CASE f # d
    BY <1>1, <2>2 DEF QueueInv, PassInOrder
  <2> QED
    BY <2>1, <2>2
<1>3. ASSUME NEW k \in DOMAIN queue', queue'[k] \in pass.seen
      PROVE  pass.timePos < ef'[queue'[k]].finishOn
  <2>1. PICK j \in DOMAIN queue : queue'[k] = queue[j]
    OBVIOUS
  <2>2. pass.timePos < ef[queue[j]].finishOn
    BY <1>3, <2>1 DEF QueueInv, PassInOrder
  <2> QED
    BY <2>1, <2>2
<1> QED
  BY <1>2, <1>3 DEF PassInOrder

LEMMA StartKeepsQueueInv ==
    ASSUME QueueInv, NEW e \in Effects, NEW position \in Positions, NEW delay \in Nat, NEW duration \in Nat,
           NEW limit, NEW bad \in BOOLEAN, start_effect(e, position, delay, duration, limit, bad)
    PROVE  QueueInv'
<1> DEFINE at == timestamp(position) + delay
           off == delay + duration
           new == [state |-> "idle", position |-> position, bad |-> bad,
                   startOn |-> at, finishOn |-> at + duration]
           put == Put_off(position, off)
<1>1. /\ PageRuns /\ ef[e].state = "new"
      /\ ef' = [put EXCEPT ![e] = new]
      /\ \A f \in Effects : ef'[f].finishOn <= MaxClock
      /\ queue' = Append(queue, e) \/ queue' = queue
      /\ interval' = TRUE
      /\ before' = [before EXCEPT ![e] = IF position = "end" THEN Queued ELSE {}]
      /\ UNCHANGED <<clock, pass>>
  BY DEF start_effect, add
<1>2. QueueSound /\ Awaits
  BY DEF QueueInv
<1>3. /\ Len(queue) \in Nat /\ DOMAIN queue = 1..Len(queue) /\ queue \in Seq(Effects) /\ IsInjective(queue)
      /\ \A n \in DOMAIN queue : queue[n] \in Effects /\ queue[n] \in Queued
      /\ \A f \in Queued : \E n \in DOMAIN queue : queue[n] = f
  BY <1>2, QueueFacts DEF QueueSound
<1>4. /\ at \in Nat /\ off \in Nat /\ MaxClock \in Nat
      /\ position = "end" => \A n \in DOMAIN queue : ef[queue[n]].finishOn <= at
  <2>1. /\ timestamp(position) \in Nat
        /\ position = "end" => \A n \in DOMAIN queue : ef[queue[n]].finishOn <= timestamp(position)
    BY <1>2, TimestampFacts
  <2>2. \A n \in DOMAIN queue : ef[queue[n]].finishOn \in Nat
    BY <1>2, <1>3 DEF QueueSound, EffectRecord
  <2>3. timestamp(position) <= at /\ at \in Nat /\ off \in Nat /\ MaxClock \in Nat
    BY <2>1, EffectAssumption
  <2> HIDE DEF at
  <2> QED
    BY <2>1, <2>2, <2>3
<1> HIDE DEF at, off
<1>5. \A n \in DOMAIN queue : queue[n] # e /\ ef[queue[n]].state \in {"idle", "running"}
  BY <1>1, <1>2 DEF QueueSound
<1>6. \A f \in Effects : /\ ef[f] \in EffectRecord /\ ef[f].startOn \in Nat /\ ef[f].finishOn \in Nat
                         /\ ef[f].startOn <= ef[f].finishOn
  BY <1>2 DEF QueueSound, EffectRecord
\* All effects but e keep what they are; the ones put off keep the time between start and end.
<1>7. ASSUME NEW f \in Effects, f # e
      PROVE  /\ ef'[f] = put[f]
             /\ ef'[f] \in EffectRecord /\ ef'[f].startOn <= ef'[f].finishOn
             /\ ef'[f].state = ef[f].state /\ ef'[f].position = ef[f].position
             /\ IF position = "front" /\ f \in Queued /\ ef[f].state = "idle"
                THEN ef'[f].startOn = ef[f].startOn + off /\ ef'[f].finishOn = ef[f].finishOn + off
                ELSE ef'[f] = ef[f]
  <2>1. ef'[f] = put[f]
    BY <1>1, <1>7
  <2>2. CASE position = "front" /\ f \in Queued /\ ef[f].state = "idle"
    <3> DEFINE g == [ef[f] EXCEPT !.startOn = ef[f].startOn + off, !.finishOn = ef[f].finishOn + off]
    <3>1. ef'[f] = g
      BY <2>1, <2>2 DEF Put_off
    <3>2. /\ g.startOn = ef[f].startOn + off /\ g.finishOn = ef[f].finishOn + off
          /\ g.state = ef[f].state /\ g.position = ef[f].position
      BY <1>6 DEF EffectRecord
    <3>3. g.finishOn <= MaxClock
      BY <1>1, <3>1
    <3>4. g.finishOn \in 0..MaxClock /\ g.startOn \in 0..MaxClock /\ g.startOn <= g.finishOn
      BY <1>4, <1>6, <3>2, <3>3
    <3>5. g \in EffectRecord
      BY <1>6, <3>2, <3>4 DEF EffectRecord
    <3> HIDE DEF g
    <3> QED
      BY <2>1, <2>2, <3>1, <3>2, <3>4, <3>5
  <2>3. CASE ~(position = "front" /\ f \in Queued /\ ef[f].state = "idle")
    <3>1. ef'[f] = ef[f]
      BY <2>1, <2>3 DEF Put_off
    <3> QED
      BY <1>6, <2>1, <2>3, <3>1
  <2> QED
    BY <2>2, <2>3
<1>8. DOMAIN put = Effects
  BY DEF Put_off
<1> HIDE DEF put
<1>9. ef'[e] = new /\ DOMAIN ef' = Effects /\ ef' = [f \in Effects |-> ef'[f]]
  BY <1>1, <1>8
<1>10. ef'[e] \in EffectRecord /\ ef'[e].startOn <= ef'[e].finishOn
  <2>1. new.finishOn <= MaxClock
    BY <1>1, <1>9
  <2>2. at \in 0..MaxClock /\ at + duration \in 0..MaxClock /\ at <= at + duration
    BY <1>4, <2>1
  <2> QED
    BY <1>9, <2>2 DEF EffectRecord
<1>11. ef' \in [Effects -> EffectRecord] /\ \A f \in Effects : ef'[f].startOn <= ef'[f].finishOn
  BY <1>7, <1>9, <1>10
<1>12. /\ queue' \in Seq(Effects) /\ DOMAIN queue \subseteq DOMAIN queue'
       /\ \A n \in DOMAIN queue : queue'[n] = queue[n]
       /\ \A n \in DOMAIN queue' \ DOMAIN queue : n = Len(queue) + 1 /\ queue'[n] = e
  <2>1. CASE queue' = queue
    BY <1>3, <2>1
  <2>2. CASE queue' = Append(queue, e)
    BY <1>3, <2>2, AppendProperties
  <2> QED
    BY <1>1, <2>1, <2>2
<1>13. IsInjective(queue')
  <2> SUFFICES ASSUME NEW j \in DOMAIN queue', NEW k \in DOMAIN queue', queue'[j] = queue'[k]
               PROVE  j = k
    BY DEF IsInjective
  <2>1. CASE j \in DOMAIN queue /\ k \in DOMAIN queue
    BY <1>3, <1>12, <2>1 DEF IsInjective
  <2>2. CASE j \notin DOMAIN queue \/ k \notin DOMAIN queue
    BY <1>5, <1>12, <2>2
  <2> QED
    BY <2>1, <2>2
<1>14. \A n \in DOMAIN queue' : ef'[queue'[n]].state \in {"idle", "running"}
  <2>1. ASSUME NEW n \in DOMAIN queue PROVE ef'[queue'[n]].state \in {"idle", "running"}
    BY <1>3, <1>5, <1>7, <1>12
  <2>2. new.state = "idle"
    OBVIOUS
  <2> QED
    BY <1>9, <1>12, <2>1, <2>2
<1>15. Queued \subseteq Effects
  BY <1>3
<1>16. before' \in [Effects -> SUBSET Effects]
  BY <1>1, <1>2, <1>15 DEF QueueSound
<1>17. PassInOrder'
  <2>1. \A f \in pass.seen : f # e /\ f \in Effects /\ ef'[f].state = ef[f].state
    BY <1>1, <1>2, <1>7 DEF QueueInv, PassInOrder, QueueSound, PassRecord
  <2>2. \A f \in pass.seen : ef'[f].state # "new"
    BY <2>1 DEF QueueInv, PassInOrder
  <2>3. ASSUME NEW n \in DOMAIN queue', queue'[n] \in pass.seen
        PROVE  pass.timePos < ef'[queue'[n]].finishOn
    <3> DEFINE f == queue'[n]
    <3>1. f # e /\ f \in Effects /\ n \in DOMAIN queue /\ queue[n] = f
      BY <1>12, <2>1, <2>3
    <3>2. pass.timePos < ef[f].finishOn
      BY <2>3, <3>1 DEF QueueInv, PassInOrder
    <3>3. IF position = "front" /\ f \in Queued /\ ef[f].state = "idle"
          THEN ef'[f].finishOn = ef[f].finishOn + off ELSE ef'[f] = ef[f]
      BY <1>7, <3>1
    <3>4. ef[f].finishOn \in Nat /\ pass.timePos \in Nat
      BY <1>2, <1>4, <1>6, <3>1 DEF QueueSound, PassRecord
    <3> HIDE DEF f
    <3>5. ef'[f].finishOn = ef[f].finishOn + off \/ ef'[f].finishOn = ef[f].finishOn
      <4>1. CASE position = "front" /\ f \in Queued /\ ef[f].state = "idle"
        BY <3>3, <4>1
      <4>2. CASE ~(position = "front" /\ f \in Queued /\ ef[f].state = "idle")
        <5>1. ef'[f] = ef[f]
          BY <3>3, <4>2
        <5> QED
          BY <5>1
      <4> QED
        BY <4>1, <4>2
    <3>6. pass.timePos < ef'[f].finishOn
      BY <1>4, <3>2, <3>4, <3>5
    <3> QED
      BY <3>6 DEF f
  <2> QED
    BY <1>1, <2>2, <2>3 DEF PassInOrder
<1>18. clock' \in 1..MaxClock /\ interval' \in BOOLEAN /\ pass' \in PassRecord /\ (pass'.on => pass'.i # 0)
  BY <1>1, <1>2 DEF QueueSound
<1>19. QueueSound'
  BY <1>11, <1>12, <1>13, <1>14, <1>16, <1>18 DEF QueueSound
<1>20. Awaits'
  <2> SUFFICES ASSUME NEW d \in Effects, ef'[d].state = "idle", ef'[d].position = "end",
                      NEW x \in DOMAIN queue', queue'[x] = d, NEW f \in before'[d]
               PROVE  ef'[f].state = "finished" \/ Ahead(f, d)'
    BY DEF Awaits
  <2>1. CASE d = e
    <3>1. position = "end" /\ f \in Queued
      BY <1>1, <1>2, <1>9, <2>1 DEF QueueSound
    <3>2. PICK n \in DOMAIN queue : queue[n] = f
      BY <1>3, <3>1
    <3>3. x \notin DOMAIN queue /\ x = Len(queue) + 1
      BY <1>5, <1>12, <2>1
    <3>4. n \in DOMAIN queue' /\ n < x /\ queue'[n] = f
      BY <1>3, <1>12, <3>2, <3>3
    <3>5. f # e /\ f \in Effects /\ ef'[f] = ef[f]
      BY <1>3, <1>5, <1>7, <3>1, <3>2
    <3>6. ef'[f].finishOn <= ef'[d].startOn
      BY <1>4, <1>9, <2>1, <3>1, <3>2, <3>5
    <3> QED
      BY <3>4, <3>6 DEF Ahead
  <2>2. CASE d # e
    <3>1. x \in DOMAIN queue /\ queue[x] = d
      BY <1>12, <2>2
    <3>2. ef[d].state = "idle" /\ ef[d].position = "end" /\ f \in before[d] /\ f \in Effects
      BY <1>1, <1>2, <1>7, <2>2 DEF QueueSound
    <3>3. ef[f].state = "finished" \/ Ahead(f, d)
      BY <1>2, <3>1, <3>2 DEF Awaits
    <3>4. CASE ef[f].state = "finished"
      BY <1>1, <1>7, <3>2, <3>4
    <3>5. CASE Ahead(f, d)
      <4>1. PICK j, k \in DOMAIN queue : j < k /\ queue[j] = f /\ queue[k] = d
        BY <3>5 DEF Ahead
      <4>2. f # e /\ f \in Queued /\ d \in Queued
        BY <1>3, <1>5, <4>1
      <4>3. j \in DOMAIN queue' /\ k \in DOMAIN queue' /\ queue'[j] = f /\ queue'[k] = d
        BY <1>12, <4>1
      <4>4. ef[f].finishOn <= ef[d].startOn
        BY <3>5 DEF Ahead
      <4>5. \/ ef'[f].finishOn = ef[f].finishOn
            \/ ef'[f].finishOn = ef[f].finishOn + off /\ position = "front"
        <5>1. IF position = "front" /\ f \in Queued /\ ef[f].state = "idle"
              THEN ef'[f].finishOn = ef[f].finishOn + off ELSE ef'[f] = ef[f]
          BY <1>7, <3>2, <4>2
        <5>2. CASE position = "front" /\ f \in Queued /\ ef[f].state = "idle"
          BY <5>1, <5>2
        <5>3. CASE ~(position = "front" /\ f \in Queued /\ ef[f].state = "idle")
          <6>1. ef'[f] = ef[f]
            BY <5>1, <5>3
          <6> QED
            BY <6>1
        <5> QED
          BY <5>2, <5>3
      <4>6. ef'[d].startOn = IF position = "front" THEN ef[d].startOn + off ELSE ef[d].startOn
        BY <1>7, <2>2, <3>2, <4>2
      <4>7. ef'[f].finishOn <= ef'[d].startOn
        BY <1>4, <1>6, <3>2, <4>4, <4>5, <4>6
      <4> QED
        BY <4>1, <4>3, <4>7 DEF Ahead
    <3> QED
      BY <3>3, <3>4, <3>5
  <2> QED
    BY <2>1, <2>2
<1> QED
  BY <1>17, <1>19, <1>20 DEF QueueInv

LEMMA CancelKeepsQueueInv ==
    ASSUME QueueInv, NEW e \in Effects, cancel(e)
    PROVE  QueueInv'
<1>1. PICK n \in DOMAIN queue : queue[n] = e
  BY QueueFacts DEF cancel, QueueInv
<1> DEFINE over == [Effect("finished") EXCEPT !.bad = ef[e].bad]
<1>2. /\ remove(queue[n]) /\ before' = before /\ ef' = [ef EXCEPT ![queue[n]] = over]
      /\ UNCHANGED <<clock, pass, before>>
  BY <1>1 DEF cancel
<1>3. over \in EffectRecord /\ over.state = "finished" /\ over.startOn <= over.finishOn
  <2>1. ef[e].bad \in BOOLEAN
    BY DEF QueueInv, QueueSound, EffectRecord
  <2>2. over.startOn = 0 /\ over.finishOn = 0 /\ over \in EffectRecord /\ over.state = "finished"
    BY <2>1, FinishedFacts
  <2> QED
    BY <2>2
<1> HIDE DEF over
<1>4. /\ ef' \in [Effects -> EffectRecord] /\ \A d \in Effects : ef'[d].startOn <= ef'[d].finishOn
      /\ queue' \in Seq(Effects) /\ IsInjective(queue') /\ interval' \in BOOLEAN
      /\ \A k \in DOMAIN queue' : ef'[queue'[k]].state \in {"idle", "running"}
      /\ \A k \in DOMAIN queue' : ef'[queue'[k]] = ef[queue'[k]]
      /\ \A k \in DOMAIN queue' : \E j \in DOMAIN queue : queue'[k] = queue[j]
      /\ Awaits'
  BY <1>2, <1>3, RemoveKeeps DEF QueueInv
<1>5. PassInOrder'
  BY <1>2, <1>3, <1>4, RemoveKeepsPass
<1>6. QueueSound'
  BY <1>2, <1>4 DEF QueueSound, QueueInv
<1> QED
  BY <1>4, <1>5, <1>6 DEF QueueInv

\* A pass meets an effect.
LEMMA CurrentFacts ==
    ASSUME QueueInv, Looks
    PROVE  /\ pass.i \in DOMAIN queue /\ pass.i \in Nat /\ pass.len \in Nat /\ pass.timePos \in Nat
           /\ Current \in Effects /\ ef[Current] \in EffectRecord
           /\ ef[Current].state \in {"idle", "running"}
<1>1. /\ Len(queue) \in Nat /\ DOMAIN queue = 1..Len(queue)
      /\ \A n \in DOMAIN queue : queue[n] \in Effects
  BY QueueFacts DEF QueueInv
<1>2. pass.i \in Nat /\ pass.len \in Nat /\ pass.timePos \in 0..MaxClock /\ pass.i # 0 /\ MaxClock \in Nat
  BY EffectAssumption DEF QueueInv, QueueSound, PassRecord, Looks
<1>3. pass.i \in DOMAIN queue /\ pass.timePos \in Nat
  BY <1>1, <1>2 DEF Looks
<1> QED
  BY <1>1, <1>2, <1>3 DEF Current, QueueInv, QueueSound

\* Drawing an effect disturbs nothing that was queued after it.
LEMMA RenderKeeps ==
    ASSUME QueueInv, NEW n \in DOMAIN queue, UNCHANGED <<queue, before>>,
           ef' = ef \/ ef' = render_effect(queue[n])
    PROVE  /\ ef' \in [Effects -> EffectRecord]
           /\ \A e \in Effects : /\ ef'[e].startOn = ef[e].startOn /\ ef'[e].finishOn = ef[e].finishOn
                                 /\ ef'[e].startOn <= ef'[e].finishOn
                                 /\ ef'[e].state = ef[e].state \/ ef'[e].state = "running"
           /\ \A k \in DOMAIN queue' : ef'[queue'[k]].state \in {"idle", "running"}
           /\ Awaits'
<1>1. /\ \A k \in DOMAIN queue : queue[k] \in Effects /\ ef[queue[k]].state \in {"idle", "running"}
      /\ ef \in [Effects -> EffectRecord] /\ \A e \in Effects : ef[e].startOn <= ef[e].finishOn
  BY QueueFacts DEF QueueInv, QueueSound
<1> DEFINE g == [ef EXCEPT ![queue[n]].state = "running"]
<1>2. /\ g \in [Effects -> EffectRecord]
      /\ \A e \in Effects : /\ g[e].startOn = ef[e].startOn /\ g[e].finishOn = ef[e].finishOn
                            /\ g[e].position = ef[e].position
                            /\ g[e].state = IF e = queue[n] THEN "running" ELSE ef[e].state
  BY <1>1 DEF EffectRecord
<1> HIDE DEF g
<1>3. ef' = ef \/ ef' = g
  BY DEF render_effect, g
<1>4. /\ ef' \in [Effects -> EffectRecord]
      /\ \A e \in Effects : /\ ef'[e].startOn = ef[e].startOn /\ ef'[e].finishOn = ef[e].finishOn
                            /\ ef'[e].startOn <= ef'[e].finishOn /\ ef'[e].position = ef[e].position
                            /\ \/ ef'[e].state = ef[e].state
                               \/ e = queue[n] /\ ef'[e].state = "running"
  <2>1. CASE ef' = ef
    BY <1>1, <2>1
  <2>2. CASE ef' = g
    BY <1>1, <1>2, <2>2
  <2> QED
    BY <1>3, <2>1, <2>2
<1>5. \A k \in DOMAIN queue' : ef'[queue'[k]].state \in {"idle", "running"}
  BY <1>1, <1>4
<1>6. Awaits'
  <2> SUFFICES ASSUME NEW e \in Effects, ef'[e].state = "idle", ef'[e].position = "end",
                      NEW x \in DOMAIN queue, queue[x] = e, NEW f \in before[e]
               PROVE  ef'[f].state = "finished" \/ Ahead(f, e)'
    BY DEF Awaits
  <2>1. f \in Effects
    BY DEF QueueInv, QueueSound
  <2>2. ef[e].state = "idle" /\ ef[e].position = "end"
    BY <1>4
  <2>3. ef[f].state = "finished" \/ Ahead(f, e)
    BY <2>2 DEF QueueInv, Awaits
  <2>4. CASE ef[f].state = "finished"
    BY <1>1, <1>4, <2>1, <2>4
  <2>5. CASE Ahead(f, e)
    BY <1>4, <2>1, <2>5 DEF Ahead
  <2> QED
    BY <2>3, <2>4, <2>5
<1> QED
  BY <1>4, <1>5, <1>6

\* A pass that is over or begins has seen nothing.
LEMMA NoPassFacts ==
    NoPass \in PassRecord /\ ~NoPass.on /\ NoPass.seen = {}
<1>1. 0 \in 0..MaxClock
  BY EffectAssumption
<1> QED
  BY <1>1 DEF NoPass, PassRecord

LEMMA BegunFacts ==
    ASSUME NEW n \in Nat, NEW t \in 0..MaxClock, NEW begun,
           begun = [on |-> TRUE, i |-> 1, len |-> n, timePos |-> t,
                    at |-> {}, stage |-> "over", seen |-> {}]
    PROVE  begun \in PassRecord /\ begun.i = 1 /\ begun.seen = {}
<1> QED
  BY DEF PassRecord

LEMMA LoopEffectKeepsQueueInv ==
    ASSUME QueueInv, loop_effect \/ last_frame
    PROVE  QueueInv'
<1>1. /\ Looks
      /\ UNCHANGED <<queue, interval, clock, before>>
      /\ ef' = ef \/ ef' = render_effect(Current)
  BY DEF loop_effect, last_frame
<1>2. /\ pass.i \in DOMAIN queue /\ pass.i \in Nat /\ Current \in Effects
      /\ ef[Current].state \in {"idle", "running"}
  BY <1>1, CurrentFacts
<1>3. /\ ef' \in [Effects -> EffectRecord]
      /\ \A e \in Effects : /\ ef'[e].finishOn = ef[e].finishOn
                            /\ ef'[e].startOn <= ef'[e].finishOn
                            /\ ef'[e].state = ef[e].state \/ ef'[e].state = "running"
      /\ \A k \in DOMAIN queue' : ef'[queue'[k]].state \in {"idle", "running"}
      /\ Awaits'
  BY <1>1, <1>2, RenderKeeps DEF Current
<1>4. pass \in PassRecord /\ \A k \in DOMAIN queue : queue[k] \in Effects
  BY QueueFacts DEF QueueInv, QueueSound
<1>5. /\ pass' \in PassRecord /\ pass'.i # 0 /\ pass'.timePos = pass.timePos
      /\ \/ pass'.seen = pass.seen
         \/ pass'.seen = pass.seen \cup {Current} /\ pass.timePos < ef[Current].finishOn
  <2>1. CASE loop_effect
    <3>1. PICK at \in {{Current}, {}}, stage \in {"drawn", "over"} :
            pass' = [pass EXCEPT !.i = pass.i + 1, !.seen = pass.seen \cup {Current},
                                 !.at = at, !.stage = stage]
      BY <2>1 DEF loop_effect
    <3>2. pass.i + 1 \in Nat /\ pass.i + 1 # 0 /\ at \subseteq Effects
      BY <1>2
    <3>3. pass.timePos < ef[Current].finishOn
      BY <2>1 DEF loop_effect
    <3> QED
      BY <1>2, <1>4, <3>1, <3>2, <3>3 DEF PassRecord
  <2>2. CASE last_frame
    <3>1. pass' = [pass EXCEPT !.stage = "last", !.at = {Current}] /\ pass.i # 0
      BY <1>1, <2>2 DEF last_frame, QueueInv, QueueSound, Looks
    <3> QED
      BY <1>2, <1>4, <3>1 DEF PassRecord
  <2> QED
    BY <2>1, <2>2
<1>6. QueueSound'
  BY <1>1, <1>3, <1>5 DEF QueueSound, QueueInv
<1>7. PassInOrder'
  <2>1. \A f \in pass'.seen : ef'[f].state # "new"
    <3>1. \A f \in pass'.seen : f \in Effects /\ ef[f].state # "new"
      BY <1>2, <1>4, <1>5 DEF QueueInv, PassInOrder, PassRecord
    <3> QED
      BY <1>3, <3>1
  <2>2. ASSUME NEW k \in DOMAIN queue, queue[k] \in pass'.seen
        PROVE  pass.timePos < ef'[queue[k]].finishOn
    <3>1. pass.timePos < ef[queue[k]].finishOn
      BY <1>5, <2>2 DEF QueueInv, PassInOrder
    <3> QED
      BY <1>3, <1>4, <3>1
  <2> QED
    BY <1>1, <1>5, <2>1, <2>2 DEF PassInOrder
<1> QED
  BY <1>3, <1>6, <1>7 DEF QueueInv

LEMMA FinishKeepsQueueInv ==
    ASSUME QueueInv, NEW e \in Effects, finish_effect(e)
    PROVE  QueueInv'
<1> DEFINE over == Effect("finished")
<1>1. /\ UNCHANGED <<clock, before>>
      /\ ef' = [ef EXCEPT ![e] = over]
      /\ IF e \in Queued THEN remove(e) ELSE UNCHANGED <<queue, interval>>
      /\ pass' = [pass EXCEPT !.i = pass.i + 1, !.stage = "over"]
  BY DEF finish_effect
<1>2. over \in EffectRecord /\ over.state = "finished" /\ over.startOn <= over.finishOn
  BY EffectAssumption DEF Effect, EffectRecord, Positions
<1> HIDE DEF over
<1>3. /\ pass' \in PassRecord /\ pass'.i # 0 /\ pass'.seen = pass.seen
      /\ pass'.timePos = pass.timePos
  <2>1. pass \in PassRecord /\ pass.i \in Nat /\ pass.i + 1 \in Nat /\ pass.i + 1 # 0
    BY DEF QueueInv, QueueSound, PassRecord
  <2> QED
    BY <1>1, <2>1 DEF PassRecord
<1>4. /\ ef' \in [Effects -> EffectRecord] /\ \A d \in Effects : ef'[d].startOn <= ef'[d].finishOn
      /\ queue' \in Seq(Effects) /\ IsInjective(queue') /\ interval' \in BOOLEAN
      /\ \A k \in DOMAIN queue' : ef'[queue'[k]].state \in {"idle", "running"}
      /\ \A k \in DOMAIN queue' : ef'[queue'[k]] = ef[queue'[k]]
      /\ \A k \in DOMAIN queue' : \E j \in DOMAIN queue : queue'[k] = queue[j]
      /\ Awaits'
  <2>1. CASE e \in Queued
    <3>1. PICK n \in DOMAIN queue : queue[n] = e
      BY <2>1, QueueFacts DEF QueueInv
    <3> QED
      BY <1>1, <1>2, <2>1, <3>1, RemoveKeeps DEF QueueInv
  <2>2. CASE e \notin Queued
    <3>1. UNCHANGED <<queue, interval>> /\ ef \in [Effects -> EffectRecord]
          /\ \A k \in DOMAIN queue : queue[k] \in Effects /\ queue[k] # e
      BY <1>1, <2>2, QueueFacts DEF QueueInv, QueueSound
    <3>2. ef' \in [Effects -> EffectRecord] /\ ef'[e] = over /\ \A d \in Effects : d # e => ef'[d] = ef[d]
      BY <1>1, <1>2, <3>1
    <3>3. \A d \in Effects : ef'[d].startOn <= ef'[d].finishOn
      BY <1>2, <3>2 DEF QueueInv, QueueSound
    <3>4. \A k \in DOMAIN queue' : /\ ef'[queue'[k]].state \in {"idle", "running"}
                                   /\ ef'[queue'[k]] = ef[queue'[k]]
                                   /\ \E j \in DOMAIN queue : queue'[k] = queue[j]
      BY <3>1, <3>2 DEF QueueInv, QueueSound
    <3>5. Awaits'
      <4> SUFFICES ASSUME NEW d \in Effects, ef'[d].state = "idle", ef'[d].position = "end",
                          NEW x \in DOMAIN queue, queue[x] = d, NEW f \in before[d]
                   PROVE  ef'[f].state = "finished" \/ Ahead(f, d)'
        BY <1>1, <3>1 DEF Awaits
      <4>1. d # e /\ ef'[d] = ef[d] /\ f \in Effects
        BY <3>1, <3>2 DEF QueueInv, QueueSound
      <4>2. ef[f].state = "finished" \/ Ahead(f, d)
        BY <4>1 DEF QueueInv, Awaits
      <4>3. CASE f = e
        BY <1>2, <3>2, <4>3
      <4>4. CASE f # e
        BY <3>1, <3>2, <4>1, <4>2, <4>4 DEF Ahead
      <4> QED
        BY <4>3, <4>4
    <3> QED
      BY <3>1, <3>2, <3>3, <3>4, <3>5 DEF QueueInv, QueueSound
  <2> QED
    BY <2>1, <2>2
<1>5. PassInOrder'
  BY <1>1, <1>2, <1>3, <1>4, RemoveKeepsPass
<1>6. QueueSound'
  BY <1>1, <1>3, <1>4 DEF QueueSound, QueueInv
<1> QED
  BY <1>4, <1>5, <1>6 DEF QueueInv

\* A pass goes on, or is over.
LEMMA PassMovesKeepQueueInv ==
    ASSUME QueueInv, UNCHANGED <<ef, queue, interval, clock, before>>,
           pass' = NoPass \/ (\E stage \in {"drawn", "last", "over"} :
                                pass' = [pass EXCEPT !.at = {}, !.stage = stage])
    PROVE  QueueInv'
<1>1. /\ pass' \in PassRecord /\ (pass'.on => pass'.i # 0)
      /\ pass'.seen = {} \/ (pass'.seen = pass.seen /\ pass'.timePos = pass.timePos)
  <2>1. pass \in PassRecord /\ (pass.on => pass.i # 0)
    BY DEF QueueInv, QueueSound
  <2>2. CASE pass' = NoPass
    BY <2>2, NoPassFacts
  <2>3. CASE \E stage \in {"drawn", "last", "over"} : pass' = [pass EXCEPT !.at = {}, !.stage = stage]
    BY <2>1, <2>3 DEF PassRecord
  <2> QED
    BY <2>2, <2>3
<1>2. QueueSound' /\ Awaits'
  BY <1>1 DEF QueueInv, QueueSound, Awaits, Ahead
<1>3. PassInOrder'
  BY <1>1 DEF QueueInv, PassInOrder
<1> QED
  BY <1>2, <1>3 DEF QueueInv

LEMMA StepKeepsQueueInv == QueueInv /\ [EffectNext]_effectVars => QueueInv'
<1> SUFFICES ASSUME QueueInv, [EffectNext]_effectVars PROVE QueueInv'
  OBVIOUS
<1>1. MaxClock \in Nat /\ Len(queue) \in Nat /\ clock \in 1..MaxClock /\ pass \in PassRecord
  BY QueueFacts, EffectAssumption DEF QueueInv, QueueSound
<1>2. CASE UNCHANGED effectVars
  BY <1>2 DEF effectVars, QueueInv, QueueSound, Awaits, Ahead, PassInOrder
<1>3. ASSUME NEW e \in Effects, cancel(e) PROVE QueueInv'
  BY <1>3, CancelKeepsQueueInv
<1>4. ASSUME NEW e \in Effects, NEW position \in Positions, NEW delay \in Delays,
             NEW duration \in Durations, NEW bad \in {FALSE, (e \in MayThrow)},
             start_effect(e, position, delay, duration, 0, bad)
      PROVE  QueueInv'
  <2>1. bad \in BOOLEAN
    <3>1. (e \in MayThrow) \in BOOLEAN
      OBVIOUS
    <3>2. bad = FALSE \/ bad = (e \in MayThrow)
      OBVIOUS
    <3> QED
      BY <3>1, <3>2, Zenon
  <2> QED
    BY <1>4, <2>1, StartKeepsQueueInv, EffectAssumption
<1>5. ASSUME NEW e \in Effects, NEW duration \in Durations, toggle(e, duration) PROVE QueueInv'
  <2>1. start_effect(e, "end", 0, duration, 1, FALSE) /\ "end" \in Positions
    BY <1>5 DEF toggle, Positions
  <2> QED
    BY <2>1, StartKeepsQueueInv, EffectAssumption
<1>6. CASE loop
  <2>1. /\ UNCHANGED <<ef, queue, interval, clock, before>>
        /\ pass' = [on |-> TRUE, i |-> 1, len |-> Len(queue), timePos |-> clock,
                    at |-> {}, stage |-> "over", seen |-> {}]
    BY <1>6 DEF loop, NoPass
  <2>2. pass' \in PassRecord /\ pass'.i = 1 /\ pass'.seen = {}
    <3>1. Len(queue) \in Nat /\ clock \in 0..MaxClock
      BY <1>1
    <3> QED
      BY <2>1, <3>1, BegunFacts, Zenon
  <2>3. QueueSound' /\ Awaits'
    BY <2>1, <2>2 DEF QueueInv, QueueSound, Awaits, Ahead
  <2>4. PassInOrder'
    BY <2>2 DEF PassInOrder
  <2> QED
    BY <2>3, <2>4 DEF QueueInv
<1>7. CASE loop_effect \/ last_frame
  BY <1>7, LoopEffectKeepsQueueInv
<1>8. ASSUME NEW e \in Effects, finish_effect(e) PROVE QueueInv'
  BY <1>8, FinishKeepsQueueInv
<1>9. ASSUME NEW e \in Effects, drawn_returns(e) \/ throws_out(e) PROVE QueueInv'
  BY <1>9, PassMovesKeepQueueInv DEF drawn_returns, throws_out
<1>11. CASE finish_returns \/ pass_over
  <2>1. UNCHANGED <<ef, queue, interval, clock, before>>
    BY <1>11 DEF finish_returns, pass_over
  <2>2. CASE pass' = NoPass
    BY <2>1, <2>2, PassMovesKeepQueueInv
  <2>3. CASE pass.stage = "over" /\ pass' = [pass EXCEPT !.at = {}]
    <3>1. pass' = [pass EXCEPT !.at = {}, !.stage = "over"]
      BY <1>1, <2>3 DEF PassRecord
    <3> QED
      BY <2>1, <3>1, PassMovesKeepQueueInv
  <2> QED
    BY <1>11, <2>2, <2>3 DEF finish_returns, pass_over
<1>10. CASE Time
  <2>1. UNCHANGED <<ef, queue, interval, pass, before>> /\ clock' \in 1..MaxClock
    BY <1>1, <1>10 DEF Time
  <2> QED
    BY <2>1 DEF QueueInv, QueueSound, Awaits, Ahead, PassInOrder
<1> QED
  BY <1>2, <1>3, <1>4, <1>5, <1>6, <1>7, <1>8, <1>9, <1>10, <1>11 DEF EffectNext, EffectLoop

LEMMA QueueInvariant == EffectSpec => []QueueInv
<1>1. EffectInit => QueueInv
  BY InitQueueInv
<1>2. QueueInv /\ [EffectNext]_effectVars => QueueInv'
  BY StepKeepsQueueInv
<1> QED
  BY <1>1, <1>2, PTL DEF EffectSpec

\* As many places as effects: an injective sequence numbers its members.
LEMMA QueueCounts == QueueSound => Len(queue) = Cardinality(Queued)
<1> SUFFICES ASSUME QueueSound PROVE Len(queue) = Cardinality(Queued)
  OBVIOUS
<1>1. /\ Len(queue) \in Nat /\ DOMAIN queue = 1..Len(queue) /\ IsInjective(queue) /\ queue \in Seq(Effects)
      /\ \A n \in DOMAIN queue : queue[n] \in Queued
      /\ \A e \in Queued : \E n \in DOMAIN queue : queue[n] = e
  BY QueueFacts DEF QueueSound
<1>2. queue \in [1..Len(queue) -> Queued]
  BY <1>1
<1>3. queue \in Bijection(1..Len(queue), Queued)
  BY <1>1, <1>2 DEF Bijection, Injection, Surjection, IsInjective
<1>4. ExistsBijection(1..Len(queue), Queued)
  BY <1>3 DEF ExistsBijection
<1> QED
  BY <1>1, <1>4, FS_CountingElements

(* ScopedQueue.effects holds each effect once, whatever is added, removed  *)
(* and cancelled, and times of effects and of passes stay in their bounds.  *)
THEOREM QueueTypeCorrect == EffectSpec => []EffectTypeOK
<1>1. QueueInv => EffectTypeOK
  <2> SUFFICES ASSUME QueueInv PROVE EffectTypeOK
    OBVIOUS
  <2>1. Queued \subseteq Effects
    BY QueueFacts DEF QueueInv
  <2> QED
    BY <2>1, QueueCounts DEF QueueInv, QueueSound, EffectTypeOK
<1> QED
  BY <1>1, QueueInvariant, PTL

\* The effect that a step starts is the one its pass has come to, and is due.
LEMMA StartIsDue ==
    ASSUME QueueInv, [EffectNext]_effectVars, NEW e \in Effects, Starts(e)
    PROVE  Looks /\ e = Current /\ pass.timePos >= ef[e].startOn
<1>1. /\ pass.on /\ pass.at = {} /\ ~PageRuns /\ ef'[e] # ef[e]
  BY DEF Starts, PageRuns
<1>2. ~(UNCHANGED ef) /\ \A d : pass.at # {d}
  BY <1>1
<1>3. loop_effect \/ last_frame
  BY <1>1, <1>2 DEF EffectNext, EffectLoop, cancel, toggle, start_effect, loop, finish_effect,
                    drawn_returns, throws_out, finish_returns, pass_over, Time, effectVars
<1>4. /\ Looks /\ ef' = render_effect(Current)
      /\ pass.timePos > ef[Current].startOn \/ pass.timePos >= ef[Current].finishOn
  BY <1>2, <1>3 DEF loop_effect, last_frame
<1>6. e = Current
  BY <1>1, <1>4 DEF render_effect, QueueInv, QueueSound
<1>7. pass.timePos \in Nat /\ ef[Current] \in EffectRecord /\ Current \in Effects
  BY <1>4, CurrentFacts
<1>8. ef[Current].startOn \in Nat /\ ef[Current].finishOn \in Nat /\ ef[Current].startOn <= ef[Current].finishOn
  BY <1>7 DEF EffectRecord, QueueInv, QueueSound
<1> QED
  BY <1>4, <1>6, <1>7, <1>8

(* For any effects, delays, durations and lateness of the interval, and     *)
(* whatever callbacks start, put in front and cancel: an effect queued at   *)
(* the end starts when those queued before it have finished, but for one    *)
(* that the pass has stepped over.                                          *)
THEOREM EffectsAtTheEndWait == EffectSpec => EndWaits
<1>1. QueueInv /\ [EffectNext]_effectVars =>
        [\A e \in Effects : ef[e].position = "end" /\ Starts(e) =>
            \A f \in before[e] : ef[f].state = "finished" \/ SteppedOver(f)]_effectVars
  <2> SUFFICES ASSUME QueueInv, [EffectNext]_effectVars, NEW e \in Effects,
                      ef[e].position = "end", Starts(e), NEW f \in before[e],
                      ef[f].state # "finished"
               PROVE  SteppedOver(f)
    OBVIOUS
  <2>1. Looks /\ e = Current /\ pass.timePos >= ef[e].startOn
    BY StartIsDue
  <2>2. pass.i \in DOMAIN queue /\ queue[pass.i] = e /\ ef[e].state = "idle" /\ pass.timePos \in Nat
    BY <2>1, CurrentFacts DEF Starts, Current
  <2>3. Ahead(f, e)
    BY <2>2 DEF QueueInv, Awaits
  <2>4. PICK m, n \in DOMAIN queue : m < n /\ queue[m] = f /\ queue[n] = e
    BY <2>3 DEF Ahead
  <2>5. n = pass.i
    BY <2>2, <2>4 DEF QueueInv, QueueSound, IsInjective
  <2>6. f \in Effects /\ ef[f].finishOn \in Nat /\ ef[e].startOn \in Nat
    BY DEF QueueInv, QueueSound, EffectRecord
  <2>7. ~(pass.timePos < ef[f].finishOn)
    BY <2>1, <2>2, <2>3, <2>6 DEF Ahead
  <2>8. f \notin pass.seen
    BY <2>4, <2>7 DEF QueueInv, PassInOrder
  <2> QED
    BY <2>4, <2>5, <2>8 DEF SteppedOver
<1> QED
  BY <1>1, QueueInvariant, PTL DEF EffectSpec, EndWaits
===============================================================================
