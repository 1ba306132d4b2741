------------------------- MODULE GuiDispatchProofs -------------------------
(* Theorems about GuiDispatch, for any requests, documents and owners.      *)
EXTENDS GuiDispatch, SequenceTheorems, FiniteSetTheorems, TLAPS

\* drain_one holds a request exactly when it is not idle.
HandOK == (hand = NULL) <=> (gui = "idle")

\* The types, with what the queue operations need to keep them.
Shape == TypeOK /\ HandOK /\ IsFiniteSet(deferredRequests)

-----------------------------------------------------------------------------
(* The queue operations.                                                    *)

\* A segment of a queue is a queue of some of its requests.
LEMMA Segment ==
    ASSUME NEW queue \in Seq(Requests), NEW m \in Nat \ {0}, NEW n \in 0..Len(queue)
    PROVE  /\ SubSeq(queue, m, n) \in Seq(Requests)
           /\ Range(SubSeq(queue, m, n)) \subseteq Range(queue)
<1>1. Len(queue) \in Nat /\ DOMAIN queue = 1..Len(queue)  BY LenProperties
<1>2. \A i \in m..n : queue[i] \in Requests  BY <1>1, ElementOfSeq
<1>3. m \in Int /\ n \in Int  BY <1>1
<1>4. /\ SubSeq(queue, m, n) \in Seq(Requests)
      /\ Len(SubSeq(queue, m, n)) = IF m <= n THEN n - m + 1 ELSE 0
      /\ \A i \in 1..(n - m + 1) : SubSeq(queue, m, n)[i] = queue[m + i - 1]
  BY <1>2, <1>3, SubSeqProperties
<1>5. DOMAIN SubSeq(queue, m, n) = 1..Len(SubSeq(queue, m, n))  BY <1>4, LenProperties
<1>6. \A i \in DOMAIN SubSeq(queue, m, n) :
         m + i - 1 \in DOMAIN queue /\ SubSeq(queue, m, n)[i] = queue[m + i - 1]
  BY <1>1, <1>4, <1>5
<1> QED BY <1>4, <1>6 DEF Range

\* The two segments around a request, in either order.
LEMMA Rotation ==
    ASSUME NEW queue \in Seq(Requests), NEW k \in DOMAIN queue
    PROVE  LET front == SubSeq(queue, 1, k - 1)
               back == SubSeq(queue, k + 1, Len(queue))
           IN  /\ front \o back \in Seq(Requests) /\ back \o front \in Seq(Requests)
               /\ Range(front \o back) \subseteq Range(queue)
               /\ Range(back \o front) \subseteq Range(queue)
<1> DEFINE front == SubSeq(queue, 1, k - 1)
           back == SubSeq(queue, k + 1, Len(queue))
<1>1. Len(queue) \in Nat /\ DOMAIN queue = 1..Len(queue)  BY LenProperties
<1>2. /\ k - 1 \in 0..Len(queue) /\ k + 1 \in Nat \ {0} /\ 1 \in Nat \ {0}
      /\ Len(queue) \in 0..Len(queue)
  BY <1>1
<1>3. /\ front \in Seq(Requests) /\ Range(front) \subseteq Range(queue)
      /\ back \in Seq(Requests) /\ Range(back) \subseteq Range(queue)
  BY <1>2, Segment
<1> HIDE DEF front, back
<1>4. /\ front \o back \in Seq(Requests) /\ back \o front \in Seq(Requests)
      /\ Range(front \o back) = Range(front) \cup Range(back)
      /\ Range(back \o front) = Range(back) \cup Range(front)
  BY <1>3, ConcatProperties, RangeConcatenation
<1> QED BY <1>3, <1>4 DEF front, back

\* Removing a request yields a queue of the requests that were in it.
LEMMA WithoutSeq ==
    ASSUME NEW queue \in Seq(Requests), NEW r
    PROVE  /\ Without(queue, r) \in Seq(Requests)
           /\ Range(Without(queue, r)) \subseteq Range(queue)
<1>1. CASE \E i \in DOMAIN queue : queue[i] = r
  <2>1. PICK k \in DOMAIN queue :
           Without(queue, r) = SubSeq(queue, 1, k - 1) \o SubSeq(queue, k + 1, Len(queue))
    BY <1>1 DEF Without
  <2> QED BY <2>1, Rotation
<1>2. CASE ~\E i \in DOMAIN queue : queue[i] = r
  BY <1>2 DEF Without
<1> QED BY <1>1, <1>2

\* An order of finitely many requests is a queue of them.
LEMMA OrderingsSeq ==
    ASSUME NEW S \in SUBSET Requests, IsFiniteSet(S), NEW front \in Orderings(S)
    PROVE  front \in Seq(Requests) /\ Range(front) \subseteq S
<1>1. Cardinality(S) \in Nat  BY FS_CardinalityType
<1>2. front \in [1..Cardinality(S) -> S]  BY DEF Orderings
<1>3. front \in Seq(S)  BY <1>1, <1>2, SeqDef
<1> QED BY <1>2, <1>3, SeqMonotonic DEF Range

\* What stays in the queue when a document is closed was in it before.
LEMMA RetainedSeq ==
    ASSUME requests \in Seq(Requests), NEW d, NEW queue \in Retained(d)
    PROVE  /\ queue \in Seq(Requests)
           /\ Range(queue) \subseteq {r \in Range(requests) : d \notin keysOf[r]}
<1> DEFINE stay == {i \in DOMAIN requests : d \notin keysOf[requests[i]]}
<1>1. Len(requests) \in Nat /\ DOMAIN requests = 1..Len(requests)  BY LenProperties
<1>2. Cardinality(stay) \in Nat
  <2>1. stay \subseteq 1..Len(requests)  BY <1>1
  <2>2. IsFiniteSet(1..Len(requests))  BY <1>1, FS_Interval
  <2> QED BY <2>1, <2>2, FS_Subset, FS_CardinalityType
<1>3. PICK kept \in [1..Cardinality(stay) -> stay] :
         queue = [i \in DOMAIN kept |-> requests[kept[i]]]
  BY DEF Retained
<1>4. \A i \in 1..Cardinality(stay) :
         kept[i] \in DOMAIN requests /\ d \notin keysOf[requests[kept[i]]]
  BY <1>3
<1>5. \A i \in 1..Cardinality(stay) : requests[kept[i]] \in Requests
  BY <1>1, <1>4, ElementOfSeq
<1> HIDE DEF stay
<1>6. queue = [i \in 1..Cardinality(stay) |-> requests[kept[i]]]  BY <1>3
<1>7. queue \in [1..Cardinality(stay) -> Requests]  BY <1>5, <1>6
<1>8. queue \in Seq(Requests)  BY <1>2, <1>7, SeqDef
<1>9. Range(queue) \subseteq {r \in Range(requests) : d \notin keysOf[r]}
  BY <1>4, <1>6 DEF Range
<1> QED BY <1>8, <1>9

-----------------------------------------------------------------------------
(* Types.                                                                   *)

\* Helpers used by many actions keep the types of what they assign.
LEMMA ForgetType ==
    ASSUME TypeOK, NEW S
    PROVE  Forget(S) \in [Owners -> Requests \cup {NULL}]
  BY DEF TypeOK, Forget

\* What is admitted and waiting, in either queue, are requests.
LEMMA AllWaitingType ==
    ASSUME TypeOK
    PROVE  AllWaiting \subseteq Requests
  BY DEF TypeOK, AllWaiting

\* A sweep of both queues leaves queues and owner keys well formed.
LEMMA SweepAllShape ==
    ASSUME Shape, SweepAll
    PROVE  /\ swept' \in SUBSET Requests
           /\ requests' \in Seq(Requests)
           /\ deferredRequests' \in SUBSET Requests /\ IsFiniteSet(deferredRequests')
           /\ requestsByOwner' \in [Owners -> Requests \cup {NULL}]
  BY AllWaitingType, ForgetType, FS_EmptySet, EmptySeq DEF Shape, SweepAll, TypeOK

\* A wake, which sweeps the queues when it fails, leaves them well formed.
LEMMA RequestWakeShape ==
    ASSUME Shape, RequestWake
    PROVE  /\ swept' \in SUBSET Requests
           /\ requests' \in Seq(Requests)
           /\ deferredRequests' \in SUBSET Requests /\ IsFiniteSet(deferredRequests')
           /\ requestsByOwner' \in [Owners -> Requests \cup {NULL}]
           /\ signalPending' \in BOOLEAN
           /\ wakes' \in Nat
<1>1. CASE wakes' = wakes + 1 /\ UNCHANGED queueVars
  BY <1>1 DEF Shape, TypeOK, queueVars
<1>2. CASE WakeMayFail /\ FailPendingWakes /\ UNCHANGED wakes
  BY <1>2, SweepAllShape DEF Shape, TypeOK, FailPendingWakes
<1> QED BY <1>1, <1>2 DEF RequestWake

\* Removing one request from both queues leaves them well formed.
LEMMA RemovePendingShape ==
    ASSUME Shape, NEW r, RemovePending(r)
    PROVE  /\ swept' \in SUBSET Requests
           /\ requests' \in Seq(Requests)
           /\ deferredRequests' \in SUBSET Requests /\ IsFiniteSet(deferredRequests')
           /\ requestsByOwner' \in [Owners -> Requests \cup {NULL}]
           /\ signalPending' \in BOOLEAN
           /\ owedWakes' \in Nat
<1>1. Without(requests, r) \in Seq(Requests)  BY WithoutSeq DEF Shape, TypeOK
<1>2. HasRunnable(requests', deferredRequests') \in BOOLEAN  BY DEF HasRunnable
<1>3. IsFiniteSet(deferredRequests \ {r})  BY FS_Subset DEF Shape
<1> QED BY <1>1, <1>2, <1>3, ForgetType DEF RemovePending, SignalRunnable, Shape, TypeOK

\* The handler thread.
LEMMA HandlerShape ==
    ASSUME ConstantsAssumption, Shape, NEW r \in Requests, Handler(r)
    PROVE  Shape'
<1> USE DEF Shape, TypeOK, HandOK, HandlerStates, Results, RequestStates, Outcomes,
            handlerVars, requestVars, queueVars, coreVars, guiVars, documentVars, historyVars
<1>1. CASE Submit(r)  BY <1>1 DEF Submit
<1>2. CASE SubmitInline(r)
  <2>1. /\ pc' \in [Requests -> HandlerStates] /\ released' \in [Requests -> BOOLEAN]
        /\ UNCHANGED <<settling, expired, coreVars, guiVars, documentVars, arrived,
                       everDeferred>>
    BY <1>2 DEF SubmitInline
  <2>2. /\ result' \in [Requests -> Results] /\ state' \in [Requests -> RequestStates]
        /\ outcome' \in [Requests -> Outcomes] /\ completion' \in [Requests -> BOOLEAN]
        /\ notified' \in [Requests -> Nat] /\ ran' \in [Requests -> Nat]
    <3>1. CASE UNCHANGED <<state, outcome, completion, notified, ran>>
      <4>1. \E res \in Results : result' = [result EXCEPT ![r] = res]
        BY <1>2 DEF SubmitInline
      <4> QED BY <3>1, <4>1
    <3>2. CASE ~UNCHANGED <<state, outcome, completion, notified, ran>>
      <4>1. PICK ok \in BOOLEAN :
               /\ outcome' = [outcome EXCEPT ![r] = IF ok THEN "ok" ELSE "error"]
               /\ result' = [result EXCEPT ![r] = IF ok THEN "value" ELSE "task_error"]
        BY <1>2, <3>2 DEF SubmitInline
      <4>2. /\ state' = [state EXCEPT ![r] = "completed"]
            /\ completion' = [completion EXCEPT ![r] = TRUE]
            /\ notified' = [notified EXCEPT ![r] = @ + 1]
            /\ ran' = [ran EXCEPT ![r] = @ + 1]
        BY <1>2, <3>2 DEF SubmitInline
      <4> QED BY SMTT(30), <4>1, <4>2
    <3> QED BY <3>1, <3>2
  <2> QED BY <2>1, <2>2
<1>3. CASE RefuseStopping(r)  BY <1>3 DEF RefuseStopping, Leave
<1>4. CASE RefuseQuarantined(r)  BY <1>4 DEF RefuseQuarantined, Leave
<1>5. CASE RefuseDuplicate(r)  BY <1>5 DEF RefuseDuplicate, Leave, AfterQuarantine
<1>6. CASE Enqueue(r)
  <2>1. Append(requests, r) \in Seq(Requests) /\ Append(arrived, r) \in Seq(Requests)
    BY AppendProperties
  <2> QED BY <1>6, <2>1 DEF Enqueue, AfterQuarantine
<1>7. CASE WakeForSubmit(r)
  <2>1. pc' \in [Requests -> HandlerStates] /\ result' \in [Requests -> Results]
    BY ZenonT(40), <1>7 DEF WakeForSubmit, Leave
  <2>2. RequestWake  BY <1>7 DEF WakeForSubmit
  <2>3. UNCHANGED <<requestVars, accepting, timedOutRequest, outstandingRequests,
                    gui, hand, timers, owedWakes, documentVars, historyVars>>
    BY <1>7 DEF WakeForSubmit
  <2> QED BY <2>1, <2>2, <2>3, RequestWakeShape
<1>8. CASE WaitReturns(r)  BY <1>8 DEF WaitReturns, Leave, Answer
<1>9. CASE WaitExpires(r)  BY <1>9 DEF WaitExpires
<1>10. CASE CancelOnTimeout(r)  BY <1>10 DEF CancelOnTimeout, CancelIfPending
<1>11. CASE TimeoutAlreadyExpired(r)  BY <1>11 DEF TimeoutAlreadyExpired, Leave
<1>12. CASE MarkTimedOut(r)  BY <1>12 DEF MarkTimedOut
<1>13. CASE TimeoutOvertaken(r)  BY <1>13 DEF TimeoutOvertaken
<1>14. CASE CleanupDone(r)  BY <1>14 DEF CleanupDone, Leave
<1>15. CASE QuarantineRunning(r)  BY <1>15, SweepAllShape DEF QuarantineRunning, Leave
<1>16. CASE OvertakenReturns(r)  BY <1>16 DEF OvertakenReturns, Leave
<1>17. CASE HandlerRelease(r)  BY <1>17 DEF HandlerRelease, LowerOutstanding
<1> QED BY <1>1, <1>2, <1>3, <1>4, <1>5, <1>6, <1>7, <1>8, <1>9, <1>10, <1>11, <1>12,
           <1>13, <1>14, <1>15, <1>16, <1>17
        DEF Handler, Proceed, Admission, HandleTimeout

\* Cleanup, cancellation, shutdown and the clock.
LEMMA EndingShape ==
    ASSUME ConstantsAssumption, Shape,
           \/ \E r \in Requests : Settle(r) \/ CancelSwept(r) \/ Tick(r)
           \/ \E k \in Owners : CancelRequest(k)
           \/ StopAccepting
    PROVE  Shape'
<1> USE DEF Shape, TypeOK, HandOK, RequestStates, Outcomes,
            handlerVars, requestVars, queueVars, coreVars, guiVars, documentVars, historyVars
<1>1. ASSUME NEW r \in Requests, Settle(r)  PROVE Shape'
  <2>1. CASE settling[r] = "remove"
    BY SMTT(30), <1>1, <2>1, RemovePendingShape DEF Settle
  <2>2. CASE settling[r] # "remove"
    <3>1. requestsByOwner' \in [Owners -> Requests \cup {NULL}]
      BY SMTT(30), <1>1, <2>2, ForgetType DEF Settle, ForgetAfterExecution
    <3>2. /\ notified' \in [Requests -> Nat] /\ completion' \in [Requests -> BOOLEAN]
          /\ settling' \in [Requests -> {"none", "remove", "forget"}]
      BY <1>1 DEF Settle
    <3>3. UNCHANGED <<requests, deferredRequests, signalPending, swept, owedWakes,
                      handlerVars, state, outcome, expired, released, accepting,
                      timedOutRequest, outstandingRequests, gui, hand, wakes, timers,
                      documentVars, historyVars>>
      BY <1>1, <2>2 DEF Settle, ForgetAfterExecution
    <3> QED BY <3>1, <3>2, <3>3
  <2> QED BY <2>1, <2>2
<1>2. ASSUME NEW r \in Requests, CancelSwept(r)  PROVE Shape'
  <2>1. CASE CancelIfPending(r)
    <3>1. /\ notified' = [notified EXCEPT ![r] = @ + 1]
          /\ completion' = [completion EXCEPT ![r] = TRUE]
      BY <1>2, <2>1 DEF CancelSwept, CancelIfPending
    <3>2. swept' = swept \ {r}
      BY <1>2 DEF CancelSwept
    <3>3. UNCHANGED <<handlerVars, settling, expired, released, requests,
                      deferredRequests, requestsByOwner, signalPending, accepting,
                      timedOutRequest, outstandingRequests, guiVars, documentVars,
                      historyVars>>
      BY <1>2 DEF CancelSwept
    <3> QED BY SMTT(30), <2>1, <3>1, <3>2, <3>3 DEF CancelIfPending
  <2>2. CASE UNCHANGED <<state, outcome, notified, completion>>
    BY <1>2, <2>2 DEF CancelSwept
  <2> QED BY <1>2, <2>1, <2>2 DEF CancelSwept
<1>3. ASSUME NEW r \in Requests, Tick(r)  PROVE Shape'
  BY <1>3 DEF Tick
<1>4. ASSUME NEW k \in Owners, CancelRequest(k)  PROVE Shape'
  <2> DEFINE r == requestsByOwner[k]
  <2>1. r \in Requests
    BY <1>4 DEF CancelRequest
  <2>2. CASE CancelIfPending(r)
    <3>1. state[r] \notin Terminal  BY <2>2 DEF CancelIfPending, Waiting, Terminal
    <3>2. RemovePending(r) /\ notified' = [notified EXCEPT ![r] = @ + 1]
          /\ completion' = [completion EXCEPT ![r] = TRUE]
      BY <1>4, <3>1 DEF CancelRequest
    <3>3. UNCHANGED <<handlerVars, settling, expired, released, accepting,
                      timedOutRequest, outstandingRequests, gui, hand, wakes,
                      timers, documentVars, historyVars>>
      BY <1>4 DEF CancelRequest
    <3> QED BY SMTT(30), <2>1, <2>2, <3>2, <3>3, RemovePendingShape DEF CancelIfPending
  <2>3. CASE ~CancelIfPending(r)
    BY SMTT(30), <1>4, <2>1, <2>3, ForgetType DEF CancelRequest
  <2> QED BY <2>2, <2>3
<1>5. CASE StopAccepting  BY <1>5, SweepAllShape DEF StopAccepting
<1> QED BY <1>1, <1>2, <1>3, <1>4, <1>5

\* Wakes, timers and document events.
LEMMA EventShape ==
    ASSUME ConstantsAssumption, Shape,
           \/ PostOwedWake \/ TimerFires
           \/ \E d \in Docs : NotifyStable(d) \/ NotifyDeleted(d) \/ DocumentChanges(d)
    PROVE  Shape'
<1> USE DEF Shape, TypeOK, HandOK, RequestStates,
            handlerVars, requestVars, queueVars, coreVars, guiVars, documentVars, historyVars
<1>1. CASE PostOwedWake
  <2>1. RequestWake /\ owedWakes' \in Nat  BY <1>1 DEF PostOwedWake
  <2> QED BY <1>1, <2>1, RequestWakeShape DEF PostOwedWake
<1>2. CASE TimerFires
  <2>1. RequestWake /\ timers' \in Nat  BY <1>2 DEF TimerFires
  <2> QED BY <1>2, <2>1, RequestWakeShape DEF TimerFires
<1>3. ASSUME NEW d \in Docs, NotifyStable(d)  PROVE Shape'
  <2> DEFINE promoted == {r \in deferredRequests : d \in keysOf[r] /\ state[r] = "deferred"}
  <2>1. promoted \in SUBSET Requests /\ IsFiniteSet(promoted)  BY FS_Subset
  <2>2. IsFiniteSet(deferredRequests \ promoted)  BY FS_Subset
  <2>3. PICK front \in Orderings(promoted) : requests' = front \o requests
    BY <1>3 DEF NotifyStable, PromoteFirst
  <2>4. requests' \in Seq(Requests)  BY <2>1, <2>3, OrderingsSeq, ConcatProperties
  <2>5. /\ mailbox' \in SUBSET ({"stable", "deleted"} \X Docs)
        /\ deferredRequests' = deferredRequests \ promoted
        /\ state' \in [Requests -> RequestStates]
        /\ signalPending' \in BOOLEAN
        /\ owedWakes' \in Nat
    BY <1>3 DEF NotifyStable
  <2>6. UNCHANGED <<handlerVars, outcome, completion, settling, notified, expired,
                    released, requestsByOwner, swept, accepting, timedOutRequest,
                    outstandingRequests, gui, hand, wakes, timers, document, historyVars>>
    BY <1>3 DEF NotifyStable
  <2> HIDE DEF promoted
  <2> QED BY <2>2, <2>4, <2>5, <2>6
<1>4. ASSUME NEW d \in Docs, NotifyDeleted(d)  PROVE Shape'
  <2> DEFINE closed == {r \in AllWaiting : d \in keysOf[r]}
             deferred == deferredRequests \ closed
  <2>1. PICK queue \in Retained(d) :
           /\ requests' = queue
           /\ deferredRequests' = deferred
           /\ requestsByOwner' = Forget(closed)
           /\ swept' = swept \cup closed
           /\ SignalRunnable(queue, HasRunnable(queue, deferred))
    BY <1>4 DEF NotifyDeleted
  <2>2. closed \subseteq Requests  BY AllWaitingType
  <2>3. IsFiniteSet(deferred)  BY FS_Subset
  <2> HIDE DEF closed
  <2>4. requests' \in Seq(Requests)  BY <2>1, RetainedSeq
  <2>5. HasRunnable(queue, deferred) \in BOOLEAN  BY DEF HasRunnable
  <2>6. signalPending' \in BOOLEAN /\ owedWakes' \in Nat
    BY <2>1, <2>5 DEF SignalRunnable
  <2>7. /\ mailbox' \in SUBSET ({"stable", "deleted"} \X Docs)
        /\ UNCHANGED <<handlerVars, requestVars, accepting, timedOutRequest,
                       outstandingRequests, gui, hand, wakes, timers, document,
                       historyVars>>
    BY <1>4 DEF NotifyDeleted
  <2> QED BY <2>1, <2>2, <2>3, <2>4, <2>6, <2>7, ForgetType
<1>5. ASSUME NEW d \in Docs, DocumentChanges(d)  PROVE Shape'
  <2>1. \E x \in {"ready", "busy", "deleted"} : document' = [document EXCEPT ![d] = x]
    BY <1>5 DEF DocumentChanges
  <2>2. \/ mailbox' = mailbox
        \/ \E x \in {"stable", "deleted"} : mailbox' = mailbox \cup {<<x, d>>}
    BY <1>5 DEF DocumentChanges
  <2>3. \A x \in {"stable", "deleted"} : <<x, d>> \in {"stable", "deleted"} \X Docs
    OBVIOUS
  <2>4. mailbox' \in SUBSET ({"stable", "deleted"} \X Docs)
    <3> DEFINE events == {"stable", "deleted"} \X Docs
    <3>1. mailbox \in SUBSET events  OBVIOUS
    <3>2. \A x \in {"stable", "deleted"} : <<x, d>> \in events  BY <2>3
    <3> HIDE DEF events
    <3>3. mailbox' \in SUBSET events  BY <2>2, <3>1, <3>2
    <3> QED BY <3>3 DEF events
  <2>5. UNCHANGED <<handlerVars, requestVars, coreVars, guiVars, historyVars>>
    BY <1>5 DEF DocumentChanges
  <2> QED BY <2>1, <2>4, <2>5
<1> QED BY <1>1, <1>2, <1>3, <1>4, <1>5

\* The GUI thread takes requests off the queue.
LEMMA DrainShape ==
    ASSUME ConstantsAssumption, Shape, Drain \/ NestedDrain
    PROVE  Shape'
<1> USE DEF Shape, TypeOK, HandOK, GuiStates,
            handlerVars, requestVars, queueVars, coreVars, guiVars, documentVars, historyVars
<1>1. ASSUME NEW r \in Requests, DrainTakes(r)  PROVE Shape'
  <2>1. PICK i \in DOMAIN requests :
           requests' = SubSeq(requests, i + 1, Len(requests)) \o SubSeq(requests, 1, i - 1)
    BY <1>1 DEF DrainTakes, Take
  <2>2. requests' \in Seq(Requests)  BY <2>1, Rotation
  <2>3. /\ wakes' \in Nat /\ signalPending' = FALSE
        /\ hand' = r /\ gui' = "deadline"
        /\ UNCHANGED <<handlerVars, requestVars, deferredRequests, requestsByOwner, swept,
                       accepting, timedOutRequest, outstandingRequests, timers, owedWakes,
                       documentVars, historyVars>>
    BY <1>1 DEF DrainTakes, MayDrain
  <2> QED BY <2>2, <2>3
<1>2. CASE DrainFindsNothing
  <2>1. /\ wakes' \in Nat /\ signalPending' = FALSE
        /\ UNCHANGED <<handlerVars, requestVars, requests, deferredRequests,
                       requestsByOwner, swept, accepting, timedOutRequest,
                       outstandingRequests, gui, hand, timers, owedWakes, documentVars,
                       historyVars>>
    BY <1>2 DEF DrainFindsNothing
  <2> QED BY <2>1
<1>3. CASE NestedDrain  BY <1>3 DEF NestedDrain
<1> QED BY <1>1, <1>2, <1>3 DEF Drain

\* The GUI thread up to the start of the callable.
LEMMA BeforeStartShape ==
    ASSUME ConstantsAssumption, Shape,
           \/ ExpireInHand \/ ExpiryDone \/ DeadlineHolds \/ SampleBusy \/ SampleFree
           \/ RequeueBusy \/ ProbeDefers \/ ProbeClears \/ ProbeRaises
           \/ ProbeFailureDone \/ DeferInHand
    PROVE  Shape'
<1> USE DEF Shape, TypeOK, HandOK, GuiStates, GuiAt, RequestStates, Outcomes,
            handlerVars, requestVars, queueVars, coreVars, guiVars, documentVars, historyVars
<1>1. CASE ExpireInHand  BY <1>1 DEF ExpireInHand
<1>2. CASE ExpiryDone  BY <1>2 DEF ExpiryDone, Drained
<1>3. CASE DeadlineHolds  BY <1>3 DEF DeadlineHolds
<1>4. CASE SampleBusy  BY <1>4 DEF SampleBusy
<1>5. CASE SampleFree  BY <1>5 DEF SampleFree
<1>6. CASE RequeueBusy
  <2>1. /\ hand \in Requests /\ gui' = "idle" /\ hand' = NULL /\ wakes' = wakes
        /\ UNCHANGED <<handlerVars, requestVars, deferredRequests, accepting,
                       timedOutRequest, outstandingRequests, owedWakes, documentVars,
                       historyVars>>
    BY <1>6 DEF RequeueBusy, Drained
  <2>2. CASE state[hand] = "pending" /\ accepting
    <3>1. RequeueFirst \in Seq(Requests)
      <4>1. <<hand>> \in Seq(Requests) /\ requests \in Seq(Requests)  BY <2>1
      <4> QED BY <4>1, ConcatProperties DEF RequeueFirst
    <3>2. /\ requests' = RequeueFirst /\ signalPending' = TRUE /\ timers' = timers + 1
          /\ UNCHANGED <<requestsByOwner, swept>>
      BY <1>6, <2>2 DEF RequeueBusy
    <3>3. /\ requests' \in Seq(Requests) /\ signalPending' \in BOOLEAN /\ timers' \in Nat
          /\ UNCHANGED <<requestsByOwner, swept>>
      BY <3>1, <3>2
    <3> QED BY <2>1, <3>3
  <2>3. CASE ~(state[hand] = "pending" /\ accepting)
    <3>1. AbandonInHand /\ UNCHANGED <<requests, signalPending, timers>>
      BY <1>6, <2>3 DEF RequeueBusy
    <3> QED BY <2>1, <3>1, ForgetType DEF AbandonInHand
  <2> QED BY <2>2, <2>3
<1>7. CASE ProbeDefers  BY <1>7 DEF ProbeDefers
<1>8. CASE ProbeClears  BY <1>8 DEF ProbeClears
<1>9. CASE ProbeRaises  BY ZenonT(40), <1>9 DEF ProbeRaises
<1>10. CASE ProbeFailureDone
  <2>1. HasRunnable(requests, deferredRequests) \in BOOLEAN  BY DEF HasRunnable
  <2>2. signalPending' \in BOOLEAN /\ owedWakes' \in Nat
    BY <1>10, <2>1 DEF ProbeFailureDone, SignalMore
  <2> QED BY <1>10, <2>2 DEF ProbeFailureDone, Drained
<1>11. CASE DeferInHand
  <2>1. /\ hand \in Requests /\ gui' = "idle" /\ hand' = NULL /\ wakes' = wakes
        /\ UNCHANGED <<handlerVars, outcome, completion, settling, notified, expired,
                   released, requests, accepting, timedOutRequest, outstandingRequests,
                   timers, documentVars, ran, arrived>>
    BY <1>11 DEF DeferInHand, Drained
  <2>2. CASE accepting /\ state[hand] = "pending"
    <3>1. /\ state' = [state EXCEPT ![hand] = "deferred"]
          /\ deferredRequests' = deferredRequests \cup {hand}
          /\ everDeferred' = everDeferred \cup {hand}
          /\ SignalMore(\E i \in DOMAIN requests :
                            /\ Unblocked(requests[i], deferredRequests)
                            /\ keysOf[requests[i]] \cap keysOf[hand] = {}, TRUE)
          /\ UNCHANGED <<requestsByOwner, swept>>
      BY <1>11, <2>2 DEF DeferInHand
    <3>2. IsFiniteSet(deferredRequests')  BY <3>1, FS_AddElement
    <3>3. signalPending' \in BOOLEAN /\ owedWakes' \in Nat  BY <3>1 DEF SignalMore
    <3> QED BY <2>1, <3>1, <3>2, <3>3
  <2>3. CASE ~(accepting /\ state[hand] = "pending")
    <3>1. /\ AbandonInHand
          /\ SignalMore(HasRunnable(requests, deferredRequests), TRUE)
          /\ UNCHANGED <<state, deferredRequests, everDeferred>>
      BY <1>11, <2>3 DEF DeferInHand
    <3>2. signalPending' \in BOOLEAN /\ owedWakes' \in Nat
      BY <3>1 DEF SignalMore, HasRunnable
    <3> QED BY <2>1, <3>1, <3>2, ForgetType DEF AbandonInHand
  <2> QED BY <2>2, <2>3
<1> QED BY <1>1, <1>2, <1>3, <1>4, <1>5, <1>6, <1>7, <1>8, <1>9, <1>10, <1>11

\* The GUI thread from the start of the callable.
LEMMA RunShape ==
    ASSUME ConstantsAssumption, Shape,
           \/ StartInHand \/ StartRefused \/ (\E ok \in BOOLEAN : CompleteRunning(ok))
           \/ RunSettled \/ GuiRelease \/ RunFinally
    PROVE  Shape'
<1> USE DEF Shape, TypeOK, HandOK, GuiStates, GuiAt, RequestStates, Outcomes,
            handlerVars, requestVars, queueVars, coreVars, guiVars, documentVars, historyVars
<1>1. CASE StartInHand  BY <1>1 DEF StartInHand
<1>2. CASE StartRefused  BY <1>2, ForgetType DEF StartRefused, Drained, AbandonInHand
<1>3. ASSUME NEW ok \in BOOLEAN, CompleteRunning(ok)  PROVE Shape'
  BY <1>3 DEF CompleteRunning
<1>4. CASE RunSettled  BY <1>4 DEF RunSettled
<1>5. CASE GuiRelease  BY <1>5 DEF GuiRelease, LowerOutstanding
<1>6. CASE RunFinally
  <2>1. (requests # <<>>) \in BOOLEAN  OBVIOUS
  <2>2. signalPending' \in BOOLEAN /\ owedWakes' \in Nat
    BY <1>6, <2>1 DEF RunFinally, SignalMore
  <2>3. timedOutRequest' \in Requests \cup {NULL}  BY <1>6 DEF RunFinally
  <2>4. /\ gui' = "idle" /\ hand' = NULL /\ wakes' = wakes
        /\ requestsByOwner' = Forget({hand})
        /\ UNCHANGED <<handlerVars, requestVars, requests, deferredRequests, swept,
                       accepting, outstandingRequests, timers, documentVars, historyVars>>
    BY <1>6 DEF RunFinally, Drained
  <2> QED BY <2>2, <2>3, <2>4, ForgetType
<1> QED BY <1>1, <1>2, <1>3, <1>4, <1>5, <1>6

\* The initial state is well formed.
LEMMA ShapeInit == ASSUME ConstantsAssumption, Init PROVE Shape
  BY FS_EmptySet, EmptySeq
  DEF Init, Shape, TypeOK, HandOK, HandlerStates, Results, RequestStates, Outcomes, GuiStates

\* The shape is inductive.
LEMMA ShapeNext == ASSUME ConstantsAssumption, Shape, [Next]_vars PROVE Shape'
<1>1. CASE \E r \in Requests : Handler(r)  BY <1>1, HandlerShape
<1>2. CASE \/ \E r \in Requests : Settle(r) \/ CancelSwept(r) \/ Tick(r)
           \/ \E k \in Owners : CancelRequest(k)
           \/ StopAccepting
  BY <1>2, EndingShape
<1>3. CASE \/ PostOwedWake \/ TimerFires
           \/ \E d \in Docs : NotifyStable(d) \/ NotifyDeleted(d) \/ DocumentChanges(d)
  BY <1>3, EventShape
<1>4. CASE Gui
  BY <1>4, DrainShape, BeforeStartShape, RunShape DEF Gui, InHand
<1>5. CASE UNCHANGED vars
  BY <1>5 DEF vars, Shape, TypeOK, HandOK, handlerVars, requestVars, queueVars, coreVars,
              guiVars, documentVars, historyVars
<1> QED BY <1>1, <1>2, <1>3, <1>4, <1>5 DEF Next, Environment, EventLoop

-----------------------------------------------------------------------------
(* The life of a request.                                                   *)

\* What some structure of the core or some thread of it still refers to.
Known ==
    Range(requests) \cup deferredRequests \cup swept \cup {hand} \cup Range(requestsByOwner)

\* A request that has not been admitted, or never will be.
Fresh(r) == pc[r] \in {"idle", "admit"} \/ result[r] \in RefusedAnswers

\* Nothing can happen to the callable of a fresh request.
FreshIsUntouched ==
    \A r \in Requests : Fresh(r) => r \notin Known /\ state[r] = "pending"

ResultIsLast ==
    \A r \in Requests : result[r] # "none" => pc[r] \in {"release", "returned"}

\* Executions are those the state accounts for.
RanAgrees ==
    \A r \in Requests :
        /\ ran[r] <= 1
        /\ state[r] \in Waiting \cup {"cancelled", "timed_out_pending"} => ran[r] = 0
        /\ state[r] \in Occupying => ran[r] = 1

\* The request in execution is the one drain_one is running.
RunningInHand ==
    \A r \in Requests : state[r] \in Occupying <=> gui = "run" /\ hand = r

OutcomeAgrees ==
    \A r \in Requests :
        /\ outcome[r] = "unexecuted" => state[r] \in {"cancelled", "timed_out_pending"}
        /\ outcome[r] \in {"ok", "late_ok"} => ran[r] = 1

AnswerAgrees ==
    \A r \in Requests :
        /\ pc[r] = "cleanup" => state[r] = "cancelled"
        /\ pc[r] = "quarantine" => ran[r] = 1
        /\ result[r] = "timeout_before" => state[r] \in {"cancelled", "timed_out_pending"}
        /\ result[r] \in {"value", "timeout_during"} => ran[r] = 1

Life ==
    /\ FreshIsUntouched
    /\ ResultIsLast
    /\ RanAgrees
    /\ RunningInHand
    /\ OutcomeAgrees
    /\ AnswerAgrees

\* Putting a request at either end of a queue adds it and nothing else.
LEMMA RangeOneMore ==
    ASSUME NEW queue \in Seq(Requests), NEW r \in Requests
    PROVE  /\ Range(queue \o <<r>>) = Range(queue) \cup {r}
           /\ Range(<<r>> \o queue) = Range(queue) \cup {r}
<1> DEFINE one == <<r>>
<1>1. DOMAIN one = {1} /\ one[1] = r /\ one \in Seq(Requests)  OBVIOUS
<1> HIDE DEF one
<1>2. Range(one) = {r}  BY <1>1 DEF Range
<1>3. /\ Range(queue \o one) = Range(queue) \cup Range(one)
      /\ Range(one \o queue) = Range(one) \cup Range(queue)
  BY <1>1, RangeConcatenation
<1> QED BY <1>2, <1>3 DEF one

\* Dropping owner keys refers to no new request.
LEMMA ForgetKnown ==
    ASSUME TypeOK, NEW S
    PROVE  Range(Forget(S)) \subseteq Range(requestsByOwner) \cup {NULL}
<1>1. DOMAIN requestsByOwner = Owners /\ DOMAIN Forget(S) = Owners  BY DEF TypeOK, Forget
<1>2. \A k \in Owners : Forget(S)[k] \in {NULL, requestsByOwner[k]}  BY DEF Forget
<1> QED BY <1>1, <1>2 DEF Range

\* A waiting request is referred to by the core.
LEMMA AllWaitingKnown == ASSUME TypeOK PROVE AllWaiting \subseteq Known
  BY DEF AllWaiting, Known, InQueue, Range, TypeOK

\* The critical sections that wake or sweep make nothing known.
LEMMA SweepAllKnown ==
    ASSUME Shape, SweepAll, hand' \in {NULL, hand}
    PROVE  Known' \subseteq Known \cup {NULL}
<1>1. requests' = <<>> /\ Range(<<>>) = {}  BY DEF SweepAll, Range
<1> QED BY <1>1, ForgetKnown, AllWaitingKnown DEF SweepAll, Known, Shape

\* A wake refers to no new request.
LEMMA RequestWakeKnown ==
    ASSUME Shape, RequestWake, hand' = hand
    PROVE  Known' \subseteq Known \cup {NULL}
  BY SweepAllKnown DEF RequestWake, FailPendingWakes, Known, queueVars

\* A removal refers to no new request.
LEMMA RemovePendingKnown ==
    ASSUME Shape, NEW r, RemovePending(r), hand' = hand
    PROVE  Known' \subseteq Known \cup {NULL}
<1>1. Range(requests') \subseteq Range(requests)
  BY WithoutSeq DEF RemovePending, Shape, TypeOK
<1> QED BY <1>1, ForgetKnown DEF RemovePending, Known, Shape

\* A request becomes known to the core in _enqueue and nowhere else.
LEMMA KnownNext ==
    ASSUME ConstantsAssumption, Shape, [Next]_vars, NEW q \in Requests, q \in Known'
    PROVE  q \in Known \/ Enqueue(q)
<1> USE DEF handlerVars, requestVars, queueVars, coreVars, guiVars, documentVars, historyVars
<1>0. q # NULL  BY DEF ConstantsAssumption
<1>1. CASE UNCHANGED <<queueVars, hand>>  BY <1>1 DEF Known
<1>2. ASSUME NEW r \in Requests, Handler(r)  PROVE q \in Known \/ Enqueue(q)
  <2>1. CASE Enqueue(r)
    <3>1. Range(requests') = Range(requests) \cup {r}
      <4>1. requests \in Seq(Requests)  BY DEF Shape, TypeOK
      <4>2. requests' = requests \o <<r>>  BY <2>1, <4>1, AppendIsConcat DEF Enqueue
      <4> QED BY <4>1, <4>2, RangeOneMore
    <3>2. Range(requestsByOwner') \subseteq Range(requestsByOwner) \cup {r}
      BY <2>1 DEF Enqueue, Range, Shape, TypeOK
    <3>3. UNCHANGED <<deferredRequests, swept, hand>>  BY <2>1 DEF Enqueue
    <3> QED BY <2>1, <3>1, <3>2, <3>3 DEF Known
  <2>2. CASE WakeForSubmit(r)
    <3>1. RequestWake /\ hand' = hand  BY <2>2 DEF WakeForSubmit
    <3> QED BY <1>0, <3>1, RequestWakeKnown
  <2>3. CASE QuarantineRunning(r)
    <3>1. SweepAll /\ hand' = hand  BY <2>3 DEF QuarantineRunning
    <3> QED BY <1>0, <3>1, SweepAllKnown
  <2>4. CASE ~(Enqueue(r) \/ WakeForSubmit(r) \/ QuarantineRunning(r))
    <3>1. UNCHANGED <<queueVars, hand>>
      BY <1>2, <2>4
      DEF Handler, Proceed, Admission, HandleTimeout, Submit, SubmitInline, RefuseStopping,
          RefuseQuarantined, RefuseDuplicate, WaitReturns, WaitExpires, CancelOnTimeout,
          TimeoutAlreadyExpired, MarkTimedOut, TimeoutOvertaken, CleanupDone,
          OvertakenReturns, HandlerRelease
    <3> QED BY <1>1, <3>1
  <2> QED BY <2>1, <2>2, <2>3, <2>4
<1>3. ASSUME NEW r \in Requests, Settle(r)  PROVE q \in Known
  <2>1. CASE settling[r] = "remove"
    <3>1. RemovePending(r) /\ hand' = hand  BY <1>3, <2>1 DEF Settle
    <3> QED BY <1>0, <3>1, RemovePendingKnown
  <2>2. CASE settling[r] # "remove"
    BY <1>0, <1>3, <2>2, ForgetKnown DEF Settle, ForgetAfterExecution, Known, Shape
  <2> QED BY <2>1, <2>2
<1>4. ASSUME NEW r \in Requests, CancelSwept(r)  PROVE q \in Known
  BY <1>4 DEF CancelSwept, Known
<1>5. ASSUME NEW r \in Requests, Tick(r)  PROVE q \in Known
  BY <1>5 DEF Tick, Known
<1>6. ASSUME NEW k \in Owners, CancelRequest(k)  PROVE q \in Known
  <2> DEFINE r == requestsByOwner[k]
  <2>1. CASE RemovePending(r)
    <3>1. hand' = hand  BY <1>6 DEF CancelRequest
    <3> QED BY <1>0, <2>1, <3>1, RemovePendingKnown
  <2>2. CASE ~RemovePending(r)
    BY <1>0, <1>6, <2>2, ForgetKnown DEF CancelRequest, Known, Shape
  <2> QED BY <2>1, <2>2
<1>7. CASE StopAccepting
  BY <1>0, <1>7, SweepAllKnown DEF StopAccepting
<1>8. CASE PostOwedWake \/ TimerFires
  <2>1. RequestWake /\ hand' = hand  BY <1>8 DEF PostOwedWake, TimerFires
  <2> QED BY <1>0, <2>1, RequestWakeKnown
<1>9. ASSUME NEW d \in Docs, NotifyStable(d)  PROVE q \in Known
  <2> DEFINE promoted == {r \in deferredRequests : d \in keysOf[r] /\ state[r] = "deferred"}
  <2>1. promoted \in SUBSET Requests /\ IsFiniteSet(promoted)
    BY FS_Subset DEF Shape, TypeOK
  <2>2. PICK front \in Orderings(promoted) : requests' = front \o requests
    BY <1>9 DEF NotifyStable, PromoteFirst
  <2>3. front \in Seq(Requests) /\ Range(front) \subseteq promoted
    BY <2>1, <2>2, OrderingsSeq
  <2>4. requests \in Seq(Requests)  BY DEF Shape, TypeOK
  <2>5. Range(requests') = Range(front) \cup Range(requests)
    BY <2>2, <2>3, <2>4, RangeConcatenation
  <2>6. deferredRequests' \subseteq deferredRequests /\ promoted \subseteq deferredRequests
        /\ UNCHANGED <<requestsByOwner, swept, hand>>
    BY <1>9 DEF NotifyStable
  <2> HIDE DEF promoted
  <2> QED BY <2>3, <2>5, <2>6 DEF Known
<1>10. ASSUME NEW d \in Docs, NotifyDeleted(d)  PROVE q \in Known
  <2> DEFINE closed == {r \in AllWaiting : d \in keysOf[r]}
  <2>1. PICK queue \in Retained(d) :
           /\ requests' = queue
           /\ deferredRequests' = deferredRequests \ closed
           /\ requestsByOwner' = Forget(closed)
           /\ swept' = swept \cup closed
    BY <1>10 DEF NotifyDeleted
  <2>2. closed \subseteq Known  BY AllWaitingKnown DEF Shape
  <2>3. Range(queue) \subseteq Range(requests)  BY RetainedSeq DEF Shape, TypeOK
  <2>4. hand' = hand  BY <1>10 DEF NotifyDeleted
  <2> HIDE DEF closed
  <2>5. Range(Forget(closed)) \subseteq Range(requestsByOwner) \cup {NULL}
    BY ForgetKnown DEF Shape
  <2> QED BY <1>0, <2>1, <2>2, <2>3, <2>4, <2>5 DEF Known
<1>11. ASSUME NEW d \in Docs, DocumentChanges(d)  PROVE q \in Known
  BY <1>11 DEF DocumentChanges, Known
<1>12. ASSUME NEW r \in Requests, DrainTakes(r)  PROVE q \in Known
  <2>1. PICK i \in DOMAIN requests :
           /\ requests[i] = r
           /\ requests' = SubSeq(requests, i + 1, Len(requests)) \o SubSeq(requests, 1, i - 1)
    BY <1>12 DEF DrainTakes, Take
  <2>2. Range(requests') \subseteq Range(requests)
    BY <2>1, Rotation DEF Shape, TypeOK
  <2>3. r \in Range(requests)  BY <2>1 DEF Range
  <2>4. hand' = r /\ UNCHANGED <<deferredRequests, requestsByOwner, swept>>
    BY <1>12 DEF DrainTakes
  <2> QED BY <2>2, <2>3, <2>4 DEF Known
<1>13. CASE RequeueBusy
  <2>1. hand' = NULL /\ UNCHANGED deferredRequests  BY <1>13 DEF RequeueBusy, Drained
  <2>2. hand \in Requests  BY <1>13 DEF RequeueBusy, Drained, Shape, TypeOK, HandOK
  <2>3. CASE state[hand] = "pending" /\ accepting
    <3>1. requests \in Seq(Requests)  BY DEF Shape, TypeOK
    <3>3. requests' = <<hand>> \o requests /\ UNCHANGED <<requestsByOwner, swept>>
      BY <1>13, <2>3 DEF RequeueBusy, RequeueFirst
    <3>4. Range(requests') = Range(requests) \cup {hand}
      BY <2>2, <3>1, <3>3, RangeOneMore
    <3> QED BY <1>0, <2>1, <3>3, <3>4 DEF Known
  <2>4. CASE ~(state[hand] = "pending" /\ accepting)
    BY <1>0, <1>13, <2>1, <2>4, ForgetKnown DEF RequeueBusy, AbandonInHand, Known, Shape
  <2> QED BY <2>3, <2>4
<1>14. CASE DeferInHand
  BY <1>0, <1>14, ForgetKnown DEF DeferInHand, Drained, AbandonInHand, Known, Shape
<1>15. CASE StartRefused \/ RunFinally
  BY <1>0, <1>15, ForgetKnown DEF StartRefused, RunFinally, Drained, AbandonInHand, Known, Shape
<1>16. CASE ExpiryDone \/ ProbeFailureDone
  BY <1>0, <1>16 DEF ExpiryDone, ProbeFailureDone, Drained, Known
<1>17. CASE \/ DrainFindsNothing \/ NestedDrain \/ ExpireInHand \/ DeadlineHolds
            \/ SampleBusy \/ SampleFree \/ ProbeDefers \/ ProbeClears \/ ProbeRaises
            \/ StartInHand \/ (\E ok \in BOOLEAN : CompleteRunning(ok)) \/ RunSettled
            \/ GuiRelease
  BY <1>17
  DEF DrainFindsNothing, NestedDrain, ExpireInHand, DeadlineHolds, SampleBusy, SampleFree,
      ProbeDefers, ProbeClears, ProbeRaises, StartInHand, CompleteRunning, RunSettled,
      GuiRelease, Known
<1>18. CASE UNCHANGED vars  BY <1>1, <1>18 DEF vars
<1> QED BY <1>2, <1>3, <1>4, <1>5, <1>6, <1>7, <1>8, <1>9, <1>10, <1>11, <1>12, <1>13,
           <1>14, <1>15, <1>16, <1>17, <1>18
        DEF Next, Gui, Drain, InHand, EventLoop, Environment

\* The ranges that the life of a request is stated over.
LEMMA LifeTypes ==
    ASSUME Shape
    PROVE  /\ state \in [Requests -> RequestStates] /\ outcome \in [Requests -> Outcomes]
           /\ ran \in [Requests -> Nat] /\ result \in [Requests -> Results]
           /\ pc \in [Requests -> HandlerStates] /\ gui \in GuiStates
           /\ deferredRequests \subseteq Requests
           /\ gui # "idle" => hand \in Requests
  BY DEF Shape, TypeOK, HandOK

\* How a request ended is never revised, and executions only add up.
Final ==
    \A r \in Requests :
        /\ state[r] \in Terminal => state'[r] = state[r] /\ outcome'[r] = outcome[r]
        /\ ran[r] <= ran'[r]

\* Executions, the GUI thread's hand and the outcomes keep agreeing, and an end is final.
LEMMA ExecutionNext ==
    ASSUME ConstantsAssumption, Shape, Life, [Next]_vars
    PROVE  RanAgrees' /\ RunningInHand' /\ OutcomeAgrees' /\ Final
<1> USE DEF handlerVars, requestVars, queueVars, coreVars, guiVars, documentVars, historyVars,
            Waiting, Occupying, Terminal
<1> DEFINE Execution == RanAgrees' /\ RunningInHand' /\ OutcomeAgrees' /\ Final
<1>t. /\ state \in [Requests -> RequestStates] /\ outcome \in [Requests -> Outcomes]
      /\ ran \in [Requests -> Nat] /\ gui \in GuiStates
      /\ gui # "idle" => hand \in Requests
  BY LifeTypes
<1>i. RanAgrees /\ RunningInHand /\ OutcomeAgrees  BY DEF Life
<1>1. CASE UNCHANGED <<state, outcome, ran>> /\ (UNCHANGED <<gui, hand>> \/ {gui, gui'} \subseteq GuiStates \ {"run"})
  BY <1>t, <1>i, <1>1 DEF RanAgrees, RunningInHand, OutcomeAgrees, Final
<1>2. ASSUME NEW r \in Requests, SubmitInline(r)  PROVE Execution
  <2>1. state[r] = "pending" /\ hand # r /\ ran[r] = 0
    BY <1>2, <1>i DEF SubmitInline, Life, FreshIsUntouched, Fresh, Known, RanAgrees
  <2>2. UNCHANGED <<gui, hand>>  BY <1>2 DEF SubmitInline
  <2>3. CASE UNCHANGED <<state, outcome, ran>>  BY <1>1, <2>2, <2>3
  <2>4. CASE state' # state \/ outcome' # outcome \/ ran' # ran
    <3>1. PICK how \in {"ok", "error"} : outcome' = [outcome EXCEPT ![r] = how]
      BY <1>2, <2>4 DEF SubmitInline
    <3>2. /\ state' = [state EXCEPT ![r] = "completed"]
          /\ ran' = [ran EXCEPT ![r] = @ + 1]
      BY <1>2, <2>4 DEF SubmitInline
    <3> QED BY <1>t, <1>i, <2>1, <2>2, <3>1, <3>2
            DEF RanAgrees, RunningInHand, OutcomeAgrees, Final
  <2> QED BY <2>3, <2>4
<1>3. ASSUME NEW r \in Requests, CancelIfPending(r), UNCHANGED <<ran, gui, hand>>
      PROVE  Execution
  BY <1>t, <1>i, <1>3 DEF CancelIfPending, RanAgrees, RunningInHand, OutcomeAgrees, Final
<1>4. ASSUME NEW r \in Requests, MarkTimedOut(r)  PROVE Execution
  <2>1. UNCHANGED <<outcome, ran, gui, hand>>  BY <1>4 DEF MarkTimedOut
  <2>2. state[r] = "running" /\ state' = [state EXCEPT ![r] = "timed_out_running"]
    BY <1>4 DEF MarkTimedOut, TimesOutRunning
  <2> QED BY <1>t, <1>i, <2>1, <2>2 DEF RanAgrees, RunningInHand, OutcomeAgrees, Final
<1>5. CASE ExpireInHand
  <2>1. /\ gui = "deadline" /\ gui' = "expiring" /\ UNCHANGED <<hand, ran>>
        /\ state[hand] \in Waiting
        /\ state' = [state EXCEPT ![hand] = "timed_out_pending"]
        /\ outcome' = [outcome EXCEPT ![hand] = "unexecuted"]
    BY <1>5 DEF ExpireInHand, GuiAt
  <2> QED BY <1>t, <1>i, <2>1 DEF RanAgrees, RunningInHand, OutcomeAgrees, Final
<1>6. CASE ProbeRaises
  <2>1. gui = "probe" /\ gui' = "failed" /\ UNCHANGED <<hand, ran>>
    BY <1>6 DEF ProbeRaises, GuiAt
  <2>2. CASE Completes(hand)
    <3>1. /\ state[hand] \notin Terminal
          /\ state' = [state EXCEPT ![hand] = "completed"]
          /\ outcome' = [outcome EXCEPT ![hand] = "error"]
      BY <1>6, <2>2 DEF ProbeRaises, Completes
    <3> QED BY <1>t, <1>i, <2>1, <3>1 DEF RanAgrees, RunningInHand, OutcomeAgrees, Final
  <2>3. CASE ~Completes(hand)
    <3>1. UNCHANGED <<state, outcome>>  BY <1>6, <2>3 DEF ProbeRaises
    <3> QED BY <1>1, <2>1, <3>1 DEF GuiStates
  <2> QED BY <2>2, <2>3
<1>7. CASE DeferInHand
  <2>1. gui = "defer" /\ gui' = "idle" /\ hand' = NULL /\ UNCHANGED <<outcome, ran>>
    BY <1>7 DEF DeferInHand, Drained
  <2>2. CASE UNCHANGED state  BY <1>1, <2>1, <2>2 DEF GuiStates
  <2>3. CASE state' # state
    <3>1. state[hand] = "pending" /\ state' = [state EXCEPT ![hand] = "deferred"]
      BY <1>7, <2>3 DEF DeferInHand
    <3> QED BY <1>t, <1>i, <2>1, <3>1 DEF RanAgrees, RunningInHand, OutcomeAgrees, Final
  <2> QED BY <2>2, <2>3
<1>8. CASE StartInHand
  <2>1. /\ gui = "start" /\ gui' = "run" /\ UNCHANGED <<hand, outcome>>
        /\ state[hand] = "pending" /\ state' = [state EXCEPT ![hand] = "running"]
        /\ ran' = [ran EXCEPT ![hand] = @ + 1]
    BY <1>8 DEF StartInHand, GuiAt, MayStart
  <2> QED BY <1>t, <1>i, <2>1 DEF RanAgrees, RunningInHand, OutcomeAgrees, Final
<1>9. ASSUME NEW ok \in BOOLEAN, CompleteRunning(ok)  PROVE Execution
  <2>1. /\ gui = "run" /\ gui' = "completing" /\ UNCHANGED <<hand, ran>>
        /\ state' = [state EXCEPT ![hand] = "completed"]
    BY <1>9 DEF CompleteRunning, GuiAt
  <2>2. PICK how \in {"ok", "late_ok", "error", "late_error"} :
           outcome' = [outcome EXCEPT ![hand] = how]
    BY <1>9 DEF CompleteRunning
  <2> QED BY <1>t, <1>i, <2>1, <2>2 DEF RanAgrees, RunningInHand, OutcomeAgrees, Final
<1>10. ASSUME NEW d \in Docs, NotifyStable(d)  PROVE Execution
  <2>1. PICK promoted \in SUBSET Requests :
           /\ \A r \in promoted : state[r] = "deferred"
           /\ state' = [r \in Requests |-> IF r \in promoted THEN "pending" ELSE state[r]]
    BY <1>10, LifeTypes DEF NotifyStable
  <2>2. UNCHANGED <<outcome, ran, gui, hand>>  BY <1>10 DEF NotifyStable
  <2> QED BY <1>t, <1>i, <2>1, <2>2 DEF RanAgrees, RunningInHand, OutcomeAgrees, Final
<1>11. ASSUME NEW r \in Requests, Handler(r)  PROVE Execution
  <2>1. CASE CancelOnTimeout(r)  BY <1>3, <2>1 DEF CancelOnTimeout
  <2>2. CASE SubmitInline(r) \/ MarkTimedOut(r)  BY <1>2, <1>4, <2>2
  <2>3. CASE ~(CancelOnTimeout(r) \/ SubmitInline(r) \/ MarkTimedOut(r))
    <3>1. UNCHANGED <<state, outcome, ran, gui, hand>>
      BY <1>11, <2>3
      DEF Handler, Proceed, Admission, HandleTimeout, Submit, RefuseStopping, Enqueue,
          WakeForSubmit, QuarantineRunning, RefuseQuarantined, RefuseDuplicate, WaitReturns,
          WaitExpires, TimeoutAlreadyExpired, TimeoutOvertaken, CleanupDone,
          OvertakenReturns, HandlerRelease
    <3> QED BY <1>1, <3>1
  <2> QED BY <2>1, <2>2, <2>3
<1>12. ASSUME NEW r \in Requests, Settle(r) \/ CancelSwept(r) \/ Tick(r)  PROVE Execution
  <2>1. CASE Settle(r) \/ Tick(r)  BY <1>1, <2>1 DEF Settle, Tick
  <2>2. CASE CancelSwept(r)  BY <1>1, <1>3, <2>2 DEF CancelSwept
  <2> QED BY <1>12, <2>1, <2>2
<1>13. ASSUME NEW k \in Owners, CancelRequest(k)  PROVE Execution
  <2>1. requestsByOwner[k] \in Requests
    BY <1>13 DEF CancelRequest, Shape, TypeOK
  <2> QED BY <1>1, <1>3, <1>13, <2>1 DEF CancelRequest
<1>14. CASE \/ StopAccepting \/ PostOwedWake \/ TimerFires \/ NestedDrain
            \/ (\E d \in Docs : DocumentChanges(d) \/ NotifyDeleted(d)) \/ UNCHANGED vars
  <2>1. UNCHANGED <<state, outcome, ran, gui, hand>>
    BY <1>14 DEF StopAccepting, PostOwedWake, TimerFires, NestedDrain, DocumentChanges,
                 NotifyDeleted, vars
  <2> QED BY <1>1, <2>1
<1>15. CASE \/ (\E r \in Requests : DrainTakes(r)) \/ DrainFindsNothing
            \/ ExpiryDone \/ DeadlineHolds \/ SampleBusy \/ SampleFree \/ RequeueBusy
            \/ ProbeDefers \/ ProbeClears \/ ProbeFailureDone \/ StartRefused \/ RunSettled
            \/ GuiRelease \/ RunFinally
  <2>1. UNCHANGED <<state, outcome, ran>>
    BY <1>15 DEF DrainTakes, DrainFindsNothing, ExpiryDone, DeadlineHolds, SampleBusy,
                 SampleFree, RequeueBusy, ProbeDefers, ProbeClears, ProbeFailureDone,
                 StartRefused, RunSettled, GuiRelease, RunFinally
  <2>2. {gui, gui'} \subseteq GuiStates \ {"run"}
    BY <1>15 DEF DrainTakes, DrainFindsNothing, ExpiryDone, DeadlineHolds, SampleBusy,
                 SampleFree, RequeueBusy, ProbeDefers, ProbeClears, ProbeFailureDone,
                 StartRefused, RunSettled, GuiRelease, RunFinally, GuiAt, Drained,
                 MayDrain, GuiStates
  <2> QED BY <1>1, <2>1, <2>2
<1> QED BY <1>5, <1>6, <1>7, <1>8, <1>9, <1>10, <1>11, <1>12, <1>13, <1>14, <1>15
        DEF Next, Gui, Drain, InHand, EventLoop, Environment

\* What a handler has been told stays true of the request.
LEMMA AnswerNext ==
    ASSUME ConstantsAssumption, Shape, Life, [Next]_vars
    PROVE  ResultIsLast' /\ AnswerAgrees'
<1> USE DEF handlerVars, requestVars, queueVars, coreVars, guiVars, documentVars, historyVars,
            Waiting, Occupying, Terminal
<1> DEFINE Answers == ResultIsLast' /\ AnswerAgrees'
<1>t. /\ state \in [Requests -> RequestStates] /\ outcome \in [Requests -> Outcomes]
      /\ ran \in [Requests -> Nat] /\ ran' \in [Requests -> Nat]
      /\ result \in [Requests -> Results] /\ pc \in [Requests -> HandlerStates]
  BY LifeTypes, ShapeNext DEF Shape, TypeOK
<1>i. ResultIsLast /\ AnswerAgrees /\ RanAgrees /\ RunningInHand /\ OutcomeAgrees  BY DEF Life
<1>n. RanAgrees' /\ OutcomeAgrees' /\ Final  BY ExecutionNext
<1>f. \A r \in Requests : /\ state[r] \in Terminal => state'[r] = state[r]
                          /\ ran[r] = 1 => ran'[r] = 1
  BY <1>t, <1>n DEF Final, RanAgrees
<1>1. CASE UNCHANGED <<pc, result>>
  BY <1>i, <1>f, <1>1 DEF ResultIsLast, AnswerAgrees
<1>2. ASSUME NEW r \in Requests, NEW at \in HandlerStates \ {"cleanup", "quarantine"},
             result[r] = "none", pc' = [pc EXCEPT ![r] = at], UNCHANGED result
      PROVE  Answers
  BY <1>t, <1>i, <1>f, <1>2 DEF ResultIsLast, AnswerAgrees
<1>3. ASSUME NEW r \in Requests, NEW res \in Results,
             NEW at \in {"release", "returned"},
             pc' = [pc EXCEPT ![r] = at], result' = [result EXCEPT ![r] = res],
             res = "timeout_before" => state[r] \in {"cancelled", "timed_out_pending"},
             res \in {"value", "timeout_during"} => ran'[r] = 1
      PROVE  Answers
  BY <1>t, <1>i, <1>f, <1>3 DEF ResultIsLast, AnswerAgrees
<1>4. ASSUME NEW r \in Requests, NEW res \in Results, NEW must, Leave(r, res, must),
             res = "timeout_before" => state[r] \in {"cancelled", "timed_out_pending"},
             res \in {"value", "timeout_during"} => ran[r] = 1
      PROVE  Answers
  <2>1. PICK at \in {"release", "returned"} : pc' = [pc EXCEPT ![r] = at]
    BY <1>4 DEF Leave
  <2>2. result' = [result EXCEPT ![r] = res]  BY <1>4 DEF Leave
  <2> QED BY <1>3, <1>4, <1>f, <2>1, <2>2
<1>5. ASSUME NEW r \in Requests, Handler(r)  PROVE Answers
  <2>0. pc[r] \notin {"release", "returned"} => result[r] = "none"
    BY <1>i DEF ResultIsLast
  <2>1. CASE Submit(r) \/ Enqueue(r) \/ WaitExpires(r) \/ TimeoutOvertaken(r)
    <3>1. PICK at \in {"admit", "waiting", "wake", "timeout", "overtaken"} :
             pc' = [pc EXCEPT ![r] = at]
      BY <2>1 DEF Submit, Enqueue, WaitExpires, TimeoutOvertaken
    <3>2. pc[r] \notin {"release", "returned"} /\ UNCHANGED result
      BY <2>1 DEF Submit, Enqueue, WaitExpires, TimeoutOvertaken
    <3> QED BY <1>2, <2>0, <3>1, <3>2 DEF HandlerStates
  <2>2. CASE SubmitInline(r)
    <3>1. PICK res \in {"stopping", "readiness_refused", "value", "task_error"} :
             /\ result' = [result EXCEPT ![r] = res]
             /\ res = "value" => ran' = [ran EXCEPT ![r] = @ + 1]
      BY <2>2 DEF SubmitInline
    <3>2. state[r] = "pending" /\ ran[r] = 0
      BY <1>i, <2>2 DEF SubmitInline, Life, FreshIsUntouched, Fresh, RanAgrees
    <3>3. pc' = [pc EXCEPT ![r] = "returned"]  BY <2>2 DEF SubmitInline
    <3>4. res = "value" => ran'[r] = 1  BY <1>t, <3>1, <3>2
    <3>5. res \in Results /\ res \notin {"timeout_before", "timeout_during"}  BY DEF Results
    <3> HIDE DEF Answers
    <3> QED BY <1>3, <3>1, <3>3, <3>4, <3>5
  <2>3. CASE RefuseStopping(r) \/ RefuseQuarantined(r) \/ RefuseDuplicate(r)
    BY <1>4, <2>3 DEF RefuseStopping, RefuseQuarantined, RefuseDuplicate, Results
  <2>4. CASE WakeForSubmit(r)
    <3>1. CASE Leave(r, "wake_failed", state[r] \notin Occupying)
      BY <1>4, <3>1 DEF Results
    <3>2. CASE pc' = [pc EXCEPT ![r] = "waiting"] /\ UNCHANGED result
      BY <1>2, <2>0, <2>4, <3>2 DEF WakeForSubmit, HandlerStates
    <3> QED BY <2>4, <3>1, <3>2 DEF WakeForSubmit
  <2>5. CASE WaitReturns(r)
    <3>1. /\ Answer(r) \in Results
          /\ Answer(r) = "timeout_before" => state[r] = "timed_out_pending"
          /\ Answer(r) \in {"value", "timeout_during"} => outcome[r] \in {"ok", "late_ok"}
      BY DEF Answer, Results
    <3> QED BY <1>4, <1>i, <2>5, <3>1 DEF WaitReturns, OutcomeAgrees
  <2>6. CASE CancelOnTimeout(r)
    <3>1. /\ pc[r] = "timeout" /\ pc' = [pc EXCEPT ![r] = "cleanup"]
          /\ state' = [state EXCEPT ![r] = "cancelled"] /\ UNCHANGED result
      BY <2>6 DEF CancelOnTimeout, CancelIfPending
    <3> QED BY <1>t, <1>i, <1>f, <2>0, <3>1 DEF ResultIsLast, AnswerAgrees
  <2>7. CASE CleanupDone(r)
    BY <1>4, <1>i, <2>7 DEF CleanupDone, AnswerAgrees, Results
  <2>8. CASE TimeoutAlreadyExpired(r)
    BY <1>4, <2>8 DEF TimeoutAlreadyExpired, Results
  <2>9. CASE MarkTimedOut(r)
    <3>1. /\ pc[r] = "timeout" /\ pc' = [pc EXCEPT ![r] = "quarantine"]
          /\ state[r] = "running" /\ UNCHANGED <<result, ran>>
      BY <2>9 DEF MarkTimedOut, TimesOutRunning
    <3> QED BY <1>t, <1>i, <1>f, <2>0, <3>1 DEF ResultIsLast, AnswerAgrees, RanAgrees
  <2>10. CASE QuarantineRunning(r)
    BY <1>4, <1>i, <2>10 DEF QuarantineRunning, AnswerAgrees, Results
  <2>11. CASE OvertakenReturns(r)
    <3>1. PICK res \in {"value", "task_error"}, must \in BOOLEAN :
             /\ Leave(r, res, must)
             /\ res = "value" => outcome[r] \in {"ok", "late_ok"}
      BY <2>11 DEF OvertakenReturns
    <3> QED BY <1>4, <1>i, <3>1 DEF OutcomeAgrees, Results
  <2>12. CASE HandlerRelease(r)
    <3>1. pc[r] = "release" /\ pc' = [pc EXCEPT ![r] = "returned"] /\ UNCHANGED result
      BY <2>12 DEF HandlerRelease
    <3> QED BY <1>t, <1>i, <1>f, <3>1 DEF ResultIsLast, AnswerAgrees
  <2> QED BY <1>5, <2>1, <2>2, <2>3, <2>4, <2>5, <2>6, <2>7, <2>8, <2>9, <2>10, <2>11, <2>12
          DEF Handler, Proceed, Admission, HandleTimeout
<1>6. CASE ~\E r \in Requests : Handler(r)
  <2>1. UNCHANGED <<pc, result>>
    BY <1>6
    DEF Next, Gui, Drain, InHand, EventLoop, Environment, vars, Settle, CancelSwept, Tick,
        CancelRequest, StopAccepting, DocumentChanges, NotifyStable, NotifyDeleted,
        PostOwedWake, TimerFires, DrainTakes, DrainFindsNothing, NestedDrain, ExpireInHand,
        ExpiryDone, DeadlineHolds, SampleBusy, SampleFree, RequeueBusy, ProbeDefers,
        ProbeClears, ProbeRaises, ProbeFailureDone, DeferInHand, StartInHand, StartRefused,
        CompleteRunning, RunSettled, GuiRelease, RunFinally
  <2> QED BY <1>1, <2>1
<1> QED BY <1>5, <1>6

\* Only an execution, a cancel, an expiry or a deferral of a request that the
\* core or its own handler refers to changes the state of a request.
LEMMA StateNext ==
    ASSUME Shape, [Next]_vars, NEW q \in Requests, state'[q] # state[q]
    PROVE  q \in Known \/ pc[q] = "timeout" \/ SubmitInline(q)
<1> USE DEF handlerVars, requestVars, queueVars, coreVars, guiVars, documentVars, historyVars
<1>t. state \in [Requests -> RequestStates]  BY LifeTypes
<1>1. CASE UNCHANGED state  BY <1>1
<1>2. ASSUME NEW x, NEW new, state' = [state EXCEPT ![x] = new]  PROVE q = x
  BY <1>t, <1>2
<1>3. ASSUME NEW r \in Requests, Handler(r)
      PROVE  pc[q] = "timeout" \/ SubmitInline(q)
  <2>1. CASE CancelOnTimeout(r) \/ MarkTimedOut(r)
    <3>1. pc[r] = "timeout" /\ \E new : state' = [state EXCEPT ![r] = new]
      BY <2>1 DEF CancelOnTimeout, CancelIfPending, MarkTimedOut
    <3> QED BY <1>2, <3>1
  <2>2. CASE SubmitInline(r)
    <3>1. UNCHANGED state \/ state' = [state EXCEPT ![r] = "completed"]
      BY <2>2 DEF SubmitInline
    <3> QED BY <1>2, <2>2, <3>1
  <2>3. CASE ~(CancelOnTimeout(r) \/ SubmitInline(r) \/ MarkTimedOut(r))
    <3>1. UNCHANGED state
      BY <1>3, <2>3
      DEF Handler, Proceed, Admission, HandleTimeout, Submit, RefuseStopping, Enqueue,
          WakeForSubmit, QuarantineRunning, RefuseQuarantined, RefuseDuplicate, WaitReturns,
          WaitExpires, TimeoutAlreadyExpired, TimeoutOvertaken, CleanupDone,
          OvertakenReturns, HandlerRelease
    <3> QED BY <1>1, <3>1
  <2> QED BY <2>1, <2>2, <2>3
<1>4. ASSUME NEW r \in Requests, CancelSwept(r)  PROVE q \in Known
  <2>1. r \in Known  BY <1>4 DEF CancelSwept, Known
  <2>2. UNCHANGED state \/ state' = [state EXCEPT ![r] = "cancelled"]
    BY <1>4 DEF CancelSwept, CancelIfPending
  <2> QED BY <1>2, <2>1, <2>2
<1>5. ASSUME NEW k \in Owners, CancelRequest(k)  PROVE q \in Known
  <2>1. requestsByOwner[k] \in Known
    <3>1. DOMAIN requestsByOwner = Owners  BY DEF Shape, TypeOK
    <3> QED BY <3>1 DEF Known, Range
  <2>2. UNCHANGED state \/ state' = [state EXCEPT ![requestsByOwner[k]] = "cancelled"]
    BY <1>5 DEF CancelRequest, CancelIfPending
  <2> QED BY <1>2, <2>1, <2>2
<1>6. CASE ExpireInHand \/ ProbeRaises \/ DeferInHand \/ StartInHand
           \/ (\E ok \in BOOLEAN : CompleteRunning(ok))
  <2>1. UNCHANGED state \/ \E new : state' = [state EXCEPT ![hand] = new]
    BY <1>6 DEF ExpireInHand, ProbeRaises, DeferInHand, StartInHand, CompleteRunning
  <2>2. hand \in Known  BY DEF Known
  <2> QED BY <1>2, <2>1, <2>2
<1>7. ASSUME NEW d \in Docs, NotifyStable(d)  PROVE q \in Known
  <2>1. q \in deferredRequests  BY <1>t, <1>7 DEF NotifyStable
  <2> QED BY <2>1 DEF Known
<1>8. CASE ~(\/ \E r \in Requests : Handler(r) \/ CancelSwept(r)
             \/ \E k \in Owners : CancelRequest(k)
             \/ ExpireInHand \/ ProbeRaises \/ DeferInHand \/ StartInHand
             \/ \E ok \in BOOLEAN : CompleteRunning(ok)
             \/ \E d \in Docs : NotifyStable(d))
  <2>1. UNCHANGED state
    BY <1>8
    DEF Next, Gui, Drain, InHand, EventLoop, Environment, vars, Settle, Tick,
        StopAccepting, DocumentChanges, NotifyDeleted, PostOwedWake, TimerFires,
        DrainTakes, DrainFindsNothing, NestedDrain, ExpiryDone, DeadlineHolds, SampleBusy,
        SampleFree, RequeueBusy, ProbeDefers, ProbeClears, ProbeFailureDone,
        StartRefused, RunSettled, GuiRelease, RunFinally
  <2> QED BY <1>1, <2>1
<1> QED BY <1>3, <1>4, <1>5, <1>6, <1>7, <1>8

\* Nobody becomes fresh again.
LEMMA FreshWas ==
    ASSUME Shape, ResultIsLast, [Next]_vars, NEW q \in Requests, Fresh(q)'
    PROVE  Fresh(q) /\ ~Enqueue(q) /\ (SubmitInline(q) => UNCHANGED state)
<1> USE DEF handlerVars, requestVars, queueVars, coreVars, guiVars, documentVars, historyVars,
            Fresh, RefusedAnswers
<1>t. pc \in [Requests -> HandlerStates] /\ result \in [Requests -> Results]  BY LifeTypes
<1>1. ~Enqueue(q)
  <2>1. SUFFICES ASSUME Enqueue(q)  PROVE FALSE  OBVIOUS
  <2>2. result[q] = "none"  BY <2>1 DEF Enqueue, ResultIsLast
  <2>3. pc'[q] \in {"waiting", "wake"} /\ result'[q] = "none"  BY <1>t, <2>1, <2>2 DEF Enqueue
  <2> QED BY <2>3
<1>2. SubmitInline(q) => UNCHANGED state  BY <1>t DEF SubmitInline
<1>3. Fresh(q)
  <2>1. CASE UNCHANGED <<pc, result>>  BY <2>1
  <2>2. ASSUME NEW r \in Requests, Handler(r)  PROVE Fresh(q)
    <3>1. ASSUME NEW at, pc' = [pc EXCEPT ![r] = at], at \notin {"idle", "admit"}, UNCHANGED result
          PROVE  Fresh(q)
      BY <1>t, <3>1
    <3>2. ASSUME NEW res, NEW at \in {"release", "returned"}, pc' = [pc EXCEPT ![r] = at],
                 result' = [result EXCEPT ![r] = res], res \notin RefusedAnswers
          PROVE  Fresh(q)
      BY <1>t, <3>2
    <3>3. ASSUME NEW res, NEW must, Leave(r, res, must), res \notin RefusedAnswers
          PROVE  Fresh(q)
      BY <3>2, <3>3 DEF Leave
    <3>4. CASE Submit(r) \/ RefuseStopping(r) \/ RefuseQuarantined(r) \/ RefuseDuplicate(r) \/ SubmitInline(r)
      <4>1. /\ pc[r] \in {"idle", "admit"}
            /\ \E at : pc' = [pc EXCEPT ![r] = at]
            /\ UNCHANGED result \/ \E res : result' = [result EXCEPT ![r] = res]
        BY <3>4 DEF Submit, RefuseStopping, RefuseQuarantined, RefuseDuplicate, SubmitInline, Leave
      <4> QED BY <1>t, <4>1
    <3>5. CASE \/ Enqueue(r) \/ WaitExpires(r) \/ CancelOnTimeout(r) \/ MarkTimedOut(r)
               \/ TimeoutOvertaken(r) \/ HandlerRelease(r)
      <4>1. UNCHANGED result /\ \E at : pc' = [pc EXCEPT ![r] = at] /\ at \notin {"idle", "admit"}
        BY ZenonT(40), <3>5 DEF Enqueue, WaitExpires, CancelOnTimeout, MarkTimedOut, TimeoutOvertaken,
                    HandlerRelease
      <4> QED BY <3>1, <4>1
    <3>6. CASE WaitReturns(r)  BY <3>3, <3>6 DEF WaitReturns, Answer
    <3>7. CASE CleanupDone(r) \/ TimeoutAlreadyExpired(r) \/ QuarantineRunning(r) \/ OvertakenReturns(r)
      BY <3>3, <3>7 DEF CleanupDone, TimeoutAlreadyExpired, QuarantineRunning, OvertakenReturns
    <3>8. CASE WakeForSubmit(r)  BY <3>1, <3>3, <3>8 DEF WakeForSubmit
    <3> QED BY <2>2, <3>4, <3>5, <3>6, <3>7, <3>8
            DEF Handler, Proceed, Admission, HandleTimeout
  <2>3. CASE ~\E r \in Requests : Handler(r)
    <3>1. UNCHANGED <<pc, result>>
      BY <2>3
      DEF Next, Gui, Drain, InHand, EventLoop, Environment, vars, Settle, CancelSwept, Tick,
          CancelRequest, StopAccepting, DocumentChanges, NotifyStable, NotifyDeleted,
          PostOwedWake, TimerFires, DrainTakes, DrainFindsNothing, NestedDrain, ExpireInHand,
          ExpiryDone, DeadlineHolds, SampleBusy, SampleFree, RequeueBusy, ProbeDefers,
          ProbeClears, ProbeRaises, ProbeFailureDone, DeferInHand, StartInHand, StartRefused,
          CompleteRunning, RunSettled, GuiRelease, RunFinally
    <3> QED BY <2>1, <3>1
  <2> QED BY <2>2, <2>3
<1> QED BY <1>1, <1>2, <1>3

\* What was not admitted stays unknown to the core.
LEMMA FreshNext ==
    ASSUME ConstantsAssumption, Shape, Life, [Next]_vars
    PROVE  FreshIsUntouched'
<1> SUFFICES ASSUME NEW q \in Requests, Fresh(q)'
             PROVE  q \notin Known' /\ state'[q] = "pending"
  BY DEF FreshIsUntouched
<1>1. Fresh(q) /\ ~Enqueue(q) /\ (SubmitInline(q) => UNCHANGED state)
  BY FreshWas DEF Life
<1>2. q \notin Known /\ state[q] = "pending"  BY <1>1 DEF Life, FreshIsUntouched
<1>3. pc[q] # "timeout"
  BY <1>1 DEF Fresh, RefusedAnswers, Life, ResultIsLast
<1> QED BY <1>1, <1>2, <1>3, KnownNext, StateNext

\* Every request begins its life untouched.
LEMMA LifeInit == ASSUME ConstantsAssumption, Init PROVE Life
<1>1. Range(requests) = {}  BY DEF Init, Range
<1>2. Range(requestsByOwner) \subseteq {NULL}  BY DEF Init, Range
<1>3. \A r \in Requests : r \notin Known
  BY <1>1, <1>2 DEF Known, Init, ConstantsAssumption
<1> QED BY <1>3
        DEF Life, Init, FreshIsUntouched, Fresh, RefusedAnswers, ResultIsLast, RanAgrees,
            RunningInHand, OutcomeAgrees, AnswerAgrees, Waiting, Occupying

\* The inductive invariant: types, and the life of every request.
Inductive == Shape /\ Life

\* The strengthening that the safety theorems below share.
THEOREM InductiveInvariant == Spec => []Inductive
<1>1. Init => Inductive  BY ShapeInit, LifeInit, ConstantsAssumption DEF Inductive
<1>2. Inductive /\ [Next]_vars => Inductive'
  BY ShapeNext, ExecutionNext, AnswerNext, FreshNext, ConstantsAssumption
  DEF Inductive, Life
<1> QED BY <1>1, <1>2, PTL DEF Spec

-----------------------------------------------------------------------------
(* What the core promises, for every set of requests.                       *)

\* No step of any thread leaves a variable outside the values the code gives it.
THEOREM TypeCorrect == Spec => []TypeOK
<1>1. Inductive => TypeOK  BY DEF Inductive, Shape
<1> QED BY <1>1, InductiveInvariant, PTL

\* Callables run one at a time inside drain_one, each at most once.
THEOREM ExclusiveExecutionHolds == Spec => []ExclusiveExecution
<1>1. Inductive => ExclusiveExecution
  BY DEF Inductive, Life, RunningInHand, RanAgrees, ExclusiveExecution
<1> QED BY <1>1, InductiveInvariant, PTL

\* A caller told that its request did not run, and a request recorded as not
\* executed, never see the callable run.
THEOREM UnexecutedNeverRunsHolds == Spec => []UnexecutedNeverRuns
<1>1. Inductive => UnexecutedNeverRuns
  <2>1. SUFFICES ASSUME Inductive, NEW r \in Requests,
                        \/ result[r] \in RefusedAnswers \cup {"timeout_before"}
                        \/ outcome[r] = "unexecuted"
                 PROVE  ran[r] = 0
    BY DEF UnexecutedNeverRuns, RefusedAnswers
  <2>2. CASE result[r] \in RefusedAnswers
    BY <2>1, <2>2 DEF Inductive, Life, FreshIsUntouched, Fresh, RanAgrees, Waiting
  <2>3. CASE result[r] = "timeout_before" \/ outcome[r] = "unexecuted"
    BY <2>1, <2>3 DEF Inductive, Life, AnswerAgrees, OutcomeAgrees, RanAgrees
  <2> QED BY <2>1, <2>2, <2>3
<1> QED BY <1>1, InductiveInvariant, PTL

\* A value, or a timeout during execution, is of a callable that was started.
THEOREM AnswersAreEarnedHolds == Spec => []AnswersAreEarned
<1>1. Inductive => AnswersAreEarned
  BY DEF Inductive, Life, AnswerAgrees, AnswersAreEarned
<1> QED BY <1>1, InductiveInvariant, PTL

\* No late completion, cancel, expiry or requeue revises how a request ended.
THEOREM TerminalIsFinalHolds == Spec => TerminalIsFinal
<1> DEFINE Kept == \A r \in Requests : state[r] \in Terminal =>
                      state'[r] = state[r] /\ outcome'[r] = outcome[r]
<1>1. Inductive /\ [Next]_vars => [Kept]_vars
  BY ExecutionNext, ConstantsAssumption DEF Inductive, Final
<1>2. TerminalIsFinal <=> [][Kept]_vars  BY DEF TerminalIsFinal
<1> QED BY <1>1, <1>2, InductiveInvariant, PTL DEF Spec
=============================================================================
