----------------------------- MODULE GuiDispatch -----------------------------
(***************************************************************************)
(* The GUI dispatch core of the add-on (dispatch/gui_core.py and           *)
(* dispatch/gui_request.py): RPC handler threads submit work, the GUI      *)
(* owner thread drains it one request per wake event, and cancellation,    *)
(* deadlines, native document events and shutdown race with both.          *)
(*                                                                         *)
(* One action is one critical section of the code: a section under         *)
(* _queue_lock, a test-and-set under a request's _state_lock, a wait that  *)
(* returns, or a step of the GUI thread between two of them.               *)
(***************************************************************************)
EXTENDS Integers, Sequences, FiniteSets

CONSTANTS
    Requests,     \* GuiRequest objects; each is submitted by its own handler
    Docs,         \* document keys
    Owners,       \* owner keys (session_id, request_id) of authenticated work
    NULL,         \* Python's None
    keysOf,       \* request.document_keys
    ownerOf,      \* the owner key of a request, NULL when it has no session
    Probed,       \* requests with a defer_probe
    Timed,        \* requests with a finite timeout
    Expiring,     \* timed requests whose deadline may pass
    Inline,       \* requests submitted from the GUI thread itself
    Cancellable,  \* requests some client may ask to cancel
    Deletable,    \* documents that may be closed
    Shutdown,     \* whether stop_accepting may be called
    WakeMayFail   \* whether wake_gui / schedule_wake may raise

ASSUME ConstantsAssumption ==
    /\ NULL \notin Requests \cup Owners
    /\ keysOf \in [Requests -> SUBSET Docs]
    /\ ownerOf \in [Requests -> Owners \cup {NULL}]
    /\ Probed \subseteq Requests
    /\ Timed \subseteq Requests
    /\ Expiring \subseteq Timed
    /\ Inline \subseteq Requests
    /\ Cancellable \subseteq Requests
    /\ Deletable \subseteq Docs
    /\ Shutdown \in BOOLEAN
    /\ WakeMayFail \in BOOLEAN

\* submit refuses a deferrable request without a deadline, and a probe is only
\* built for a request that names documents.
ASSUME ProbeAssumption ==
    \A r \in Probed : r \in Timed /\ keysOf[r] # {}

VARIABLES
    \* the handler thread of each request
    pc,               \* where submit has got to
    result,           \* what submit returned or raised
    \* the GuiRequest objects
    state,            \* request.state
    outcome,          \* request.outcome
    completion,       \* the completion event is set
    settling,         \* what the thread that ended the request still owes it
    notified,         \* calls of on_complete so far
    expired,          \* the deadline has passed
    released,         \* request._outstanding_released
    \* GuiDispatchCore
    requests,         \* _requests
    deferredRequests, \* _deferred_requests
    requestsByOwner,  \* _requests_by_owner
    signalPending,    \* _signal_pending
    accepting,        \* _accepting
    timedOutRequest,  \* _timed_out_request
    outstandingRequests, \* _outstanding_requests
    swept,            \* removed from the queues, cancel_if_pending still to come
    \* the GUI owner thread and its event loop
    gui,              \* where drain_one has got to
    hand,             \* the request drain_one holds
    wakes,            \* posted wake events
    timers,           \* scheduled 50 ms wakes
    owedWakes,        \* _request_wake calls decided and not yet made
    \* the native documents and the Qt mailbox of their events
    document,         \* "ready", "busy" or "deleted"
    mailbox,          \* published and undelivered events
    \* history
    ran,              \* executions of the callable so far
    arrived,          \* requests in the order they were enqueued
    everDeferred      \* requests that waited for readiness at least once

handlerVars  == <<pc, result>>
requestVars  == <<state, outcome, completion, settling, notified, expired, released>>
queueVars    == <<requests, deferredRequests, requestsByOwner, signalPending, swept>>
coreVars     == <<queueVars, accepting, timedOutRequest, outstandingRequests>>
guiVars      == <<gui, hand, wakes, timers, owedWakes>>
documentVars == <<document, mailbox>>
historyVars  == <<ran, arrived, everDeferred>>
vars == <<handlerVars, requestVars, coreVars, guiVars, documentVars, historyVars>>

HandlerStates == {"idle", "admit", "wake", "waiting", "timeout", "cleanup",
                  "quarantine", "overtaken", "release", "returned"}
Results == {"none", "value", "task_error", "timeout_before", "timeout_during",
            "busy_after_timeout", "stopping", "duplicate", "wake_failed",
            "readiness_refused"}
RequestStates == {"pending", "deferred", "running", "timed_out_running",
                  "timed_out_pending", "cancelled", "completed"}
Outcomes == {"none", "ok", "late_ok", "error", "late_error", "unexecuted"}
GuiStates == {"idle", "deadline", "expiring", "busy", "requeue", "probe", "failed",
              "defer", "start", "run", "completing", "release", "finally"}

Waiting == {"pending", "deferred"}            \* cancel_if_pending may win
Occupying == {"running", "timed_out_running"} \* the callable is on the GUI thread
Terminal == {"cancelled", "timed_out_pending", "completed"}

-----------------------------------------------------------------------------
(* Queue operations of the core, all evaluated under _queue_lock.           *)

InQueue(r) == \E i \in DOMAIN requests : requests[i] = r

\* deque.remove under contextlib.suppress(ValueError)
Without(queue, r) ==
    IF \E i \in DOMAIN queue : queue[i] = r
    THEN LET i == CHOOSE i \in DOMAIN queue : queue[i] = r
         IN SubSeq(queue, 1, i - 1) \o SubSeq(queue, i + 1, Len(queue))
    ELSE queue

\* _blocked_document_keys_locked
BlockedKeys(deferred) ==
    UNION {keysOf[r] : r \in {q \in deferred : state[q] = "deferred"}}

Unblocked(r, deferred) == keysOf[r] \cap BlockedKeys(deferred) = {}

\* _has_runnable_request_locked
HasRunnable(queue, deferred) ==
    \E i \in DOMAIN queue : Unblocked(queue[i], deferred)

\* Mutation: the owner key is popped whichever request holds it.
ForgetKey(S) ==
    [k \in Owners |-> IF \E r \in S : ownerOf[r] = k THEN NULL ELSE requestsByOwner[k]]

\* _forget_locked, for every request in a set
Forget(S) ==
    [k \in Owners |-> IF requestsByOwner[k] \in S THEN NULL ELSE requestsByOwner[k]]

\* _all_waiting_locked
AllWaiting == {r \in Requests : InQueue(r)} \cup deferredRequests

\* Drop every waiting request.  The caller cancels each one after the lock, in
\* CancelSwept; no step of the caller is ordered after those cancellations.
SweepAll ==
    /\ swept' = swept \cup AllWaiting
    /\ requests' = <<>>
    /\ deferredRequests' = {}
    /\ requestsByOwner' = Forget(AllWaiting)

\* _fail_pending_wakes
FailPendingWakes == SweepAll /\ signalPending' = FALSE

\* _request_wake: the wake event is posted, or posting it raises.
RequestWake ==
    \/ wakes' = wakes + 1 /\ UNCHANGED queueVars
    \/ WakeMayFail /\ FailPendingWakes /\ UNCHANGED wakes

-----------------------------------------------------------------------------
(* The handler thread: submit.                                              *)

\* The caller leaves submit with a result.  The unlocked test of
\* _outstanding_released decides whether the counter is still to be lowered.
Leave(r, res, mustRelease) ==
    /\ result' = [result EXCEPT ![r] = res]
    /\ pc' = [pc EXCEPT ![r] = IF mustRelease /\ ~released[r]
                               THEN "release" ELSE "returned"]

Submit(r) ==
    /\ pc[r] = "idle" /\ r \notin Inline
    /\ outstandingRequests' = outstandingRequests + 1
    /\ pc' = [pc EXCEPT ![r] = "admit"]
    /\ UNCHANGED <<result, requestVars, queueVars, accepting, timedOutRequest,
                   guiVars, documentVars, historyVars>>

\* Mutation: the quarantine is lifted by the GUI thread alone.
QuarantinedUntilLifted == timedOutRequest # NULL

\* _enqueue gives up on the quarantine of a request that has completed.
Quarantined ==
    timedOutRequest # NULL /\ state[timedOutRequest] # "completed"

AfterQuarantine == IF Quarantined THEN timedOutRequest ELSE NULL

Duplicate(r) ==
    /\ ownerOf[r] # NULL
    /\ requestsByOwner[ownerOf[r]] # NULL
    /\ state[requestsByOwner[ownerOf[r]]] \notin {"completed", "cancelled"}

RefuseStopping(r) ==
    /\ pc[r] = "admit" /\ ~accepting
    /\ Leave(r, "stopping", TRUE)
    /\ UNCHANGED <<requestVars, coreVars, guiVars, documentVars, historyVars>>

RefuseQuarantined(r) ==
    /\ pc[r] = "admit" /\ accepting /\ Quarantined
    /\ Leave(r, "busy_after_timeout", TRUE)
    /\ UNCHANGED <<requestVars, coreVars, guiVars, documentVars, historyVars>>

RefuseDuplicate(r) ==
    /\ pc[r] = "admit" /\ accepting /\ ~Quarantined /\ Duplicate(r)
    /\ timedOutRequest' = AfterQuarantine
    /\ Leave(r, "duplicate", TRUE)
    /\ UNCHANGED <<requestVars, queueVars, accepting, outstandingRequests,
                   guiVars, documentVars, historyVars>>

Enqueue(r) ==
    /\ pc[r] = "admit" /\ accepting /\ ~Quarantined /\ ~Duplicate(r)
    /\ timedOutRequest' = AfterQuarantine
    /\ requestsByOwner' = [k \in Owners |-> IF k = ownerOf[r] THEN r
                                            ELSE requestsByOwner[k]]
    /\ requests' = Append(requests, r)
    /\ signalPending' = TRUE
    /\ pc' = [pc EXCEPT ![r] = IF signalPending THEN "waiting" ELSE "wake"]
    /\ arrived' = Append(arrived, r)
    /\ UNCHANGED <<result, requestVars, deferredRequests, swept, accepting,
                   outstandingRequests, guiVars, documentVars, ran, everDeferred>>

WakeForSubmit(r) ==
    /\ pc[r] = "wake"
    /\ RequestWake
    /\ IF wakes' = wakes
       THEN Leave(r, "wake_failed", state[r] \notin Occupying)
       ELSE pc' = [pc EXCEPT ![r] = "waiting"] /\ UNCHANGED result
    /\ UNCHANGED <<requestVars, accepting, timedOutRequest, outstandingRequests,
                   gui, hand, timers, owedWakes, documentVars, historyVars>>

\* Mutation: every outcome but an error of the callable is a value.
AnswerUnlessError(r) ==
    IF outcome[r] \in {"error", "late_error"} THEN "task_error" ELSE "value"

\* submit after completion.wait: _raise_timeout or _unwrap.
Answer(r) ==
    IF r \in Timed /\ state[r] = "timed_out_pending" THEN "timeout_before"
    ELSE IF outcome[r] \in {"ok", "late_ok"} THEN "value" ELSE "task_error"

WaitReturns(r) ==
    /\ pc[r] = "waiting" /\ completion[r]
    /\ Leave(r, Answer(r), TRUE)
    /\ UNCHANGED <<requestVars, coreVars, guiVars, documentVars, historyVars>>

WaitExpires(r) ==
    /\ pc[r] = "waiting" /\ r \in Timed /\ expired[r] /\ ~completion[r]
    /\ pc' = [pc EXCEPT ![r] = "timeout"]
    /\ UNCHANGED <<result, requestVars, coreVars, guiVars, documentVars, historyVars>>

\* Mutation: anything that is not running can be cancelled.
CancelUnlessRunning(r) ==
    /\ state[r] \notin Occupying
    /\ state' = [state EXCEPT ![r] = "cancelled"]
    /\ outcome' = [outcome EXCEPT ![r] = "unexecuted"]

\* cancel_if_pending under the state lock; its callers owe on_complete, their
\* cleanup and the completion event.
CancelIfPending(r) ==
    /\ state[r] \in Waiting
    /\ state' = [state EXCEPT ![r] = "cancelled"]
    /\ outcome' = [outcome EXCEPT ![r] = "unexecuted"]

\* _handle_timeout, first branch: cancel_if_pending wins.
CancelOnTimeout(r) ==
    /\ pc[r] = "timeout"
    /\ CancelIfPending(r)
    /\ settling' = [settling EXCEPT ![r] = "remove"]
    /\ pc' = [pc EXCEPT ![r] = "cleanup"]
    /\ UNCHANGED <<result, completion, notified, expired, released, coreVars,
                   guiVars, documentVars, historyVars>>

CleanupDone(r) ==
    /\ pc[r] = "cleanup" /\ settling[r] = "none"
    /\ Leave(r, "timeout_before", TRUE)
    /\ UNCHANGED <<requestVars, coreVars, guiVars, documentVars, historyVars>>

TimeoutAlreadyExpired(r) ==
    /\ pc[r] = "timeout" /\ state[r] = "timed_out_pending"
    /\ Leave(r, "timeout_before", TRUE)
    /\ UNCHANGED <<requestVars, coreVars, guiVars, documentVars, historyVars>>

\* Mutation: mark_timed_out_if_running without its test.
TimesOutAnyway(r) == state[r] \notin Terminal

TimesOutRunning(r) == state[r] = "running"

MarkTimedOut(r) ==
    /\ pc[r] = "timeout" /\ TimesOutRunning(r)
    /\ state' = [state EXCEPT ![r] = "timed_out_running"]
    /\ pc' = [pc EXCEPT ![r] = "quarantine"]
    /\ UNCHANGED <<result, outcome, completion, settling, notified, expired, released,
                   coreVars, guiVars, documentVars, historyVars>>

\* _quarantine_running, whatever has happened since the mark.
QuarantineRunning(r) ==
    /\ pc[r] = "quarantine"
    /\ timedOutRequest' = r
    /\ SweepAll
    /\ Leave(r, "timeout_during", FALSE)
    /\ UNCHANGED <<requestVars, signalPending, accepting, outstandingRequests,
                   guiVars, documentVars, historyVars>>

\* Completion won the race after Event.wait returned false.
TimeoutOvertaken(r) ==
    /\ pc[r] = "timeout" /\ state[r] \in {"completed", "cancelled"}
    /\ pc' = [pc EXCEPT ![r] = "overtaken"]
    /\ UNCHANGED <<result, requestVars, coreVars, guiVars, documentVars, historyVars>>

OvertakenReturns(r) ==
    /\ pc[r] = "overtaken" /\ completion[r]
    /\ LET ok == outcome[r] \in {"ok", "late_ok"}
       IN Leave(r, IF ok THEN "value" ELSE "task_error", ~ok)
    /\ UNCHANGED <<requestVars, coreVars, guiVars, documentVars, historyVars>>

\* Mutation: the counter is lowered below zero.
LowerUnclamped == outstandingRequests' = outstandingRequests - 1

\* The locked half of _release_outstanding, after its unlocked test.
LowerOutstanding ==
    outstandingRequests' =
        IF outstandingRequests > 0 THEN outstandingRequests - 1 ELSE 0

HandlerRelease(r) ==
    /\ pc[r] = "release"
    /\ LowerOutstanding
    /\ released' = [released EXCEPT ![r] = TRUE]
    /\ pc' = [pc EXCEPT ![r] = "returned"]
    /\ UNCHANGED <<result, state, outcome, completion, settling, notified, expired,
                   queueVars, accepting, timedOutRequest, guiVars, documentVars,
                   historyVars>>

\* submit on the owner thread runs the callable in place.
SubmitInline(r) ==
    /\ pc[r] = "idle" /\ r \in Inline /\ gui \in {"idle", "run"}
    /\ pc' = [pc EXCEPT ![r] = "returned"]
    /\ released' = [released EXCEPT ![r] = TRUE]
    /\ \/ /\ ~accepting
          /\ result' = [result EXCEPT ![r] = "stopping"]
          /\ UNCHANGED <<state, outcome, completion, notified, ran>>
       \/ /\ accepting
          /\ r \in Probed /\ \E d \in keysOf[r] : document[d] = "busy"
          /\ result' = [result EXCEPT ![r] = "readiness_refused"]
          /\ UNCHANGED <<state, outcome, completion, notified, ran>>
       \/ /\ accepting
          /\ ~(r \in Probed /\ \E d \in keysOf[r] : document[d] = "busy")
          /\ \E ok \in BOOLEAN :
                /\ outcome' = [outcome EXCEPT ![r] = IF ok THEN "ok" ELSE "error"]
                /\ result' = [result EXCEPT ![r] = IF ok THEN "value" ELSE "task_error"]
          /\ state' = [state EXCEPT ![r] = "completed"]
          /\ completion' = [completion EXCEPT ![r] = TRUE]
          /\ notified' = [notified EXCEPT ![r] = @ + 1]
          /\ ran' = [ran EXCEPT ![r] = @ + 1]
    /\ UNCHANGED <<settling, expired, coreVars, guiVars, documentVars, arrived,
                   everDeferred>>

-----------------------------------------------------------------------------
(* Ending a request: on_complete, then cleanup, then completion.set().      *)

\* Mutation: work that the request held back is not woken.
SignalNobody(queue, runnable) ==
    /\ signalPending' = (signalPending /\ (queue # <<>> \/ runnable))
    /\ UNCHANGED owedWakes

\* Requests left the queue: runnable work is signalled, an empty queue is not.
SignalRunnable(queue, runnable) ==
    /\ signalPending' = (runnable \/ (signalPending /\ queue # <<>>))
    /\ owedWakes' = IF runnable /\ ~signalPending THEN owedWakes + 1 ELSE owedWakes

\* _remove_pending: the request leaves every structure of the core, and work
\* that it held back is woken.
RemovePending(r) ==
    LET queue == Without(requests, r)
        deferred == deferredRequests \ {r}
    IN  /\ requests' = queue
        /\ deferredRequests' = deferred
        /\ requestsByOwner' = Forget({r})
        /\ SignalRunnable(queue, HasRunnable(queue, deferred))
        /\ UNCHANGED swept

\* Mutation: complete() is not given the cleanup to do before the event is set.
CompleteWithoutCleanup(r) ==
    UNCHANGED <<requests, deferredRequests, requestsByOwner, signalPending, swept,
                owedWakes>>

\* _forget_after_execution
ForgetAfterExecution(r) ==
    /\ requestsByOwner' = Forget({r})
    /\ UNCHANGED <<requests, deferredRequests, signalPending, swept, owedWakes>>

\* The tail of cancel_if_pending and _expire_if_waiting with _remove_pending,
\* or of complete with _forget_after_execution.
Settle(r) ==
    /\ settling[r] # "none"
    /\ notified' = [notified EXCEPT ![r] = @ + 1]
    /\ IF settling[r] = "remove"
       THEN RemovePending(r)
       ELSE ForgetAfterExecution(r)
    /\ completion' = [completion EXCEPT ![r] = TRUE]
    /\ settling' = [settling EXCEPT ![r] = "none"]
    /\ UNCHANGED <<handlerVars, state, outcome, expired, released, accepting,
                   timedOutRequest, outstandingRequests, gui, hand, wakes, timers,
                   documentVars, historyVars>>

\* cancel_if_pending of a request some sweep has taken off the queues.
CancelSwept(r) ==
    /\ r \in swept
    /\ swept' = swept \ {r}
    /\ \/ /\ CancelIfPending(r)
          /\ notified' = [notified EXCEPT ![r] = @ + 1]
          /\ completion' = [completion EXCEPT ![r] = TRUE]
       \/ /\ state[r] \notin Waiting
          /\ UNCHANGED <<state, outcome, notified, completion>>
    /\ UNCHANGED <<handlerVars, settling, expired, released, requests,
                   deferredRequests, requestsByOwner, signalPending, accepting,
                   timedOutRequest, outstandingRequests, guiVars, documentVars,
                   historyVars>>

\* cancel_request holds _queue_lock from the lookup to the completion event.
CancelRequest(k) ==
    LET r == requestsByOwner[k]
    IN  /\ r # NULL /\ r \in Cancellable
        /\ \/ /\ CancelIfPending(r)
              /\ notified' = [notified EXCEPT ![r] = @ + 1]
              /\ completion' = [completion EXCEPT ![r] = TRUE]
              /\ RemovePending(r)
           \/ /\ state[r] \in Terminal
              /\ requestsByOwner' = Forget({r})
              /\ UNCHANGED <<state, outcome, notified, completion, requests,
                             deferredRequests, signalPending, swept, owedWakes>>
        /\ UNCHANGED <<handlerVars, settling, expired, released, accepting,
                       timedOutRequest, outstandingRequests, gui, hand, wakes,
                       timers, documentVars, historyVars>>

StopAccepting ==
    /\ Shutdown /\ accepting
    /\ accepting' = FALSE
    /\ SweepAll
    /\ signalPending' = FALSE
    /\ UNCHANGED <<handlerVars, requestVars, timedOutRequest, outstandingRequests,
                   guiVars, documentVars, historyVars>>

-----------------------------------------------------------------------------
(* The GUI owner thread: drain_one.                                         *)

\* _take_next_request: blocked requests are rotated to the back on the way to
\* the first one that is not.
Take(i) ==
    /\ i \in DOMAIN requests
    /\ Unblocked(requests[i], deferredRequests)
    /\ \A j \in 1..(i - 1) : ~Unblocked(requests[j], deferredRequests)
    /\ requests' = SubSeq(requests, i + 1, Len(requests)) \o SubSeq(requests, 1, i - 1)

\* Mutation: no _draining flag, so a callable that pumps events nests a drain.
MayDrainNested == gui \in {"idle", "run"}

\* _draining is clear.
MayDrain == gui = "idle"

DrainTakes(r) ==
    /\ MayDrain /\ wakes > 0
    /\ wakes' = wakes - 1
    /\ \E i \in DOMAIN requests : requests[i] = r /\ Take(i)
    /\ signalPending' = FALSE
    /\ hand' = r
    /\ gui' = "deadline"
    /\ UNCHANGED <<handlerVars, requestVars, deferredRequests, requestsByOwner, swept,
                   accepting, timedOutRequest, outstandingRequests, timers, owedWakes,
                   documentVars, historyVars>>

DrainFindsNothing ==
    /\ MayDrain /\ wakes > 0
    /\ wakes' = wakes - 1
    /\ ~HasRunnable(requests, deferredRequests)
    /\ signalPending' = FALSE
    /\ UNCHANGED <<handlerVars, requestVars, requests, deferredRequests,
                   requestsByOwner, swept, accepting, timedOutRequest,
                   outstandingRequests, gui, hand, timers, owedWakes, documentVars,
                   historyVars>>

\* A wake delivered by an event loop the running callable pumps is dropped.
NestedDrain ==
    /\ gui = "run" /\ wakes > 0
    /\ wakes' = wakes - 1
    /\ UNCHANGED <<handlerVars, requestVars, coreVars, gui, hand, timers, owedWakes,
                   documentVars, historyVars>>

GuiAt(from, to) == gui = from /\ gui' = to /\ UNCHANGED <<wakes, timers>>

\* The GUI thread puts the request down: this drain is over.
Drained(from) ==
    gui = from /\ gui' = "idle" /\ hand' = NULL /\ UNCHANGED wakes

ExpireInHand ==
    /\ GuiAt("deadline", "expiring")
    /\ expired[hand] /\ state[hand] \in Waiting
    /\ state' = [state EXCEPT ![hand] = "timed_out_pending"]
    /\ outcome' = [outcome EXCEPT ![hand] = "unexecuted"]
    /\ settling' = [settling EXCEPT ![hand] = "remove"]
    /\ UNCHANGED <<handlerVars, completion, notified, expired, released, coreVars, hand,
                   owedWakes, documentVars, historyVars>>

ExpiryDone ==
    /\ Drained("expiring") /\ settling[hand] = "none"
    /\ UNCHANGED <<handlerVars, requestVars, coreVars, timers, owedWakes, documentVars,
                   historyVars>>

DeadlineHolds ==
    /\ GuiAt("deadline", "busy")
    /\ ~(expired[hand] /\ state[hand] \in Waiting)
    /\ UNCHANGED <<handlerVars, requestVars, coreVars, hand, owedWakes, documentVars,
                   historyVars>>

\* The navigation guard samples the mouse and popups of the user.
SampleBusy ==
    /\ GuiAt("busy", "requeue")
    /\ UNCHANGED <<handlerVars, requestVars, coreVars, hand, owedWakes, documentVars,
                   historyVars>>

SampleFree ==
    /\ GuiAt("busy", IF hand \in Probed THEN "probe" ELSE "start")
    /\ UNCHANGED <<handlerVars, requestVars, coreVars, hand, owedWakes, documentVars,
                   historyVars>>

\* The caller of cancel_if_pending outside the lock, for the request in hand.
AbandonInHand ==
    /\ requestsByOwner' = Forget({hand})
    /\ swept' = swept \cup {hand}

RequeueFirst == <<hand>> \o requests

\* _defer_busy_request
RequeueBusy ==
    /\ Drained("requeue")
    /\ IF state[hand] = "pending" /\ accepting
       THEN /\ requests' = RequeueFirst
            /\ signalPending' = TRUE
            /\ timers' = timers + 1
            /\ UNCHANGED <<requestsByOwner, swept>>
       ELSE /\ AbandonInHand
            /\ UNCHANGED <<requests, signalPending, timers>>
    /\ UNCHANGED <<handlerVars, requestVars, deferredRequests, accepting,
                   timedOutRequest, outstandingRequests, owedWakes, documentVars,
                   historyVars>>

\* The readiness probe waits only for a document that is neither settled nor
\* closed; a checkpoint of the request's token may make it raise.
ProbeDefers ==
    /\ GuiAt("probe", "defer")
    /\ \E d \in keysOf[hand] : document[d] = "busy"
    /\ \A d \in keysOf[hand] : document[d] # "deleted"
    /\ UNCHANGED <<handlerVars, requestVars, coreVars, hand, owedWakes, documentVars,
                   historyVars>>

ProbeClears ==
    /\ GuiAt("probe", "start")
    /\ \/ \A d \in keysOf[hand] : document[d] # "busy"
       \/ \E d \in keysOf[hand] : document[d] = "deleted"
    /\ UNCHANGED <<handlerVars, requestVars, coreVars, hand, owedWakes, documentVars,
                   historyVars>>

Completes(r) == state[r] \notin Terminal

ProbeRaises ==
    /\ GuiAt("probe", "failed") /\ hand \in Cancellable
    /\ IF Completes(hand)
       THEN /\ state' = [state EXCEPT ![hand] = "completed"]
            /\ outcome' = [outcome EXCEPT ![hand] = "error"]
            /\ settling' = [settling EXCEPT ![hand] = "forget"]
       ELSE UNCHANGED <<state, outcome, settling>>
    /\ UNCHANGED <<handlerVars, completion, notified, expired, released, coreVars, hand,
                   owedWakes, documentVars, historyVars>>

\* Mutation: the GUI thread signals more work and posts no wake for it.
SignalMoreUnwoken(more, unconditional) ==
    /\ signalPending' = (more \/ (~unconditional /\ signalPending /\ requests # <<>>))
    /\ UNCHANGED owedWakes

\* The GUI thread leaves the lock owing a wake, or with nothing to wake for.
SignalMore(more, unconditional) ==
    /\ signalPending' = (more \/ (~unconditional /\ signalPending /\ requests # <<>>))
    /\ owedWakes' = IF more THEN owedWakes + 1 ELSE owedWakes

\* The locked part of _finish_probe_failure
ProbeFailureDone ==
    /\ Drained("failed")
    /\ settling[hand] = "none" \/ state[hand] # "completed"
    /\ SignalMore(HasRunnable(requests, deferredRequests), FALSE)
    /\ UNCHANGED <<handlerVars, requestVars, requests, deferredRequests,
                   requestsByOwner, swept, accepting, timedOutRequest,
                   outstandingRequests, timers, documentVars, historyVars>>

\* _defer_for_readiness
DeferInHand ==
    /\ Drained("defer")
    /\ IF accepting /\ state[hand] = "pending"
       THEN /\ state' = [state EXCEPT ![hand] = "deferred"]
            /\ deferredRequests' = deferredRequests \cup {hand}
            /\ everDeferred' = everDeferred \cup {hand}
            /\ SignalMore(\E i \in DOMAIN requests :
                              /\ Unblocked(requests[i], deferredRequests)
                              /\ keysOf[requests[i]] \cap keysOf[hand] = {}, TRUE)
            /\ UNCHANGED <<requestsByOwner, swept>>
       ELSE /\ AbandonInHand
            /\ SignalMore(HasRunnable(requests, deferredRequests), TRUE)
            /\ UNCHANGED <<state, deferredRequests, everDeferred>>
    /\ UNCHANGED <<handlerVars, outcome, completion, settling, notified, expired,
                   released, requests, accepting, timedOutRequest, outstandingRequests,
                   timers, documentVars, ran, arrived>>

\* Mutation: mark_running without its test.
MayStartAnyway == accepting

MayStart == accepting /\ state[hand] = "pending"

\* _start_request
StartInHand ==
    /\ GuiAt("start", "run")
    /\ MayStart
    /\ state' = [state EXCEPT ![hand] = "running"]
    /\ ran' = [ran EXCEPT ![hand] = @ + 1]
    /\ UNCHANGED <<handlerVars, outcome, completion, settling, notified, expired,
                   released, coreVars, hand, owedWakes, documentVars, arrived,
                   everDeferred>>

StartRefused ==
    /\ Drained("start")
    /\ ~MayStart
    /\ AbandonInHand
    /\ UNCHANGED <<handlerVars, requestVars, requests, deferredRequests, signalPending,
                   accepting, timedOutRequest, outstandingRequests, timers, owedWakes,
                   documentVars, historyVars>>

\* The callable returns or raises, and complete() takes the state lock.
CompleteRunning(ok) ==
    /\ GuiAt("run", "completing")
    /\ state' = [state EXCEPT ![hand] = "completed"]
    /\ outcome' = [outcome EXCEPT ![hand] =
            IF state[hand] = "timed_out_running"
            THEN (IF ok THEN "late_ok" ELSE "late_error")
            ELSE (IF ok THEN "ok" ELSE "error")]
    /\ settling' = [settling EXCEPT ![hand] = "forget"]
    /\ UNCHANGED <<handlerVars, completion, notified, expired, released, coreVars, hand,
                   owedWakes, documentVars, historyVars>>

\* The unlocked test of _release_outstanding on the GUI thread.
RunSettled ==
    /\ GuiAt("completing", IF released[hand] THEN "finally" ELSE "release")
    /\ settling[hand] = "none"
    /\ UNCHANGED <<handlerVars, requestVars, coreVars, hand, owedWakes, documentVars,
                   historyVars>>

GuiRelease ==
    /\ GuiAt("release", "finally")
    /\ LowerOutstanding
    /\ released' = [released EXCEPT ![hand] = TRUE]
    /\ UNCHANGED <<handlerVars, state, outcome, completion, settling, notified, expired,
                   queueVars, accepting, timedOutRequest, hand, owedWakes, documentVars,
                   historyVars>>

\* The finally clause of _run_request
RunFinally ==
    /\ Drained("finally")
    /\ timedOutRequest' = IF timedOutRequest = hand THEN NULL ELSE timedOutRequest
    /\ requestsByOwner' = Forget({hand})
    /\ SignalMore(requests # <<>>, TRUE)
    /\ UNCHANGED <<handlerVars, requestVars, requests, deferredRequests, swept,
                   accepting, outstandingRequests, timers, documentVars, historyVars>>

\* A wake the GUI thread or a canceller decided on is posted.
PostOwedWake ==
    /\ owedWakes > 0
    /\ owedWakes' = owedWakes - 1
    /\ RequestWake
    /\ UNCHANGED <<handlerVars, requestVars, accepting, timedOutRequest,
                   outstandingRequests, gui, hand, timers, documentVars, historyVars>>

\* The 50 ms timer of a busy drain fires in whichever event loop is running.
TimerFires ==
    /\ gui \in {"idle", "run"} /\ timers > 0
    /\ timers' = timers - 1
    /\ RequestWake
    /\ UNCHANGED <<handlerVars, requestVars, accepting, timedOutRequest,
                   outstandingRequests, gui, hand, owedWakes, documentVars, historyVars>>

-----------------------------------------------------------------------------
(* Native document events, delivered by the Qt event loop of the owner.     *)

\* Every order in which a set of requests may leave the deque.
Orderings(S) ==
    {f \in [1..Cardinality(S) -> S] :
        \A i, j \in 1..Cardinality(S) : f[i] = f[j] => i = j}

\* Mutation: promoted work queues up again.
PromoteLast(front) == requests \o front

\* A promoted request must precede later same-document requests.
PromoteFirst(front) == front \o requests

\* notify_document_readiness_changed
NotifyStable(d) ==
    /\ gui \in {"idle", "run"} /\ <<"stable", d>> \in mailbox
    /\ mailbox' = mailbox \ {<<"stable", d>>}
    /\ LET promoted == {r \in deferredRequests : d \in keysOf[r] /\ state[r] = "deferred"}
           wake == promoted # {} /\ accepting
       IN  /\ deferredRequests' = deferredRequests \ promoted
           /\ state' = [r \in Requests |-> IF r \in promoted THEN "pending" ELSE state[r]]
           /\ \E front \in Orderings(promoted) : requests' = PromoteFirst(front)
           /\ signalPending' = (signalPending \/ wake)
           /\ owedWakes' = IF wake /\ ~signalPending THEN owedWakes + 1 ELSE owedWakes
    /\ UNCHANGED <<handlerVars, outcome, completion, settling, notified, expired,
                   released, requestsByOwner, swept, accepting, timedOutRequest,
                   outstandingRequests, gui, hand, wakes, timers, document, historyVars>>

\* The queue without the requests that name d, in the same order: kept lists
\* the positions that stay.
Retained(d) ==
    LET stay == {i \in DOMAIN requests : d \notin keysOf[requests[i]]}
    IN  {[i \in DOMAIN kept |-> requests[kept[i]]] :
            kept \in {f \in [1..Cardinality(stay) -> stay] :
                        \A i, j \in DOMAIN f : i < j => f[i] < f[j]}}

\* notify_document_deleted
NotifyDeleted(d) ==
    /\ gui \in {"idle", "run"} /\ <<"deleted", d>> \in mailbox
    /\ mailbox' = mailbox \ {<<"deleted", d>>}
    /\ LET closed == {r \in AllWaiting : d \in keysOf[r]}
           deferred == deferredRequests \ closed
       IN  \E queue \in Retained(d) :
           /\ requests' = queue
           /\ deferredRequests' = deferred
           /\ requestsByOwner' = Forget(closed)
           /\ swept' = swept \cup closed
           /\ SignalRunnable(queue, HasRunnable(queue, deferred))
    /\ UNCHANGED <<handlerVars, requestVars, accepting, timedOutRequest,
                   outstandingRequests, gui, hand, wakes, timers, document, historyVars>>

\* The native lane starts and settles work on a document, and may close it; the
\* observer publishes the last two.
DocumentChanges(d) ==
    /\ \/ /\ document[d] = "ready"
          /\ document' = [document EXCEPT ![d] = "busy"]
          /\ UNCHANGED mailbox
       \/ /\ document[d] = "busy"
          /\ document' = [document EXCEPT ![d] = "ready"]
          /\ mailbox' = mailbox \cup {<<"stable", d>>}
       \/ /\ document[d] # "deleted" /\ d \in Deletable
          /\ document' = [document EXCEPT ![d] = "deleted"]
          /\ mailbox' = mailbox \cup {<<"deleted", d>>}
    /\ UNCHANGED <<handlerVars, requestVars, coreVars, guiVars, historyVars>>

\* The deadline of a submitted request passes.
Tick(r) ==
    /\ r \in Expiring /\ pc[r] # "idle" /\ ~expired[r]
    /\ expired' = [expired EXCEPT ![r] = TRUE]
    /\ UNCHANGED <<handlerVars, state, outcome, completion, settling, notified,
                   released, coreVars, guiVars, documentVars, historyVars>>

-----------------------------------------------------------------------------
Init ==
    /\ pc = [r \in Requests |-> "idle"]
    /\ result = [r \in Requests |-> "none"]
    /\ state = [r \in Requests |-> "pending"]
    /\ outcome = [r \in Requests |-> "none"]
    /\ completion = [r \in Requests |-> FALSE]
    /\ settling = [r \in Requests |-> "none"]
    /\ notified = [r \in Requests |-> 0]
    /\ expired = [r \in Requests |-> FALSE]
    /\ released = [r \in Requests |-> FALSE]
    /\ requests = <<>>
    /\ deferredRequests = {}
    /\ requestsByOwner = [k \in Owners |-> NULL]
    /\ signalPending = FALSE
    /\ accepting = TRUE
    /\ timedOutRequest = NULL
    /\ outstandingRequests = 0
    /\ swept = {}
    /\ gui = "idle"
    /\ hand = NULL
    /\ wakes = 0
    /\ timers = 0
    /\ owedWakes = 0
    /\ document = [d \in Docs |-> "ready"]
    /\ mailbox = {}
    /\ ran = [r \in Requests |-> 0]
    /\ arrived = <<>>
    /\ everDeferred = {}

Admission(r) ==
    \/ RefuseStopping(r) \/ RefuseQuarantined(r) \/ RefuseDuplicate(r) \/ Enqueue(r)

HandleTimeout(r) ==
    \/ CancelOnTimeout(r) \/ TimeoutAlreadyExpired(r) \/ MarkTimedOut(r)
    \/ TimeoutOvertaken(r)

Proceed(r) ==
    \/ Admission(r) \/ WakeForSubmit(r)
    \/ WaitReturns(r) \/ WaitExpires(r)
    \/ HandleTimeout(r) \/ CleanupDone(r) \/ QuarantineRunning(r)
    \/ OvertakenReturns(r) \/ HandlerRelease(r)

Handler(r) == Submit(r) \/ SubmitInline(r) \/ Proceed(r)

InHand ==
    \/ ExpireInHand \/ ExpiryDone \/ DeadlineHolds
    \/ SampleFree \/ RequeueBusy
    \/ ProbeDefers \/ ProbeClears \/ ProbeFailureDone \/ DeferInHand
    \/ StartInHand \/ StartRefused
    \/ (\E ok \in BOOLEAN : CompleteRunning(ok)) \/ RunSettled \/ GuiRelease
    \/ RunFinally

Drain == (\E r \in Requests : DrainTakes(r)) \/ DrainFindsNothing

Gui == Drain \/ InHand \/ SampleBusy \/ ProbeRaises \/ NestedDrain

Environment ==
    \/ \E k \in Owners : CancelRequest(k)
    \/ StopAccepting
    \/ \E d \in Docs : DocumentChanges(d)

EventLoop == \E d \in Docs : NotifyStable(d) \/ NotifyDeleted(d)

Next ==
    \/ \E r \in Requests : Handler(r) \/ Settle(r) \/ CancelSwept(r) \/ Tick(r)
    \/ Gui
    \/ PostOwedWake \/ TimerFires \/ EventLoop
    \/ Environment

\* Handler threads, the clock and the Qt event loop run on; a callable returns;
\* the user does not hold the mouse for ever.  Nothing is assumed of clients,
\* of documents becoming ready, or of how often a nested loop drops a wake.
Fairness ==
    /\ \A r \in Requests :
        /\ WF_vars(Proceed(r))
        /\ WF_vars(Settle(r))
        /\ WF_vars(CancelSwept(r))
        /\ WF_vars(Tick(r))
    /\ WF_vars(Drain)
    /\ WF_vars(InHand)
    /\ SF_vars(SampleFree)
    /\ WF_vars(PostOwedWake)
    /\ WF_vars(TimerFires)

Spec == Init /\ [][Next]_vars
FairSpec == Spec /\ Fairness

-----------------------------------------------------------------------------
\* The code keeps every field within the values it assigns; the counter of
\* outstanding work never falls below zero (_release_outstanding).
TypeOK ==
    /\ pc \in [Requests -> HandlerStates]
    /\ result \in [Requests -> Results]
    /\ state \in [Requests -> RequestStates]
    /\ outcome \in [Requests -> Outcomes]
    /\ completion \in [Requests -> BOOLEAN]
    /\ settling \in [Requests -> {"none", "remove", "forget"}]
    /\ notified \in [Requests -> Nat]
    /\ expired \in [Requests -> BOOLEAN]
    /\ released \in [Requests -> BOOLEAN]
    /\ requests \in Seq(Requests)
    /\ deferredRequests \in SUBSET Requests
    /\ requestsByOwner \in [Owners -> Requests \cup {NULL}]
    /\ signalPending \in BOOLEAN
    /\ accepting \in BOOLEAN
    /\ timedOutRequest \in Requests \cup {NULL}
    /\ outstandingRequests \in Nat
    /\ swept \in SUBSET Requests
    /\ gui \in GuiStates
    /\ hand \in Requests \cup {NULL}
    /\ wakes \in Nat /\ timers \in Nat /\ owedWakes \in Nat
    /\ document \in [Docs -> {"ready", "busy", "deleted"}]
    /\ mailbox \in SUBSET ({"stable", "deleted"} \X Docs)
    /\ ran \in [Requests -> Nat]
    /\ arrived \in Seq(Requests)
    /\ everDeferred \in SUBSET Requests

\* One callable at a time, and only while drain_one is in _run_request: a
\* request that occupies the GUI is the one in hand, and no callable runs twice.
ExclusiveExecution ==
    \A r \in Requests :
        /\ state[r] \in Occupying => hand = r /\ gui = "run"
        /\ ran[r] <= 1

\* A caller told that its request did not run (removed from the queue, or
\* cancelled) never sees it run: request-lifecycle.md, GUI_TIMEOUT_BEFORE_EXECUTION.
UnexecutedNeverRuns ==
    \A r \in Requests :
        \/ result[r] \in {"timeout_before", "stopping", "busy_after_timeout",
                          "duplicate", "readiness_refused"}
        \/ outcome[r] = "unexecuted"
        => ran[r] = 0

\* A value returned to the caller is the value of a callable that ran, and a
\* timeout during execution names one that had started.
AnswersAreEarned ==
    \A r \in Requests :
        result[r] \in {"value", "timeout_during"} => ran[r] = 1

\* "Attribution and cleanup must be visible before the waiter wakes"
\* (gui_request.py): once the event is set the request has left every structure
\* of the core and on_complete has been called exactly once.
CleanupBeforeWake ==
    \A r \in Requests : completion[r] =>
        /\ ~InQueue(r) /\ r \notin deferredRequests
        /\ \A k \in Owners : requestsByOwner[k] # r
        /\ notified[r] = 1 /\ state[r] \in Terminal

\* Some thread will post a wake event, or still has a request to remove and
\* wakes the GUI when it does.
WakeComing ==
    \/ wakes + timers + owedWakes > 0
    \/ \E r \in Requests : pc[r] = "wake"

CleanupComing == \E r \in Requests : settling[r] = "remove"

\* No lost wakeup: when drain_one is not active, a set _signal_pending always
\* has a wake event behind it (a later submit relies on it and posts none), and
\* runnable work is never left without one.
NoLostWake ==
    gui = "idle" =>
        /\ signalPending => WakeComing
        /\ HasRunnable(requests, deferredRequests) => WakeComing \/ CleanupComing

\* Authenticated work the GUI may still start can be found by cancel_request.
LiveWorkIsCancellable ==
    \A r \in Requests :
        /\ ownerOf[r] # NULL
        /\ InQueue(r) \/ r \in deferredRequests \/ hand = r
        /\ state[r] \in Waiting \cup Occupying /\ r \notin swept
        => requestsByOwner[ownerOf[r]] = r

Precedes(q, r) ==
    \E i, j \in DOMAIN arrived : i < j /\ arrived[i] = q /\ arrived[j] = r

Starts(r) == state[r] = "pending" /\ state'[r] = "running"

\* "Later requests that touch any of those documents cannot overtake this
\* request while it is deferred" (gui_request.py), nor once it is requeued.
DeferredNotOvertaken ==
    [][\A r \in Requests : Starts(r) =>
        \A q \in everDeferred \ swept :
            /\ Precedes(q, r) /\ state[q] \in Waiting
            => keysOf[q] \cap keysOf[r] = {}]_vars

\* The comment in _take_next_request: queued requests that overlap a deferred
\* document "remain ordered".
SameDocumentOrder ==
    [][\A r \in Requests : Starts(r) =>
        \A q \in Requests :
            /\ Precedes(q, r) /\ InQueue(q) /\ state[q] = "pending"
            => keysOf[q] \cap keysOf[r] = {}]_vars

\* A refusal with GUI_BUSY_AFTER_TIMEOUT is justified: a timed-out request is
\* on the GUI thread at that moment.
BusyOnlyWhileOccupied ==
    [][\A r \in Requests :
        result[r] # "busy_after_timeout" /\ result'[r] = "busy_after_timeout"
            => \E q \in Requests : state[q] = "timed_out_running"]_vars

\* A terminal request stays as it ended: no late completion, cancel or requeue
\* changes its state or its outcome.
TerminalIsFinal ==
    [][\A r \in Requests : state[r] \in Terminal =>
            state'[r] = state[r] /\ outcome'[r] = outcome[r]]_vars

\* The contract of submit (DispatchContract) that the core implements.
RefusedAnswers == {"stopping", "busy_after_timeout", "duplicate", "readiness_refused"}

PhaseOf(r) ==
    CASE state[r] \in Occupying -> "running"
      [] state[r] = "completed" /\ ran[r] > 0 -> "finished"
      [] state[r] \in Terminal /\ ~(state[r] = "completed" /\ ran[r] > 0) -> "withdrawn"
      [] state[r] \in Waiting /\ result[r] \in RefusedAnswers -> "withdrawn"
      [] state[r] \in Waiting /\ result[r] \notin RefusedAnswers ->
            IF pc[r] \in {"idle", "admit"} THEN "new" ELSE "waiting"

AnswerOf(r) ==
    CASE result[r] = "none" -> "none"
      [] result[r] = "value" -> "value"
      [] result[r] = "task_error" -> "failed"
      [] result[r] \in RefusedAnswers \cup {"timeout_before"} -> "not_run"
      [] result[r] \in {"timeout_during", "wake_failed"} -> "unknown"

Contract == INSTANCE DispatchContract WITH
    phase <- [r \in Requests |-> PhaseOf(r)],
    answer <- [r \in Requests |-> AnswerOf(r)]

\* Every step of the core is a step of the contract or changes nothing a caller
\* can observe.
ImplementsContract == Contract!Spec

\* submit returns: a caller with a timeout, and one without, whatever the
\* documents, the cancellations and the deadlines of other callers do. Time and
\* again nobody is inside (a caller enters once).
SubmitReturns ==
    []<>(\A r \in Requests : pc[r] \in {"idle", "returned"})
=============================================================================
