-------------------------- MODULE RequestLifecycle --------------------------
(***************************************************************************)
(* One authenticated request id on its way through the add-on: the         *)
(* handlers that carry it (the original call and its retries), the replay  *)
(* journal that keeps it from being dispatched twice, the in-flight        *)
(* registry with its cancellation token, the callable on the GUI thread    *)
(* with its completion callback, and the callers of cancel_request and     *)
(* get_request_status.                                                     *)
(*                                                                         *)
(* The journal is keyed by the MCP runtime and outlives a session; the     *)
(* registry is keyed by the session. A retry over a refreshed session      *)
(* meets the same journal entry and another token.                         *)
(*                                                                         *)
(* The GUI thread appears as DispatchContract promises it (GuiDispatch     *)
(* implements that contract): a queued callable is started, withdrawn or   *)
(* expired once, a started one ends, and its callback runs before the      *)
(* waiter wakes, except that a deadline found expired in the GUI thread's  *)
(* hand is visible before its callback has run.                            *)
(***************************************************************************)
EXTENDS Integers, FiniteSets

\* The three ways: a native commit of run_cad_mutation, whose callback asks
\* begin_mutation before anything else; a native commit whose callback does not
\* (execute_code, the typed handlers of commit_native_mutation); and the callable
\* itself (create_document, undo, a save, execute_code without a document).
Ways == {"cad", "native", "direct"}

CONSTANTS
    Sessions,     \* authenticated sessions of one MCP runtime
    Handlers,     \* transport threads that carry the request id
    SessionOf,    \* the session each handler authenticated with
    Cancellers,   \* threads in cancel_request
    CancelIn,     \* the session each canceller authenticated with
    Pollers,      \* threads in get_request_status
    PollIn,       \* the session each poller authenticated with
    ChangesBy,    \* the ways the request's method changes documents, of Ways
    MaxPhases     \* bound: GUI calls the method of each handler makes

ASSUME ActorAssumption ==
    /\ SessionOf \in [Handlers -> Sessions]
    /\ CancelIn \in [Cancellers -> Sessions]
    /\ PollIn \in [Pollers -> Sessions]
    /\ ChangesBy \subseteq Ways
    /\ MaxPhases \in [Handlers -> Nat]

VARIABLES
    entry,     \* RequestReplayCache: the journal entry of the request id
    token,     \* InflightRequestRegistry: the CancellationToken of each session
    pc,        \* invoke_v2: where each handler is
    result,    \* invoke_v2: the response the handler has in hand
    pinned,    \* invoke_v2: process_pinned, as computed so far
    answer,    \* invoke_v2: what the handler returned to its client
    unit,      \* dispatch_gui: the latest GUI request of each handler
    cpc,       \* cancel_request: where each canceller is
    told,      \* cancel_request: the registry's status for the caller
    poll,      \* get_request_status: the journal entry as each poller read it
    commit,    \* the native commit a callable of each handler has posted
    changed    \* history: the handlers whose work changed a document, and the way

vars == <<entry, token, pc, result, pinned, answer, unit, cpc, told, poll, commit, changed>>
handlerVars == <<pc, result, pinned, answer>>
cancelVars == <<cpc, told>>
workVars == <<commit, changed>>

-----------------------------------------------------------------------------
(* Data                                                                    *)

Responses == {"none", "ok", "failed", "not_run", "uncertain",
              "outcome_uncertain", "cancelled", "cancelled_mutated",
              "in_progress", "refused", "compacted"}

EntryStates == {"absent", "expired", "in_progress", "completed"}

NoEntry == [state |-> "absent", response |-> "none", pinned |-> FALSE, late |-> FALSE]

NoToken == [reg |-> "none", cancel |-> FALSE, mutated |-> FALSE,
            uncertain |-> FALSE, incident |-> FALSE, finished |-> FALSE,
            phases |-> 0, resolving |-> FALSE, resolved |-> FALSE, failed |-> FALSE]

\* cb is where the completion callback is, and cs the registry's answer to its
\* end_gui_phase (NoToken for the None of a retired request).
NoUnit == [state |-> "none", ok |-> FALSE, late |-> FALSE, unwoken |-> FALSE,
           cb |-> "idle", cs |-> NoToken, phase |-> 0]

UnitStates == {"none", "queued", "running", "timed_out_running", "completed",
               "cancelled", "timed_out_pending"}
CallbackPcs == {"idle", "due", "recover", "resolve", "publish", "refresh",
                "journal", "over"}

\* The thread in the callback holds completion_lock from its first step to its last.
HoldsLock(h) == unit[h].cb \in {"recover", "resolve", "publish", "refresh", "journal"}
CompletionSeen(h) == HoldsLock(h) \/ unit[h].cb = "over"

Executing(h) == unit[h].state \in {"running", "timed_out_running"}

\* The handler whose call registered the token of its session.
Owns(h) == pc[h] \notin {"idle", "claimed", "abandoning", "turned_away"}

-----------------------------------------------------------------------------
(* CancellationToken and InflightRequestRegistry, each step under a lock   *)

\* Mutation: retires without looking at the open phases.
TerminalWhenFinished(t) ==
    IF t.finished /\ (t.cancel => t.resolved) THEN [t EXCEPT !.reg = "terminal"] ELSE t

MaybeTerminal(t) ==
    IF t.finished /\ t.phases = 0 /\ (t.cancel => t.resolved)
    THEN [t EXCEPT !.reg = "terminal"]
    ELSE t

BeginGuiPhase(t) == IF t.reg = "active" THEN [t EXCEPT !.phases = @ + 1] ELSE t

\* Mutation: the count is lowered past zero.
EndUnclamped(t) ==
    IF t.reg = "active" THEN MaybeTerminal([t EXCEPT !.phases = @ - 1]) ELSE t

EndGuiPhase(t) ==
    IF t.reg = "active"
    THEN MaybeTerminal([t EXCEPT !.phases = IF @ > 0 THEN @ - 1 ELSE 0])
    ELSE t

FinishHandler(t, failed) ==
    IF t.reg = "active"
    THEN MaybeTerminal([t EXCEPT !.finished = TRUE, !.failed = failed])
    ELSE t

RequestCancel(t) == IF t.reg = "active" THEN [t EXCEPT !.cancel = TRUE] ELSE t

\* Mutation: begin_mutation records without testing, as mark_mutation_started does.
MutateAnyway(t) == TRUE

MayMutate(t) == ~t.cancel

\* Mutations: the claim forgets a resolver at work, or is refused to a finished handler.
ClaimsUntilResolved(t) == ~t.resolved
ClaimsUnlessFinished(t) == ~t.resolving /\ ~t.resolved /\ ~t.finished

\* claim_cancellation_resolution: whether this caller becomes the resolver. One
\* that does not waits until the resolution is published.
ClaimsResolution(t) == ~t.resolving /\ ~t.resolved

PublishResolution(t) ==
    MaybeTerminal([t EXCEPT !.resolved = TRUE, !.resolving = FALSE])

CancelledCode(t) ==
    IF t.mutated \/ t.uncertain THEN "cancelled_mutated" ELSE "cancelled"

SetToken(s, t) == token' = [token EXCEPT ![s] = t]

-----------------------------------------------------------------------------
(* RequestReplayCache                                                      *)

\* Mutation: process_pinned is not recorded.
CompleteUnpinned(e, response, pin) ==
    IF e.late THEN e ELSE [e EXCEPT !.state = "completed", !.response = response]

JournalComplete(e, response, pin) ==
    IF e.late
    THEN e
    ELSE [e EXCEPT !.state = "completed", !.response = response, !.pinned = @ \/ pin]

JournalLate(e, response) ==
    IF e.state \in {"in_progress", "completed"}
    THEN [e EXCEPT !.state = "completed", !.response = response, !.late = TRUE]
    ELSE e

\* An entry whose retention has run out: a pinned one is compacted, another is
\* forgotten but for its tombstone.
Pruned(e) ==
    IF e.pinned THEN [e EXCEPT !.response = "compacted"]
                ELSE [NoEntry EXCEPT !.state = "expired"]

-----------------------------------------------------------------------------
(* invoke_v2: claim, register, checkpoint                                  *)

SetPc(h, p) == pc' = [pc EXCEPT ![h] = p]
SetResult(h, r) == result' = [result EXCEPT ![h] = r]

TurnAway(h, response) ==
    /\ SetPc(h, "turned_away")
    /\ answer' = [answer EXCEPT ![h] = response]
    /\ UNCHANGED <<result, pinned>>

Claim(h) ==
    /\ pc[h] = "idle"
    /\ entry.state \in {"absent", "expired"}
    /\ entry' = [NoEntry EXCEPT !.state = "in_progress"]
    /\ SetPc(h, "claimed")
    /\ UNCHANGED <<token, result, pinned, answer, unit, cancelVars, poll, workVars>>

Replay(h) ==
    /\ pc[h] = "idle"
    /\ \/ entry.state = "completed" /\ TurnAway(h, entry.response)
       \/ entry.state = "in_progress" /\ TurnAway(h, "in_progress")
    /\ UNCHANGED <<entry, token, unit, cancelVars, poll, workVars>>

\* The registry refuses a key it holds, live or retired.
Register(h) ==
    /\ pc[h] = "claimed"
    /\ LET s == SessionOf[h] IN
       \/ /\ token[s].reg = "none"
          /\ SetToken(s, [NoToken EXCEPT !.reg = "active"])
          /\ SetPc(h, "registered")
       \/ /\ token[s].reg # "none"
          /\ SetPc(h, "abandoning")
          /\ UNCHANGED token
    /\ UNCHANGED <<entry, result, pinned, answer, unit, cancelVars, poll, workVars>>

Abandon(h) ==
    /\ pc[h] = "abandoning"
    /\ entry' = NoEntry
    /\ TurnAway(h, "refused")
    /\ UNCHANGED <<token, unit, cancelVars, poll, workVars>>

CheckpointPasses(t) == ~t.cancel

Checkpoint(h) ==
    /\ pc[h] = "registered"
    /\ IF CheckpointPasses(token[SessionOf[h]])
       THEN SetPc(h, "dispatched") /\ UNCHANGED result
       ELSE SetPc(h, "resolve") /\ SetResult(h, "cancelled")
    /\ UNCHANGED <<entry, token, pinned, answer, unit, cancelVars, poll, workVars>>

-----------------------------------------------------------------------------
(* The method, and dispatch_gui inside it                                  *)

\* dispatch_gui waits for the handle of a native commit before it returns. What
\* run_cad_mutation returns is a dictionary whatever the commit comes to.
Awaits(h) == commit[h] = "native"

MethodReturns(h) ==
    /\ pc[h] = "dispatched" /\ ~Awaits(h)
    /\ \E r \in {"ok", "failed"} : SetResult(h, r)
    /\ SetPc(h, "returned")
    /\ UNCHANGED <<entry, token, pinned, answer, unit, cancelVars, poll, workVars>>

\* Anything the method raises once dispatched, such as the TimeoutError of a
\* native commit that await_result gave up on.
MethodRaises(h) ==
    /\ pc[h] = "dispatched"
    /\ SetResult(h, "outcome_uncertain")
    /\ pinned' = [pinned EXCEPT ![h] = TRUE]
    /\ SetPc(h, "finishing")
    /\ UNCHANGED <<entry, token, answer, unit, cancelVars, poll, workVars>>

BeginPhase(h) ==
    /\ pc[h] = "dispatched" /\ ~Awaits(h)
    /\ unit[h].phase < MaxPhases[h]
    /\ SetToken(SessionOf[h], BeginGuiPhase(token[SessionOf[h]]))
    /\ SetPc(h, "opened")
    /\ UNCHANGED <<entry, result, pinned, answer, unit, cancelVars, poll, workVars>>

Submit(h) ==
    /\ pc[h] = "opened"
    /\ unit' = [unit EXCEPT ![h] = [NoUnit EXCEPT !.state = "queued",
                                                 !.phase = unit[h].phase + 1]]
    /\ SetPc(h, "waiting")
    /\ UNCHANGED <<entry, token, result, pinned, answer, cancelVars, poll, workVars>>

\* Stopping, quarantined or a live request of the same key: nothing was queued
\* and the callback will not be called.
SubmitRefused(h) ==
    /\ pc[h] = "opened"
    /\ unit' = [unit EXCEPT ![h] = [NoUnit EXCEPT !.phase = unit[h].phase + 1]]
    /\ SetPc(h, "gui_error") /\ SetResult(h, "failed")
    /\ UNCHANGED <<entry, token, pinned, answer, cancelVars, poll, workVars>>

\* The wake fails after another wake had the callable taken and started.
WakeFails(h) ==
    /\ pc[h] = "waiting" /\ unit[h].state = "running"
    /\ unit' = [unit EXCEPT ![h].unwoken = TRUE]
    /\ SetPc(h, "gui_error") /\ SetResult(h, "failed")
    /\ UNCHANGED <<entry, token, pinned, answer, cancelVars, poll, workVars>>

SubmitReturns(h) ==
    /\ pc[h] \in {"waiting", "withdrawing"}
    /\ unit[h].cb = "over"
    /\ \/ /\ unit[h].state = "completed" /\ unit[h].ok
          /\ SetPc(h, "dispatched")
          /\ UNCHANGED result
       \/ /\ ~(unit[h].state = "completed" /\ unit[h].ok)
          /\ SetPc(h, "gui_error")
          /\ SetResult(h, IF pc[h] = "withdrawing" \/ unit[h].state = "timed_out_pending"
                          THEN "not_run" ELSE "failed")
    /\ UNCHANGED <<entry, token, pinned, answer, unit, cancelVars, poll, workVars>>

\* The wait ran out. A queued callable is withdrawn on the handler's thread,
\* callback included; one expired in the GUI thread's hand is given up on as
\* its state is seen; one that completed or was cancelled is waited for.
Timeout(h) ==
    /\ pc[h] = "waiting" /\ unit[h].cb # "over"
    /\ \/ /\ unit[h].state = "queued"
          /\ unit' = [unit EXCEPT ![h].state = "cancelled", ![h].cb = "due"]
          /\ SetPc(h, "withdrawing")
          /\ UNCHANGED result
       \/ /\ unit[h].state = "timed_out_pending"
          /\ SetPc(h, "gui_error") /\ SetResult(h, "not_run")
          /\ UNCHANGED unit
       \/ /\ unit[h].state = "running"
          /\ unit' = [unit EXCEPT ![h].state = "timed_out_running"]
          /\ SetPc(h, "gui_error") /\ SetResult(h, "uncertain")
    /\ UNCHANGED <<entry, token, pinned, answer, cancelVars, poll, workVars>>

\* Mutation: uncertainty is recorded without asking whether the completion was seen.
MarksAnyway(h) == TRUE

MayMarkUncertain(h) == ~CompletionSeen(h)

\* Mutation: the phase is closed under a callable that is still running.
EndsUnlessSeen(h) == ~CompletionSeen(h)

EndsPhase(h) == ~CompletionSeen(h) /\ result[h] # "uncertain"

HandleGuiDispatchError(h) ==
    /\ pc[h] = "gui_error"
    /\ ~HoldsLock(h)
    /\ LET t == token[SessionOf[h]] IN
       SetToken(SessionOf[h],
           IF EndsPhase(h) THEN EndGuiPhase(t)
           ELSE IF result[h] = "uncertain" /\ MayMarkUncertain(h)
           THEN [t EXCEPT !.uncertain = TRUE, !.incident = TRUE]
           ELSE t)
    /\ SetPc(h, "returned")
    /\ UNCHANGED <<entry, result, pinned, answer, unit, cancelVars, poll, workVars>>

-----------------------------------------------------------------------------
(* invoke_v2: from the method's result to the client's answer              *)

CodeIsUncertain(r) == r \in {"uncertain", "outcome_uncertain", "cancelled_mutated"}

\* The snapshot taken after dispatch decides whether the result is replaced.
Snapshot(h) ==
    /\ pc[h] = "returned"
    /\ LET t == token[SessionOf[h]]
           r == IF t.cancel THEN CancelledCode(t) ELSE result[h] IN
       /\ SetResult(h, r)
       /\ pinned' = [pinned EXCEPT ![h] = t.uncertain \/ CodeIsUncertain(r)]
       /\ SetPc(h, IF t.cancel THEN "resolve" ELSE "finishing")
    /\ UNCHANGED <<entry, token, answer, unit, cancelVars, poll, workVars>>

AfterResolution(p) == IF p = "resolve" THEN "finishing" ELSE "refinishing"

HandlerResolves(h) ==
    /\ pc[h] \in {"resolve", "resolve_late"}
    /\ LET s == SessionOf[h] IN
       \/ /\ token[s].resolved
          /\ SetPc(h, AfterResolution(pc[h]))
          /\ UNCHANGED token
       \/ /\ ClaimsResolution(token[s])
          /\ SetToken(s, [token[s] EXCEPT !.resolving = TRUE])
          /\ SetPc(h, IF pc[h] = "resolve" THEN "publish" ELSE "publish_late")
    /\ UNCHANGED <<entry, result, pinned, answer, unit, cancelVars, poll, workVars>>

HandlerPublishes(h) ==
    /\ pc[h] \in {"publish", "publish_late"}
    /\ SetToken(SessionOf[h], PublishResolution(token[SessionOf[h]]))
    /\ SetPc(h, IF pc[h] = "publish" THEN "finishing" ELSE "refinishing")
    /\ UNCHANGED <<entry, result, pinned, answer, unit, cancelVars, poll, workVars>>

\* Mutation: the finalizer does not look at the cancellation again.
GateOpen(t) == FALSE

\* The cancellation gate: what finish_handler saw under the registry's lock, or
\* FALSE when the client will be told what the method returned.
GateShut(t) == t.cancel

Finish(h) ==
    /\ pc[h] = "finishing"
    /\ LET s == SessionOf[h]
           t == FinishHandler(token[s], result[h] \notin {"ok", "outcome_uncertain"}) IN
       /\ SetToken(s, t)
       /\ \/ /\ ~GateShut(t)
             /\ SetPc(h, "completing")
             /\ UNCHANGED <<result, pinned>>
          \/ /\ GateShut(t)
             /\ SetResult(h, CancelledCode(t))
             /\ pinned' = [pinned EXCEPT ![h] = @ \/ t.mutated \/ t.uncertain]
             /\ SetPc(h, IF t.resolved THEN "refinishing" ELSE "resolve_late")
    /\ UNCHANGED <<entry, answer, unit, cancelVars, poll, workVars>>

Refinish(h) ==
    /\ pc[h] = "refinishing"
    /\ SetToken(SessionOf[h], FinishHandler(token[SessionOf[h]], TRUE))
    /\ SetPc(h, "completing")
    /\ UNCHANGED <<entry, result, pinned, answer, unit, cancelVars, poll, workVars>>

Complete(h) ==
    /\ pc[h] = "completing"
    /\ entry' = JournalComplete(entry, result[h], pinned[h])
    /\ answer' = [answer EXCEPT ![h] = result[h]]
    /\ SetPc(h, "done")
    /\ SetResult(h, "none") /\ pinned' = [pinned EXCEPT ![h] = FALSE]
    /\ UNCHANGED <<token, unit, cancelVars, poll, workVars>>

-----------------------------------------------------------------------------
(* The callable on the GUI thread                                          *)

SetUnit(h, u) == unit' = [unit EXCEPT ![h] = u]

StartCallable(h) ==
    /\ unit[h].state = "queued"
    /\ \A g \in Handlers : ~Executing(g)
    /\ SetUnit(h, [unit[h] EXCEPT !.state = "running"])
    /\ UNCHANGED <<entry, token, handlerVars, cancelVars, poll, workVars>>

EndCallable(h) ==
    /\ Executing(h)
    /\ \E ok \in BOOLEAN :
          SetUnit(h, [unit[h] EXCEPT !.state = "completed", !.ok = ok, !.cb = "due",
                                     !.late = unit[h].state = "timed_out_running"])
    /\ UNCHANGED <<entry, token, handlerVars, cancelVars, poll, workVars>>

ExpireInHand(h) ==
    /\ unit[h].state = "queued"
    /\ SetUnit(h, [unit[h] EXCEPT !.state = "timed_out_pending", !.cb = "due"])
    /\ UNCHANGED <<entry, token, handlerVars, cancelVars, poll, workVars>>

\* Quarantine by another request, a failed wake, shutdown, a deleted document.
Sweep(h) ==
    /\ unit[h].state = "queued"
    /\ SetUnit(h, [unit[h] EXCEPT !.state = "cancelled", !.cb = "due"])
    /\ UNCHANGED <<entry, token, handlerVars, cancelVars, poll, workVars>>

-----------------------------------------------------------------------------
(* What the callable does to documents                                     *)

SetCommit(h, k) == commit' = [commit EXCEPT ![h] = k]

\* The work of a request is followed up to its first change.
HasChanged(h) == \E k \in Ways : <<h, k>> \in changed

\* Behind the checkpoint of run_lease_aware_gui_task. From the GUI thread a commit
\* is posted to the owner thread of its document and may outlive the callable.
PostCommit(h) ==
    /\ Executing(h) /\ commit[h] = "none" /\ ~HasChanged(h)
    /\ CheckpointPasses(token[SessionOf[h]])
    /\ \E k \in ChangesBy \ {"direct"} : SetCommit(h, k)
    /\ UNCHANGED <<entry, token, handlerVars, unit, cancelVars, poll, changed>>

BeginMutation(h) ==
    /\ commit[h] = "cad"
    /\ MayMutate(token[SessionOf[h]])
    /\ SetToken(SessionOf[h], [token[SessionOf[h]] EXCEPT !.mutated = TRUE])
    /\ SetCommit(h, "begun")
    /\ UNCHANGED <<entry, handlerVars, unit, cancelVars, poll, changed>>

\* The callback has run. That counts as a change, rolled back afterwards or not.
CommitRuns(h) ==
    /\ commit[h] \in {"begun", "native"}
    /\ SetCommit(h, "none")
    /\ changed' = changed \cup {<<h, IF commit[h] = "begun" THEN "cad" ELSE "native">>}
    /\ UNCHANGED <<entry, token, handlerVars, unit, cancelVars, poll>>

\* Rejected before its callback, or turned back by begin_mutation.
CommitRejected(h) ==
    /\ commit[h] \in {"cad", "native"}
    /\ SetCommit(h, "none")
    /\ UNCHANGED <<entry, token, handlerVars, unit, cancelVars, poll, changed>>

\* Nobody checks for a cancellation before a direct change when the call names no
\* open document; the checkpoint of the other direct methods is left out.
ChangeDirectly(h) ==
    /\ "direct" \in ChangesBy
    /\ Executing(h) /\ commit[h] = "none" /\ ~HasChanged(h)
    /\ changed' = changed \cup {<<h, "direct">>}
    /\ UNCHANGED <<entry, token, handlerVars, unit, cancelVars, poll, commit>>

-----------------------------------------------------------------------------
(* record_completion, on whichever thread made the request terminal        *)

\* Mutation: the callback leaves the resolution to somebody else.
JournalsOnly(t) == "journal"

OnCancel(t) == IF t.cancel THEN "resolve" ELSE "journal"

CallbackBegins(h) ==
    /\ unit[h].cb = "due"
    /\ LET s == SessionOf[h]
           live == token[s].reg = "active"
           t == EndGuiPhase(token[s]) IN
       /\ SetToken(s, t)
       /\ SetUnit(h, [unit[h] EXCEPT
              !.cs = IF live THEN t ELSE NoToken,
              !.cb = IF ~live THEN "journal"
                     ELSE IF t.incident THEN "recover" ELSE OnCancel(t)])
    /\ UNCHANGED <<entry, handlerVars, cancelVars, poll, workVars>>

CallbackRecovers(h) ==
    /\ unit[h].cb = "recover"
    /\ LET t == [token[SessionOf[h]] EXCEPT !.uncertain = FALSE] IN
       /\ SetToken(SessionOf[h], t)
       /\ SetUnit(h, [unit[h] EXCEPT !.cs = t, !.cb = OnCancel(t)])
    /\ UNCHANGED <<entry, handlerVars, cancelVars, poll, workVars>>

CallbackResolves(h) ==
    /\ unit[h].cb = "resolve"
    /\ LET s == SessionOf[h] IN
       \/ /\ token[s].resolved
          /\ SetUnit(h, [unit[h] EXCEPT !.cb = "refresh"])
          /\ UNCHANGED token
       \/ /\ ClaimsResolution(token[s])
          /\ SetToken(s, [token[s] EXCEPT !.resolving = TRUE])
          /\ SetUnit(h, [unit[h] EXCEPT !.cb = "publish"])
    /\ UNCHANGED <<entry, handlerVars, cancelVars, poll, workVars>>

CallbackPublishes(h) ==
    /\ unit[h].cb = "publish"
    /\ SetToken(SessionOf[h], PublishResolution(token[SessionOf[h]]))
    /\ SetUnit(h, [unit[h] EXCEPT !.cb = "refresh"])
    /\ UNCHANGED <<entry, handlerVars, cancelVars, poll, workVars>>

CallbackRefreshes(h) ==
    /\ unit[h].cb = "refresh"
    /\ SetUnit(h, [unit[h] EXCEPT !.cs = token[SessionOf[h]], !.cb = "journal"])
    /\ UNCHANGED <<entry, token, handlerVars, cancelVars, poll, workVars>>

LateResponse(u) ==
    IF u.cs.cancel THEN CancelledCode(u.cs)
    ELSE IF u.state = "completed" /\ u.ok THEN "ok" ELSE "failed"

MustJournal(u) == u.late \/ u.cs.reg = "none" \/ u.cs.finished

\* The result stands in the journal before the waiter is woken.
CallbackJournals(h) ==
    /\ unit[h].cb = "journal"
    /\ entry' = IF MustJournal(unit[h]) THEN JournalLate(entry, LateResponse(unit[h]))
                                        ELSE entry
    /\ SetUnit(h, [unit[h] EXCEPT !.cb = "over", !.cs = NoToken])
    /\ UNCHANGED <<token, handlerVars, cancelVars, poll, workVars>>

-----------------------------------------------------------------------------
(* cancel_request                                                          *)

SetCpc(c, p) == cpc' = [cpc EXCEPT ![c] = p]

CancelRequest(c) ==
    /\ cpc[c] = "idle"
    /\ LET s == CancelIn[c]
           t == token[s] IN
       /\ SetToken(s, RequestCancel(t))
       /\ told' = [told EXCEPT ![c] = CASE t.reg = "none"     -> "unknown"
                                        [] t.reg = "terminal" -> "completed"
                                        [] t.reg = "active" /\ t.cancel -> "already"
                                        [] OTHER              -> "requested"]
       /\ SetCpc(c, IF t.reg = "none" THEN "over" ELSE "in_gui")
    /\ UNCHANGED <<entry, handlerVars, unit, poll, workVars>>

Target(c) == CHOOSE h \in Handlers : SessionOf[h] = CancelIn[c] /\ Owns(h)

\* A request swept off the queue is no longer registered with the dispatcher
\* when its cancellation shows; one that ended otherwise is until its callback
\* has run.
CancelInGui(c) ==
    /\ cpc[c] = "in_gui"
    /\ LET h == Target(c)
           u == unit[h] IN
       \/ /\ u.state = "queued"
          /\ SetUnit(h, [u EXCEPT !.state = "cancelled", !.cb = "due"])
          /\ SetCpc(c, "withdrawing")
       \/ /\ u.state \in {"completed", "cancelled", "timed_out_pending"}
          /\ u.cb # "over"
          /\ SetCpc(c, "resolve")
          /\ UNCHANGED unit
       \/ /\ \/ u.state \in {"none", "running", "timed_out_running", "cancelled"}
             \/ u.cb = "over"
          /\ SetCpc(c, "over")
          /\ UNCHANGED unit
    /\ UNCHANGED <<entry, token, handlerVars, told, poll, workVars>>

CancelWithdrew(c) ==
    /\ cpc[c] = "withdrawing"
    /\ unit[Target(c)].cb = "over"
    /\ SetCpc(c, "resolve")
    /\ UNCHANGED <<entry, token, handlerVars, unit, told, poll, workVars>>

CancelResolves(c) ==
    /\ cpc[c] = "resolve"
    /\ LET s == CancelIn[c] IN
       \/ /\ token[s].resolved \/ ~token[s].cancel
          /\ SetCpc(c, "over")
          /\ UNCHANGED token
       \/ /\ token[s].cancel /\ ClaimsResolution(token[s])
          /\ SetToken(s, [token[s] EXCEPT !.resolving = TRUE])
          /\ SetCpc(c, "publish")
    /\ UNCHANGED <<entry, handlerVars, unit, told, poll, workVars>>

CancelPublishes(c) ==
    /\ cpc[c] = "publish"
    /\ SetToken(CancelIn[c], PublishResolution(token[CancelIn[c]]))
    /\ SetCpc(c, "over")
    /\ UNCHANGED <<entry, handlerVars, unit, told, poll, workVars>>

\* request_cancel_all, when the server shuts down: every live request is signalled
\* and nobody stays to resolve it.
CancelAll ==
    /\ \E s \in Sessions : token[s].reg = "active" /\ ~token[s].cancel
    /\ token' = [s \in Sessions |-> RequestCancel(token[s])]
    /\ UNCHANGED <<entry, handlerVars, unit, cancelVars, poll, workVars>>

-----------------------------------------------------------------------------
(* get_request_status: the journal is read before the token                *)

FinalReports == {"completed", "failed", "cancelled", "completed_after_cancel_request"}
LateShown(e) == e.late /\ e.response # "compacted"

WithoutInflight(e) ==
    CASE e.state = "completed"   -> "completed"
      [] e.state = "in_progress" -> "running"
      [] OTHER                   -> "unknown"

TerminalState(t, e) ==
    CASE t.cancel /\ LateShown(e)  -> "completed_after_cancel_request"
      [] t.cancel /\ ~LateShown(e) -> "cancelled"
      [] ~t.cancel /\ LateShown(e) -> IF e.response = "ok" THEN "completed" ELSE "failed"
      [] OTHER                     -> IF t.failed THEN "failed" ELSE "completed"

\* In the order inflight_state asks its questions.
InflightState(t, e) ==
    IF e.state = "expired" THEN "expired"
    ELSE IF t.reg = "none" THEN WithoutInflight(e)
    ELSE IF t.cancel /\ t.phases > 0 THEN "cancel_requested"
    ELSE IF t.uncertain /\ t.phases > 0 THEN "running_after_timeout"
    ELSE IF t.reg = "terminal" THEN TerminalState(t, e)
    ELSE IF t.cancel THEN "cancel_requested"
    ELSE IF t.uncertain THEN "running_after_timeout"
    ELSE IF t.phases > 0 THEN "running" ELSE "queued"

PollJournal(p) ==
    /\ ~poll[p].read
    /\ poll' = [poll EXCEPT ![p] = [read |-> TRUE, entry |-> entry]]
    /\ UNCHANGED <<entry, token, handlerVars, unit, cancelVars, workVars>>

\* The answer is InflightState of the token now and of the journal as it was read.
PollToken(p) ==
    /\ poll[p].read
    /\ poll' = [poll EXCEPT ![p] = [read |-> FALSE, entry |-> NoEntry]]
    /\ UNCHANGED <<entry, token, handlerVars, unit, cancelVars, workVars>>

-----------------------------------------------------------------------------
(* The retention of the journal runs out. It is minutes long: no handler is *)
(* between its claim and its answer, and no callback is under way.          *)
Expire ==
    /\ entry.state = "completed"
    /\ \A h \in Handlers :
          /\ pc[h] \in {"idle", "done", "turned_away"}
          /\ unit[h].cb \in {"idle", "over"}
    /\ entry' = Pruned(entry)
    /\ UNCHANGED <<token, handlerVars, unit, cancelVars, poll, workVars>>

-----------------------------------------------------------------------------
Init ==
    /\ entry = NoEntry
    /\ token = [s \in Sessions |-> NoToken]
    /\ pc = [h \in Handlers |-> "idle"]
    /\ result = [h \in Handlers |-> "none"]
    /\ pinned = [h \in Handlers |-> FALSE]
    /\ answer = [h \in Handlers |-> "none"]
    /\ unit = [h \in Handlers |-> NoUnit]
    /\ cpc = [c \in Cancellers |-> "idle"]
    /\ told = [c \in Cancellers |-> "none"]
    /\ poll = [p \in Pollers |-> [read |-> FALSE, entry |-> NoEntry]]
    /\ commit = [h \in Handlers |-> "none"] /\ changed = {}

Invoke(h) ==
    \/ Claim(h) \/ Replay(h) \/ Register(h) \/ Abandon(h) \/ Checkpoint(h)
    \/ MethodReturns(h) \/ MethodRaises(h) \/ BeginPhase(h)
    \/ Submit(h) \/ SubmitRefused(h) \/ SubmitReturns(h) \/ Timeout(h)
    \/ HandleGuiDispatchError(h) \/ Snapshot(h) \/ HandlerResolves(h)
    \/ HandlerPublishes(h) \/ Finish(h) \/ Refinish(h) \/ Complete(h)

Callback(h) ==
    \/ CallbackBegins(h) \/ CallbackRecovers(h) \/ CallbackResolves(h)
    \/ CallbackPublishes(h) \/ CallbackRefreshes(h) \/ CallbackJournals(h)

Callable(h) ==
    StartCallable(h) \/ EndCallable(h)

Work(h) ==
    \/ PostCommit(h) \/ BeginMutation(h) \/ CommitRuns(h) \/ CommitRejected(h)
    \/ ChangeDirectly(h)

Cancel(c) ==
    \/ CancelRequest(c) \/ CancelInGui(c) \/ CancelWithdrew(c)
    \/ CancelResolves(c) \/ CancelPublishes(c)

Poll(p) == PollJournal(p) \/ PollToken(p)

Next ==
    \/ \E h \in Handlers : \/ Invoke(h) \/ WakeFails(h) \/ Callback(h) \/ Callable(h)
                           \/ Work(h) \/ ExpireInHand(h) \/ Sweep(h)
    \/ \E c \in Cancellers : Cancel(c)
    \/ \E p \in Pollers : Poll(p)
    \/ CancelAll
    \/ Expire

Spec == Init /\ [][Next]_vars

\* A handler and a canceller run on threads of their own, every wait of theirs
\* but the one for a running callable's callback is bounded by the timeout or by
\* another thread's next steps, and a callback is never abandoned half way.
\* Nothing is assumed of the callable, nor of when the GUI thread gets to it.
Fairness ==
    /\ \A h \in Handlers : WF_vars(Invoke(h) /\ pc[h] # "idle") /\ WF_vars(Callback(h))
    /\ \A c \in Cancellers : WF_vars(Cancel(c) /\ cpc[c] # "idle")

FairSpec == Spec /\ Fairness

-----------------------------------------------------------------------------
(* Properties                                                              *)

TokenType ==
    [reg : {"none", "active", "terminal"}, cancel : BOOLEAN, mutated : BOOLEAN,
     uncertain : BOOLEAN, incident : BOOLEAN, finished : BOOLEAN, phases : 0..1,
     resolving : BOOLEAN, resolved : BOOLEAN, failed : BOOLEAN]

EntryType == [state : EntryStates, response : Responses, pinned : BOOLEAN, late : BOOLEAN]

\* Every variable stays in its range; in particular the registry never counts
\* two open GUI phases for one request.
TypeOK ==
    /\ entry \in EntryType
    /\ token \in [Sessions -> TokenType]
    /\ result \in [Handlers -> Responses] /\ answer \in [Handlers -> Responses]
    /\ pinned \in [Handlers -> BOOLEAN]
    /\ \A h \in Handlers :
          /\ unit[h].state \in UnitStates /\ unit[h].cb \in CallbackPcs
          /\ unit[h].cs \in TokenType /\ unit[h].phase \in 0..MaxPhases[h]
    /\ told \in [Cancellers -> {"none", "unknown", "completed", "already", "requested"}]
    /\ poll \in [Pollers -> [read : BOOLEAN, entry : EntryType]]
    /\ commit \in [Handlers -> {"none", "cad", "begun", "native"}]
    /\ changed \subseteq Handlers \X ChangesBy

\* A cancellation the registry accepted, from a caller or from shutdown, is never
\* answered with success, however late in the call it arrived (the gate of
\* finalize_invoke_v2_response).
AcceptedCancelWins ==
    /\ \A h \in Handlers :
          (Owns(h) /\ token[SessionOf[h]].cancel) => answer[h] # "ok"
    /\ \A c \in Cancellers : told[c] = "requested" => token[CancelIn[c]].cancel

\* A request answered REQUEST_CANCELLED, and not REQUEST_CANCELLED_AFTER_MUTATION,
\* has changed no document through run_cad_mutation and never will, not even in a
\* commit that is still to begin (begin_mutation). Of the other two ways nothing is
\* promised: they ask nobody, and a request whose work changed a document in one of
\* them is answered REQUEST_CANCELLED all the same.
CancelledMeansUnmutated ==
    \A h \in Handlers :
        (pc[h] = "done" /\ answer[h] = "cancelled") => <<h, "cad">> \notin changed

\* The journal lets a request id be dispatched again only when nothing can still
\* come of the earlier dispatches: their callables are not queued or running, and
\* no client was told that the outcome is uncertain and will stay so
\* (process_pinned, claim, abandon). Nothing is promised once a wake has failed
\* under a callable that had started: its late completion, which the journal takes
\* for that of whatever call holds the entry by then, keeps that call unpinned.
Outstanding(g) ==
    /\ unit[g].state = "queued" \/ Executing(g)
    /\ ~unit[g].unwoken
NoWakeFailed == \A h \in Handlers : ~unit[h].unwoken
Redispatches(h) == pc[h] = "registered" /\ pc'[h] = "dispatched"
NoRedispatchOfLiveWork ==
    [][\A h \in Handlers : Redispatches(h) /\ NoWakeFailed =>
          \A g \in Handlers : ~Outstanding(g) /\ answer[g] # "outcome_uncertain"]_vars

\* A request the registry has retired has no callable in the queue or running
\* (begin_gui_phase, end_gui_phase, _maybe_terminal_locked).
RetiredMeansIdle ==
    \A h \in Handlers :
        (Owns(h) /\ token[SessionOf[h]].reg = "terminal") => ~Outstanding(h)

\* A token marked uncertain still has somebody who will lift it: an open phase,
\* or a callback on its way to mark_recovered. The handler's timeout and the late
\* completion race for completion_lock.
UncertaintyIsOwned ==
    \A h \in Handlers :
        (Owns(h) /\ token[SessionOf[h]].uncertain)
            => token[SessionOf[h]].phases > 0 \/ unit[h].cb = "recover"

\* At most one of the handler, the callback and the cancellers is resolving the
\* cancellation of a request, and a retired request has none under way.
Resolvers(s) ==
    {<<"handler", h>> : h \in {g \in Handlers : SessionOf[g] = s
                                   /\ pc[g] \in {"publish", "publish_late"}}}
    \cup {<<"callback", h>> : h \in {g \in Handlers : SessionOf[g] = s
                                   /\ unit[g].cb = "publish"}}
    \cup {<<"canceller", c>> : c \in {d \in Cancellers : CancelIn[d] = s
                                   /\ cpc[d] = "publish"}}
OneResolver ==
    \A s \in Sessions :
        /\ Cardinality(Resolvers(s)) =< 1
        /\ token[s].reg = "terminal" => Resolvers(s) = {}

\* get_request_status, asked in the request's own session, does not report an end
\* while the callable is queued or running (inflight_state's phase tests).
ReportsFinal(p) ==
    /\ poll[p].read /\ ~poll'[p].read
    /\ InflightState(token[PollIn[p]], poll[p].entry) \in FinalReports
OwnReportMeansIdle ==
    [][\A p \in Pollers : ReportsFinal(p) =>
          \A h \in Handlers : (SessionOf[h] = PollIn[p] /\ Owns(h)) => ~Outstanding(h)]_vars

\* The same for a poller that has refreshed its session since: the journal is all
\* it sees (_status_without_inflight).
ReportMeansIdle ==
    [][\A p \in Pollers : ReportsFinal(p) =>
          \A h \in Handlers : ~Outstanding(h)]_vars

\* Nobody is kept: a handler with a claim and a caller of cancel_request return,
\* whatever the callable does. Time and again neither is under way.
CallersReturn ==
    []<>(/\ \A h \in Handlers : pc[h] \in {"idle", "done", "turned_away"}
         /\ \A c \in Cancellers : cpc[c] \in {"idle", "over"})

\* The registry does not leak: a live request is retired, unless its callable
\* never starts or never ends.
RequestsRetire ==
    \A s \in Sessions :
        token[s].reg = "active" ~>
            token[s].reg = "terminal" \/ \E g \in Handlers : Executing(g)
=============================================================================
