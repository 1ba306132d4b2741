# Formal verification of the FreeCAD MCP add-on

TLA+ models of the concurrent core of the add-on in `src/addon/FreeCADMCP`, the
TLC configurations that check them, and TLAPS proofs. Paths below are relative to
`src/addon/FreeCADMCP` unless they begin with `src/` or `doc/`.

The add-on runs an RPC server inside FreeCAD. Each request is carried by a
transport thread; almost everything it wants must run on FreeCAD's one GUI
thread, inside a Qt event loop that native calls re-enter. Timeouts,
cancellation, retries over refreshed sessions, document events and shutdown race
with that hand-over, and its promises ("not executed", "cancelled",
"replayed, not run again") are what a client builds on. These
promises are the subject of the project.

## 1. Inventory

### Parts, their state and their operations

| Part | Source | State | Operations | Status |
|---|---|---|---|---|
| GUI dispatch core | `dispatch/gui_core.py`, `dispatch/gui_request.py` | queue, readiness-deferred queue, owner keys, `_signal_pending`, `_accepting`, `_timed_out_request`, outstanding counter; per request: state, outcome, completion event | `submit`, `drain_one`, `cancel_request`, readiness and deletion events, `stop_accepting` | modelled |
| Tokens and in-flight registry | `dispatch/cancellation_token.py`, `dispatch/inflight_request_registry.py` | per (session, request id): cancellation, mutation, uncertainty, open GUI phases, resolution; active and retired maps | `register`, `request_cancel`, `begin/end_gui_phase`, `finish_handler`, resolution claim and publication | partly |
| Replay journal | `_shared/protocol/request_replay_cache.py` | per (MCP runtime, request id): in progress / completed, response, pinned, late; tombstones | `claim`, `complete`, `journal_completion`, `abandon`, `prune` | partly |
| Authenticated invocation | `rpc_server/methods/v2_methods_ops/` | program position of the handler, result in hand | `invoke_v2` | partly |
| GUI call of a request | `rpc_server/methods/dispatch_helpers_ops/` | completion lock and flag per call | `dispatch_gui`, `record_completion`, error handler, resolution | partly |
| Control calls | `rpc_server/methods/lifecycle_methods_ops/control_*.py` | none of their own | `cancel_request`, `get_request_status` | partly |
| Qt dispatcher | `rpc_server/gui_dispatcher_qt.py` | event mailbox; cleanup controller: observer, `_pending`, `_completion`, deletion requested and scheduled | publish and deliver document events, remove the observer on its owner thread, delete the QObject | partly |
| Automation pause | `automation_pause.py` | paused flag, admission tokens of active writes | pause, resume, admit, refuse, finish, status | modelled |
| Transport listener | `transport/listener.py`, `json_rpc_transport.py`, `request_handler.py` | two accepting flags, handler slots, general and control lane, read deadlines | accept, read, expire, dispatch a batch, stop accepting, drain, close | partly |
| Server lifecycle and shutdown | `rpc_server/server_lifecycle.py`, `server_shutdown.py`, `runtime.py` | published runtime, shutdown claim with its failures, owned resources of each runtime | start, failed start, stop by a remote caller or the GUI owner, teardown, retry of a disposal | partly |
| Worker manager | `rpc_server/worker_manager.py`, `worker_manager_ops/` | permits, queue, invocations, active job and process | `execute`, the loop, `cancel`, `_begin_shutdown`, `stop` | partly |
| Session manager | `_shared/protocol/session_manager.py` | sessions, expiry, nonces | handshake, authenticate, revoke | not modelled |
| MCP client | `src/src/freecad_mcp` | session, proxy lane | connect, refresh, retry | not modelled |

The rest is left out: what the CAD methods and their generated contracts do (calls
into FreeCAD's kernel, pure validation; how a method comes to change a document is in
`RequestLifecycle`), telemetry and stage clocks (decide nothing),
the user interface, the evidence tooling, and the document lease authority, which
the live composition no longer wires (it answers `LEGACY_LEASE_AUTHORITY_REMOVED`).

### How the parts interact

1. `invoke_v2` claims the request id in the replay journal, registers a token,
   passes a cancellation checkpoint and calls the method.
2. The method calls `dispatch_gui`: it opens a GUI phase on the token and calls
   `submit`, which queues the callable and waits.
3. A wake event makes the GUI thread call `drain_one`, which takes one request,
   probes whether its documents are ready, and runs or retains it.
4. Whoever ends the request (GUI thread, a withdrawing waiter, a canceller, a
   sweep) calls `on_complete`: `record_completion` closes the phase, lifts an
   uncertainty, helps resolve a cancellation and journals a late result. Only then
   does the waiter wake.
5. `invoke_v2` snapshots the token, resolves a cancellation, passes the finalizer's
   gate, finishes the token and completes the journal entry.
6. `cancel_request` and `get_request_status` run beside all this on other transport
   threads, keyed by the caller's session.

7. In front of all this the listener admits a connection, takes a handler slot and
   a pool thread, reads the request under a deadline, and calls the methods of its
   batch one by one under a slot of the general or the control lane. A remote write
   is registered with the automation pause around its method.
8. A worker job is queued by its caller, which waits; one loop thread runs one
   process at a time; `cancel` and shutdown come from other threads.
9. A stop fences the in-flight requests (`request_cancel_all`, the worker's
   `_begin_shutdown`), joins the accepting thread and disposes of the runtime's
   resources in reverse order: listener, bridge, worker, dispatcher. The last needs
   the GUI thread, which may itself be the caller of the stop.

Shared state is guarded by a queue lock, a lock per GUI request, one per token and
registry, the journal's lock, a completion lock per GUI call, the lifecycle lock, the
cleanup controller's, the listener's two, the pause's and the worker's; nothing is
held across two of these steps except the completion lock and, in a start, the
lifecycle lock. Hence the hard part: every gap between two critical sections is an
interleaving.

### What makes each part correct

* **Dispatch core.** Callables run one at a time and at most once, whatever the
  event loop nests; a request told that it did not run did not and will not; its
  cleanup is visible before its waiter wakes; no runnable request is left without a
  wake event; work on one document keeps its order; every caller returns.
* **Token, registry, invocation.** An accepted cancellation is never answered with
  success; `REQUEST_CANCELLED` is never said of a request that changed a document
  through `run_cad_mutation` (of the other ways to change one the code does not keep
  that, section 7); one thread resolves a cancellation and all its waiters are released; a retired token has no
  callable left; every token retires.
* **Journal.** A request id is not dispatched again while its first dispatch may
  still have an effect.
* **Status.** No end is reported while the callable is queued or running.
* **Listener and pause.** A slot is given back exactly once on every path; a control
  call gets through beside general calls that never end; once the server is closed
  nothing is served; a pause shown with no active write has none.
* **Shutdown.** One teardown at a time; a stop that answered "stopped" left nothing
  of the runtime; a failed disposal can be retried; a restart finds nothing left; a
  stop ends although the GUI thread waits for a teardown that waits for it.
* **Worker manager.** A job that was answered early is not launched; permits add up;
  one process runs at a time; a stop that answered TRUE left none; callers return.

`PROJECT.json` lists the hazards of the code at their lines, with the property that
watches each or the reason why none does yet.

## 2. Plan

| Order | Module | What | State |
|---|---|---|---|
| 1 | `GuiDispatch` | dispatch core, all operations | done |
| 2 | `DispatchContract` | abstract specification of `submit`, implemented by 1 | done |
| 3 | `GuiDispatchProofs` | inductive invariant and safety theorems of 1 | done |
| 3a | `GuiQueueProofs` | places, keys and settlement of requests: the safety that rests on the queues | done |
| 3b | `GuiContractProofs` | the refinement of 2 by 1, and what 2 promises | done |
| 3c | `GuiScheduleProofs` | the wakes, and the order of work on one document | done |
| 4 | `RequestLifecycle` | journal, registry, token, invocation, GUI call, control calls, over the contract of 2 | done for one request id |
| 5 | `ObserverCleanup`, `ServerShutdown` | the Qt adapter's cleanup controller, and the shutdown claim that uses it | done |
| 6 | `ServerShutdownProofs` | its safety properties for any stops, runtimes and faults | done |
| 7 | `AutomationPause`, `TransportListener` | admission against the pause; slots, lanes, deadlines, the close | done |
| 8 | `TransportListenerProofs` | its safety properties for any connections, batches and slots | done |
| 9 | `WorkerJobs`, `WorkerJobsProofs` | the worker manager, and its safety properties for any jobs and permits | done |
| 10 | `RequestLifecycleProofs` | safety of token, resolution and journal for any sessions, handlers and cancellers | done |
| 11 | `ReplayJournal` | capacity, eviction and tombstones with several ids | left |
| 12 | `ClientSession` | session refresh and read retries of the client against 4 and 11 | left |

Composition: `RequestLifecycle` uses the GUI thread as `DispatchContract` promises
it. One deviation is deliberate, because the code deviates: a deadline that the GUI
thread finds expired is visible to the waiter before `on_complete` has run.
`ServerShutdown` extends `ObserverCleanup` with the threads that call it, and
`TransportListener` extends `AutomationPause` with the handlers it admits.

## 3. The models

### GuiDispatch

One action is one critical section of the code: a section under `_queue_lock`, a
test-and-set under a request's `_state_lock`, a wait that returns, or a step of the
GUI thread between two of them. `pc` is a handler's position in `submit`, `gui` the
position of the GUI thread in `drain_one`, `hand` the request it holds. `settling`
is what the thread that ended a request still owes it (removal and `on_complete`),
`swept` are requests taken off the queue under the lock whose `cancel_if_pending` is
still to come, and `owedWakes` are `_request_wake` calls decided under the lock and
made after it. The environment starts and settles work on documents, closes them,
cancels, lets deadlines pass and shuts down. History variables (`ran`, `arrived`,
`everDeferred`) serve properties only.

Over-approximations: a swept request's cancellation is not ordered after the other
steps of the thread that swept it; events leave the mailbox in any order, where the
code delivers a batch sorted; a wake that fires in a nested event loop is dropped
whether or not the loop was entered for it.

### DispatchContract

What a caller of `submit` may rely on: phases `new, waiting, running, finished,
withdrawn`, one `running` at a time, no way back from `withdrawn`, and answers that
agree with the phase. `Promise` is what that adds up to.
`GuiDispatch!ImplementsContract` maps the core onto it.

### RequestLifecycle

One request id of one MCP runtime: `entry` is its journal entry, `token[s]` its
token in session `s`, `pc/result/pinned/answer` the handlers, `unit[h]` the latest
GUI call of a handler with the position `cb` of its completion callback, `cpc/told`
the callers of `cancel_request`, `poll` the journal entry a status poller has read,
`commit/changed` what the callables do to documents.
`unit.cs` is the registry's answer the callback holds on to (`None` when the
request had been retired). An action is a locked step of token, registry or
journal, or a step on a thread between two.

Abstractions, all named in the module: a response is one of eleven classes (`not_run`
is GUI_TIMEOUT_BEFORE_EXECUTION, `uncertain` GUI_TIMEOUT_DURING_EXECUTION,
`cancelled_mutated` REQUEST_CANCELLED_AFTER_MUTATION, and so on); each canceller
calls once; a method makes at most `MaxPhases[h]` GUI calls; a `TimeoutError` of a
native commit is `MethodRaises`. `Expire`, the end of the journal's retention, is
taken only when no handler or callback is under way: it lies ten minutes after
completion. It does not wait for the callable, which may run for ever.

A callable changes documents in one of three `Ways`; `ChangesBy` says which the
request's method uses:

| Way | Code | Who asks the token |
|---|---|---|
| "cad" | a native commit of `run_cad_mutation`, whose callback calls `begin_mutation` first (`cad_mutation.py:385-402`) | `checkpoint` before the callable, `begin_mutation` before the change |
| "native" | a native commit whose callback does not: `execute_code.py:79-86`, the typed handlers of `commit_native_mutation` | `checkpoint` before the callable |
| "direct" | the callable itself: `create_document.py:89-98`, `undo.py:77,148`, the native saves, `execute_code` without a document | nobody when the call names no open document |

`commit[h]` is the native commit a callable of h has posted: from the GUI thread it
goes to the document's owner thread (`collaboration_api.py:163-205`), so it may begin,
run or be rejected after the callable, and after the handler, have ended. The handler
waits for a "native" one (`Awaits`, `dispatch_gui.py:201-207`); what `run_cad_mutation`
returns is a dictionary without a handle, and nobody waits for its commit. `changed`
is history: whose work changed a document, and how. A callback that has run counts as
a change although the commit may be rolled back afterwards.

### ObserverCleanup and ServerShutdown

`cleanup[n]` is the controller of runtime n's dispatcher, `posted[n]` the events
queued for its QObject, `deleted` the objects that are gone. Each critical section of
`request`, `run_on_owner` and `wait` is an operator; `ServerShutdown` gives them to
threads. There `claim` is `_runtime_shutdown_claim`, `runtimeOf`, `completed`,
`failed`, `retryable`, `preflight` its fields (a claim is named by the stop that made
it, or by the start whose failed clean-up left it behind), `published`, `disposed`,
`settled`, `owned` the runtimes, `handler[n]` a request the listener has admitted
("queued": it waits for the GUI thread, "served": the GUI thread is inside it),
`call/joined/answer` the stop calls, and `tear[c]` the teardown thread of a claim,
stage by stage. The GUI thread has no variable of its own: `GuiFree` says that it is
in no stop call and no removal; a callable may nest its event loop, so it can still
deliver events then, except at the end of the application. The bounded wait of the
GUI owner is `WaitExpires`, at any time.

Abstractions: one handler per runtime; a failure is the stage that raised; "raises"
is possible for the resources in `Fallible`, for the fence and for the removal.

### AutomationPause and TransportListener

`conn[c]` is where a connection stands, from "offered" by the client to "closed";
the same client may connect again. `loop` is the accepting thread with the
connection it has in hand, `deadlines/late/expired` the table of read deadlines,
connections past theirs, and timers that fired in time. The two flags are distinct:
`accepting` (listener, under its lock) and `serving` (transport). A batch is a
sequence of kinds of call: "control", "read", "write"; only writes meet the pause.
`close` follows `begin_shutdown`, the join of the accepting thread, the closing of the
socket and the drain of the pool.

### WorkerJobs

`call[j]` is the caller of `execute`, `queue`, `invocations`, `active` and
`activeProcess` the manager's fields, `cancelled/completed/answered` those of the
invocations, `loop/cur` the loop thread with the job in hand, `proc[j]` its process,
`cancel[j]/target[j]` a call of `cancel` and the process it captured, `stop...` a call
of `_begin_shutdown` and `stop`. A process may end on its own, run for ever, or
outlive its termination (`survivors`). The loop's unlocked reads of `cancelled` and
`_stopping` are steps of their own.

## 4. Runs

The eight runs that hold explore every reachable state of their instance, without a
state constraint; the four that refute stop at a counterexample. Deadlock is not
checked, because the systems may come to rest: every request served, every thread
returned.

| Run | Instance | Question |
|---|---|---|
| `gui_races` | two requests of one document, distinct owners; one probed with a deadline; cancel, deletion, shutdown and failing wakes on | exclusive execution, truthful answers, cleanup before wake, no lost wake, justified quarantine, final outcomes |
| `gui_order` | three requests, two probed mutations of one document around one without documents | no overtaking of deferred work |
| `gui_contract` | three requests, one from the GUI thread itself, the other two under one owner key, one with a deadline; fairness | refinement of `DispatchContract`; `cancel_request` finds the live request; every `submit` returns |
| `gui_same_document_order` | four requests that arrive in one burst | finding 1 |
| `request_races` | a call and its retry in the same session, changing documents in any of the three ways, one canceller, shutdown, one GUI call each; fairness | accepted cancellation wins, `REQUEST_CANCELLED` means that `run_cad_mutation` changed nothing, one resolver, owned uncertainty, retirement, everybody returns |
| `request_retry` | a call with two GUI calls and its retry over a refreshed session with one, a poller, shutdown, the journal's expiry | no second dispatch of live work, truthful status in the request's own session |
| `request_status` | one handler, whose callable posts a native commit, a poller over a refreshed session | finding 2 |
| `server_shutdown` | two runtimes, a stop of a timer thread and one of the GUI thread (bounded, or at the end of the application), a handler each; fence, worker and observer may fail; fairness | one teardown, a truthful "stopped", retryable disposal, a restart alone, every stop ends |
| `shutdown_false_alarm` | one runtime, the same two stops, nothing fails | finding 3 |
| `listener` | three clients, one of them with a batch of two, two handler slots, one per lane; pause and close at any moment; fairness | slots and lanes add up, nothing after the close, honest pause, control calls get through, the close ends |
| `worker_jobs` | three jobs on two permits, each cancelled at any step, repeated stops, launches that fail, processes that never end or survive; fairness | permits add up, one process, truthful stop, no launch after an answer, callers return |
| `worker_cancel_lost` | the same instance | finding 4 |

Why the bounds suffice for these questions: two requests make every pairwise race of
the core (the code never relates three requests under one lock except by queue
order, for which `gui_order` has three and the burst four); one deadline is enough
to race with each of the other steps; two documents would only add requests that do
not interact. In `RequestLifecycle` a token is touched by the handler, its callback
and cancellers: one of each makes the three-way race of resolvers, and the shutdown,
which cancels without resolving, gives the canceller its "already requested" answer.
A retry needs a second handler: in the same session it meets the registered key
(`Abandon`), over a refreshed one it does not. A third handler showed one thing two
cannot: after a failed wake (see section 7) the journal may let an id go too early,
so `NoRedispatchOfLiveWork` has `NoWakeFailed` as its premise, and the theorem of
section 6 then holds for any number of retries. `request_races` takes all three ways
of changing a document; to `request_retry` and `request_status` only the commit
matters that the handler waits for, whose end by a timeout (`MethodRaises`)
`request_retry` has without it: its methods change nothing. Two GUI calls of one
method let the second follow every end of the first. Two runtimes are a runtime and
its restart; two stops are a claim and its joiner, or a failed claim and its retry,
and of the kinds of caller there is one each. Three connections on two slots fill
the pool and leave one refused or waiting, and a batch that crosses from the control
to the general lane is among them. Three jobs on two permits are one in the loop,
one in the queue and one refused. Counters and sequences (wakes, posted events, the
worker's queue) are bounded by the number of actors, not by a constraint. The
theorems of section 6 say of the safety properties that the bounds do not matter.

### Fairness

`GuiDispatch!FairSpec`: handler threads, the clock and the Qt event loop go on, a
callable returns, and the GUI does not stay busy for ever (strong fairness of
`SampleFree`: the user releases the mouse infinitely often). Nothing is assumed of
cancellations, of documents becoming ready or of how often a nested loop drops a
wake. A caller without a deadline returns only because callables do.

`RequestLifecycle!FairSpec`: handlers, callbacks and cancellers run on, being threads
whose waits are bounded by a timeout or by another one's next steps. Nothing is
assumed of the callable or of the GUI thread: `CallersReturn` holds although the
callable may never be started and never end. `RequestsRetire` excepts a callable
that never ends.

`ServerShutdown!FairSpec`: stop calls, teardown threads and Qt's event delivery go on,
and an admitted handler's request ends: strongly fair, because between its calls into
the GUI, of which it makes finitely many, the handler is at times free to end and at
times waiting. That callables end is what the stop of the GUI owner depends on, and
the code has no bound for it either.

`TransportListener!FairSpec`: the accepting thread's hand-over, the pool's threads, the
timers, a control call and the closing thread go on. A client need not send anything,
and a general call may run for ever, so `CloseEnds` excepts a close that waits for
one, and `ControlReachable` holds beside it.

`WorkerJobs!FairSpec`: a caller between its permit and the queue, the loop, and the
critical section of a shutdown go on. A process need not end: the loop's wait has a
deadline, after which it terminates the tree and goes on whether or not it is gone.

## 5. Findings

1. `SameDocumentOrder`: the rotation in `_take_next_request` (`dispatch/gui_core.py:505-512`)
   puts a request behind a later one of the same document.
2. `ReportMeansIdle`: over a refreshed session `get_request_status` says `completed`
   of a request whose callable still runs (`control_status_state.py:31`).
3. `SafeRemovalSucceeds`: the two critical sections of `run_on_owner`
   (`rpc_server/gui_dispatcher_qt.py:212` and `228`) let a teardown's request fall
   between them, and its `wait` then reports a failure of a removal that succeeded.
4. `CancelTerminates`: a worker job cancelled between the loop's last look at its flag
   and the publication of its process is launched and left running
   (`worker_manager_ops/execute_job.py:116`, `execute_job_launch.py:43`).

Each is a run that ends in a counterexample, with the sentence of the repository it
contradicts quoted in `PROJECT.json`.

## 6. Proofs

Eight modules of theorems, each `EXTENDS` the module it is about and holds for every
value of its constants under the assumptions that module makes. None of the safety
properties is inductive; each module names an inductive invariant, proves it of the
initial states and of every action, and derives the properties from it.

### GuiDispatchProofs

`TypeCorrect`, `ExclusiveExecutionHolds`, `UnexecutedNeverRunsHolds`,
`AnswersAreEarnedHolds`, `TerminalIsFinalHolds`, from `Inductive == Shape /\ Life`:

* `Shape` is type correctness, with two facts it needs to be preserved: the GUI
  thread holds a request exactly in the positions of `drain_one` that use it, and
  the deferred queue is finite (a sweep of promoted requests is a sequence).
  It rests on lemmas about the queue: a segment, the rotation, the removal of an
  element and the promotion of a set give queues of requests.
* `Life` follows one request. *FreshIsUntouched*: what was not admitted is referred
  to by no structure of the core (queues, owner keys, hand, sweeps) and is pending:
  without it a refused request could be drained. *ResultIsLast*: a result is set
  when the caller leaves. *RanAgrees*: the state accounts for each execution.
  *RunningInHand*: a request occupies the GUI exactly when `drain_one` is running
  it; this is what makes the `_draining` guard an exclusion. *OutcomeAgrees* and
  *AnswerAgrees*: what is recorded and said agrees with the state.

The step lemmas go over the actions by thread: handlers, endings, events, drain,
steps before the start, run. `UnexecutedNeverRuns` then follows from FreshIsUntouched
(refusals), RanAgrees and AnswerAgrees (timeouts), and `TerminalIsFinal` from a step
lemma over the states.

### GuiQueueProofs

`QueueInvariantHolds`, and from it `CleanupBeforeWakeHolds`,
`LiveWorkIsCancellableHolds` and `BusyOnlyWhileOccupiedHolds`. `QueueInvariant`
rests on `Inductive` above:

* *Placed*: a request is once in the deque, or deferred, or in hand, or swept. The
  lemmas of the first part say what each operation of the queue (rotation, removal,
  requeueing, promotion, the sweeps) does to its members and to their order.
* *Keyed*: work that may still start holds its owner key, and a swept request holds
  none: its cancellation, which comes after the lock, sets the event without another
  look at the table of keys.
* *Settled* and *CompletedIsGone*: a request in a terminal state is settled or owed
  its settlement by one thread, so `on_complete` is called once; the event is set
  only after the request has left every structure.
* *StateAgrees* ties the place to the state; *QuarantineAgrees*: whoever is
  quarantined, or about to be, timed out in execution. A request in quarantine has
  therefore either ended, and the test in `_enqueue` sees it, or is running.

`PlaceSteps` reduces the actions to the ways in which a request changes its place;
the invariants are then proved per way, not per action.

### GuiContractProofs

`ImplementsContractHolds`: with `PhaseOf` and `AnswerOf` the initial states of the core
are those of `DispatchContract`, and a step moves one request as the contract allows,
or nothing a caller can see (`StepSimulated`). `Inductive` gives the exclusion and the
agreement of answers with states; from `QueueInvariant` comes that a waiter whose event
is set finds its request ended, so that it is answered in a phase it cannot leave.
`ContractPromises` is about the contract by itself: whatever implements it runs one
callable at a time, and an answer is and stays true of its callable.

### GuiScheduleProofs

`WakeInvariantHolds` and `NoLostWakeHolds`. That a wake is on its way (a posted event, a
timer, an owed `_request_wake`, a handler about to call it) is not inductive: a wake is
used up before the queue is empty, and `_signal_pending` stays set meanwhile. The
invariant says who is responsible then. *RunnableIsSeen*: for runnable work a wake is
coming, or the thread that owes a removal will signal it (`CleanupComing`), or
`drain_one` will look again (`Promised`: it is in or after a run, is deferring or has a
probe's failure to report, or has in hand what it can still send back).
*SignalHasWake*: a set flag has a wake behind it, except during a run, whose `finally`
looks at the queue. *StoppedIsEmpty*: after `stop_accepting` nothing waits. `WakeMove`
lists what a step may do to the three; each action is shown to be such a move.

`OrderInvariantHolds` and `DeferredNotOvertakenHolds`. Queue order alone is not kept
(finding 1), so the invariant is about requests that waited for a document.
*DeferredApart*: two deferred ones, or a deferred and a requeued one, share no
document; *PromotedFirst*: nothing that shares a document with a requeued one is queued
ahead of it; *HandApart*: nor is it in hand before its start. A take keeps it because
what the rotation skips is blocked, that is, shares a document with a deferred request,
and a requeued request does not. *EverDeferredIsSeen* and *ArrivedOnce* tie the history
to the queues.

### RequestLifecycleProofs

`TypeCorrect`, `AcceptedCancelWinsHolds`, `CancelledMeansUnmutatedHolds`,
`RetiredMeansIdleHolds`, `UncertaintyIsOwnedHolds`, `OneResolverHolds`,
`OwnReportMeansIdleHolds` and `NoRedispatchOfLiveWorkHolds`, for any sessions,
handlers, cancellers, pollers, numbers of GUI calls and ways to change documents
(`ActorAssumption` only types what assigns them). The inductive invariant `IInv`:

* `Owners`: a registered token belongs to one handler of its session; nobody else has
  a callable, and a canceller works on a token that is registered.
* `Life` follows the owner: where its callable stands given where it stands
  (*CallableInOrder*); the token counts one phase exactly while a GUI call is open
  (*PhaseCounted*), which is what retirement waits for; the marks of the token agree
  with the handler and its callback (*TokenAgrees*); what was said of a cancellation
  agrees with the token (*AnswerAgrees*: a success is said only of a token retired
  without one, and "cancelled" only of a token without the mark of `begin_mutation`).
* `Resolution`: who is between claiming and publishing holds the token's claim, and
  is alone. `OneResolver` counts a set, which two of its elements being equal bounds.
* `TokenInOrder` and `Informed` complete it: a retired token has nothing open, and a
  caller told "requested" has its mark.

`WInv` adds what commits do, which may outlive both callable and handler: only a
request that was dispatched has posted a commit or changed anything (so its token is
still its own when `begin_mutation` marks it), and what `run_cad_mutation` has changed,
or begun to, stands in the token, whose mark is never taken back (`MarkStays`).
`CancelledMeansUnmutatedHolds` follows from the two: a change through
`run_cad_mutation` means the mark, and the answer "cancelled" means a cancelled token
without it, which `begin_mutation` will not mark any more. It is about
`run_cad_mutation` only; see section 7 for the other changes.

A step of the owner, of its callable or of its callback is an `Advance`: it touches
its own token and rows only, and gives up a claim only if it held one. One lemma says
that an advance keeps `IInv`, and one per action that it is one. Steps of cancellers
and of the shutdown leave the handlers alone and make tokens `Milder`.

`NoRedispatchOfLiveWork` needs the journal too: `JInv` says that one handler carries
the id at a time, that whatever may still come of a finished one keeps the entry
completed and pinned (so it cannot expire), and that an entry that may be claimed
again leaves nobody behind. *PinnedInTime* makes it inductive: the handler decides to
pin before the callable can outlive it. The same scheme (`Journeys`) covers the steps
that write no entry; claim, replay, abandon, complete, the late response and the
expiry are proved one by one.

### ServerShutdownProofs

`TypeCorrect`, `OneTeardownHolds`, `RunningAloneHolds`, `StoppedMeansReleasedHolds`,
`DisposalCanBeRetriedHolds`, for any runtimes, stop calls and faults. Beyond types
and `Named` (a call or teardown in progress has a claim, the claim a runtime):

* `ClaimsInOrder`: whoever prepares or tears down works for the claim that stands,
  one of them at a time; a completed claim's teardown is over.
* `Held`: whatever is left of a runtime (a resource, its observer, a handler, the
  dispatcher still accepting) belongs to the published runtime or to the claim's.
  Without it a restart could meet a leftover that nobody is going to release.
* `Progress`: what each stage of a teardown has already released, which makes the
  order of disposal count.
* `Outcomes`: what a finished claim tells. One that did not fail left nothing for good
  (`Done`: a disposed runtime is never published again); one that failed and stands
  still owns something, or could not be prepared, and may be replaced.

Most steps only let go (`Lets`), and one lemma each shows that letting go keeps `Held`
and `Done`; the cases that remain are the start, the claim, the end of the disposal
and the unpublishing.

### TransportListenerProofs

`TypeCorrect`, `SlotsAccountedHolds`, `NothingAfterCloseHolds`, `PauseIsHonestHolds`, for
any connections, batches and slots. *GatesOrdered*: the accepting thread has at most
one connection in hand and has ended before the pool is waited for, so nobody enters
the pool behind the drain. *Registered*: the pause's tokens are exactly the writes
that run, and a deadline in the table is one of a connection in the pool. *SlotsHeld*
is the property with the finiteness its cardinalities need; that no slot is given
back twice, which `TypeOK` says, follows from it.

### WorkerJobsProofs

`TypeCorrect`, `SlotsAccountedHolds`, `OneWorkerHolds`, `StoppedMeansIdleHolds`,
`AnsweredNeverLaunchedHolds`, for any jobs and permits. *JobsTraced* places each job
once in the queue, in the loop's hand, or retired; *ActiveIsCurrent* ties the active
invocation to it; *AnsweredIsCancelled*: a job answered before its turn is marked, and
the loop's last check has seen the mark (this is the race `AnsweredNeverLaunched` is
about: between the check and the launch a job is active, so nobody answers it);
*StopAnswersAll*: from a shutdown on every job but the active one has its answer.

### Only model-checked

Every safety invariant and every action property that a run finds to hold, and the
refinement, has its theorem. Liveness stays with TLC: that every `submit` returns
(`SubmitReturns`), that callers of `RequestLifecycle` and `WorkerJobs` return
(`CallersReturn`), that tokens retire (`RequestsRetire`), that stops and the close end
(`StopsEnd`, `CloseEnds`) and that control calls get through (`ControlReachable`):
arguments over fairness and ENABLED are out of the prover's reach. The four
refutations of section 5 need an instance only.

## 7. Not modelled, and what the models leave out

* Of the dispatch core: telemetry, `blocked_by` descriptions, stage clocks.
* Of the request lifecycle: more than one request id, hence the journal's capacity
  (early eviction, REPLAY_JOURNAL_FULL) and the registry's limit on retired tokens;
  reuse of an id with another fingerprint; the lease-aware paths, acquisition claims
  and `begin_irreversible`, which the live composition does not reach; worker jobs
  behind a request; the contents of responses.
* A caller told that the wake failed while its callable had started (`WakeFails`) is
  promised nothing by the code; the properties of `RequestLifecycle` except it. What
  can follow: the callable completes after the id was claimed again, its late response
  marks the entry of the new claim, an uncertain completion of that one then leaves
  the entry unpinned (`request_replay_cache.py:148`), and after the retention a third
  claim dispatches the id while the second's callable may run.
* **Changes without `begin_mutation`.** `begin_mutation` is asked in `run_cad_mutation`
  and nowhere else. A request that changes a document in one of the other two ways and
  is cancelled while, or after, it does so is answered REQUEST_CANCELLED unless a
  timeout has made its token uncertain (`invoke_v2_dispatch.py:91-104`,
  `invoke_v2_finalize.py:24-66`): its token has no mark of a mutation. `doc/request-lifecycle.md:56-58` says otherwise: "Before mutation it
  cancels queued work; after mutation begins it fences the affected lease and reports
  `REQUEST_CANCELLED_AFTER_MUTATION`." The model has these steps and
  `CancelledMeansUnmutated` is stated, checked and proved of `run_cad_mutation` only.
  Stated of every change, `answer[h] = "cancelled" => ~HasChanged(h)`, it is violated in
  the instance of `request_races` by native commits as well as by direct changes:
  the callable starts, its work changes the document, a cancellation is accepted, and
  the finalizer's gate replaces the result by `cancelled`.
* Of the work on documents: what a request does after its first change; the checkpoint that direct methods on an open document do pass; the
  readiness of a document and its quarantine after a failed rollback; a callback that
  `run_cad_mutation` calls without a document (`cad_mutation.py:364-367,471-472`), which
  answers that there is none. A native commit that outlives its callable is no GUI
  callable: `Outstanding`, and with it `RetiredMeansIdle` and the properties of status
  and journal, do not count it.
* Of the dispatch core's finer steps: a call in place on the GUI thread (`SubmitInline`)
  is one step, although `gui_core.py:250-260` does not set `_draining` and a nested event
  loop in it may drain a queued callable; and `QuarantineRunning` leaves out the release
  of the outstanding counter when the callable completed before the raise
  (`gui_core.py:280-282`), which concerns that clamped counter only.
* A failed start leaves some of the resources in `Fallible` behind (`StartFails`): a
  launch that failed and retains its dispatcher, and one whose only failure is the join
  of the listener thread, with a claim that cannot be retried
  (`server_lifecycle.py:545-559,575-589`), are left out. A handler of `ServerShutdown` has
  no GUI timeout: in the code it may return (`gui_core.py:445-455`) while its callable
  still occupies the GUI thread, so `RunningAlone` and `StoppedMeansReleased` speak of
  handlers and not of such a callable.
* Of the shutdown: the compatibility path for a runtime without a claim, the teardown
  run inline when its thread cannot be started, the dispatcher's modal-dialog short
  circuit, telemetry and the worker's jobs.
* Of the listener: HTTP and JSON parsing, the address filter, request identities,
  calls answered without a slot, and the failure to start a pool thread or a timer. A
  write is registered with the pause for as long as its handler runs
  (`dispatch_core.py:262`); the callable that a timed-out handler leaves on the GUI
  thread is not registered any more, in the code as in the model, and the pause does
  not count it.
* Of the worker manager: the late start of the loop thread, snapshots, workspaces,
  artifacts, results, and the failure of the log thread to start. A job admitted while
  the loop finds its queue empty and then reads `_stopping` stays in the queue of a
  loop that has gone (`worker_loop.py:16-19`): its caller is answered by the shutdown,
  its permit and its workspace are never given back, and the model shows that too.
* The session manager, the MCP client (session refresh, read retries, its serialized
  lane) and the native saves are in the inventory and not modelled; they meet the
  add-on through the request id and the session that `RequestLifecycle` takes as given.
* What the CAD methods compute, generated contracts, telemetry, the user interface, the evidence
  tooling and the removed lease authority decide nothing of the above.
