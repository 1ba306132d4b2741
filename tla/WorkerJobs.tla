----------------------------- MODULE WorkerJobs -----------------------------
(* The worker manager (rpc_server/worker_manager.py and                     *)
(* worker_manager_ops/): calls of execute, cancel and stop from other       *)
(* threads around one loop thread that runs a job's process at a time.      *)
(*                                                                          *)
(* A job is one call of execute, and a process is named by its job.         *)
(* _state_lock makes Enqueue, Cancel, StopAll, Activate and Retire atomic;  *)
(* the loop reads `cancelled` and `_stopping` and writes `_active_process`  *)
(* without it, in steps of their own.  Terminating a process takes place    *)
(* outside the lock and may fail.                                           *)
(*                                                                          *)
(* The loop thread runs from the start.  Snapshots, artifacts, workspaces   *)
(* and what a result says are left out, and so is the failure to start the  *)
(* thread that drains a process's log.  A caller of execute returns when    *)
(* its job is completed; an active job's result is set when it is known,    *)
(* since nobody reads it before the job is retired.                         *)
EXTENDS Naturals, FiniteSets, Sequences

CONSTANTS
    Jobs,    \* calls of execute
    Slots,   \* the permits of _admission
    NULL

ASSUME WorkerAssumption == Slots \in Nat /\ NULL \notin Jobs

VARIABLES
    stopping,        \* _stopping
    slots,           \* free permits of _admission
    queue,           \* _work_queue
    invocations,     \* _invocations
    cancelled, completed, answered,   \* the invocations whose flag is set,
                                      \* whose event is set, with a result
    call,            \* where the caller of execute stands
    active,          \* _active_invocation
    activeProcess,   \* _active_process
    loop, cur,       \* the loop thread: where it stands, the job in hand
    proc,            \* the process of each job
    survivors,       \* processes that outlived an attempt to terminate them
    cancel, target,  \* a call of cancel for each job, the process it captured
    stop, stopProc, stopOk, stopped   \* the calls of stop, and their answer

fieldVars == <<cancelled, completed, answered>>
jobVars == <<slots, queue, invocations, fieldVars, call>>
loopVars == <<active, activeProcess, loop, cur>>
procVars == <<proc, survivors>>
cancelVars == <<cancel, target>>
stopVars == <<stop, stopProc, stopOk, stopped>>
vars == <<stopping, jobVars, loopVars, procVars, cancelVars, stopVars>>

\* The loop has a job in hand.
InHand == {"taken", "unstopped", "activate", "preflight", "prepare", "check",
           "launch", "publish", "watch", "clear", "retire", "complete"}

TypeOK ==
    /\ stopping \in BOOLEAN
    /\ slots \in 0..Slots
    /\ queue \in Seq(Jobs) /\ invocations \subseteq Jobs
    /\ cancelled \subseteq Jobs /\ completed \subseteq Jobs
    /\ answered \subseteq Jobs
    /\ call \in [Jobs -> {"idle", "admitted", "waiting", "refused"}]
    /\ active \in Jobs \union {NULL} /\ activeProcess \in Jobs \union {NULL}
    /\ loop \in InHand \union {"idle", "empty", "gone"}
    /\ cur \in Jobs \union {NULL} /\ (loop \in InHand <=> cur # NULL)
    /\ proc \in [Jobs -> {"none", "running", "ended"}] /\ survivors \subseteq Jobs
    /\ cancel \in [Jobs -> {"idle", "terminating"}]
    /\ target \in [Jobs -> Jobs \union {NULL}]
    /\ stop \in {"idle", "flagged", "terminating", "joining"}
    /\ stopProc \in Jobs \union {NULL}
    /\ stopOk \in BOOLEAN /\ stopped \in BOOLEAN

Init ==
    /\ stopping = FALSE /\ slots = Slots /\ queue = <<>> /\ invocations = {}
    /\ cancelled = {} /\ completed = {} /\ answered = {}
    /\ call = [j \in Jobs |-> "idle"]
    /\ active = NULL /\ activeProcess = NULL
    /\ loop = "idle" /\ cur = NULL
    /\ proc = [j \in Jobs |-> "none"] /\ survivors = {}
    /\ cancel = [j \in Jobs |-> "idle"] /\ target = [j \in Jobs |-> NULL]
    /\ stop = "idle" /\ stopProc = NULL /\ stopOk = FALSE /\ stopped = FALSE

-----------------------------------------------------------------------------
(* execute.                                                                 *)

Calls(j, from, to) == call[j] = from /\ call' = [call EXCEPT ![j] = to]

Admit(j) ==
    /\ Calls(j, "idle", "admitted")
    /\ ~stopping /\ slots > 0
    /\ slots' = slots - 1
    /\ UNCHANGED <<stopping, queue, invocations, fieldVars, loopVars, procVars,
                   cancelVars, stopVars>>

Refuse(j) ==
    /\ Calls(j, "idle", "refused")
    /\ stopping \/ slots = 0
    /\ UNCHANGED <<stopping, slots, queue, invocations, fieldVars, loopVars,
                   procVars, cancelVars, stopVars>>

Enqueue(j) ==
    /\ Calls(j, "admitted", "waiting")
    /\ ~stopping
    /\ invocations' = invocations \union {j}
    /\ queue' = Append(queue, j)
    /\ UNCHANGED <<stopping, slots, fieldVars, loopVars, procVars, cancelVars,
                   stopVars>>

\* Mutation: the caller refused under the lock keeps its permit.
KeepsPermit == slots' = slots

GivesBack == slots' = slots + 1

RefuseAdmitted(j) ==
    /\ Calls(j, "admitted", "refused")
    /\ stopping
    /\ GivesBack
    /\ UNCHANGED <<stopping, queue, invocations, fieldVars, loopVars, procVars,
                   cancelVars, stopVars>>

-----------------------------------------------------------------------------
(* The loop thread.                                                         *)

Goes(from, to) == loop = from /\ loop' = to

Takes ==
    /\ Goes("idle", "taken")
    /\ queue # <<>>
    /\ cur' = Head(queue) /\ queue' = Tail(queue)
    /\ UNCHANGED <<stopping, slots, invocations, fieldVars, call, active,
                   activeProcess, procVars, cancelVars, stopVars>>

FindsNothing ==
    /\ Goes("idle", "empty")
    /\ queue = <<>>
    /\ UNCHANGED <<stopping, jobVars, active, activeProcess, cur, procVars,
                   cancelVars, stopVars>>

ExitsOrGoesOn ==
    /\ IF stopping THEN Goes("empty", "gone") ELSE Goes("empty", "idle")
    /\ UNCHANGED <<stopping, jobVars, active, activeProcess, cur, procVars,
                   cancelVars, stopVars>>

\* A check of the loop that goes on, or has the result of the job in hand.
Checks(from, to, ends, end) ==
    /\ \/ Goes(from, to) /\ ~ends /\ UNCHANGED answered
       \/ Goes(from, end) /\ ends /\ answered' = answered \union {cur}
    /\ UNCHANGED <<stopping, slots, queue, invocations, cancelled, completed, call,
                   active, activeProcess, cur, procVars, cancelVars, stopVars>>

ChecksCancelled == Checks("taken", "unstopped", cur \in cancelled, "retire")
ChecksStopping == Checks("unstopped", "activate", stopping, "retire")

Activate ==
    /\ Goes("activate", "preflight")
    /\ active' = cur
    /\ UNCHANGED <<stopping, jobVars, activeProcess, cur, procVars, cancelVars,
                   stopVars>>

\* _execute_now: the temporary root may be over its limit, the job may not be
\* fit to run, the process may fail to start.
Preflight ==
    Checks("preflight", "prepare", cur \in cancelled \/ stopping, "clear")
PreflightFails == Checks("preflight", "prepare", TRUE, "clear")
Prepare == \E fails \in BOOLEAN : Checks("prepare", "check", fails, "clear")
LastCheck == Checks("check", "launch", cur \in cancelled, "clear")
LaunchFails == Checks("launch", "publish", TRUE, "clear")

Launch ==
    /\ Goes("launch", "publish")
    /\ proc' = [proc EXCEPT ![cur] = "running"]
    /\ UNCHANGED <<stopping, jobVars, active, activeProcess, cur, survivors,
                   cancelVars, stopVars>>

Publish ==
    /\ Goes("publish", "watch")
    /\ activeProcess' = cur
    /\ UNCHANGED <<stopping, jobVars, active, cur, procVars, cancelVars, stopVars>>

WorkerExits ==
    loop = "watch" /\ proc[cur] = "ended" /\ Checks("watch", "watch", TRUE, "clear")

\* terminate_process_tree: the process has ended, or is known to have outlived it.
Terminates(j) == proc' = [proc EXCEPT ![j] = "ended"] /\ UNCHANGED survivors
Survives(j) == proc[j] = "running" /\ survivors' = survivors \union {j} /\ UNCHANGED proc

\* Mutation: the process of a job that ran out of time is left to itself.
LeftRunning(j) == UNCHANGED procVars

EndsOrSurvives(j) == Terminates(j) \/ Survives(j)

\* The runtime or the temporary root is past its limit.
Expire ==
    /\ Goes("watch", "clear")
    /\ proc[cur] = "running"
    /\ EndsOrSurvives(cur)
    /\ answered' = answered \union {cur}
    /\ UNCHANGED <<stopping, slots, queue, invocations, cancelled, completed, call,
                   active, activeProcess, cur, cancelVars, stopVars>>

\* The finally of execute_job_now.
ClearProcess ==
    /\ Goes("clear", "retire")
    /\ activeProcess' = NULL
    /\ UNCHANGED <<stopping, jobVars, active, cur, procVars, cancelVars, stopVars>>

\* The finally of the loop: under the lock, then the event and the permit.
Retire ==
    /\ Goes("retire", "complete")
    /\ invocations' = invocations \ {cur}
    /\ active' = IF active = cur THEN NULL ELSE active
    /\ UNCHANGED <<stopping, slots, queue, fieldVars, call, activeProcess, cur,
                   procVars, cancelVars, stopVars>>

Complete ==
    /\ Goes("complete", "idle")
    /\ completed' = completed \union {cur}
    /\ cur' = NULL
    /\ slots' = slots + 1
    /\ UNCHANGED <<stopping, queue, invocations, cancelled, answered, call, active,
                   activeProcess, procVars, cancelVars, stopVars>>

ProcessEnds(j) ==
    /\ proc[j] = "running"
    /\ proc' = [proc EXCEPT ![j] = "ended"]
    /\ UNCHANGED <<stopping, jobVars, loopVars, survivors, cancelVars, stopVars>>

-----------------------------------------------------------------------------
(* cancel.  A job may be cancelled again once its cancellation is answered. *)

Captured(j) == IF active = j THEN activeProcess ELSE NULL

\* Mutation: the flag is set for the active job only.
FlagsActive(j) == cancelled' = IF active = j THEN cancelled \union {j} ELSE cancelled

Flags(j) == cancelled' = cancelled \union {j}

\* Mutation: a pending job that is cancelled gives its permit back at once.
CompletesAndReleases(j) ==
    IF active # j /\ j \notin answered
    THEN /\ answered' = answered \union {j} /\ completed' = completed \union {j}
         /\ slots' = slots + 1
    ELSE UNCHANGED <<answered, completed, slots>>

CompletesPending(j) ==
    /\ IF active # j /\ j \notin answered
       THEN answered' = answered \union {j} /\ completed' = completed \union {j}
       ELSE UNCHANGED <<answered, completed>>
    /\ UNCHANGED slots

\* Without a process to terminate, cancel answers with success at once.
Cancel(j) ==
    /\ cancel[j] = "idle"
    /\ j \in invocations
    /\ Flags(j)
    /\ CompletesPending(j)
    /\ target' = [target EXCEPT ![j] = Captured(j)]
    /\ IF Captured(j) = NULL
       THEN UNCHANGED cancel
       ELSE cancel' = [cancel EXCEPT ![j] = "terminating"]
    /\ UNCHANGED <<stopping, queue, invocations, call, loopVars, procVars, stopVars>>

CancelEnds(j) ==
    /\ cancel[j] = "terminating"
    /\ cancel' = [cancel EXCEPT ![j] = "idle"]
    /\ target' = [target EXCEPT ![j] = NULL]
    /\ Terminates(target[j]) \/ Survives(target[j])
    /\ UNCHANGED <<stopping, jobVars, loopVars, stopVars>>

-----------------------------------------------------------------------------
(* _begin_shutdown and stop, which a teardown may call again.               *)

Stops(from, to) == stop = from /\ stop' = to

BeginStop ==
    /\ Stops("idle", "flagged")
    /\ stopping' = TRUE
    /\ UNCHANGED <<jobVars, loopVars, procVars, cancelVars, stopProc, stopOk, stopped>>

\* Mutation: the jobs that wait in the queue are left for the loop to answer.
AnswersNone == UNCHANGED <<answered, completed>>

AnswersPending ==
    /\ answered' = answered \union (invocations \ {active})
    /\ completed' = completed \union (invocations \ {active})

StopAll ==
    /\ Stops("flagged", "terminating")
    /\ cancelled' = cancelled \union invocations
    /\ AnswersPending
    /\ stopProc' = activeProcess
    /\ UNCHANGED <<stopping, slots, queue, invocations, call, loopVars, procVars,
                   cancelVars, stopOk, stopped>>

\* _begin_shutdown answers; only stop goes on to wait for the loop.
StopTerminates ==
    /\ \/ stopProc = NULL /\ stopOk' = TRUE /\ UNCHANGED procVars
       \/ stopProc # NULL /\ Terminates(stopProc) /\ stopOk' = TRUE
       \/ stopProc # NULL /\ Survives(stopProc) /\ stopOk' = FALSE
    /\ stopProc' = NULL
    /\ Stops("terminating", "joining")
    /\ UNCHANGED <<stopping, jobVars, loopVars, cancelVars, stopped>>

BeginReturns ==
    /\ Stops("joining", "idle")
    /\ stopOk' = FALSE
    /\ UNCHANGED <<stopping, jobVars, loopVars, procVars, cancelVars, stopProc, stopped>>

\* Mutation: stop answers for the process alone.
AnswerOfBegin == stopOk

StopAnswer == stopOk /\ loop = "gone"

\* The join returns with the loop's end or when its time is over.
StopReturns ==
    /\ Stops("joining", "idle")
    /\ stopped' = StopAnswer /\ stopOk' = FALSE
    /\ UNCHANGED <<stopping, jobVars, loopVars, procVars, cancelVars, stopProc>>

-----------------------------------------------------------------------------

Caller(j) == Admit(j) \/ Refuse(j) \/ Enqueue(j) \/ RefuseAdmitted(j)

\* Everything _execute_now does with a job.
Executes ==
    \/ Preflight \/ PreflightFails \/ Prepare \/ LastCheck \/ Launch
    \/ LaunchFails \/ Publish \/ WorkerExits \/ Expire \/ ClearProcess

Loop ==
    \/ Takes \/ FindsNothing \/ ExitsOrGoesOn \/ ChecksCancelled
    \/ ChecksStopping \/ Activate \/ Executes \/ Retire \/ Complete

Next ==
    \/ \E j \in Jobs : Caller(j) \/ Cancel(j) \/ CancelEnds(j) \/ ProcessEnds(j)
    \/ Loop \/ BeginStop \/ StopAll \/ StopTerminates \/ BeginReturns \/ StopReturns

Spec == Init /\ [][Next]_vars

\* Threads go on; a process need not end, and nobody need stop the manager.
Fairness ==
    /\ \A j \in Jobs : WF_vars(Enqueue(j) \/ RefuseAdmitted(j))
    /\ WF_vars(Loop)
    /\ WF_vars(StopAll)

FairSpec == Spec /\ Fairness

-----------------------------------------------------------------------------
(* Properties.                                                              *)

\* Every permit taken is held by a job that the loop will release, or by a
\* caller on its way to the queue: cancelled, refused, failed or served.
SlotsAccounted ==
    slots + Cardinality({j \in Jobs : call[j] = "admitted"}) + Len(queue)
          + Cardinality({cur} \ {NULL}) = Slots

\* A process runs alone, unless an earlier one outlived its termination.
OneWorker ==
    \A j \in Jobs : proc[j] = "running" =>
        j \in survivors \/ (j = cur /\ loop \in {"publish", "watch"})

\* A job whose caller has its answer, the one given by cancel or by a shutdown
\* included, is never launched.
AnsweredNeverLaunched ==
    [][\A j \in Jobs : proc[j] = "none" /\ proc'[j] # "none" =>
            call[j] = "waiting" /\ j \notin completed]_vars

\* stop answers TRUE only when nothing runs or will run but what could not be
\* terminated, and every caller has its answer.
StoppedMeansIdle ==
    stopped =>
        /\ \A j \in Jobs : proc[j] = "running" => j \in survivors
        /\ \A j \in Jobs : call[j] = "waiting" => j \in completed

\* Every call of execute returns: cancelled at any point, stopped, stranded in
\* the queue of a loop that has exited, or with a worker that never ends.
CallersReturn == \A j \in Jobs : call[j] = "waiting" ~> j \in completed

\* What cancel_worker_job promises: once a cancellation is answered, the job's
\* process does not run, unless it outlived its termination.
CancelTerminates ==
    \A j \in cancelled : proc[j] = "running" =>
        j \in survivors \/ cancel[j] = "terminating" \/ stop = "terminating"
=============================================================================
