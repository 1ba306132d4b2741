-------------------------- MODULE WorkerJobsProofs --------------------------
(* Theorems about WorkerJobs, for any set of jobs and any number of permits. *)
EXTENDS WorkerJobs, SequenceTheorems, FiniteSetTheorems, TLAPS

-----------------------------------------------------------------------------
(* The inductive invariant.                                                 *)

\* The types; that slots does not exceed Slots follows from SlotsHeld.
Shape ==
    /\ stopping \in BOOLEAN
    /\ slots \in Nat
    /\ queue \in Seq(Jobs) /\ invocations \subseteq Jobs
    /\ cancelled \subseteq Jobs /\ completed \subseteq Jobs /\ answered \subseteq Jobs
    /\ call \in [Jobs -> {"idle", "admitted", "waiting", "refused"}]
    /\ active \in Jobs \union {NULL} /\ activeProcess \in Jobs \union {NULL}
    /\ loop \in InHand \union {"idle", "empty", "gone"}
    /\ cur \in Jobs \union {NULL} /\ (loop \in InHand <=> cur # NULL)
    /\ proc \in [Jobs -> {"none", "running", "ended"}] /\ survivors \subseteq Jobs
    /\ cancel \in [Jobs -> {"idle", "terminating"}]
    /\ target \in [Jobs -> Jobs \union {NULL}]
    /\ \A j \in Jobs : cancel[j] = "terminating" => target[j] # NULL
    /\ stop \in {"idle", "flagged", "terminating", "joining"}
    /\ stopProc \in Jobs \union {NULL}
    /\ stopOk \in BOOLEAN /\ stopped \in BOOLEAN

\* The permits that are taken, and who has them.
Admitted == {j \in Jobs : call[j] = "admitted"}
InTheLoop == IF cur = NULL THEN 0 ELSE 1
SlotsHeld ==
    /\ IsFiniteSet(Admitted)
    /\ slots + Cardinality(Admitted) + Len(queue) + InTheLoop = Slots

Executing == {"preflight", "prepare", "check", "launch", "publish", "watch", "clear"}

\* The active invocation is the job the loop executes.
ActiveIsCurrent ==
    /\ active # NULL => active = cur /\ loop \in Executing \union {"retire"}
    /\ loop \in Executing => active = cur

\* A job is in the queue once or in the loop's hand, is known by its id until
\* it is retired, and has a caller who waits.
JobsTraced ==
    /\ \A i, k \in DOMAIN queue : queue[i] = queue[k] => i = k
    /\ \A i \in DOMAIN queue : queue[i] \in invocations /\ queue[i] # cur
    /\ loop \in InHand \ {"complete"} => cur \in invocations
    /\ loop = "complete" => cur \notin invocations
    /\ \A j \in invocations \union completed : call[j] = "waiting"
    /\ cur # NULL => call[cur] = "waiting"
    /\ \A j \in Jobs : call[j] = "waiting" =>
            j \in invocations \/ j \in completed \/ j = cur

\* A job that was answered before its turn is marked, and the last check of
\* the loop has seen the mark.
AnsweredIsCancelled ==
    /\ \A j \in invocations : j \in completed => j \in cancelled
    /\ loop = "launch" => cur \notin completed

\* From StopAll on every job that is not active has its answer.
StopAnswersAll ==
    /\ stop # "idle" \/ stopped => stopping
    /\ stopped => loop = "gone"
    /\ stop \in {"terminating", "joining"} \/ stopped =>
            \A j \in invocations : j \in completed \/ j = active

\* A process that is known to somebody has been launched.
ProcessesLaunched ==
    /\ loop \in {"publish", "watch"} => proc[cur] # "none"
    /\ activeProcess # NULL => proc[activeProcess] # "none"
    /\ stopProc # NULL => proc[stopProc] # "none"
    /\ \A j \in Jobs : target[j] # NULL => proc[target[j]] # "none"

IInv ==
    /\ Shape /\ SlotsHeld /\ ActiveIsCurrent /\ JobsTraced
    /\ AnsweredIsCancelled /\ OneWorker /\ StopAnswersAll /\ ProcessesLaunched

-----------------------------------------------------------------------------
(* Types.                                                                   *)

\* The initial state is typed.
LEMMA InitShape == Init => Shape
  BY WorkerAssumption, EmptySeq DEF Init, Shape, InHand

\* Every step keeps the types.
LEMMA ShapeKept == Shape /\ [Next]_vars => Shape'
<1> SUFFICES ASSUME Shape, [Next]_vars PROVE Shape'
  OBVIOUS
<1> USE WorkerAssumption DEF Shape, InHand
<1> USE DEF Calls, Goes, Stops
<1>1. ASSUME NEW j \in Jobs, Admit(j) \/ Refuse(j) PROVE Shape'
  BY <1>1 DEF Admit, Refuse, fieldVars, loopVars, procVars, cancelVars, stopVars
<1>2. ASSUME NEW j \in Jobs, Enqueue(j) PROVE Shape'
  <2>1. Append(queue, j) \in Seq(Jobs)  BY AppendProperties
  <2> QED BY <1>2, <2>1 DEF Enqueue, fieldVars, loopVars, procVars, cancelVars, stopVars
<1>3. ASSUME NEW j \in Jobs, RefuseAdmitted(j) PROVE Shape'
  BY <1>3 DEF RefuseAdmitted, GivesBack, fieldVars, loopVars, procVars, cancelVars, stopVars
<1>4. ASSUME NEW j \in Jobs, Cancel(j) PROVE Shape'
  BY <1>4 DEF Cancel, Flags, CompletesPending, Captured, loopVars, procVars, stopVars
<1>5. ASSUME NEW j \in Jobs, CancelEnds(j) PROVE Shape'
  BY <1>5 DEF CancelEnds, Terminates, Survives, jobVars, fieldVars, loopVars, stopVars
<1>6. ASSUME NEW j \in Jobs, ProcessEnds(j) PROVE Shape'
  BY <1>6 DEF ProcessEnds, jobVars, fieldVars, loopVars, cancelVars, stopVars
<1>7. CASE Takes
  <2>1. Head(queue) \in Jobs /\ Tail(queue) \in Seq(Jobs)
    BY <1>7, HeadTailProperties DEF Takes
  <2> QED BY <1>7, <2>1 DEF Takes, fieldVars, procVars, cancelVars, stopVars
<1>8. CASE FindsNothing \/ ExitsOrGoesOn \/ Activate \/ Publish \/ ClearProcess
  BY <1>8 DEF FindsNothing, ExitsOrGoesOn, Activate, Publish, ClearProcess, jobVars,
              fieldVars, procVars, cancelVars, stopVars
<1>9. ASSUME NEW from \in InHand, NEW to \in InHand, NEW ends, NEW end \in InHand,
             Checks(from, to, ends, end)
      PROVE  Shape'
  BY <1>9 DEF Checks, procVars, cancelVars, stopVars
<1>10. CASE ChecksCancelled \/ ChecksStopping
  BY <1>9, <1>10 DEF ChecksCancelled, ChecksStopping
<1>11. CASE Preflight \/ PreflightFails \/ Prepare \/ LastCheck \/ LaunchFails \/ WorkerExits
  BY ZenonT(40), <1>9, <1>11 DEF Preflight, PreflightFails, Prepare, LastCheck, LaunchFails, WorkerExits
<1>12. CASE Launch \/ Expire
  BY <1>12 DEF Launch, Expire, EndsOrSurvives, Terminates, Survives, jobVars, fieldVars,
               procVars, cancelVars, stopVars
<1>13. CASE Retire \/ Complete
  BY <1>13 DEF Retire, Complete, fieldVars, procVars, cancelVars, stopVars
<1>14. CASE BeginStop
  BY <1>14 DEF BeginStop, jobVars, fieldVars, loopVars, procVars, cancelVars
<1>17. CASE StopAll
  <2>1. /\ stop' = "terminating" /\ cancelled' = cancelled \union invocations
        /\ answered' \subseteq Jobs /\ completed' \subseteq Jobs
        /\ stopProc' \in Jobs \union {NULL}
    BY <1>17 DEF StopAll, AnswersPending
  <2> QED BY <1>17, <2>1 DEF StopAll, loopVars, procVars, cancelVars
<1>15. CASE StopTerminates \/ BeginReturns \/ StopReturns
  BY ZenonT(40), <1>15 DEF StopTerminates, BeginReturns, StopReturns, StopAnswer, Terminates,
               Survives, jobVars, fieldVars, loopVars, procVars, cancelVars
<1>16. CASE UNCHANGED vars
  BY <1>16 DEF vars, jobVars, fieldVars, loopVars, procVars, cancelVars, stopVars
<1> HIDE DEF Shape
<1> QED
  BY <1>1, <1>2, <1>3, <1>4, <1>5, <1>6, <1>7, <1>8, <1>10, <1>11, <1>12, <1>13,
     <1>14, <1>15, <1>16, <1>17 DEF Next, Caller, Loop, Executes

-----------------------------------------------------------------------------
(* The loop and the active invocation.                                      *)

\* Only the loop thread moves the loop.
LEMMA LoopMoves == [Next]_vars => Loop \/ UNCHANGED loopVars
<1> SUFFICES ASSUME Next PROVE Loop \/ UNCHANGED loopVars
  BY DEF vars
<1>1. ASSUME NEW j \in Jobs, Caller(j) \/ Cancel(j) \/ CancelEnds(j) \/ ProcessEnds(j)
      PROVE  UNCHANGED loopVars
  BY <1>1 DEF Caller, Admit, Refuse, Enqueue, RefuseAdmitted, Cancel, CancelEnds, ProcessEnds
<1>2. ASSUME BeginStop \/ StopAll \/ StopTerminates \/ BeginReturns \/ StopReturns
      PROVE  UNCHANGED loopVars
  BY <1>2 DEF BeginStop, StopAll, StopTerminates, BeginReturns, StopReturns
<1> QED BY <1>1, <1>2 DEF Next

\* Every step keeps the active invocation the one the loop executes.
LEMMA ActiveKept == Shape /\ ActiveIsCurrent /\ [Next]_vars => ActiveIsCurrent'
<1> SUFFICES ASSUME Shape, ActiveIsCurrent, [Next]_vars PROVE ActiveIsCurrent'
  OBVIOUS
<1> USE DEF ActiveIsCurrent, Executing, Goes
<1>1. CASE UNCHANGED loopVars
  BY <1>1 DEF loopVars
<1>2. CASE Takes \/ FindsNothing \/ ExitsOrGoesOn
  BY <1>2 DEF Takes, FindsNothing, ExitsOrGoesOn
<1>3. CASE ChecksCancelled \/ ChecksStopping
  BY <1>3 DEF ChecksCancelled, ChecksStopping, Checks
<1>4. CASE Activate \/ Launch \/ Publish \/ Expire \/ ClearProcess
  BY <1>4 DEF Activate, Launch, Publish, Expire, ClearProcess
<1>5. CASE Preflight \/ PreflightFails \/ Prepare \/ LastCheck \/ LaunchFails \/ WorkerExits
  BY <1>5 DEF Preflight, PreflightFails, Prepare, LastCheck, LaunchFails, WorkerExits, Checks
<1>6. CASE Retire \/ Complete
  BY <1>6 DEF Retire, Complete
<1> QED BY <1>1, <1>2, <1>3, <1>4, <1>5, <1>6, LoopMoves DEF Loop, Executes

-----------------------------------------------------------------------------
(* One worker.                                                              *)

\* Every step leaves at most one process besides the survivors.
LEMMA OneWorkerKept == Shape /\ OneWorker /\ [Next]_vars => OneWorker'
<1> SUFFICES ASSUME Shape, OneWorker, [Next]_vars PROVE OneWorker'
  OBVIOUS
<1> USE DEF OneWorker, Goes, Shape
<1>1. CASE UNCHANGED <<loopVars, procVars>>
  BY <1>1 DEF loopVars, procVars
<1>2. ASSUME NEW j \in Jobs, EndsOrSurvives(j), UNCHANGED loopVars PROVE OneWorker'
  BY <1>2 DEF EndsOrSurvives, Terminates, Survives, loopVars
<1>3. ASSUME NEW j \in Jobs, Caller(j) \/ Cancel(j) PROVE OneWorker'
  BY <1>1, <1>3 DEF Caller, Admit, Refuse, Enqueue, RefuseAdmitted, Cancel
<1>4. ASSUME NEW j \in Jobs, CancelEnds(j) PROVE OneWorker'
  <2>1. target[j] \in Jobs  BY <1>4 DEF CancelEnds
  <2> QED BY <1>2, <1>4, <2>1 DEF CancelEnds, EndsOrSurvives
<1>5. ASSUME NEW j \in Jobs, ProcessEnds(j) PROVE OneWorker'
  BY <1>5 DEF ProcessEnds, loopVars
<1>6. CASE Takes \/ FindsNothing \/ ExitsOrGoesOn \/ Activate \/ Publish \/ ClearProcess
  BY <1>6 DEF Takes, FindsNothing, ExitsOrGoesOn, Activate, Publish, ClearProcess, procVars
<1>7. CASE ChecksCancelled \/ ChecksStopping \/ Preflight \/ PreflightFails \/ Prepare
  BY <1>7 DEF ChecksCancelled, ChecksStopping, Preflight, PreflightFails, Prepare, Checks,
              procVars
<1>8. CASE LastCheck \/ LaunchFails \/ WorkerExits
  BY <1>8 DEF LastCheck, LaunchFails, WorkerExits, Checks, procVars
<1>9. CASE Launch
  BY <1>9 DEF Launch, InHand
<1>10. CASE Expire
  BY <1>10 DEF Expire, EndsOrSurvives, Terminates, Survives
<1>11. CASE Retire \/ Complete
  BY <1>11 DEF Retire, Complete, procVars
<1>12. CASE StopTerminates
  BY <1>1, <1>2, <1>12 DEF StopTerminates, EndsOrSurvives
<1>13. CASE BeginStop \/ StopAll \/ BeginReturns \/ StopReturns
  BY <1>1, <1>13 DEF BeginStop, StopAll, BeginReturns, StopReturns
<1> HIDE DEF OneWorker, Shape
<1> QED
  BY <1>1, <1>3, <1>4, <1>5, <1>6, <1>7, <1>8, <1>9, <1>10, <1>11, <1>12, <1>13
  DEF Next, Loop, Executes, vars

-----------------------------------------------------------------------------
(* The jobs in the queue.                                                   *)

\* The loop's steps that leave the queue, the ids and the callers alone.
LEMMA LoopLeavesJobs ==
    ASSUME Loop, ~Takes, ~Retire, ~Complete
    PROVE  UNCHANGED <<slots, queue, invocations, cancelled, completed, call, cur>>
<1>1. CASE FindsNothing \/ ExitsOrGoesOn \/ Activate \/ Launch \/ Publish \/ ClearProcess
  BY <1>1 DEF FindsNothing, ExitsOrGoesOn, Activate, Launch, Publish, ClearProcess,
              jobVars, fieldVars
<1>2. CASE ChecksCancelled \/ ChecksStopping \/ Preflight \/ PreflightFails \/ Prepare
  BY <1>2 DEF ChecksCancelled, ChecksStopping, Preflight, PreflightFails, Prepare, Checks
<1>3. CASE LastCheck \/ LaunchFails \/ WorkerExits \/ Expire
  BY <1>3 DEF LastCheck, LaunchFails, WorkerExits, Checks, Expire
<1> QED BY <1>1, <1>2, <1>3 DEF Loop, Executes

\* Nor do they take a job in hand, or let one go.
LEMMA LoopKeepsHand ==
    ASSUME Loop, ~Takes, ~Retire, ~Complete
    PROVE  loop' # "complete" /\ loop # "complete"
           /\ (loop \in InHand <=> loop' \in InHand)
<1> USE DEF Goes, InHand
<1>1. CASE FindsNothing \/ ExitsOrGoesOn \/ Activate \/ Launch \/ Publish \/ ClearProcess
  BY <1>1 DEF FindsNothing, ExitsOrGoesOn, Activate, Launch, Publish, ClearProcess
<1>2. CASE ChecksCancelled \/ ChecksStopping \/ Preflight \/ PreflightFails \/ Prepare
  BY <1>2 DEF ChecksCancelled, ChecksStopping, Preflight, PreflightFails, Prepare, Checks
<1>3. CASE LastCheck \/ LaunchFails \/ WorkerExits \/ Expire
  BY <1>3 DEF LastCheck, LaunchFails, WorkerExits, Checks, Expire
<1> QED BY <1>1, <1>2, <1>3 DEF Loop, Executes

\* Every step keeps each job in one place and known until it is retired.
LEMMA TracedKept == Shape /\ JobsTraced /\ [Next]_vars => JobsTraced'
<1> SUFFICES ASSUME Shape, JobsTraced, [Next]_vars PROVE JobsTraced'
  OBVIOUS
<1> USE WorkerAssumption
<1>1. CASE UNCHANGED <<queue, invocations, completed, call, loop, cur>>
  BY <1>1 DEF JobsTraced
<1>2. ASSUME NEW j \in Jobs, Admit(j) \/ Refuse(j) \/ RefuseAdmitted(j) PROVE JobsTraced'
  <2>1. /\ UNCHANGED <<queue, invocations, completed, loop, cur>>
        /\ call[j] # "waiting"
        /\ \A k \in Jobs : call'[k] = "waiting" <=> call[k] = "waiting"
    BY <1>2 DEF Shape, Admit, Refuse, RefuseAdmitted, Calls, fieldVars, loopVars
  <2> QED BY <2>1 DEF JobsTraced, Shape
<1>3. ASSUME NEW j \in Jobs, Enqueue(j) PROVE JobsTraced'
  <2>1. /\ UNCHANGED <<completed, loop, cur>> /\ call[j] = "admitted"
        /\ call' = [call EXCEPT ![j] = "waiting"]
        /\ invocations' = invocations \union {j} /\ queue' = Append(queue, j)
    BY <1>3 DEF Enqueue, Calls, fieldVars, loopVars
  <2>2. j \notin invocations /\ j # cur
    BY <2>1 DEF JobsTraced
  <2>3. /\ Len(queue) \in Nat /\ DOMAIN queue = 1..Len(queue)
        /\ DOMAIN queue' = 1..(Len(queue) + 1) /\ queue'[Len(queue) + 1] = j
        /\ \A i \in DOMAIN queue : queue'[i] = queue[i]
    BY <2>1, AppendProperties, LenProperties DEF Shape
  <2>4. \A i \in DOMAIN queue' :
           \/ i \in DOMAIN queue /\ queue'[i] = queue[i] /\ queue[i] \in invocations
              /\ queue[i] # cur
           \/ i = Len(queue) + 1 /\ queue'[i] = j
    BY <2>3 DEF JobsTraced
  <2>5. /\ \A i, k \in DOMAIN queue' : queue'[i] = queue'[k] => i = k
        /\ \A i \in DOMAIN queue' : queue'[i] \in invocations' /\ queue'[i] # cur'
    BY <2>1, <2>2, <2>4 DEF JobsTraced
  <2>6. /\ \A k \in invocations' \union completed' : call'[k] = "waiting"
        /\ cur' # NULL => call'[cur'] = "waiting"
        /\ \A k \in Jobs : call'[k] = "waiting" =>
                k \in invocations' \/ k \in completed' \/ k = cur'
    BY <2>1 DEF JobsTraced, Shape
  <2>7. (loop' \in InHand \ {"complete"} => cur' \in invocations')
        /\ (loop' = "complete" => cur' \notin invocations')
    BY <2>1, <2>2 DEF JobsTraced
  <2> QED BY <2>5, <2>6, <2>7 DEF JobsTraced
<1>4. ASSUME UNCHANGED <<queue, invocations, call, loop, cur>>,
             completed \subseteq completed', completed' \subseteq completed \union invocations
      PROVE  JobsTraced'
  BY <1>4 DEF JobsTraced
<1>5. ASSUME NEW j \in Jobs, Cancel(j) PROVE JobsTraced'
  BY <1>4, <1>5 DEF Cancel, CompletesPending, loopVars
<1>6. CASE StopAll
  BY <1>4, <1>6 DEF StopAll, AnswersPending, loopVars
<1>7. ASSUME NEW j \in Jobs, CancelEnds(j) \/ ProcessEnds(j) PROVE JobsTraced'
  BY <1>1, <1>7 DEF CancelEnds, ProcessEnds, jobVars, fieldVars, loopVars
<1>8. CASE BeginStop \/ StopTerminates \/ BeginReturns \/ StopReturns
  BY <1>1, <1>8 DEF BeginStop, StopTerminates, BeginReturns, StopReturns, jobVars,
                    fieldVars, loopVars
<1>9. CASE Takes
  <2>1. /\ UNCHANGED <<invocations, completed, call>> /\ loop = "idle" /\ loop' = "taken"
        /\ queue # <<>> /\ cur' = Head(queue) /\ queue' = Tail(queue)
    BY <1>9 DEF Takes, Goes, fieldVars
  <2>2. /\ Len(queue) \in Nat \ {0} /\ DOMAIN queue = 1..Len(queue)
        /\ DOMAIN queue' = 1..(Len(queue) - 1) /\ cur' = queue[1]
        /\ \A i \in DOMAIN queue' : queue'[i] = queue[i + 1] /\ i + 1 \in DOMAIN queue
    BY <2>1, EmptySeq, HeadTailProperties, LenProperties DEF Shape
  <2>3. 1 \in DOMAIN queue /\ \A i \in DOMAIN queue' : i + 1 # 1 /\ i \in Nat
    BY <2>2
  <2>4. cur = NULL /\ cur' \in invocations
    BY <2>1, <2>2, <2>3 DEF Shape, InHand, JobsTraced
  <2>5. /\ \A i, k \in DOMAIN queue' : queue'[i] = queue'[k] => i = k
        /\ \A i \in DOMAIN queue' : queue'[i] \in invocations' /\ queue'[i] # cur'
    <3>1. ASSUME NEW i \in DOMAIN queue', NEW k \in DOMAIN queue', queue'[i] = queue'[k]
          PROVE  i = k
      <4>1. i + 1 = k + 1  BY <2>2, <3>1 DEF JobsTraced
      <4> QED BY <2>3, <4>1
    <3>2. ASSUME NEW i \in DOMAIN queue'
          PROVE  queue'[i] \in invocations' /\ queue'[i] # cur'
      BY <2>1, <2>2, <2>3, <3>2 DEF JobsTraced
    <3> QED BY <3>1, <3>2
  <2> QED BY <2>1, <2>4, <2>5 DEF JobsTraced, Shape
<1>10. CASE Retire
  <2>1. /\ UNCHANGED <<queue, completed, call, cur>> /\ loop' = "complete"
        /\ loop = "retire" /\ invocations' = invocations \ {cur}
    BY <1>10 DEF Retire, Goes, fieldVars
  <2> QED BY <2>1 DEF JobsTraced, InHand
<1>11. CASE Complete
  <2>1. /\ UNCHANGED <<queue, invocations, call>> /\ loop' = "idle" /\ cur' = NULL
        /\ loop = "complete" /\ completed' = completed \union {cur} /\ cur \in Jobs
    BY <1>11 DEF Complete, Goes, Shape, InHand
  <2>2. \A i \in DOMAIN queue : queue[i] # NULL
    BY DEF JobsTraced, Shape
  <2> QED BY <2>1, <2>2 DEF JobsTraced, InHand
<1>12. CASE Loop /\ ~Takes /\ ~Retire /\ ~Complete
  <2>1. UNCHANGED <<queue, invocations, completed, call, cur>>
    BY <1>12, LoopLeavesJobs
  <2>2. loop' # "complete" /\ (loop \in InHand <=> loop' \in InHand) /\ loop # "complete"
    BY <1>12, LoopKeepsHand
  <2> QED BY <2>1, <2>2 DEF JobsTraced
<1> QED BY <1>1, <1>2, <1>3, <1>5, <1>6, <1>7, <1>8, <1>9, <1>10, <1>11, <1>12
        DEF Next, Caller, vars, jobVars, fieldVars, loopVars

-----------------------------------------------------------------------------
(* Answers.                                                                 *)

\* Every step keeps a job that was answered early marked and off the launch.
LEMMA AnsweredKept ==
    Shape /\ ActiveIsCurrent /\ JobsTraced /\ AnsweredIsCancelled /\ [Next]_vars
        => AnsweredIsCancelled'
<1> SUFFICES ASSUME Shape, ActiveIsCurrent, JobsTraced, AnsweredIsCancelled, [Next]_vars
             PROVE  AnsweredIsCancelled'
  OBVIOUS
<1> USE DEF AnsweredIsCancelled
<1>1. CASE UNCHANGED <<invocations, cancelled, completed, loop, cur>>
  BY <1>1
<1>2. ASSUME NEW j \in Jobs, Admit(j) \/ Refuse(j) \/ RefuseAdmitted(j)
      PROVE  AnsweredIsCancelled'
  BY <1>1, <1>2 DEF Admit, Refuse, RefuseAdmitted, fieldVars, loopVars
<1>3. ASSUME NEW j \in Jobs, Enqueue(j) PROVE AnsweredIsCancelled'
  <2>1. j \notin completed
    BY <1>3 DEF Enqueue, Calls, JobsTraced
  <2> QED BY <1>3, <2>1 DEF Enqueue, fieldVars, loopVars
<1>4. ASSUME NEW j \in Jobs, Cancel(j) PROVE AnsweredIsCancelled'
  BY <1>4 DEF Cancel, Flags, CompletesPending, loopVars, ActiveIsCurrent, Executing
<1>5. ASSUME NEW j \in Jobs, CancelEnds(j) \/ ProcessEnds(j) PROVE AnsweredIsCancelled'
  BY <1>1, <1>5 DEF CancelEnds, ProcessEnds, jobVars, fieldVars, loopVars
<1>6. CASE StopAll
  BY <1>6 DEF StopAll, AnswersPending, loopVars, ActiveIsCurrent, Executing
<1>7. CASE BeginStop \/ StopTerminates \/ BeginReturns \/ StopReturns
  BY <1>1, <1>7 DEF BeginStop, StopTerminates, BeginReturns, StopReturns, jobVars,
                    fieldVars, loopVars
<1>8. CASE Takes
  BY <1>8 DEF Takes, Goes, fieldVars
<1>9. CASE Retire
  BY <1>9 DEF Retire, Goes, fieldVars
<1>10. CASE Complete
  BY <1>10 DEF Complete, Goes, JobsTraced
<1>11. CASE LastCheck
  BY <1>11 DEF LastCheck, Checks, Goes, JobsTraced, InHand
<1>12. CASE Loop /\ ~Takes /\ ~Retire /\ ~Complete /\ ~LastCheck
  <2>1. UNCHANGED <<invocations, cancelled, completed, cur>>
    BY <1>12, LoopLeavesJobs
  <2>2. loop' = "launch" => loop = "launch"
    <3> USE DEF Goes
    <3>1. CASE FindsNothing \/ ExitsOrGoesOn \/ Activate \/ Launch \/ Publish \/ ClearProcess
      BY <3>1 DEF FindsNothing, ExitsOrGoesOn, Activate, Launch, Publish, ClearProcess
    <3>2. CASE ChecksCancelled \/ ChecksStopping \/ Preflight \/ PreflightFails \/ Prepare
      BY <3>2 DEF ChecksCancelled, ChecksStopping, Preflight, PreflightFails, Prepare, Checks
    <3>3. CASE LaunchFails \/ WorkerExits \/ Expire
      BY <3>3 DEF LaunchFails, WorkerExits, Checks, Expire
    <3> QED BY <1>12, <3>1, <3>2, <3>3 DEF Loop, Executes
  <2> QED BY <2>1, <2>2
<1> HIDE DEF AnsweredIsCancelled
<1> QED BY <1>1, <1>2, <1>3, <1>4, <1>5, <1>6, <1>7, <1>8, <1>9, <1>10, <1>11, <1>12
        DEF Next, Caller, vars, jobVars, fieldVars, loopVars

\* Every step after a shutdown leaves no job but the active one unanswered.
LEMMA StopAnswersKept ==
    Shape /\ ActiveIsCurrent /\ StopAnswersAll /\ [Next]_vars => StopAnswersAll'
<1> SUFFICES ASSUME Shape, ActiveIsCurrent, StopAnswersAll, [Next]_vars
             PROVE  StopAnswersAll'
  OBVIOUS
<1> USE DEF StopAnswersAll
<1>1. CASE UNCHANGED <<stopping, stop, stopped, invocations, completed, active, loop>>
  BY <1>1
<1>2. ASSUME NEW j \in Jobs, Caller(j) PROVE StopAnswersAll'
  BY <1>2 DEF Caller, Admit, Refuse, Enqueue, RefuseAdmitted, fieldVars, loopVars, stopVars
<1>3. ASSUME NEW j \in Jobs, Cancel(j) PROVE StopAnswersAll'
  BY <1>3 DEF Cancel, CompletesPending, loopVars, stopVars
<1>4. ASSUME NEW j \in Jobs, CancelEnds(j) \/ ProcessEnds(j) PROVE StopAnswersAll'
  BY <1>1, <1>4 DEF CancelEnds, ProcessEnds, jobVars, fieldVars, loopVars, stopVars
<1>5. CASE BeginStop
  BY <1>5 DEF BeginStop, Stops, jobVars, fieldVars, loopVars
<1>6. CASE StopAll
  BY <1>6 DEF StopAll, Stops, AnswersPending, loopVars
<1>7. CASE StopTerminates \/ BeginReturns \/ StopReturns
  BY <1>7 DEF StopTerminates, BeginReturns, StopReturns, StopAnswer, Stops, Shape, jobVars,
              fieldVars, loopVars
<1>8. CASE Retire
  BY <1>8 DEF Retire, Goes, fieldVars, stopVars
<1>9. CASE Complete \/ Takes
  BY <1>9 DEF Complete, Takes, Goes, fieldVars, stopVars
<1>10. CASE Activate
  <2>1. active = NULL
    BY <1>10 DEF Activate, Goes, ActiveIsCurrent, Executing
  <2>2. \A j \in invocations : j # NULL
    BY WorkerAssumption DEF Shape
  <2> QED BY <1>10, <2>1, <2>2 DEF Activate, Goes, jobVars, fieldVars, stopVars
<1>11. CASE Loop /\ ~Takes /\ ~Retire /\ ~Complete /\ ~Activate
  <2>1. UNCHANGED <<stopping, stop, stopped, active>> /\ (loop = "gone" => loop' = "gone")
    <3> USE DEF Goes, stopVars
    <3>1. CASE FindsNothing \/ ExitsOrGoesOn \/ Launch \/ Publish \/ ClearProcess
      BY <3>1 DEF FindsNothing, ExitsOrGoesOn, Launch, Publish, ClearProcess
    <3>2. CASE ChecksCancelled \/ ChecksStopping \/ Preflight \/ PreflightFails \/ Prepare
      BY <3>2 DEF ChecksCancelled, ChecksStopping, Preflight, PreflightFails, Prepare, Checks
    <3>3. CASE LastCheck \/ LaunchFails \/ WorkerExits \/ Expire
      BY <3>3 DEF LastCheck, LaunchFails, WorkerExits, Checks, Expire
    <3> QED BY <1>11, <3>1, <3>2, <3>3 DEF Loop, Executes
  <2>2. UNCHANGED <<invocations, completed>>
    BY <1>11, LoopLeavesJobs
  <2> QED BY <2>1, <2>2
<1> HIDE DEF StopAnswersAll
<1> QED BY <1>1, <1>2, <1>3, <1>4, <1>5, <1>6, <1>7, <1>8, <1>9, <1>10, <1>11
        DEF Next, vars, jobVars, fieldVars, loopVars, stopVars

\* Every step keeps a process that somebody knows of launched.
LEMMA LaunchedKept == Shape /\ ProcessesLaunched /\ [Next]_vars => ProcessesLaunched'
<1> SUFFICES ASSUME Shape, ProcessesLaunched, [Next]_vars PROVE ProcessesLaunched'
  OBVIOUS
<1> USE DEF ProcessesLaunched, Goes, Shape
<1>1. CASE UNCHANGED <<loop, cur, proc, activeProcess, stopProc, target>>
  BY <1>1
<1>2. ASSUME NEW j \in Jobs, Terminates(j) \/ Survives(j), UNCHANGED loopVars,
             stopProc' \in {stopProc, NULL},
             \A k \in Jobs : target'[k] \in {target[k], NULL}
      PROVE  ProcessesLaunched'
  BY <1>2 DEF Terminates, Survives, loopVars, InHand
<1>3. ASSUME NEW j \in Jobs, Caller(j) PROVE ProcessesLaunched'
  BY <1>1, <1>3 DEF Caller, Admit, Refuse, Enqueue, RefuseAdmitted, loopVars, procVars,
                    cancelVars, stopVars
<1>4. ASSUME NEW j \in Jobs, Cancel(j) PROVE ProcessesLaunched'
  BY <1>4 DEF Cancel, Captured, loopVars, procVars, stopVars
<1>5. ASSUME NEW j \in Jobs, CancelEnds(j) PROVE ProcessesLaunched'
  <2>1. target[j] \in Jobs  BY <1>5 DEF CancelEnds
  <2> QED BY <1>2, <1>5, <2>1 DEF CancelEnds, stopVars
<1>6. ASSUME NEW j \in Jobs, ProcessEnds(j) PROVE ProcessesLaunched'
  BY <1>6 DEF ProcessEnds, loopVars, cancelVars, stopVars
<1>7. CASE BeginStop \/ StopAll \/ BeginReturns \/ StopReturns
  BY <1>7 DEF BeginStop, StopAll, BeginReturns, StopReturns, loopVars, procVars, cancelVars
<1>8. CASE StopTerminates
  <2>1. CASE stopProc = NULL
    BY <1>8, <2>1 DEF StopTerminates, loopVars, procVars, cancelVars
  <2>2. CASE stopProc # NULL
    BY <1>2, <1>8, <2>2 DEF StopTerminates, cancelVars
  <2> QED BY <2>1, <2>2
<1>9. CASE Takes \/ FindsNothing \/ ExitsOrGoesOn \/ Activate \/ ClearProcess
  BY <1>9 DEF Takes, FindsNothing, ExitsOrGoesOn, Activate, ClearProcess, procVars,
              cancelVars, stopVars
<1>10. CASE ChecksCancelled \/ ChecksStopping \/ Preflight \/ PreflightFails \/ Prepare
  BY <1>10 DEF ChecksCancelled, ChecksStopping, Preflight, PreflightFails, Prepare, Checks,
               procVars, cancelVars, stopVars
<1>11. CASE LastCheck \/ LaunchFails \/ WorkerExits
  BY <1>11 DEF LastCheck, LaunchFails, WorkerExits, Checks, procVars, cancelVars, stopVars
<1>12. CASE Launch
  BY <1>12 DEF Launch, InHand, cancelVars, stopVars
<1>13. CASE Publish
  BY <1>13 DEF Publish, procVars, cancelVars, stopVars
<1>14. CASE Expire
  BY <1>14 DEF Expire, EndsOrSurvives, Terminates, Survives, cancelVars, stopVars
<1>15. CASE Retire \/ Complete
  BY <1>15 DEF Retire, Complete, procVars, cancelVars, stopVars
<1> HIDE DEF ProcessesLaunched, Shape
<1> QED BY <1>1, <1>3, <1>4, <1>5, <1>6, <1>7, <1>8, <1>9, <1>10, <1>11, <1>12, <1>13,
           <1>14, <1>15
        DEF Next, Loop, Executes, vars, loopVars, procVars, cancelVars, stopVars

-----------------------------------------------------------------------------
(* Permits.                                                                 *)

\* Every step keeps permits and holders adding up.
LEMMA SlotsKept == Shape /\ SlotsHeld /\ [Next]_vars => SlotsHeld'
<1> SUFFICES ASSUME Shape, SlotsHeld, [Next]_vars PROVE SlotsHeld'
  OBVIOUS
<1>1. /\ IsFiniteSet(Admitted) /\ Cardinality(Admitted) \in Nat
      /\ slots + Cardinality(Admitted) + Len(queue) + InTheLoop = Slots
      /\ slots \in Nat /\ Len(queue) \in Nat /\ InTheLoop \in {0, 1}
  BY FS_CardinalityType, LenProperties DEF SlotsHeld, Shape, InTheLoop
<1>2. CASE UNCHANGED <<slots, queue, call, cur>>
  BY <1>2 DEF SlotsHeld, Admitted, InTheLoop
<1>3. ASSUME NEW j \in Jobs, Admit(j) PROVE SlotsHeld'
  <2>1. /\ slots' = slots - 1 /\ UNCHANGED <<queue, cur>> /\ j \notin Admitted
        /\ Admitted' = Admitted \union {j}
    BY <1>3 DEF Admit, Calls, Admitted, Shape, loopVars
  <2>2. IsFiniteSet(Admitted') /\ Cardinality(Admitted') = Cardinality(Admitted) + 1
    BY <1>1, <2>1, FS_AddElement
  <2> QED BY <1>1, <2>1, <2>2 DEF SlotsHeld, InTheLoop
<1>4. ASSUME NEW j \in Jobs, Refuse(j) PROVE SlotsHeld'
  <2>1. UNCHANGED <<slots, queue, cur>> /\ Admitted' = Admitted
    BY <1>4 DEF Refuse, Calls, Admitted, Shape, loopVars
  <2> QED BY <2>1 DEF SlotsHeld, InTheLoop
<1>5. ASSUME NEW j \in Jobs, Enqueue(j) PROVE SlotsHeld'
  <2>1. /\ UNCHANGED <<slots, cur>> /\ j \in Admitted /\ Admitted' = Admitted \ {j}
        /\ queue' = Append(queue, j)
    BY <1>5 DEF Enqueue, Calls, Admitted, Shape, loopVars
  <2>2. IsFiniteSet(Admitted') /\ Cardinality(Admitted') = Cardinality(Admitted) - 1
    BY <1>1, <2>1, FS_RemoveElement
  <2>3. Len(queue') = Len(queue) + 1
    BY <2>1, AppendProperties DEF Shape
  <2> QED BY <1>1, <2>1, <2>2, <2>3 DEF SlotsHeld, InTheLoop
<1>6. ASSUME NEW j \in Jobs, RefuseAdmitted(j) PROVE SlotsHeld'
  <2>1. /\ slots' = slots + 1 /\ UNCHANGED <<queue, cur>> /\ j \in Admitted
        /\ Admitted' = Admitted \ {j}
    BY <1>6 DEF RefuseAdmitted, GivesBack, Calls, Admitted, Shape, loopVars
  <2>2. IsFiniteSet(Admitted') /\ Cardinality(Admitted') = Cardinality(Admitted) - 1
    BY <1>1, <2>1, FS_RemoveElement
  <2> QED BY <1>1, <2>1, <2>2 DEF SlotsHeld, InTheLoop
<1>7. CASE Takes
  <2>1. /\ UNCHANGED <<slots, call>> /\ cur = NULL /\ cur' = Head(queue)
        /\ queue # <<>> /\ queue' = Tail(queue)
    BY <1>7 DEF Takes, Goes, Shape, InHand
  <2>2. cur' \in Jobs /\ Len(queue') = Len(queue) - 1
    BY <2>1, HeadTailProperties DEF Shape
  <2>3. InTheLoop = 0 /\ InTheLoop' = 1
    BY <2>1, <2>2, WorkerAssumption DEF InTheLoop
  <2>4. Admitted' = Admitted
    BY <2>1 DEF Admitted
  <2> QED BY <1>1, <2>1, <2>2, <2>3, <2>4 DEF SlotsHeld
<1>8. CASE Complete
  <2>1. /\ slots' = slots + 1 /\ UNCHANGED <<queue, call>> /\ cur # NULL /\ cur' = NULL
    BY <1>8 DEF Complete, Goes, Shape, InHand
  <2>2. InTheLoop = 1 /\ InTheLoop' = 0
    BY <2>1 DEF InTheLoop
  <2>3. Admitted' = Admitted
    BY <2>1 DEF Admitted
  <2> QED BY <1>1, <2>1, <2>2, <2>3 DEF SlotsHeld
<1>9. CASE Retire
  BY <1>2, <1>9 DEF Retire
<1>10. CASE Loop /\ ~Takes /\ ~Retire /\ ~Complete
  BY <1>2, <1>10, LoopLeavesJobs
<1>11. ASSUME NEW j \in Jobs, Cancel(j) \/ CancelEnds(j) \/ ProcessEnds(j) PROVE SlotsHeld'
  BY <1>2, <1>11 DEF Cancel, CompletesPending, CancelEnds, ProcessEnds, jobVars, loopVars
<1>12. CASE BeginStop \/ StopAll \/ StopTerminates \/ BeginReturns \/ StopReturns
  BY <1>2, <1>12 DEF BeginStop, StopAll, StopTerminates, BeginReturns, StopReturns, jobVars,
                     loopVars
<1> QED BY <1>2, <1>3, <1>4, <1>5, <1>6, <1>7, <1>8, <1>9, <1>10, <1>11, <1>12
        DEF Next, Caller, vars, jobVars, loopVars

-----------------------------------------------------------------------------
(* The theorems.                                                            *)

\* The inductive invariant holds at first.
LEMMA InitInvariant == Init => IInv
<1> SUFFICES ASSUME Init PROVE IInv
  OBVIOUS
<1>1. Shape
  BY InitShape
<1>2. SlotsHeld
  <2>1. Admitted = {} /\ Len(queue) = 0 /\ slots = Slots /\ InTheLoop = 0
    BY EmptySeq DEF Init, Admitted, InTheLoop
  <2> QED BY <2>1, FS_EmptySet, WorkerAssumption DEF SlotsHeld
<1>3. queue = <<>> /\ DOMAIN queue = {}
  BY EmptySeq, LenProperties DEF Init
<1>4. ActiveIsCurrent /\ JobsTraced
  BY <1>3 DEF Init, ActiveIsCurrent, JobsTraced, Executing, InHand
<1>5. AnsweredIsCancelled /\ OneWorker /\ StopAnswersAll /\ ProcessesLaunched
  BY DEF Init, AnsweredIsCancelled, OneWorker, StopAnswersAll, ProcessesLaunched
<1> QED BY <1>1, <1>2, <1>4, <1>5 DEF IInv

\* IInv holds in every reachable state: a job is traced from the queue to its
\* retirement, permits are accounted for, and a shutdown answers everybody.
THEOREM InductiveInvariant == Spec => []IInv
<1>1. IInv /\ [Next]_vars => IInv'
  BY ShapeKept, SlotsKept, ActiveKept, TracedKept, AnsweredKept, OneWorkerKept,
     StopAnswersKept, LaunchedKept DEF IInv
<1> QED BY InitInvariant, <1>1, PTL DEF Spec

\* The type invariant; a permit is never given back that was not taken.
THEOREM TypeCorrect == Spec => []TypeOK
<1>1. IInv => TypeOK
  <2> SUFFICES ASSUME IInv PROVE TypeOK
    OBVIOUS
  <2>1. slots \in 0..Slots
    <3>1. Cardinality(Admitted) \in Nat /\ Len(queue) \in Nat /\ InTheLoop \in Nat
      BY FS_CardinalityType, LenProperties DEF IInv, SlotsHeld, Shape, InTheLoop
    <3> QED BY <3>1, WorkerAssumption DEF IInv, SlotsHeld, Shape
  <2> QED BY <2>1 DEF IInv, Shape, TypeOK
<1> QED BY InductiveInvariant, <1>1, PTL

\* Every permit that is taken is held by a caller on its way to the queue, a
\* job in the queue or the job in the loop's hand.
THEOREM SlotsAccountedHolds == Spec => []SlotsAccounted
<1>1. IInv => SlotsAccounted
  <2> SUFFICES ASSUME IInv PROVE SlotsAccounted
    OBVIOUS
  <2>1. Cardinality({cur} \ {NULL}) = InTheLoop
    <3>1. CASE cur = NULL
      BY <3>1, FS_EmptySet, {cur} \ {NULL} = {} DEF InTheLoop
    <3>2. CASE cur # NULL
      <4>1. {cur} \ {NULL} = {cur}  BY <3>2
      <4> QED BY <3>2, <4>1, FS_Singleton DEF InTheLoop
    <3> QED BY <3>1, <3>2
  <2> QED BY <2>1 DEF IInv, SlotsHeld, SlotsAccounted, Admitted
<1> QED BY InductiveInvariant, <1>1, PTL

\* Two processes run at once only when an attempt to terminate one failed.
THEOREM OneWorkerHolds == Spec => []OneWorker
<1>1. IInv => OneWorker
  BY DEF IInv
<1> QED BY InductiveInvariant, <1>1, PTL

\* A stop that answered TRUE left nothing running and nobody waiting.
THEOREM StoppedMeansIdleHolds == Spec => []StoppedMeansIdle
<1>1. IInv => StoppedMeansIdle
  <2> SUFFICES ASSUME IInv, stopped PROVE StoppedMeansIdle
    BY DEF StoppedMeansIdle
  <2>1. loop = "gone" /\ cur = NULL /\ active = NULL
    BY DEF IInv, StopAnswersAll, ActiveIsCurrent, Executing, Shape, InHand
  <2>2. \A j \in Jobs : proc[j] = "running" => j \in survivors
    BY <2>1 DEF IInv, OneWorker
  <2>3. \A j \in Jobs : call[j] = "waiting" => j \in completed
    BY <2>1, WorkerAssumption DEF IInv, JobsTraced, StopAnswersAll
  <2> QED BY <2>2, <2>3 DEF StoppedMeansIdle
<1> QED BY InductiveInvariant, <1>1, PTL

\* No process is launched for a job whose caller has its answer.
THEOREM AnsweredNeverLaunchedHolds == Spec => AnsweredNeverLaunched
<1>1. ASSUME IInv, [Next]_vars, NEW j \in Jobs, proc[j] = "none", proc'[j] # "none"
      PROVE  call[j] = "waiting" /\ j \notin completed
  <2>1. ASSUME NEW k \in Jobs, Terminates(k) \/ Survives(k), proc[k] # "none"
        PROVE  FALSE
    BY <1>1, <2>1 DEF IInv, Shape, Terminates, Survives
  <2>2. ASSUME UNCHANGED proc PROVE FALSE
    BY <1>1, <2>2
  <2>3. CASE Launch
    <3>1. loop = "launch" /\ cur = j
      BY <1>1, <2>3 DEF Launch, Goes, IInv, Shape
    <3> QED BY <1>1, <3>1, WorkerAssumption DEF IInv, JobsTraced, AnsweredIsCancelled
  <2>4. ASSUME Loop, ~Launch PROVE FALSE
    <3>1. CASE Takes \/ FindsNothing \/ ExitsOrGoesOn \/ Activate \/ Publish \/ ClearProcess
      BY <2>2, <3>1 DEF Takes, FindsNothing, ExitsOrGoesOn, Activate, Publish, ClearProcess,
                        procVars
    <3>2. CASE ChecksCancelled \/ ChecksStopping \/ Preflight \/ PreflightFails \/ Prepare
      BY <2>2, <3>2 DEF ChecksCancelled, ChecksStopping, Preflight, PreflightFails, Prepare,
                        Checks, procVars
    <3>3. CASE LastCheck \/ LaunchFails \/ WorkerExits \/ Retire \/ Complete
      BY <2>2, <3>3 DEF LastCheck, LaunchFails, WorkerExits, Checks, Retire, Complete, procVars
    <3>4. CASE Expire
      BY <1>1, <2>1, <3>4 DEF Expire, EndsOrSurvives, Goes, IInv, Shape, InHand
    <3> QED BY <2>4, <3>1, <3>2, <3>3, <3>4 DEF Loop, Executes
  <2>5. ASSUME NEW k \in Jobs, Caller(k) \/ Cancel(k) PROVE FALSE
    BY <2>2, <2>5 DEF Caller, Admit, Refuse, Enqueue, RefuseAdmitted, Cancel, procVars
  <2>6. ASSUME NEW k \in Jobs, CancelEnds(k) PROVE FALSE
    <3>1. target[k] \in Jobs /\ proc[target[k]] # "none"
      BY <2>6 , <1>1 DEF CancelEnds, IInv, Shape, ProcessesLaunched
    <3> QED BY <2>1, <2>6, <3>1 DEF CancelEnds
  <2>7. ASSUME NEW k \in Jobs, ProcessEnds(k) PROVE FALSE
    BY <1>1, <2>7 DEF ProcessEnds, IInv, Shape
  <2>8. ASSUME StopTerminates PROVE FALSE
    <3>1. stopProc # NULL => stopProc \in Jobs /\ proc[stopProc] # "none"
      BY <1>1 DEF IInv, Shape, ProcessesLaunched
    <3> QED BY <2>1, <2>2, <2>8, <3>1 DEF StopTerminates, procVars
  <2>9. ASSUME BeginStop \/ StopAll \/ BeginReturns \/ StopReturns \/ UNCHANGED vars
        PROVE  FALSE
    BY <2>2, <2>9 DEF BeginStop, StopAll, BeginReturns, StopReturns, vars, procVars
  <2> QED BY <1>1, <2>3, <2>4, <2>5, <2>6, <2>7, <2>8, <2>9 DEF Next
<1>2. IInv /\ [Next]_vars => [\A j \in Jobs : proc[j] = "none" /\ proc'[j] # "none" =>
            call[j] = "waiting" /\ j \notin completed]_vars
  BY <1>1
<1> QED BY InductiveInvariant, <1>2, PTL DEF Spec, AnsweredNeverLaunched
=============================================================================
