-------------------------- MODULE GuiContractProofs --------------------------
(* The core keeps the contract of submit, for any requests, documents and   *)
(* owners: GuiDispatch implements DispatchContract.                         *)
EXTENDS GuiQueueProofs

\* What a caller can observe of a request stays as it was.
Same(q) == PhaseOf(q)' = PhaseOf(q) /\ AnswerOf(q)' = AnswerOf(q)

\* The phase moves while the answer stays, or the answer comes while the phase stays.
PhaseMoves(r, from, to) ==
    PhaseOf(r) = from /\ PhaseOf(r)' = to /\ AnswerOf(r)' = AnswerOf(r)

\* A caller is answered in agreement with the phase of its callable.
Answered(r) ==
    /\ PhaseOf(r)' = PhaseOf(r) /\ AnswerOf(r) = "none"
    /\ AnswerOf(r)' \in Contract!Answers \ {"none"}
    /\ Contract!Agrees(AnswerOf(r)', PhaseOf(r))

\* An unadmitted caller is refused, or runs its callable in place.
AnsweredAtOnce(r) ==
    /\ PhaseOf(r) = "new" /\ AnswerOf(r) = "none"
    /\ \/ PhaseOf(r)' = "withdrawn" /\ AnswerOf(r)' = "not_run"
       \/ PhaseOf(r)' = "finished" /\ AnswerOf(r)' \in {"value", "failed"}

\* The moves of one request that the contract allows.
Allowed(r) ==
    \/ PhaseMoves(r, "new", "waiting") \/ PhaseMoves(r, "waiting", "withdrawn")
    \/ PhaseMoves(r, "running", "finished")
    \/ PhaseMoves(r, "waiting", "running") /\ \A q \in Requests : PhaseOf(q) # "running"
    \/ Answered(r) \/ AnsweredAtOnce(r)

\* A step that changes nothing a caller can observe is a stutter of the contract.
LEMMA ContractStutter ==
    ASSUME \A q \in Requests : Same(q)
    PROVE  UNCHANGED Contract!vars
<1>1. [q \in Requests |-> PhaseOf(q)'] = [q \in Requests |-> PhaseOf(q)]  BY DEF Same
<1>2. [q \in Requests |-> AnswerOf(q)'] = [q \in Requests |-> AnswerOf(q)]  BY DEF Same
<1> QED BY <1>1, <1>2 DEF Contract!vars

\* A step that moves one request in an allowed way is a step of the contract.
LEMMA ContractStep ==
    ASSUME NEW r \in Requests, Allowed(r), \A q \in Requests \ {r} : Same(q)
    PROVE  Contract!Next
<1> DEFINE ph == [q \in Requests |-> PhaseOf(q)]
           an == [q \in Requests |-> AnswerOf(q)]
           ph1 == [q \in Requests |-> PhaseOf(q)']
           an1 == [q \in Requests |-> AnswerOf(q)']
<1>1. ph1 = [ph EXCEPT ![r] = PhaseOf(r)']  BY DEF Same
<1>2. an1 = [an EXCEPT ![r] = AnswerOf(r)']  BY DEF Same
<1>3. ph[r] = PhaseOf(r) /\ an[r] = AnswerOf(r)  OBVIOUS
<1>4. PhaseOf(r)' = PhaseOf(r) => ph1 = ph  BY DEF Same
<1>5. AnswerOf(r)' = AnswerOf(r) => an1 = an  BY DEF Same
<1>6. CASE PhaseMoves(r, "new", "waiting")
  <2>1. Contract!Accept(r)
    BY <1>1, <1>3, <1>5, <1>6 DEF PhaseMoves, Contract!Accept, Contract!Ends
  <2> QED BY <2>1 DEF Contract!Next
<1>7. CASE PhaseMoves(r, "waiting", "withdrawn")
  <2>1. Contract!Withdraw(r)
    BY <1>1, <1>3, <1>5, <1>7 DEF PhaseMoves, Contract!Withdraw, Contract!Ends
  <2> QED BY <2>1 DEF Contract!Next
<1>8. CASE PhaseMoves(r, "running", "finished")
  <2>1. Contract!Finish(r)
    BY <1>1, <1>3, <1>5, <1>8 DEF PhaseMoves, Contract!Finish, Contract!Ends
  <2> QED BY <2>1 DEF Contract!Next
<1>9. CASE PhaseMoves(r, "waiting", "running") /\ \A q \in Requests : PhaseOf(q) # "running"
  <2>1. \A q \in Requests : ph[q] # "running"  BY <1>9
  <2>2. Contract!Start(r)
    BY <1>1, <1>3, <1>5, <1>9, <2>1 DEF PhaseMoves, Contract!Start, Contract!Ends
  <2> QED BY <2>2 DEF Contract!Next
<1>10. CASE Answered(r)
  <2>1. Contract!Answer(r)
    BY <1>2, <1>3, <1>4, <1>10 DEF Answered, Contract!Answer
  <2> QED BY <2>1 DEF Contract!Next
<1>11. CASE AnsweredAtOnce(r)
  <2>1. CASE PhaseOf(r)' = "withdrawn"
    <3>1. Contract!Refuse(r)
      BY <1>1, <1>2, <1>3, <1>11, <2>1 DEF AnsweredAtOnce, Contract!Refuse, Contract!Ends
    <3> QED BY <3>1 DEF Contract!Next
  <2>2. CASE PhaseOf(r)' = "finished"
    <3>1. Contract!RunInPlace(r)
      BY <1>1, <1>2, <1>3, <1>11, <2>2 DEF AnsweredAtOnce, Contract!RunInPlace, Contract!Ends
    <3> QED BY <3>1 DEF Contract!Next
  <2> QED BY <1>11, <2>1, <2>2 DEF AnsweredAtOnce
<1> QED BY <1>6, <1>7, <1>8, <1>9, <1>10, <1>11 DEF Allowed

-----------------------------------------------------------------------------
(* What the phase and the answer of a request depend on.                    *)

\* The phase and the answer, read off the state and the result of the request.
Read(r) ==
    /\ state[r] \in Occupying <=> PhaseOf(r) = "running"
    /\ state[r] = "completed" /\ ran[r] = 1 => PhaseOf(r) = "finished"
    /\ state[r] \in Terminal /\ ran[r] = 0 => PhaseOf(r) = "withdrawn"
    /\ state[r] \in Waiting /\ result[r] \in RefusedAnswers => PhaseOf(r) = "withdrawn"
    /\ state[r] \in Waiting /\ result[r] \notin RefusedAnswers =>
          PhaseOf(r) = IF pc[r] \in {"idle", "admit"} THEN "new" ELSE "waiting"
    /\ result[r] = "none" => AnswerOf(r) = "none"
    /\ result[r] = "value" => AnswerOf(r) = "value"
    /\ result[r] = "task_error" => AnswerOf(r) = "failed"
    /\ result[r] \in RefusedAnswers \cup {"timeout_before"} => AnswerOf(r) = "not_run"
    /\ result[r] \in {"timeout_during", "wake_failed"} => AnswerOf(r) = "unknown"

Reading == \A r \in Requests : Read(r)

\* The refinement mapping, case by case.
LEMMA MappingRead == Inductive => Reading
<1> SUFFICES ASSUME Inductive, NEW r \in Requests  PROVE Read(r)
  BY DEF Reading
<1> USE DEF Waiting, Occupying, Terminal
<1>t. state[r] \in RequestStates /\ ran[r] \in Nat /\ result[r] \in Results
  BY LifeTypes DEF Inductive
<1>i. state[r] \in {"cancelled", "timed_out_pending"} => ran[r] = 0
  BY DEF Inductive, Life, RanAgrees
<1>1. state[r] \in Occupying => PhaseOf(r) = "running"  BY DEF PhaseOf
<1>2. state[r] = "completed" /\ ran[r] = 1 => PhaseOf(r) = "finished"  BY DEF PhaseOf
<1>3. state[r] \in Terminal /\ ran[r] = 0 => PhaseOf(r) = "withdrawn"  BY DEF PhaseOf
<1>4. state[r] \in Waiting /\ result[r] \in RefusedAnswers => PhaseOf(r) = "withdrawn"
  BY DEF PhaseOf
<1>5. state[r] \in Waiting /\ result[r] \notin RefusedAnswers =>
         PhaseOf(r) = IF pc[r] \in {"idle", "admit"} THEN "new" ELSE "waiting"
  BY DEF PhaseOf
<1>6. /\ result[r] = "none" => AnswerOf(r) = "none"
      /\ result[r] = "value" => AnswerOf(r) = "value"
      /\ result[r] = "task_error" => AnswerOf(r) = "failed"
  BY DEF AnswerOf, RefusedAnswers
<1>7. /\ result[r] \in RefusedAnswers \cup {"timeout_before"} => AnswerOf(r) = "not_run"
      /\ result[r] \in {"timeout_during", "wake_failed"} => AnswerOf(r) = "unknown"
  BY DEF AnswerOf, RefusedAnswers
<1>8. state[r] \notin Occupying => PhaseOf(r) # "running"
  <2>1. state[r] \notin Occupying => state[r] \in Waiting \cup Terminal
    BY <1>t DEF RequestStates
  <2>2. ran[r] \in {0, 1}  BY <1>t DEF Inductive, Life, RanAgrees
  <2> QED BY <1>i, <1>2, <1>3, <1>4, <1>5, <2>1, <2>2
<1> QED BY <1>1, <1>2, <1>3, <1>4, <1>5, <1>6, <1>7, <1>8 DEF Read

\* The same after a step.
LEMMA MappingReadNext == Inductive' => Reading'
  BY MappingRead, PTL

\* The phase depends on the state, the executions, and whether the request was
\* refused or not yet admitted; the answer on the result.
LEMMA SameWhen ==
    ASSUME NEW q \in Requests, result'[q] = result[q], ran'[q] = ran[q],
           \/ state'[q] = state[q]
           \/ {state[q], state'[q]} \subseteq Waiting
           \/ {state[q], state'[q]} \subseteq Occupying,
           \/ pc'[q] = pc[q]
           \/ {pc[q], pc'[q]} \subseteq {"idle", "admit"}
           \/ {pc[q], pc'[q]} \cap {"idle", "admit"} = {}
    PROVE  Same(q)
<1>1. AnswerOf(q)' = AnswerOf(q)  BY DEF AnswerOf, RefusedAnswers
<1>2. PhaseOf(q)' = PhaseOf(q)
  <2>1. (pc'[q] \in {"idle", "admit"}) <=> (pc[q] \in {"idle", "admit"})  OBVIOUS
  <2>2. CASE state'[q] = state[q]  BY <2>1, <2>2 DEF PhaseOf, RefusedAnswers
  <2>3. CASE {state[q], state'[q]} \subseteq Waiting
    BY <2>1, <2>3 DEF PhaseOf, RefusedAnswers, Waiting, Occupying, Terminal
  <2>4. CASE {state[q], state'[q]} \subseteq Occupying
    BY <2>4 DEF PhaseOf, RefusedAnswers, Waiting, Occupying, Terminal
  <2> QED BY <2>2, <2>3, <2>4
<1> QED BY <1>1, <1>2 DEF Same

-----------------------------------------------------------------------------
(* Every step of the core is a step of the contract or a stutter.           *)

\* One request moves in an allowed way or not at all, and the others stay.
Simulated ==
    \/ \A q \in Requests : Same(q)
    \/ \E r \in Requests : Allowed(r) /\ \A q \in Requests \ {r} : Same(q)

\* A step of the handler of r that touches the request no further than its
\* place in submit and its result.
LEMMA HandlerSimulated ==
    ASSUME ConstantsAssumption, Inductive, Inductive', QueueInvariant, [Next]_vars,
           NEW r \in Requests, Proceed(r) \/ Submit(r), UNCHANGED <<state, ran>>
    PROVE  Simulated
<1> USE DEF handlerVars, requestVars, queueVars, coreVars, guiVars, documentVars, historyVars
<1>t. /\ pc \in [Requests -> HandlerStates] /\ result \in [Requests -> Results]
      /\ state \in [Requests -> RequestStates] /\ ran \in [Requests -> Nat]
  BY LifeTypes DEF Inductive
<1>m. Reading /\ Reading'  BY MappingRead, MappingReadNext
<1>i. /\ pc[r] \notin {"release", "returned"} => result[r] = "none"
      /\ Fresh(r) => state[r] = "pending"
      /\ completion[r] => state[r] \in Terminal
      /\ result[r] = "none" => AnswerOf(r) = "none"
  BY <1>m DEF Reading, Read, Inductive, Life, ResultIsLast, FreshIsUntouched, QueueInvariant,
              Settled
<1>1. ASSUME NEW at, pc' = [pc EXCEPT ![r] = at], UNCHANGED result,
             \/ {pc[r], at} \subseteq {"idle", "admit"}
             \/ {pc[r], at} \cap {"idle", "admit"} = {}
      PROVE  Simulated
  <2>1. pc'[r] = at /\ \A q \in Requests : q # r => pc'[q] = pc[q]  BY <1>t, <1>1
  <2>2. \A q \in Requests : Same(q)  BY <1>1, <2>1, SameWhen
  <2> QED BY <2>2 DEF Simulated
<1>2. ASSUME NEW res \in Results, NEW must, Leave(r, res, must)
      PROVE  /\ result'[r] = res /\ pc'[r] \in {"release", "returned"}
             /\ \A q \in Requests \ {r} : Same(q)
  <2>1. /\ result' = [result EXCEPT ![r] = res]
        /\ \E at \in {"release", "returned"} : pc' = [pc EXCEPT ![r] = at]
    BY <1>2 DEF Leave
  <2>2. \A q \in Requests : q # r => result'[q] = result[q] /\ pc'[q] = pc[q]
    BY <1>t, <2>1
  <2>3. \A q \in Requests \ {r} : Same(q)  BY <2>2, SameWhen
  <2> QED BY <1>t, <2>1, <2>3
\* a refusal
<1>3. ASSUME NEW res \in RefusedAnswers, Leave(r, res, TRUE), pc[r] = "admit"
      PROVE  Simulated
  <2>1. result'[r] = res /\ \A q \in Requests \ {r} : Same(q)
    BY <1>2, <1>3 DEF RefusedAnswers, Results
  <2>2. state[r] = "pending" /\ result[r] = "none"  BY <1>i, <1>3 DEF Fresh
  <2>3. PhaseOf(r) = "new"  BY <1>m, <1>3, <2>2 DEF Reading, Read, RefusedAnswers, Waiting
  <2>4. PhaseOf(r)' = "withdrawn" /\ AnswerOf(r)' = "not_run"
    <3>1. state'[r] \in Waiting /\ result'[r] \in RefusedAnswers
      BY <2>1, <2>2 DEF Waiting
    <3> QED BY <3>1, <1>m DEF Reading, Read
  <2>5. AnsweredAtOnce(r)  BY <1>i, <2>2, <2>3, <2>4 DEF AnsweredAtOnce
  <2> QED BY <2>1, <2>5 DEF Simulated, Allowed
\* an answer
<1>4. ASSUME NEW res \in Results \ (RefusedAnswers \cup {"none"}), NEW must,
             Leave(r, res, must),
             pc[r] \notin {"idle", "admit", "release", "returned"},
             res = "value" => state[r] = "completed" /\ ran[r] = 1,
             res = "task_error" => state[r] \in Terminal,
             res = "timeout_before" => state[r] \in Terminal /\ ran[r] = 0
      PROVE  Simulated
  <2>1. /\ result'[r] = res /\ pc'[r] \in {"release", "returned"}
        /\ \A q \in Requests \ {r} : Same(q)
    BY <1>2, <1>4
  <2>2. result[r] = "none"  BY <1>i, <1>4
  <2>3. PhaseOf(r)' = PhaseOf(r)
    BY <1>4, <2>1, <2>2 DEF PhaseOf, RefusedAnswers
  <2>4. PhaseOf(r) # "new" /\ (state[r] \in Terminal => PhaseOf(r) \in {"finished", "withdrawn"})
    <3>1. state[r] \in Occupying \cup Terminal \cup Waiting
      BY <1>t DEF RequestStates, Occupying, Terminal, Waiting
    <3>2. ran[r] \in {0, 1}  BY <1>t DEF Inductive, Life, RanAgrees
    <3>3. state[r] \in {"cancelled", "timed_out_pending"} => ran[r] = 0
      BY DEF Inductive, Life, RanAgrees
    <3> QED BY <1>4, <2>2, <3>1, <3>2, <3>3, <1>m DEF Reading, Read, Terminal, RefusedAnswers
  <2>5. Answered(r)
    <3>1. CASE res = "value"
      <4>1. PhaseOf(r) = "finished" /\ AnswerOf(r)' = "value"
        BY <1>4, <2>1, <3>1, <1>m DEF Reading, Read
      <4> QED BY <1>i, <2>2, <2>3, <4>1 DEF Answered, Contract!Answers, Contract!Agrees
    <3>2. CASE res = "task_error"
      <4>1. PhaseOf(r) \in {"finished", "withdrawn"} /\ AnswerOf(r)' = "failed"
        BY <1>4, <2>1, <2>4, <3>2, <1>m DEF Reading, Read
      <4> QED BY <1>i, <2>2, <2>3, <4>1 DEF Answered, Contract!Answers, Contract!Agrees
    <3>3. CASE res = "timeout_before"
      <4>1. PhaseOf(r) = "withdrawn" /\ AnswerOf(r)' = "not_run"
        BY <1>4, <2>1, <3>3, <1>m DEF Reading, Read
      <4> QED BY <1>i, <2>2, <2>3, <4>1 DEF Answered, Contract!Answers, Contract!Agrees
    <3>4. CASE res \in {"timeout_during", "wake_failed"}
      <4>1. AnswerOf(r)' = "unknown"  BY <2>1, <3>4, <1>m DEF Reading, Read
      <4> QED BY <1>i, <2>2, <2>3, <2>4, <4>1 DEF Answered, Contract!Answers, Contract!Agrees
    <3> QED BY <3>1, <3>2, <3>3, <3>4 DEF Results, RefusedAnswers
  <2> QED BY <2>1, <2>5 DEF Simulated, Allowed
<1>e. outcome[r] \in {"ok", "late_ok"} /\ completion[r] => state[r] = "completed" /\ ran[r] = 1
  BY <1>i DEF Inductive, Life, OutcomeAgrees, RanAgrees, Terminal
<1>5. CASE RefuseStopping(r) \/ RefuseQuarantined(r) \/ RefuseDuplicate(r)
  BY <1>3, <1>5 DEF RefuseStopping, RefuseQuarantined, RefuseDuplicate, RefusedAnswers
<1>6. CASE Enqueue(r)
  <2>1. PICK at \in {"waiting", "wake"} : pc' = [pc EXCEPT ![r] = at]  BY <1>6 DEF Enqueue
  <2>2. /\ pc[r] = "admit" /\ UNCHANGED result
        /\ pc'[r] = at /\ \A q \in Requests : q # r => pc'[q] = pc[q]
    BY <1>t, <1>6, <2>1 DEF Enqueue
  <2>3. state[r] = "pending" /\ result[r] = "none"  BY <1>i, <2>2 DEF Fresh
  <2>4. PhaseOf(r) = "new"  BY <1>m, <2>2, <2>3 DEF Reading, Read, RefusedAnswers, Waiting
  <2>5. PhaseOf(r)' = "waiting" /\ AnswerOf(r)' = "none"
    <3>1. /\ state'[r] \in Waiting /\ result'[r] = "none" /\ result'[r] \notin RefusedAnswers
          /\ pc'[r] \notin {"idle", "admit"}
      BY <2>1, <2>2, <2>3 DEF Waiting, RefusedAnswers
    <3> QED BY <3>1, <1>m DEF Reading, Read
  <2>6. \A q \in Requests \ {r} : Same(q)  BY <2>2, SameWhen
  <2> QED BY <1>i, <2>3, <2>4, <2>5, <2>6 DEF Simulated, Allowed, PhaseMoves
<1>7. CASE Submit(r)  BY <1>1, <1>7 DEF Submit
<1>8. CASE WaitExpires(r) \/ CancelOnTimeout(r) \/ MarkTimedOut(r) \/ TimeoutOvertaken(r)
           \/ HandlerRelease(r)
  BY <1>1, <1>8 DEF WaitExpires, CancelOnTimeout, MarkTimedOut, TimeoutOvertaken,
                    HandlerRelease
<1>9. CASE WakeForSubmit(r)
  <2>1. CASE Leave(r, "wake_failed", state[r] \notin Occupying)
    BY <1>4, <1>9, <2>1 DEF WakeForSubmit, Results, RefusedAnswers
  <2>2. CASE pc' = [pc EXCEPT ![r] = "waiting"] /\ UNCHANGED result
    BY <1>1, <1>9, <2>2 DEF WakeForSubmit
  <2> QED BY <1>9, <2>1, <2>2 DEF WakeForSubmit
<1>10. CASE WaitReturns(r)
  <2>1. /\ Answer(r) \in Results \ (RefusedAnswers \cup {"none"})
        /\ Answer(r) = "timeout_before" => state[r] = "timed_out_pending"
        /\ Answer(r) = "value" => outcome[r] \in {"ok", "late_ok"}
    BY DEF Answer, Results, RefusedAnswers
  <2>2. state[r] = "timed_out_pending" => state[r] \in Terminal /\ ran[r] = 0
    BY DEF Inductive, Life, RanAgrees, Terminal
  <2> QED BY <1>4, <1>e, <1>i, <1>10, <2>1, <2>2 DEF WaitReturns
<1>11. CASE CleanupDone(r)
  <2>1. state[r] \in Terminal /\ ran[r] = 0
    BY <1>11 DEF CleanupDone, Inductive, Life, AnswerAgrees, RanAgrees, Terminal
  <2> QED BY <1>4, <1>11, <2>1 DEF CleanupDone, Results, RefusedAnswers
<1>12. CASE TimeoutAlreadyExpired(r)
  <2>1. state[r] \in Terminal /\ ran[r] = 0
    BY <1>12 DEF TimeoutAlreadyExpired, Inductive, Life, RanAgrees, Terminal
  <2> QED BY <1>4, <1>12, <2>1 DEF TimeoutAlreadyExpired, Results, RefusedAnswers
<1>13. CASE QuarantineRunning(r)
  BY <1>4, <1>13 DEF QuarantineRunning, Results, RefusedAnswers
<1>14. CASE OvertakenReturns(r)
  <2>1. PICK res \in {"value", "task_error"}, must \in BOOLEAN :
           /\ Leave(r, res, must)
           /\ res = "value" => outcome[r] \in {"ok", "late_ok"}
    BY <1>14 DEF OvertakenReturns
  <2>2. pc[r] = "overtaken" /\ completion[r]  BY <1>14 DEF OvertakenReturns
  <2> QED BY <1>4, <1>e, <1>i, <2>1, <2>2 DEF Results, RefusedAnswers
<1> QED BY <1>5, <1>6, <1>7, <1>8, <1>9, <1>10, <1>11, <1>12, <1>13, <1>14
        DEF Proceed, Admission, HandleTimeout

\* A step that ends, starts or marks the execution of one request, and leaves
\* what its caller was told.
LEMMA PhaseSimulated ==
    ASSUME Inductive, Inductive', NEW r \in Requests, ~Fresh(r),
           \A q \in Requests \ {r} : Same(q),
           result'[r] = result[r], pc'[r] \notin {"idle", "admit"},
           \/ state[r] \in Waiting /\ state'[r] \in Terminal /\ ran'[r] = 0
           \/ /\ state[r] \in Waiting /\ state'[r] \in Occupying
              /\ \A q \in Requests : state[q] \notin Occupying
           \/ state[r] \in Occupying /\ state'[r] = "completed" /\ ran'[r] = 1
    PROVE  Simulated
<1>m. Read(r) /\ Read(r)'  BY MappingRead, MappingReadNext DEF Reading
<1>1. AnswerOf(r)' = AnswerOf(r)  BY DEF AnswerOf, RefusedAnswers
<1>2. pc[r] \notin {"idle", "admit"} /\ result[r] \notin RefusedAnswers  BY DEF Fresh
<1>3. CASE state[r] \in Waiting /\ state'[r] \in Terminal /\ ran'[r] = 0
  <2>1. PhaseMoves(r, "waiting", "withdrawn")
    BY <1>m, <1>1, <1>2, <1>3 DEF Read, PhaseMoves
  <2> QED BY <2>1 DEF Simulated, Allowed
<1>4. CASE /\ state[r] \in Waiting /\ state'[r] \in Occupying
           /\ \A q \in Requests : state[q] \notin Occupying
  <2>1. PhaseMoves(r, "waiting", "running")
    BY <1>m, <1>1, <1>2, <1>4 DEF Read, PhaseMoves
  <2>2. \A q \in Requests : PhaseOf(q) # "running"
    BY <1>4, MappingRead DEF Reading, Read
  <2> QED BY <2>1, <2>2 DEF Simulated, Allowed
<1>5. CASE state[r] \in Occupying /\ state'[r] = "completed" /\ ran'[r] = 1
  <2>1. PhaseMoves(r, "running", "finished")
    BY <1>m, <1>1, <1>5 DEF Read, PhaseMoves
  <2> QED BY <2>1 DEF Simulated, Allowed
<1> QED BY <1>3, <1>4, <1>5

\* cancel_if_pending of a request the core knows withdraws it.
LEMMA CancelSimulated ==
    ASSUME ConstantsAssumption, Inductive, Inductive', NEW r \in Requests,
           r \in Known \/ pc[r] = "timeout", CancelIfPending(r),
           UNCHANGED <<result, ran>>,
           UNCHANGED pc \/ (pc[r] = "timeout" /\ pc' = [pc EXCEPT ![r] = "cleanup"])
    PROVE  Simulated
<1>t. pc \in [Requests -> HandlerStates] /\ state \in [Requests -> RequestStates]
  BY LifeTypes DEF Inductive
<1>1. ~Fresh(r)
  BY DEF Fresh, RefusedAnswers, Inductive, Life, FreshIsUntouched, ResultIsLast
<1>2. /\ state[r] \in Waiting /\ state'[r] = "cancelled"
      /\ \A q \in Requests : q # r => state'[q] = state[q]
  BY <1>t DEF CancelIfPending
<1>3. pc'[r] \notin {"idle", "admit"} /\ \A q \in Requests : q # r => pc'[q] = pc[q]
  BY <1>t, <1>1 DEF Fresh
<1>4. \A q \in Requests \ {r} : Same(q)  BY <1>2, <1>3, SameWhen
<1>5. ran'[r] = 0 /\ state'[r] \in Terminal
  BY <1>2 DEF Inductive, Life, RanAgrees, Terminal
<1> QED BY <1>1, <1>2, <1>3, <1>4, <1>5, PhaseSimulated

\* A step that changes neither pc, result, state nor ran cannot be observed.
LEMMA QuietSimulated ==
    ASSUME UNCHANGED <<pc, result, state, ran>>
    PROVE  Simulated
<1>1. \A q \in Requests : Same(q)  BY SameWhen
<1> QED BY <1>1 DEF Simulated

\* A caller on the GUI thread is answered where it is accepted.
LEMMA InlineSimulated ==
    ASSUME ConstantsAssumption, Inductive, Inductive', NEW r \in Requests, SubmitInline(r)
    PROVE  Simulated
<1>t. /\ pc \in [Requests -> HandlerStates] /\ result \in [Requests -> Results]
      /\ state \in [Requests -> RequestStates] /\ ran \in [Requests -> Nat]
  BY LifeTypes DEF Inductive
<1>m. Read(r) /\ Read(r)'  BY MappingRead, MappingReadNext DEF Reading
<1>1. pc[r] = "idle" /\ pc' = [pc EXCEPT ![r] = "returned"]  BY DEF SubmitInline
<1>2. state[r] = "pending" /\ result[r] = "none" /\ ran[r] = 0
  BY <1>1 DEF Inductive, Life, FreshIsUntouched, Fresh, ResultIsLast, RanAgrees, Waiting
<1>3. PhaseOf(r) = "new" /\ AnswerOf(r) = "none"
  BY <1>m, <1>1, <1>2 DEF Read, Waiting, RefusedAnswers
<1>4. CASE UNCHANGED <<state, ran>>
  <2>1. PICK res \in {"stopping", "readiness_refused"} : result' = [result EXCEPT ![r] = res]
    <3>1. ran' # [ran EXCEPT ![r] = @ + 1]  BY <1>t, <1>4
    <3> QED BY <3>1 DEF SubmitInline
  <2>2. PhaseOf(r)' = "withdrawn" /\ AnswerOf(r)' = "not_run"
    <3>1. state'[r] \in Waiting /\ result'[r] \in RefusedAnswers
      BY <1>t, <1>2, <1>4, <2>1 DEF Waiting, RefusedAnswers
    <3> QED BY <1>m, <3>1 DEF Read
  <2>3. \A q \in Requests : q # r => result'[q] = result[q] /\ pc'[q] = pc[q]
    BY <1>t, <1>1, <2>1
  <2>4. \A q \in Requests \ {r} : Same(q)  BY <1>4, <2>3, SameWhen
  <2> QED BY <1>3, <2>2, <2>4 DEF Simulated, Allowed, AnsweredAtOnce
<1>5. CASE ~UNCHANGED <<state, ran>>
  <2>1. PICK res \in {"value", "task_error"} : result' = [result EXCEPT ![r] = res]
    BY <1>5 DEF SubmitInline
  <2>2. state' = [state EXCEPT ![r] = "completed"] /\ ran' = [ran EXCEPT ![r] = @ + 1]
    BY <1>5 DEF SubmitInline
  <2>3. state'[r] = "completed" /\ ran'[r] = 1 /\ result'[r] = res
    BY <1>t, <1>2, <2>1, <2>2
  <2>4. PhaseOf(r)' = "finished" /\ AnswerOf(r)' \in {"value", "failed"}
    BY <1>m, <2>3 DEF Read
  <2>5. \A q \in Requests : q # r =>
           /\ result'[q] = result[q] /\ pc'[q] = pc[q]
           /\ state'[q] = state[q] /\ ran'[q] = ran[q]
    BY <1>t, <1>1, <2>1, <2>2
  <2>6. \A q \in Requests \ {r} : Same(q)  BY <2>5, SameWhen
  <2> QED BY <1>3, <2>4, <2>6 DEF Simulated, Allowed, AnsweredAtOnce
<1> QED BY <1>4, <1>5

\* The GUI thread and the request in its hand: expiry, probe, deferral, execution.
LEMMA HandSimulated ==
    ASSUME ConstantsAssumption, Inductive, Inductive',
           \/ ExpireInHand \/ ProbeRaises \/ DeferInHand \/ StartInHand
           \/ \E ok \in BOOLEAN : CompleteRunning(ok)
    PROVE  Simulated
<1>t. /\ state \in [Requests -> RequestStates] /\ ran \in [Requests -> Nat]
  BY LifeTypes DEF Inductive
<1>1. hand \in Requests /\ UNCHANGED <<pc, result>>
  BY LifeTypes DEF Inductive, handlerVars, ExpireInHand, ProbeRaises, DeferInHand,
     StartInHand, CompleteRunning, GuiAt, Drained
<1>2. ~Fresh(hand)  BY <1>1 DEF Known, Inductive, Life, FreshIsUntouched
<1>3. pc'[hand] \notin {"idle", "admit"}  BY <1>1, <1>2 DEF Fresh
<1>4. ASSUME NEW new, state' = [state EXCEPT ![hand] = new], UNCHANGED ran
      PROVE  state'[hand] = new /\ \A q \in Requests \ {hand} : Same(q)
  <2>1. \A q \in Requests : q # hand => state'[q] = state[q]  BY <1>t, <1>4
  <2> QED BY <1>t, <1>1, <1>4, <2>1, SameWhen
<1>5. ASSUME NEW new \in Terminal, state[hand] \in Waiting, UNCHANGED ran,
             state' = [state EXCEPT ![hand] = new]
      PROVE  Simulated
  <2>1. ran'[hand] = 0  BY <1>1, <1>5 DEF Inductive, Life, RanAgrees
  <2> QED BY <1>1, <1>2, <1>3, <1>4, <1>5, <2>1, PhaseSimulated
<1>6. CASE ExpireInHand
  BY <1>5, <1>6 DEF ExpireInHand, historyVars, Terminal
<1>7. CASE ProbeRaises
  <2>1. CASE Completes(hand)
    <3>1. state[hand] \notin Occupying
      BY <1>1, <1>7 DEF ProbeRaises, GuiAt, Inductive, Life, RunningInHand
    <3>2. state[hand] \in Waiting
      BY <1>t, <1>1, <2>1, <3>1 DEF Completes, RequestStates, Waiting, Occupying, Terminal
    <3> QED BY <1>5, <1>7, <2>1, <3>2 DEF ProbeRaises, historyVars, Terminal
  <2>2. CASE ~Completes(hand)
    BY <1>7, <2>2, QuietSimulated DEF ProbeRaises, historyVars, handlerVars
  <2> QED BY <2>1, <2>2
<1>8. CASE DeferInHand
  <2>1. CASE UNCHANGED state
    BY <1>8, <2>1, QuietSimulated DEF DeferInHand, handlerVars
  <2>2. CASE ~UNCHANGED state
    <3>1. /\ state[hand] = "pending" /\ state' = [state EXCEPT ![hand] = "deferred"]
          /\ UNCHANGED ran
      BY <1>8, <2>2 DEF DeferInHand
    <3>2. Same(hand)  BY <1>1, <1>4, <3>1, SameWhen DEF Waiting
    <3> QED BY <1>1, <1>4, <3>1, <3>2 DEF Simulated
  <2> QED BY <2>1, <2>2
<1>9. CASE StartInHand
  <2>1. /\ gui = "start" /\ state[hand] = "pending"
        /\ state' = [state EXCEPT ![hand] = "running"]
        /\ ran' = [ran EXCEPT ![hand] = @ + 1]
    BY <1>9 DEF StartInHand, GuiAt, MayStart
  <2>2. \A q \in Requests : q # hand => state'[q] = state[q] /\ ran'[q] = ran[q]
    BY <1>t, <2>1
  <2>3. \A q \in Requests \ {hand} : Same(q)  BY <1>1, <2>2, SameWhen
  <2>4. \A q \in Requests : state[q] \notin Occupying
    BY <2>1 DEF Inductive, Life, RunningInHand
  <2>5. state[hand] \in Waiting /\ state'[hand] \in Occupying
    BY <1>t, <1>1, <2>1 DEF Waiting, Occupying
  <2> QED BY <1>1, <1>2, <1>3, <2>3, <2>4, <2>5, PhaseSimulated
<1>10. ASSUME NEW ok \in BOOLEAN, CompleteRunning(ok)  PROVE Simulated
  <2>1. /\ gui = "run" /\ state' = [state EXCEPT ![hand] = "completed"] /\ UNCHANGED ran
    BY <1>10 DEF CompleteRunning, GuiAt, historyVars
  <2>2. state[hand] \in Occupying /\ ran[hand] = 1
    BY <1>1, <2>1 DEF Inductive, Life, RunningInHand, RanAgrees
  <2> QED BY <1>1, <1>2, <1>3, <1>4, <2>1, <2>2, PhaseSimulated
<1> QED BY <1>6, <1>7, <1>8, <1>9, <1>10

\* Every step of every thread is a step of the contract, or cannot be observed.
LEMMA StepSimulated ==
    ASSUME ConstantsAssumption, Inductive, Inductive', QueueInvariant, [Next]_vars
    PROVE  Simulated
<1> USE DEF handlerVars, requestVars, queueVars, coreVars, guiVars, documentVars, historyVars
<1>1. ASSUME NEW r \in Requests, Handler(r)  PROVE Simulated
  <2>1. CASE SubmitInline(r)  BY <2>1, InlineSimulated
  <2>2. CASE CancelOnTimeout(r)
    <3>1. /\ pc[r] = "timeout" /\ CancelIfPending(r) /\ UNCHANGED <<result, ran>>
          /\ pc' = [pc EXCEPT ![r] = "cleanup"]
      BY <2>2 DEF CancelOnTimeout
    <3> QED BY <3>1, CancelSimulated
  <2>3. CASE MarkTimedOut(r)
    <3>t. pc \in [Requests -> HandlerStates] /\ state \in [Requests -> RequestStates]
      BY LifeTypes DEF Inductive
    <3>1. /\ pc[r] = "timeout" /\ pc' = [pc EXCEPT ![r] = "quarantine"]
          /\ state[r] = "running" /\ state' = [state EXCEPT ![r] = "timed_out_running"]
          /\ UNCHANGED <<result, ran>>
      BY <2>3 DEF MarkTimedOut, TimesOutRunning
    <3>2. \A q \in Requests : Same(q)
      <4>1. /\ pc'[r] = "quarantine" /\ state'[r] = "timed_out_running"
            /\ \A q \in Requests : q # r => pc'[q] = pc[q] /\ state'[q] = state[q]
        BY <3>t, <3>1
      <4> QED BY <3>1, <4>1, SameWhen DEF Occupying
    <3> QED BY <3>2 DEF Simulated
  <2>4. CASE ~(SubmitInline(r) \/ CancelOnTimeout(r) \/ MarkTimedOut(r))
    <3>1. UNCHANGED <<state, ran>>
      BY <1>1, <2>4
      DEF Handler, Proceed, Admission, HandleTimeout, Submit, RefuseStopping, Enqueue,
          WakeForSubmit, QuarantineRunning, RefuseQuarantined, RefuseDuplicate, WaitReturns,
          WaitExpires, TimeoutAlreadyExpired, TimeoutOvertaken, CleanupDone,
          OvertakenReturns, HandlerRelease
    <3>2. Proceed(r) \/ Submit(r)  BY <1>1, <2>4 DEF Handler
    <3> QED BY <3>1, <3>2, HandlerSimulated
  <2> QED BY <2>1, <2>2, <2>3, <2>4
<1>2. ASSUME NEW r \in Requests, CancelSwept(r)  PROVE Simulated
  <2>1. r \in Known /\ UNCHANGED <<pc, result, ran>>  BY <1>2 DEF CancelSwept, Known
  <2>2. CASE CancelIfPending(r)  BY <2>1, <2>2, CancelSimulated
  <2>3. CASE ~CancelIfPending(r)
    <3>1. UNCHANGED state  BY <1>2, <2>3 DEF CancelSwept
    <3> QED BY <2>1, <3>1, QuietSimulated
  <2> QED BY <2>2, <2>3
<1>3. ASSUME NEW k \in Owners, CancelRequest(k)  PROVE Simulated
  <2> DEFINE r == requestsByOwner[k]
  <2>1. r \in Requests /\ UNCHANGED <<pc, result, ran>>
    BY <1>3 DEF CancelRequest, Inductive, Shape, TypeOK
  <2>2. r \in Known
    <3>1. DOMAIN requestsByOwner = Owners  BY DEF Inductive, Shape, TypeOK
    <3> QED BY <3>1 DEF Known, Range
  <2>3. CASE CancelIfPending(r)  BY <2>1, <2>2, <2>3, CancelSimulated
  <2>4. CASE ~CancelIfPending(r)
    <3>1. UNCHANGED state  BY <1>3, <2>4 DEF CancelRequest
    <3> QED BY <2>1, <3>1, QuietSimulated
  <2> QED BY <2>3, <2>4
<1>4. ASSUME NEW d \in Docs, NotifyStable(d)  PROVE Simulated
  <2> DEFINE promoted == {r \in deferredRequests : d \in keysOf[r] /\ state[r] = "deferred"}
  <2>1. /\ state' = [r \in Requests |-> IF r \in promoted THEN "pending" ELSE state[r]]
        /\ UNCHANGED <<pc, result, ran>>
    BY <1>4 DEF NotifyStable
  <2>2. \A q \in Requests : state'[q] = IF q \in promoted THEN "pending" ELSE state[q]
    BY <2>1
  <2>3. \A q \in promoted : state[q] = "deferred"  OBVIOUS
  <2> HIDE DEF promoted
  <2>4. \A q \in Requests : Same(q)
    BY <2>1, <2>2, <2>3, SameWhen DEF Waiting
  <2> QED BY <2>4 DEF Simulated
<1>5. CASE \/ ExpireInHand \/ ProbeRaises \/ DeferInHand \/ StartInHand
           \/ \E ok \in BOOLEAN : CompleteRunning(ok)
  BY <1>5, HandSimulated
<1>6. CASE \/ \E r \in Requests : Settle(r) \/ Tick(r)
           \/ StopAccepting \/ PostOwedWake \/ TimerFires
           \/ \E d \in Docs : DocumentChanges(d) \/ NotifyDeleted(d)
           \/ UNCHANGED vars
  <2>1. UNCHANGED <<pc, result, state, ran>>
    BY <1>6 DEF Settle, Tick, StopAccepting, PostOwedWake, TimerFires, DocumentChanges,
                NotifyDeleted, vars
  <2> QED BY <2>1, QuietSimulated
<1>7. CASE \/ (\E r \in Requests : DrainTakes(r)) \/ DrainFindsNothing \/ NestedDrain
           \/ ExpiryDone \/ DeadlineHolds \/ SampleBusy \/ SampleFree \/ RequeueBusy
           \/ ProbeDefers \/ ProbeClears \/ ProbeFailureDone \/ StartRefused \/ RunSettled
           \/ GuiRelease \/ RunFinally
  <2>1. UNCHANGED <<pc, result, state, ran>>
    BY <1>7 DEF DrainTakes, DrainFindsNothing, NestedDrain, ExpiryDone, DeadlineHolds,
                SampleBusy, SampleFree, RequeueBusy, ProbeDefers, ProbeClears,
                ProbeFailureDone, StartRefused, RunSettled, GuiRelease, RunFinally
  <2> QED BY <2>1, QuietSimulated
<1>8. CASE Gui  BY <1>5, <1>7, <1>8 DEF Gui, Drain, InHand
<1>9. CASE \E r \in Requests : Handler(r) \/ Settle(r) \/ CancelSwept(r) \/ Tick(r)
  BY <1>1, <1>2, <1>6, <1>9
<1>10. CASE PostOwedWake \/ TimerFires \/ EventLoop \/ Environment
  BY <1>3, <1>4, <1>6, <1>10 DEF EventLoop, Environment
<1> QED BY <1>6, <1>8, <1>9, <1>10 DEF Next

\* Before anything is submitted every request is new and nobody has an answer.
LEMMA ContractInit == ASSUME Init PROVE Contract!Init
<1>1. \A r \in Requests : PhaseOf(r) = "new" /\ AnswerOf(r) = "none"
  BY DEF Init, PhaseOf, AnswerOf, RefusedAnswers, Waiting, Occupying, Terminal
<1> QED BY <1>1 DEF Contract!Init

\* The dispatch core, with its queue, wakes, deferrals, deadlines and sweeps,
\* implements the contract of submit.
THEOREM ImplementsContractHolds == Spec => ImplementsContract
<1>1. Init => Contract!Init  BY ContractInit
<1>2. Inductive /\ Inductive' /\ QueueInvariant /\ [Next]_vars
         => [Contract!Next]_(Contract!vars)
  <2>1. SUFFICES ASSUME Inductive, Inductive', QueueInvariant, [Next]_vars
                 PROVE  Contract!Next \/ UNCHANGED Contract!vars
    OBVIOUS
  <2>2. Simulated  BY <2>1, StepSimulated, ConstantsAssumption
  <2> QED BY <2>2, ContractStep, ContractStutter DEF Simulated
<1> QED BY <1>1, <1>2, InductiveInvariant, QueueInvariantHolds, PTL
        DEF Spec, ImplementsContract, Contract!Spec

-----------------------------------------------------------------------------
(* What the contract is worth to a caller.                                  *)

\* No step of the contract breaks the promise.
LEMMA ContractKeepsPromise ==
    ASSUME Contract!TypeOK, Contract!Promise, [Contract!Next]_(Contract!vars)
    PROVE  Contract!TypeOK' /\ Contract!Promise'
<1> DEFINE ph == [q \in Requests |-> PhaseOf(q)]
           an == [q \in Requests |-> AnswerOf(q)]
           Kept(p, a) ==
               /\ p \in [Requests -> Contract!Phases] /\ a \in [Requests -> Contract!Answers]
               /\ \A q, r \in Requests : p[q] = "running" /\ p[r] = "running" => q = r
               /\ \A r \in Requests : a[r] # "none" => Contract!Agrees(a[r], p[r])
<1>1. Kept(ph, an)  BY DEF Contract!TypeOK, Contract!Promise
<1>2. Kept(ph', an') => Contract!TypeOK' /\ Contract!Promise'
  BY DEF Contract!TypeOK, Contract!Promise
<1>3. ASSUME NEW r \in Requests,
             \/ Contract!Accept(r) \/ Contract!Refuse(r) \/ Contract!Withdraw(r)
             \/ Contract!Start(r) \/ Contract!Finish(r) \/ Contract!RunInPlace(r)
             \/ Contract!Answer(r)
      PROVE  \/ \E p \in Contract!Phases :
                   /\ ph' = [ph EXCEPT ![r] = p] /\ an' = an
                   /\ <<ph[r], p>> \in {<<"new", "waiting">>, <<"waiting", "withdrawn">>,
                                        <<"waiting", "running">>, <<"running", "finished">>}
                   /\ p = "running" => \A q \in Requests : ph[q] # "running"
             \/ \E a \in Contract!Answers :
                   /\ an' = [an EXCEPT ![r] = a] /\ an[r] = "none"
                   /\ \/ ph' = ph /\ Contract!Agrees(a, ph[r])
                      \/ \E p \in {"withdrawn", "finished"} :
                            ph' = [ph EXCEPT ![r] = p] /\ Contract!Agrees(a, p)
  BY <1>3
  DEF Contract!Accept, Contract!Refuse, Contract!Withdraw, Contract!Start, Contract!Finish,
      Contract!RunInPlace, Contract!Answer, Contract!Ends, Contract!Agrees, Contract!Phases,
      Contract!Answers
<1> HIDE DEF ph, an
<1>4. ASSUME NEW r \in Requests, NEW p \in Contract!Phases,
             ph' = [ph EXCEPT ![r] = p], an' = an,
             <<ph[r], p>> \in {<<"new", "waiting">>, <<"waiting", "withdrawn">>,
                               <<"waiting", "running">>, <<"running", "finished">>},
             p = "running" => \A q \in Requests : ph[q] # "running"
      PROVE  Kept(ph', an')
  BY <1>1, <1>4 DEF Contract!Agrees, Contract!Phases, Contract!Answers
<1>5. ASSUME NEW r \in Requests, NEW a \in Contract!Answers,
             an' = [an EXCEPT ![r] = a], ph' = ph, Contract!Agrees(a, ph[r])
      PROVE  Kept(ph', an')
  BY <1>1, <1>5 DEF Contract!Phases, Contract!Answers
<1>6. ASSUME NEW r \in Requests, NEW a \in Contract!Answers, NEW p \in {"withdrawn", "finished"},
             an' = [an EXCEPT ![r] = a], ph' = [ph EXCEPT ![r] = p], Contract!Agrees(a, p)
      PROVE  Kept(ph', an')
  BY <1>1, <1>6 DEF Contract!Phases, Contract!Answers
<1>7. CASE Contract!Next
  <2>1. PICK r \in Requests :
             \/ Contract!Accept(r) \/ Contract!Refuse(r) \/ Contract!Withdraw(r)
             \/ Contract!Start(r) \/ Contract!Finish(r) \/ Contract!RunInPlace(r)
             \/ Contract!Answer(r)
    BY <1>7 DEF Contract!Next
  <2>2. Kept(ph', an')  BY <1>3, <1>4, <1>5, <1>6, <2>1
  <2> QED BY <1>2, <2>2
<1>8. CASE UNCHANGED Contract!vars
  <2>1. ph' = ph /\ an' = an  BY <1>8 DEF Contract!vars, ph, an
  <2>2. Kept(ph', an')  BY <1>1, <2>1
  <2> QED BY <1>2, <2>2
<1> QED BY <1>7, <1>8

\* Whatever implements the contract runs one callable at a time and tells no
\* caller anything that its callable does not bear out.
THEOREM ContractPromises == ImplementsContract => [](Contract!TypeOK /\ Contract!Promise)
<1>1. Contract!Init => Contract!TypeOK /\ Contract!Promise
  BY DEF Contract!Init, Contract!TypeOK, Contract!Promise, Contract!Phases, Contract!Answers
<1>2. /\ Contract!TypeOK /\ Contract!Promise /\ [Contract!Next]_(Contract!vars)
      => (Contract!TypeOK /\ Contract!Promise)'
  BY ContractKeepsPromise
<1> QED BY <1>1, <1>2, PTL DEF ImplementsContract, Contract!Spec
=============================================================================
