-------------------------- MODULE DispatchContract --------------------------
(***************************************************************************)
(* What a caller of GuiDispatchCore.submit may rely on, without the queue, *)
(* the wakes, the documents or the clock: a callable runs at most once and *)
(* never beside another one, a callable that was withdrawn never runs, and *)
(* an answer agrees with what became of the callable.                      *)
(***************************************************************************)
CONSTANT Requests

VARIABLES
    phase,   \* what has become of the callable of each request
    answer   \* what the caller of submit has been told

vars == <<phase, answer>>

Phases == {"new", "waiting", "running", "finished", "withdrawn"}

\* "not_run" promises that the callable did not and will not run; "failed" and
\* "unknown" promise nothing of the kind.
Answers == {"none", "value", "failed", "not_run", "unknown"}

Ends(r, p) == phase' = [phase EXCEPT ![r] = p]

Accept(r) == phase[r] = "new" /\ Ends(r, "waiting") /\ UNCHANGED answer

Refuse(r) ==
    /\ phase[r] = "new" /\ answer[r] = "none"
    /\ Ends(r, "withdrawn")
    /\ answer' = [answer EXCEPT ![r] = "not_run"]

Withdraw(r) == phase[r] = "waiting" /\ Ends(r, "withdrawn") /\ UNCHANGED answer

Start(r) ==
    /\ phase[r] = "waiting"
    /\ \A q \in Requests : phase[q] # "running"
    /\ Ends(r, "running")
    /\ UNCHANGED answer

Finish(r) == phase[r] = "running" /\ Ends(r, "finished") /\ UNCHANGED answer

\* A caller that is itself on the GUI thread runs its callable in place.
RunInPlace(r) ==
    /\ phase[r] = "new" /\ answer[r] = "none"
    /\ Ends(r, "finished")
    /\ \E a \in {"value", "failed"} : answer' = [answer EXCEPT ![r] = a]

Agrees(a, p) ==
    CASE a = "value"   -> p = "finished"
      [] a = "failed"  -> p \in {"finished", "withdrawn"}
      [] a = "not_run" -> p = "withdrawn"
      [] a = "unknown" -> p # "new"

Answer(r) ==
    /\ answer[r] = "none"
    /\ \E a \in Answers \ {"none"} :
          /\ Agrees(a, phase[r])
          /\ answer' = [answer EXCEPT ![r] = a]
    /\ UNCHANGED phase

Init ==
    /\ phase = [r \in Requests |-> "new"]
    /\ answer = [r \in Requests |-> "none"]

Next ==
    \E r \in Requests :
        \/ Accept(r) \/ Refuse(r) \/ Withdraw(r) \/ Start(r) \/ Finish(r)
        \/ RunInPlace(r) \/ Answer(r)

Spec == Init /\ [][Next]_vars

TypeOK == phase \in [Requests -> Phases] /\ answer \in [Requests -> Answers]

\* What it adds up to: callables exclude each other, and what a caller was told
\* is true of its callable, and stays true.
Promise ==
    /\ \A q, r \in Requests : phase[q] = "running" /\ phase[r] = "running" => q = r
    /\ \A r \in Requests : answer[r] # "none" => Agrees(answer[r], phase[r])
=============================================================================
