----------------------- MODULE RequestLifecycleProofs -----------------------
(* Theorems about RequestLifecycle, for any sessions, handlers, cancellers, *)
(* pollers and numbers of GUI calls.                                        *)
EXTENDS RequestLifecycle, FiniteSetTheorems, TLAPS

-----------------------------------------------------------------------------
(* The inductive invariant.                                                 *)

\* Where a handler is once its last GUI call has returned or been given up, and
\* once its token has been told that it finished.
Finished == {"resolve_late", "publish_late", "refinishing", "completing", "done"}
PastError == {"returned", "resolve", "publish", "finishing"} \cup Finished
HandlerPcs == {"idle", "claimed", "abandoning", "turned_away", "registered", "dispatched",
               "opened", "waiting", "withdrawing", "gui_error"} \cup PastError
CancellerPcs == {"idle", "in_gui", "withdrawing", "resolve", "publish", "over"}

\* The types; that a token never counts two phases follows from PhaseCounted.
TokenShape ==
    [reg : {"none", "active", "terminal"}, cancel : BOOLEAN, mutated : BOOLEAN,
     uncertain : BOOLEAN, incident : BOOLEAN, finished : BOOLEAN, phases : Nat,
     resolving : BOOLEAN, resolved : BOOLEAN, failed : BOOLEAN]
UnitShape ==
    [state : UnitStates, ok : BOOLEAN, late : BOOLEAN, unwoken : BOOLEAN,
     cb : CallbackPcs, cs : TokenType, phase : Nat]

Shape ==
    /\ entry \in EntryType
    /\ token \in [Sessions -> TokenShape]
    /\ pc \in [Handlers -> HandlerPcs]
    /\ result \in [Handlers -> Responses] /\ answer \in [Handlers -> Responses]
    /\ pinned \in [Handlers -> BOOLEAN]
    /\ unit \in [Handlers -> UnitShape]
    /\ cpc \in [Cancellers -> CancellerPcs]
    /\ told \in [Cancellers -> {"none", "unknown", "completed", "already", "requested"}]
    /\ poll \in [Pollers -> [read : BOOLEAN, entry : EntryType]]

\* A token belongs to one handler, and only such a handler has a callable.
Owners ==
    /\ \A h \in Handlers : Owns(h) => token[SessionOf[h]].reg # "none"
    /\ \A h, g \in Handlers : Owns(h) /\ Owns(g) /\ SessionOf[h] = SessionOf[g] => h = g
    /\ \A s \in Sessions : token[s].reg # "none" => \E h \in Handlers : Owns(h) /\ SessionOf[h] = s
    /\ \A s \in Sessions : token[s].reg = "none" => token[s] = NoToken
    /\ \A h \in Handlers : ~Owns(h) =>
            unit[h] = NoUnit /\ result[h] = "none" /\ (pc[h] # "turned_away" => answer[h] = "none")
    /\ \A c \in Cancellers : cpc[c] \notin {"idle", "over"} => token[CancelIn[c]].reg # "none"

\* A token by itself: retired with nothing left to do, resolving what was asked.
TokenInOrder(t) ==
    /\ t.reg = "terminal" => t.finished /\ t.phases = 0 /\ (t.cancel => t.resolved)
    /\ t.resolving => t.cancel /\ ~t.resolved
    /\ t.uncertain => t.incident

\* Where the callable of a handler stands, given where its caller does.
CallableInOrder(h) ==
    /\ unit[h].state \in {"none", "queued", "running", "timed_out_running"} <=> unit[h].cb = "idle"
    /\ unit[h].state = "queued" => pc[h] = "waiting"
    /\ unit[h].state = "running" => pc[h] = "waiting" \/ unit[h].unwoken
    /\ unit[h].state = "timed_out_running" =>
            \/ pc[h] = "gui_error" /\ result[h] = "uncertain"
            \/ token[SessionOf[h]].incident
    /\ unit[h].unwoken \/ unit[h].late => pc[h] \in {"gui_error"} \cup PastError
    /\ pc[h] = "registered" => unit[h] = NoUnit
    /\ pc[h] \in {"dispatched", "opened"} => unit[h].cb = "over" \/ unit[h].state = "none"
    /\ pc[h] = "opened" => unit[h].phase < MaxPhases[h]
    /\ unit[h].phase =< MaxPhases[h]

\* The phase of a GUI call is open until its callback begins or its handler gives
\* up on a callable that is not left running as uncertain.
Open(h) ==
    /\ unit[h].cb \in {"idle", "due"}
    /\ pc[h] \in {"waiting", "withdrawing", "gui_error"} \/ token[SessionOf[h]].incident
PhaseCounted(h) ==
    token[SessionOf[h]].phases = IF pc[h] = "opened" \/ Open(h) THEN 1 ELSE 0

\* What the token knows of the handler, of its callback and of a cancellation.
TokenAgrees(h) ==
    LET t == token[SessionOf[h]] IN
    /\ t.finished <=> pc[h] \in Finished
    /\ t.incident => pc[h] \in PastError /\ result[h] # "ok"
    /\ t.incident /\ unit[h].cb \in {"idle", "due"} => t.uncertain
    /\ t.uncertain => unit[h].cb \in {"idle", "due", "recover"}
    /\ t.mutated => pc[h] # "registered"
    /\ pc[h] \in {"resolve", "publish", "resolve_late", "publish_late"} => t.cancel
    /\ unit[h].cb \in {"resolve", "publish"} => t.cancel

\* What is said of a cancellation agrees with it.
AnswerAgrees(h) ==
    LET t == token[SessionOf[h]] IN
    /\ answer[h] # "none" => pc[h] = "done"
    /\ "cancelled" \in {result[h], answer[h]} => t.cancel /\ ~t.mutated
    /\ pc[h] \in {"resolve_late", "publish_late", "refinishing"} => result[h] # "ok"
    /\ pc[h] = "completing" /\ result[h] = "ok" => t.reg = "terminal" /\ ~t.cancel
    /\ answer[h] = "ok" => t.reg = "terminal" /\ ~t.cancel

Life(h) ==
    Owns(h) => CallableInOrder(h) /\ PhaseCounted(h) /\ TokenAgrees(h) /\ AnswerAgrees(h)

\* One thread resolves a cancellation, and holds the token's claim for it.
Publishing(h) == pc[h] \in {"publish", "publish_late"}
Resolution ==
    /\ \A h \in Handlers : Publishing(h) \/ unit[h].cb = "publish" => token[SessionOf[h]].resolving
    /\ \A c \in Cancellers : cpc[c] = "publish" => token[CancelIn[c]].resolving
    /\ \A h \in Handlers : ~(Publishing(h) /\ unit[h].cb = "publish")
    /\ \A h \in Handlers, c \in Cancellers :
            (Publishing(h) \/ unit[h].cb = "publish") /\ cpc[c] = "publish" => SessionOf[h] # CancelIn[c]
    /\ \A c, d \in Cancellers :
            cpc[c] = "publish" /\ cpc[d] = "publish" /\ CancelIn[c] = CancelIn[d] => c = d
Informed == \A c \in Cancellers : told[c] = "requested" => token[CancelIn[c]].cancel

IInv ==
    /\ Shape /\ Owners /\ Resolution /\ Informed
    /\ \A s \in Sessions : TokenInOrder(token[s])
    /\ \A h \in Handlers : Life(h)

\* Only a request that was dispatched posts a commit or changes a document, and
\* run_cad_mutation changes none before it has marked the token.
Dispatched(h) == Owns(h) /\ pc[h] # "registered"
Worked(h) == commit[h] # "none" \/ HasChanged(h)
Gated(h) == commit[h] = "begun" \/ <<h, "cad">> \in changed

WorkShape ==
    /\ commit \in [Handlers -> {"none", "cad", "begun", "native"}]
    /\ changed \subseteq Handlers \X ChangesBy
    /\ \A h \in Handlers : /\ commit[h] \in {"cad", "begun"} => "cad" \in ChangesBy
                           /\ commit[h] = "native" => "native" \in ChangesBy
WInv ==
    /\ WorkShape
    /\ \A h \in Handlers : Worked(h) => Dispatched(h)
    /\ \A h \in Handlers : Gated(h) => token[SessionOf[h]].mutated

\* The journal, as long as no wake has failed: while a handler carries the request
\* id, or the id may be claimed again, nothing is left of the others; what may
\* still come of a finished one keeps the entry pinned.
InFlight(h) == pc[h] \notin {"idle", "done", "turned_away"}
Working(h) == unit[h].state \in {"queued", "running", "timed_out_running"}
Quiet(h) ==
    /\ ~InFlight(h) /\ ~Working(h) /\ unit[h].cb \in {"idle", "over"}
    /\ answer[h] # "outcome_uncertain"

Carried ==
    /\ \A h, g \in Handlers : InFlight(h) /\ InFlight(g) => h = g
    /\ \A h \in Handlers : InFlight(h) => entry.state \in {"in_progress", "completed"}

Journalled ==
    /\ entry.state \in {"absent", "expired"} => \A g \in Handlers : Quiet(g)
    /\ \A h, g \in Handlers : InFlight(h) /\ g # h => Quiet(g)
    /\ \A g \in Handlers : ~InFlight(g) /\ (Working(g) \/ answer[g] = "outcome_uncertain") =>
            entry.state = "completed" /\ entry.pinned
    /\ entry.response = "outcome_uncertain" => entry.state = "completed" /\ entry.pinned
    /\ entry.response = "outcome_uncertain" => \A h \in Handlers : ~InFlight(h)
    /\ \A h \in Handlers : InFlight(h) /\ entry.late =>
            /\ unit[h].cb = "over" /\ pc[h] \in {"gui_error"} \cup PastError
            /\ result[h] # "outcome_uncertain"

\* What the handler pins, and what its callback read of the token.
PinnedInTime(h) ==
    /\ result[h] = "outcome_uncertain" =>
            /\ pinned[h] /\ ~Working(h) /\ unit[h].cb \in {"idle", "over"}
            /\ pc[h] \in PastError \ {"returned", "done"}
    /\ pc[h] \in PastError \ {"returned", "done"} /\ unit[h].state = "timed_out_running" => pinned[h]
    /\ HoldsLock(h) /\ (unit[h].cs.reg = "none" \/ unit[h].cs.finished) => pc[h] \in Finished

JInv ==
    /\ Carried
    /\ \A h \in Handlers : PinnedInTime(h)
    /\ NoWakeFailed => Journalled

-----------------------------------------------------------------------------
(* The steps of a token.                                                    *)

\* What no step of the registry touches, and what retiring leaves alone.
SameMarks(t, r) ==
    r.mutated = t.mutated /\ r.uncertain = t.uncertain /\ r.incident = t.incident
SameResolution(t, r) ==
    r.cancel = t.cancel /\ r.resolving = t.resolving /\ r.resolved = t.resolved

\* Retiring changes nothing but reg, and only when nothing is left to do.
LEMMA RetiringToken ==
    ASSUME NEW t \in TokenShape
    PROVE  LET r == MaybeTerminal(t) IN
           /\ r \in TokenShape /\ SameMarks(t, r) /\ SameResolution(t, r)
           /\ r.finished = t.finished /\ r.phases = t.phases
           /\ r.reg = IF t.finished /\ t.phases = 0 /\ (t.cancel => t.resolved)
                      THEN "terminal" ELSE t.reg
  BY DEF MaybeTerminal, TokenShape, SameMarks, SameResolution

\* What the four operations that may retire a token do to its fields.
LEMMA EndedPhase ==
    ASSUME NEW t \in TokenShape
    PROVE  LET r == EndGuiPhase(t) IN
           /\ r \in TokenShape /\ SameMarks(t, r) /\ SameResolution(t, r)
           /\ r.finished = t.finished
           /\ t.reg = "active" =>
                /\ r.phases = IF t.phases > 0 THEN t.phases - 1 ELSE 0
                /\ r.reg = IF t.finished /\ r.phases = 0 /\ (t.cancel => t.resolved)
                           THEN "terminal" ELSE "active"
           /\ t.reg # "active" => r = t
<1> DEFINE q == [t EXCEPT !.phases = IF @ > 0 THEN @ - 1 ELSE 0]
<1>1. /\ q \in TokenShape /\ SameMarks(t, q) /\ SameResolution(t, q)
      /\ q.finished = t.finished /\ q.reg = t.reg
      /\ q.phases = IF t.phases > 0 THEN t.phases - 1 ELSE 0
  BY DEF TokenShape, SameMarks, SameResolution
<1>2. EndGuiPhase(t) = IF t.reg = "active" THEN MaybeTerminal(q) ELSE t
  BY DEF EndGuiPhase
<1> HIDE DEF q
<1> QED BY <1>1, <1>2, RetiringToken DEF SameMarks, SameResolution

\* A finished handler marks its token finished, and only that or retires it.
LEMMA FinishedHandler ==
    ASSUME NEW t \in TokenShape, NEW failed \in BOOLEAN
    PROVE  LET r == FinishHandler(t, failed) IN
           /\ r \in TokenShape /\ SameMarks(t, r) /\ SameResolution(t, r)
           /\ r.phases = t.phases
           /\ t.reg = "active" =>
                /\ r.finished
                /\ r.reg = IF t.phases = 0 /\ (t.cancel => t.resolved)
                           THEN "terminal" ELSE "active"
           /\ t.reg # "active" => r = t
<1> DEFINE q == [t EXCEPT !.finished = TRUE, !.failed = failed]
<1>1. /\ q \in TokenShape /\ SameMarks(t, q) /\ SameResolution(t, q)
      /\ q.finished /\ q.reg = t.reg /\ q.phases = t.phases
  BY DEF TokenShape, SameMarks, SameResolution
<1>2. FinishHandler(t, failed) = IF t.reg = "active" THEN MaybeTerminal(q) ELSE t
  BY DEF FinishHandler
<1> HIDE DEF q
<1> QED BY <1>1, <1>2, RetiringToken DEF SameMarks, SameResolution

\* A published resolution gives the claim back and marks the cancellation resolved.
LEMMA PublishedResolution ==
    ASSUME NEW t \in TokenShape
    PROVE  LET r == PublishResolution(t) IN
           /\ r \in TokenShape /\ SameMarks(t, r)
           /\ r.cancel = t.cancel /\ r.finished = t.finished /\ r.phases = t.phases
           /\ r.resolved /\ ~r.resolving
           /\ r.reg = IF t.finished /\ t.phases = 0 THEN "terminal" ELSE t.reg
<1> DEFINE q == [t EXCEPT !.resolved = TRUE, !.resolving = FALSE]
<1>1. /\ q \in TokenShape /\ SameMarks(t, q)
      /\ q.cancel = t.cancel /\ q.finished = t.finished /\ q.phases = t.phases
      /\ q.resolved /\ ~q.resolving /\ q.reg = t.reg
  BY DEF TokenShape, SameMarks
<1>2. PublishResolution(t) = MaybeTerminal(q)
  BY DEF PublishResolution
<1> HIDE DEF q
<1> QED BY <1>1, <1>2, RetiringToken DEF SameMarks, SameResolution

\* The others only set a field of a live token.
LEMMA BegunPhase ==
    ASSUME NEW t \in TokenShape
    PROVE  LET r == BeginGuiPhase(t) IN
           /\ r \in TokenShape /\ SameMarks(t, r) /\ SameResolution(t, r)
           /\ r.finished = t.finished /\ r.reg = t.reg
           /\ r.phases = IF t.reg = "active" THEN t.phases + 1 ELSE t.phases
  BY DEF BeginGuiPhase, TokenShape, SameMarks, SameResolution

\* A requested cancellation marks a live token and leaves a retired one alone.
LEMMA RequestedCancel ==
    ASSUME NEW t \in TokenShape
    PROVE  LET r == RequestCancel(t) IN
           /\ r \in TokenShape /\ SameMarks(t, r)
           /\ r.resolving = t.resolving /\ r.resolved = t.resolved
           /\ r.finished = t.finished /\ r.reg = t.reg /\ r.phases = t.phases
           /\ t.reg = "active" => r.cancel
           /\ t.reg # "active" => r = t
  BY DEF RequestCancel, TokenShape, SameMarks

\* Claiming a resolution only sets the claim.
LEMMA ClaimedResolution ==
    ASSUME NEW t \in TokenShape
    PROVE  LET r == [t EXCEPT !.resolving = TRUE] IN
           /\ r \in TokenShape /\ SameMarks(t, r) /\ r.cancel = t.cancel
           /\ r.resolving /\ r.resolved = t.resolved
           /\ r.finished = t.finished /\ r.reg = t.reg /\ r.phases = t.phases
  BY DEF TokenShape, SameMarks

-----------------------------------------------------------------------------
(* Types.                                                                   *)

\* The initial state has the types of the inductive invariant.
LEMMA InitShape == Init => Shape
<1> SUFFICES ASSUME Init PROVE Shape
  OBVIOUS
<1>1. NoEntry \in EntryType /\ NoToken \in TokenShape /\ NoUnit \in UnitShape
  BY DEF NoEntry, NoToken, NoUnit, EntryType, EntryStates, Responses, TokenShape, TokenType,
         UnitShape, UnitStates, CallbackPcs
<1> QED BY <1>1 DEF Init, Shape, HandlerPcs, PastError, Finished, CancellerPcs, Responses

\* No token counts two open phases.
LEMMA TokenTyped ==
    ASSUME IInv, NEW s \in Sessions
    PROVE  token[s] \in TokenType
<1>1. token[s] \in TokenShape
  BY DEF IInv, Shape
<1>2. CASE token[s].reg = "none"
  <2>1. token[s] = NoToken
    BY <1>2 DEF IInv, Owners
  <2> QED BY <2>1 DEF NoToken, TokenType
<1>3. CASE token[s].reg # "none"
  <2>1. PICK h \in Handlers : Owns(h) /\ SessionOf[h] = s
    BY <1>3 DEF IInv, Owners
  <2>2. token[s].phases \in 0..1
    BY <2>1 DEF IInv, Life, PhaseCounted
  <2> QED BY <1>1, <2>2 DEF TokenShape, TokenType
<1> QED BY <1>2, <1>3

\* The journal's operations give entries.
LEMMA EntryOps ==
    ASSUME NEW e \in EntryType, NEW r \in Responses, NEW p \in BOOLEAN
    PROVE  /\ JournalComplete(e, r, p) \in EntryType /\ JournalLate(e, r) \in EntryType
           /\ Pruned(e) \in EntryType /\ e.response \in Responses
           /\ NoEntry \in EntryType /\ [NoEntry EXCEPT !.state = "in_progress"] \in EntryType
<1> DEFINE b == e.pinned \/ p
<1>1. b \in BOOLEAN
  BY DEF EntryType
<1>2. JournalComplete(e, r, p) =
          IF e.late THEN e ELSE [e EXCEPT !.state = "completed", !.response = r, !.pinned = b]
  BY DEF JournalComplete
<1> HIDE DEF b
<1>3. JournalComplete(e, r, p) \in EntryType
  BY <1>1, <1>2 DEF EntryType, EntryStates
<1>4. JournalLate(e, r) \in EntryType
  BY DEF JournalLate, EntryType, EntryStates
<1>5. "compacted" \in Responses /\ "none" \in Responses
  BY DEF Responses
<1>6. [NoEntry EXCEPT !.state = "expired"] \in EntryType
      /\ [NoEntry EXCEPT !.state = "in_progress"] \in EntryType /\ NoEntry \in EntryType
  BY <1>5 DEF NoEntry, EntryType, EntryStates
<1>7. Pruned(e) \in EntryType /\ e.response \in Responses
  BY <1>5, <1>6 DEF Pruned, EntryType
<1> QED BY <1>3, <1>4, <1>6, <1>7

\* The two choices between response codes give response codes.
LEMMA ResponseCodes ==
    ASSUME NEW t, NEW u
    PROVE  CancelledCode(t) \in {"cancelled", "cancelled_mutated"}
           /\ LateResponse(u) \in {"ok", "failed", "cancelled", "cancelled_mutated"}
  BY DEF CancelledCode, LateResponse

\* Updates of the two tables the steps change one row of.
LEMMA TokenUpdate ==
    ASSUME token \in [Sessions -> TokenShape], NEW s, NEW t \in TokenShape, SetToken(s, t)
    PROVE  token' \in [Sessions -> TokenShape]
  BY DEF SetToken

\* The same for the row of a callable.
LEMMA UnitUpdate ==
    ASSUME unit \in [Handlers -> UnitShape], NEW h, NEW u \in UnitShape, SetUnit(h, u)
    PROVE  unit' \in [Handlers -> UnitShape]
  BY DEF SetUnit

\* Every step keeps the types of the inductive invariant.
LEMMA ShapeKept == IInv /\ [Next]_vars => Shape'
<1> SUFFICES ASSUME IInv, [Next]_vars PROVE Shape'
  OBVIOUS
<1>1. Shape
  BY DEF IInv
<1>2. \A s \in Sessions : token[s] \in TokenShape /\ token[s] \in TokenType
  BY <1>1, TokenTyped DEF Shape
<1>3. \A h \in Handlers : SessionOf[h] \in Sessions
  BY ActorAssumption
<1>4. NoUnit \in UnitShape /\ NoToken \in TokenType /\ NoToken \in TokenShape
  BY DEF NoUnit, NoToken, UnitShape, TokenType, TokenShape, UnitStates, CallbackPcs
<1> DEFINE Rest == /\ cpc' \in [Cancellers -> CancellerPcs]
                   /\ told' \in [Cancellers -> {"none", "unknown", "completed", "already", "requested"}]
                   /\ poll' \in [Pollers -> [read : BOOLEAN, entry : EntryType]]
<1> DEFINE Own == /\ pc' \in [Handlers -> HandlerPcs]
                  /\ result' \in [Handlers -> Responses] /\ answer' \in [Handlers -> Responses]
                  /\ pinned' \in [Handlers -> BOOLEAN]
<1>5. ASSUME NEW h \in Handlers, Claim(h) \/ Replay(h) \/ Register(h) \/ Abandon(h) \/ Checkpoint(h)
      PROVE Shape'
  <2>1. entry' \in EntryType /\ entry.response \in Responses
    BY <1>1, <1>5, EntryOps DEF Claim, Replay, Register, Abandon, Checkpoint, Shape
  <2>2. Own
    BY <1>1, <1>5, <2>1 DEF Claim, Replay, Register, Abandon, Checkpoint, TurnAway, SetPc,
       SetResult, Shape, HandlerPcs, PastError, Responses
  <2>3. token' \in [Sessions -> TokenShape]
    <3>1. [NoToken EXCEPT !.reg = "active"] \in TokenShape
      BY DEF NoToken, TokenShape
    <3> QED BY <1>1, <1>5, <3>1 DEF Claim, Replay, Register, Abandon, Checkpoint, SetToken, Shape
  <2> QED BY <1>1, <1>5, <2>1, <2>2, <2>3 DEF Claim, Replay, Register, Abandon, Checkpoint, Shape,
                                         cancelVars
<1>6. ASSUME NEW h \in Handlers, MethodReturns(h) \/ MethodRaises(h) \/ BeginPhase(h)
      PROVE Shape'
  <2>1. Own
    <3>1. CASE MethodReturns(h)
      BY <1>1, <3>1 DEF MethodReturns, SetPc, SetResult, Shape, HandlerPcs, PastError, Responses
    <3>2. CASE MethodRaises(h)
      BY <1>1, <3>2 DEF MethodRaises, SetPc, SetResult, Shape, HandlerPcs, PastError, Responses
    <3>3. CASE BeginPhase(h)
      BY <1>1, <3>3 DEF BeginPhase, SetPc, Shape, HandlerPcs, PastError
    <3> QED BY <1>6, <3>1, <3>2, <3>3
  <2>2. token' \in [Sessions -> TokenShape]
    <3>1. CASE BeginPhase(h)
      BY <1>1, <1>2, <1>3, <3>1, BegunPhase DEF BeginPhase, SetToken, Shape
    <3>2. CASE MethodReturns(h) \/ MethodRaises(h)
      BY <1>1, <3>2 DEF MethodReturns, MethodRaises, Shape
    <3> QED BY <1>6, <3>1, <3>2
  <2> QED BY <1>1, <1>6, <2>1, <2>2 DEF MethodReturns, MethodRaises, BeginPhase, Shape, cancelVars
<1>7. ASSUME NEW h \in Handlers,
             Submit(h) \/ SubmitRefused(h) \/ WakeFails(h) \/ SubmitReturns(h) \/ Timeout(h)
      PROVE Shape'
  <2>1. Own
    BY <1>1, <1>7 DEF Submit, SubmitRefused, WakeFails, SubmitReturns, Timeout, SetPc, SetResult,
       Shape, HandlerPcs, PastError, Responses
  <2>2. unit' \in [Handlers -> UnitShape]
    <3> DEFINE u == unit[h]
               began == [NoUnit EXCEPT !.state = "queued", !.phase = u.phase + 1]
               refused == [NoUnit EXCEPT !.phase = u.phase + 1]
               unwoken == [u EXCEPT !.unwoken = TRUE]
               withdrawn == [u EXCEPT !.state = "cancelled", !.cb = "due"]
               outrun == [u EXCEPT !.state = "timed_out_running"]
    <3>1. u \in UnitShape
      BY <1>1 DEF Shape
    <3>2. began \in UnitShape /\ refused \in UnitShape
      <4>1. u.phase + 1 \in Nat
        BY <3>1 DEF UnitShape
      <4> HIDE DEF u
      <4> QED BY <1>4, <4>1 DEF UnitShape, UnitStates
    <3>3. unwoken \in UnitShape /\ withdrawn \in UnitShape /\ outrun \in UnitShape
      BY <3>1 DEF UnitShape, UnitStates, CallbackPcs
    <3>4. \/ UNCHANGED unit \/ SetUnit(h, began) \/ SetUnit(h, refused) \/ SetUnit(h, unwoken)
          \/ SetUnit(h, withdrawn) \/ SetUnit(h, outrun)
      BY <1>1, <1>7 DEF Submit, SubmitRefused, WakeFails, SubmitReturns, Timeout, SetUnit, Shape
    <3> HIDE DEF u, began, refused, unwoken, withdrawn, outrun
    <3> QED BY <1>1, <3>2, <3>3, <3>4, UnitUpdate DEF Shape
  <2> QED BY <1>1, <1>7, <2>1, <2>2 DEF Submit, SubmitRefused, WakeFails, SubmitReturns, Timeout,
                                        Shape, cancelVars
<1>8. ASSUME NEW h \in Handlers, HandleGuiDispatchError(h) \/ HandlerResolves(h) \/ HandlerPublishes(h)
      PROVE Shape'
  <2>1. Own
    BY <1>1, <1>8 DEF HandleGuiDispatchError, HandlerResolves, HandlerPublishes, AfterResolution,
       SetPc, Shape, HandlerPcs, PastError, Finished
  <2>2. token' \in [Sessions -> TokenShape]
    <3> DEFINE t == token[SessionOf[h]]
               marked == [t EXCEPT !.uncertain = TRUE, !.incident = TRUE]
               claimed == [t EXCEPT !.resolving = TRUE]
    <3>1. t \in TokenShape
      BY <1>2, <1>3
    <3>2. marked \in TokenShape /\ claimed \in TokenShape
      BY <3>1 DEF TokenShape
    <3>3. EndGuiPhase(t) \in TokenShape /\ PublishResolution(t) \in TokenShape
      BY <3>1, EndedPhase, PublishedResolution
    <3>4. \/ UNCHANGED token \/ SetToken(SessionOf[h], t) \/ SetToken(SessionOf[h], marked)
          \/ SetToken(SessionOf[h], claimed) \/ SetToken(SessionOf[h], EndGuiPhase(t))
          \/ SetToken(SessionOf[h], PublishResolution(t))
      BY <1>8 DEF HandleGuiDispatchError, HandlerResolves, HandlerPublishes
    <3> HIDE DEF t, marked, claimed
    <3> QED BY <1>1, <3>1, <3>2, <3>3, <3>4, TokenUpdate DEF Shape
  <2> QED BY <1>1, <1>8, <2>1, <2>2 DEF HandleGuiDispatchError, HandlerResolves, HandlerPublishes,
                                        Shape, cancelVars
<1>9. ASSUME NEW h \in Handlers, Snapshot(h) \/ Finish(h) \/ Refinish(h) \/ Complete(h)
      PROVE Shape'
  <2> DEFINE t == token[SessionOf[h]]
  <2>1. Own
    <3>1. CASE Snapshot(h)
      BY <1>1, <1>2, <1>3, <3>1, ResponseCodes DEF Snapshot, SetPc, SetResult, Shape, TokenShape,
         HandlerPcs, PastError, CodeIsUncertain, Responses
    <3>2. CASE Finish(h)
      <4> DEFINE r == FinishHandler(t, result[h] \notin {"ok", "outcome_uncertain"})
                 b == pinned[h] \/ r.mutated \/ r.uncertain
      <4>1. CancelledCode(r) \in Responses
        BY ResponseCodes DEF Responses
      <4>3. b \in BOOLEAN
        OBVIOUS
      <4>4. pinned' = pinned \/ pinned' = [pinned EXCEPT ![h] = b]
        BY <3>2 DEF Finish
      <4>5. pinned' \in [Handlers -> BOOLEAN]
        <5> HIDE DEF b
        <5> QED BY <1>1, <4>3, <4>4 DEF Shape
      <4>6. result' = result \/ result' = [result EXCEPT ![h] = CancelledCode(r)]
        BY <3>2 DEF Finish, SetResult
      <4>7. pc' \in [Handlers -> HandlerPcs]
        BY <1>1, <3>2 DEF Finish, SetPc, Shape, HandlerPcs, PastError, Finished
      <4> HIDE DEF r
      <4> QED BY <1>1, <3>2, <4>1, <4>5, <4>6, <4>7 DEF Finish, Shape
    <3>3. CASE Refinish(h) \/ Complete(h)
      BY <1>1, <3>3 DEF Refinish, Complete, SetPc, SetResult, Shape, HandlerPcs, PastError,
         Finished, Responses
    <3> QED BY <1>9, <3>1, <3>2, <3>3
  <2>2. token' \in [Sessions -> TokenShape]
    <3>1. \A b \in BOOLEAN : FinishHandler(t, b) \in TokenShape
      BY <1>2, <1>3, FinishedHandler
    <3>2. UNCHANGED token \/ \E b \in BOOLEAN : SetToken(SessionOf[h], FinishHandler(t, b))
      BY <1>9 DEF Snapshot, Finish, Refinish, Complete
    <3> HIDE DEF t
    <3> QED BY <1>1, <3>1, <3>2, TokenUpdate DEF Shape
  <2>3. entry' \in EntryType
    <3>1. result[h] \in Responses /\ pinned[h] \in BOOLEAN
      BY <1>1 DEF Shape
    <3>2. entry' = entry \/ entry' = JournalComplete(entry, result[h], pinned[h])
      BY <1>9 DEF Snapshot, Finish, Refinish, Complete
    <3>3. entry \in EntryType
      BY <1>1 DEF Shape
    <3>4. JournalComplete(entry, result[h], pinned[h]) \in EntryType
      BY <3>1, <3>3, EntryOps
    <3> QED BY <3>2, <3>3, <3>4
  <2> QED BY <1>1, <1>9, <2>1, <2>2, <2>3 DEF Snapshot, Finish, Refinish, Complete, Shape,
        cancelVars
<1>10. ASSUME NEW h \in Handlers,
              StartCallable(h) \/ Work(h) \/ EndCallable(h) \/ ExpireInHand(h) \/ Sweep(h)
       PROVE Shape'
  <2> USE DEF Work, PostCommit, BeginMutation, CommitRuns, CommitRejected, ChangeDirectly
  <2>1. unit' \in [Handlers -> UnitShape]
    <3> DEFINE u == unit[h]
               started == [u EXCEPT !.state = "running"]
               ended(ok) == [u EXCEPT !.state = "completed", !.ok = ok, !.cb = "due",
                                      !.late = u.state = "timed_out_running"]
               over(state) == [u EXCEPT !.state = state, !.cb = "due"]
    <3>1. u \in UnitShape
      BY <1>1 DEF Shape
    <3>2. started \in UnitShape /\ over("cancelled") \in UnitShape /\ over("timed_out_pending") \in UnitShape
      BY <3>1 DEF UnitShape, UnitStates, CallbackPcs
    <3>3. ASSUME NEW ok \in BOOLEAN PROVE ended(ok) \in UnitShape
      <4> DEFINE late == u.state = "timed_out_running"
      <4>1. late \in BOOLEAN
        OBVIOUS
      <4> HIDE DEF late
      <4>2. [u EXCEPT !.state = "completed", !.ok = ok, !.cb = "due", !.late = late] \in UnitShape
        BY <3>1, <4>1 DEF UnitShape, UnitStates, CallbackPcs
      <4> QED BY <4>2 DEF late
    <3>4. \/ UNCHANGED unit \/ SetUnit(h, started) \/ SetUnit(h, over("cancelled"))
          \/ SetUnit(h, over("timed_out_pending")) \/ \E ok \in BOOLEAN : SetUnit(h, ended(ok))
      BY <1>10 DEF StartCallable, EndCallable, ExpireInHand, Sweep
    <3> HIDE DEF u, started, ended, over
    <3> QED BY <1>1, <3>2, <3>3, <3>4, UnitUpdate DEF Shape
  <2>2. token' \in [Sessions -> TokenShape]
    <3> DEFINE t == token[SessionOf[h]]
               mutated == [t EXCEPT !.mutated = TRUE]
    <3>1. mutated \in TokenShape
      <4>1. t \in TokenShape
        BY <1>2, <1>3
      <4> HIDE DEF t
      <4> QED BY <4>1 DEF TokenShape
    <3>2. UNCHANGED token \/ SetToken(SessionOf[h], mutated)
      BY <1>10 DEF StartCallable, EndCallable, ExpireInHand, Sweep
    <3> HIDE DEF mutated
    <3> QED BY <1>1, <3>1, <3>2, TokenUpdate DEF Shape
  <2> QED BY <1>1, <1>10, <2>1, <2>2 DEF StartCallable, EndCallable, ExpireInHand,
                                     Sweep, Shape, handlerVars, cancelVars
<1>11. ASSUME NEW h \in Handlers, Callback(h) PROVE Shape'
  <2> DEFINE t == token[SessionOf[h]]
  <2>1. /\ EndGuiPhase(t) \in TokenShape /\ EndGuiPhase(t) \in TokenType
        /\ [t EXCEPT !.uncertain = FALSE] \in TokenShape /\ [t EXCEPT !.uncertain = FALSE] \in TokenType
    <3>1. t \in TokenShape /\ t \in TokenType
      BY <1>2, <1>3
    <3>2. EndGuiPhase(t).phases \in 0..1
      BY <3>1, EndedPhase DEF TokenType
    <3> QED BY <3>1, <3>2, EndedPhase DEF TokenShape, TokenType
  <2>2. token' \in [Sessions -> TokenShape]
    <3> DEFINE claimed == [t EXCEPT !.resolving = TRUE]
               recovered == [t EXCEPT !.uncertain = FALSE]
    <3>1. claimed \in TokenShape /\ PublishResolution(t) \in TokenShape
      BY <1>2, <1>3, ClaimedResolution, PublishedResolution
    <3>2. \/ UNCHANGED token \/ SetToken(SessionOf[h], claimed) \/ SetToken(SessionOf[h], recovered)
          \/ SetToken(SessionOf[h], EndGuiPhase(t)) \/ SetToken(SessionOf[h], PublishResolution(t))
      BY <1>11 DEF Callback, CallbackBegins, CallbackRecovers, CallbackResolves, CallbackPublishes,
                   CallbackRefreshes, CallbackJournals
    <3>3. recovered \in TokenShape
      BY <2>1
    <3> HIDE DEF claimed, recovered, t
    <3> QED BY <1>1, <2>1, <3>1, <3>2, <3>3, TokenUpdate DEF Shape
  <2>3. \E u \in UnitShape : unit' = [unit EXCEPT ![h] = u]
    <3> USE <1>1, <1>2, <1>3, <1>4 DEF Shape, UnitShape, CallbackPcs, SetUnit, OnCancel
    <3>1. CASE CallbackBegins(h)
      BY ZenonT(40), <2>1, <3>1 DEF CallbackBegins
    <3>2. CASE CallbackRecovers(h)
      BY <2>1, <3>2 DEF CallbackRecovers
    <3>3. CASE CallbackResolves(h) \/ CallbackPublishes(h)
      BY <3>3 DEF CallbackResolves, CallbackPublishes
    <3>4. CASE CallbackRefreshes(h) \/ CallbackJournals(h)
      BY <3>4 DEF CallbackRefreshes, CallbackJournals
    <3> QED BY <1>11, <3>1, <3>2, <3>3, <3>4 DEF Callback
  <2>4. entry' \in EntryType
    <3>1. LateResponse(unit[h]) \in Responses
      BY ResponseCodes DEF Responses
    <3> QED BY <1>1, <1>11, <3>1, EntryOps
       DEF Callback, CallbackBegins, CallbackRecovers, CallbackResolves, CallbackPublishes,
           CallbackRefreshes, CallbackJournals, Shape
  <2> QED BY <1>1, <1>11, <2>2, <2>3, <2>4
     DEF Callback, CallbackBegins, CallbackRecovers, CallbackResolves, CallbackPublishes,
         CallbackRefreshes, CallbackJournals, Shape, handlerVars, cancelVars
<1>12. ASSUME NEW c \in Cancellers, Cancel(c) PROVE Shape'
  <2>1. CancelIn[c] \in Sessions
    BY ActorAssumption
  <2>2. token' \in [Sessions -> TokenShape]
    <3> DEFINE t == token[CancelIn[c]]
               claimed == [t EXCEPT !.resolving = TRUE]
    <3>1. claimed \in TokenShape /\ PublishResolution(t) \in TokenShape /\ RequestCancel(t) \in TokenShape
      BY <1>2, <2>1, RequestedCancel, ClaimedResolution, PublishedResolution
    <3>2. \/ UNCHANGED token \/ SetToken(CancelIn[c], claimed)
          \/ SetToken(CancelIn[c], RequestCancel(t)) \/ SetToken(CancelIn[c], PublishResolution(t))
      BY <1>12 DEF Cancel, CancelRequest, CancelInGui, CancelWithdrew, CancelResolves,
            CancelPublishes
    <3> HIDE DEF claimed, t
    <3> QED BY <1>1, <3>1, <3>2, TokenUpdate DEF Shape
  <2>3. unit' \in [Handlers -> UnitShape]
    <3>1. CASE CancelInGui(c)
      <4> DEFINE h == Target(c)
                 withdrawn == [unit[h] EXCEPT !.state = "cancelled", !.cb = "due"]
      <4>1. UNCHANGED unit \/ SetUnit(h, withdrawn)
        BY <3>1 DEF CancelInGui
      <4> HIDE DEF h
      <4>2. CASE h \in Handlers
        <5>1. unit[h] \in UnitShape
          BY <1>1, <4>2 DEF Shape
        <5>2. withdrawn \in UnitShape
          BY <5>1 DEF UnitShape, UnitStates, CallbackPcs
        <5> HIDE DEF withdrawn
        <5> QED BY <1>1, <4>1, <5>2, UnitUpdate DEF Shape
      <4>3. CASE h \notin Handlers
        BY <1>1, <4>1, <4>3 DEF SetUnit, Shape
      <4> QED BY <4>2, <4>3
    <3>2. CASE ~CancelInGui(c)
      BY <1>1, <1>12, <3>2 DEF Cancel, CancelRequest, CancelWithdrew, CancelResolves,
         CancelPublishes, Shape
    <3> QED BY <3>1, <3>2
  <2>4. Rest
    BY <1>1, <1>12 DEF Cancel, CancelRequest, CancelInGui, CancelWithdrew, CancelResolves,
       CancelPublishes, SetCpc, Shape, CancellerPcs
  <2> QED BY <1>1, <1>12, <2>2, <2>3, <2>4 DEF Cancel, CancelRequest, CancelInGui, CancelWithdrew,
       CancelResolves, CancelPublishes, Shape, handlerVars
<1>13. ASSUME NEW p \in Pollers, Poll(p) PROVE Shape'
  <2> DEFINE report == [read |-> TRUE, entry |-> entry]
             over == [read |-> FALSE, entry |-> NoEntry]
  <2>1. entry \in EntryType /\ NoEntry \in EntryType
    BY <1>1 DEF Shape, NoEntry, EntryType, EntryStates, Responses
  <2>2. report \in [read : BOOLEAN, entry : EntryType] /\ over \in [read : BOOLEAN, entry : EntryType]
    BY <2>1
  <2>3. poll' = [poll EXCEPT ![p] = report] \/ poll' = [poll EXCEPT ![p] = over]
    BY <1>13 DEF Poll, PollJournal, PollToken
  <2> HIDE DEF report, over
  <2>4. poll' \in [Pollers -> [read : BOOLEAN, entry : EntryType]]
    BY <1>1, <2>2, <2>3 DEF Shape
  <2> QED BY <1>1, <1>13, <2>4 DEF Poll, PollJournal, PollToken, Shape, handlerVars, cancelVars
<1>14. CASE CancelAll
  BY <1>1, <1>2, <1>14, RequestedCancel DEF CancelAll, Shape, handlerVars, cancelVars
<1>15. CASE Expire
  <2>1. entry' \in EntryType
    BY <1>1, <1>15, EntryOps DEF Expire, Shape, Responses
  <2> QED BY <1>1, <1>15, <2>1 DEF Expire, Shape, handlerVars, cancelVars
<1>16. CASE UNCHANGED vars
  BY <1>1, <1>16 DEF vars, Shape
<1> QED BY <1>5, <1>6, <1>7, <1>8, <1>9, <1>10, <1>11, <1>12, <1>13, <1>14, <1>15, <1>16
        DEF Next, Invoke, Callable

-----------------------------------------------------------------------------
(* A step of a handler that owns its token, of its callable or its callback. *)

\* Its thread, or that of its callback, holds the token's claim.
Publishes(h) == Publishing(h) \/ unit[h].cb = "publish"

\* Nothing of the others changes; of its own, the handler leaves what the
\* invariant says.
OthersKept(h) ==
    /\ \A g \in Handlers \ {h} : /\ pc'[g] = pc[g] /\ result'[g] = result[g]
                                 /\ answer'[g] = answer[g] /\ unit'[g] = unit[g]
    /\ \A s \in Sessions \ {SessionOf[h]} : token'[s] = token[s]
    /\ UNCHANGED told
    /\ \A c \in Cancellers : /\ cpc'[c] = "publish" => cpc[c] = "publish"
                             /\ cpc[c] \in {"idle", "over"} => cpc'[c] \in {"idle", "over"}
TokenAdvances(h) ==
    LET t == token[SessionOf[h]]
        r == token'[SessionOf[h]] IN
    /\ TokenInOrder(r) /\ r.reg # "none"
    /\ t.cancel => r.cancel
    /\ t.resolving /\ ~Publishes(h) => r.resolving
    /\ Publishes(h)' => r.resolving /\ (Publishes(h) \/ ~t.resolving)
Advance(h) ==
    /\ Owns(h) /\ Owns(h)' /\ Life(h)'
    /\ OthersKept(h) /\ TokenAdvances(h)
    /\ ~(Publishing(h) /\ unit[h].cb = "publish")'

\* An advance keeps the inductive invariant: no other handler shares the token, and
\* only the thread that held the claim may give it up.
LEMMA AdvanceKeeps ==
    ASSUME IInv, Shape', NEW h \in Handlers, Advance(h)
    PROVE  IInv'
<1> DEFINE s == SessionOf[h]
<1>1. s \in Sessions /\ \A g \in Handlers : SessionOf[g] \in Sessions
  BY ActorAssumption
<1>2. \A c \in Cancellers : CancelIn[c] \in Sessions
  BY ActorAssumption
<1>3. ASSUME NEW g \in Handlers, g # h
      PROVE  /\ Owns(g)' <=> Owns(g)
             /\ Owns(g) => SessionOf[g] # s /\ token'[SessionOf[g]] = token[SessionOf[g]]
             /\ Publishes(g)' <=> Publishes(g)
             /\ pc'[g] = pc[g] /\ result'[g] = result[g] /\ answer'[g] = answer[g] /\ unit'[g] = unit[g]
  BY <1>1, <1>3 DEF Advance, OthersKept, Owns, IInv, Owners, Publishes, Publishing
<1>4. Owners'
  <2>1. \A g \in Handlers : Owns(g)' => token'[SessionOf[g]].reg # "none"
    BY <1>1, <1>3 DEF Advance, TokenAdvances, IInv, Owners
  <2>2. \A f, g \in Handlers : Owns(f)' /\ Owns(g)' /\ SessionOf[f] = SessionOf[g] => f = g
    BY <1>3 DEF Advance, IInv, Owners
  <2>3. \A r \in Sessions : token'[r].reg # "none" => \E g \in Handlers : Owns(g)' /\ SessionOf[g] = r
    BY <1>1, <1>3 DEF Advance, OthersKept, IInv, Owners
  <2>4. \A r \in Sessions : token'[r].reg = "none" => token'[r] = NoToken
    BY <1>1 DEF Advance, OthersKept, TokenAdvances, IInv, Owners
  <2>5. \A g \in Handlers : ~Owns(g)' =>
            unit'[g] = NoUnit /\ result'[g] = "none" /\ (pc'[g] # "turned_away" => answer'[g] = "none")
    BY <1>3 DEF Advance, IInv, Owners
  <2>6. \A c \in Cancellers : cpc'[c] \notin {"idle", "over"} => token'[CancelIn[c]].reg # "none"
    BY <1>1, <1>2 DEF Advance, OthersKept, TokenAdvances, IInv, Owners
  <2> QED BY <2>1, <2>2, <2>3, <2>4, <2>5, <2>6 DEF Owners
<1>5. Informed'
  BY <1>1, <1>2 DEF Advance, OthersKept, TokenAdvances, IInv, Informed
<1>6. \A r \in Sessions : TokenInOrder(token[r])'
  BY <1>1 DEF Advance, OthersKept, TokenAdvances, IInv
<1>7. ASSUME NEW g \in Handlers PROVE Life(g)'
  <2>1. CASE g = h
    BY <2>1 DEF Advance
  <2>2. CASE g # h
    BY <1>3, <2>2 DEF IInv, Life, CallableInOrder, PhaseCounted, Open, TokenAgrees, AnswerAgrees
  <2> QED BY <2>1, <2>2
<1>8. Resolution'
  <2>1. \A g \in Handlers : Publishes(g) => token[SessionOf[g]].resolving /\ Owns(g)
    BY DEF IInv, Resolution, Owners, Publishes, Publishing, Owns, NoUnit
  <2>2. \A c \in Cancellers : cpc[c] = "publish" => token[CancelIn[c]].resolving
    BY DEF IInv, Resolution
  <2>3. \A g \in Handlers, c \in Cancellers :
            Publishes(g) /\ cpc[c] = "publish" => SessionOf[g] # CancelIn[c]
    BY DEF IInv, Resolution, Publishes
  <2>4. \A c \in Cancellers : cpc'[c] = "publish" => cpc[c] = "publish"
    BY DEF Advance, OthersKept
  <2>5. \A g \in Handlers : Publishes(g)' => token'[SessionOf[g]].resolving
    BY <1>3, <2>1 DEF Advance, TokenAdvances
  <2>6. \A c \in Cancellers : cpc[c] = "publish" => token'[CancelIn[c]].resolving
    BY <1>1, <1>2, <2>2, <2>3 DEF Advance, OthersKept, TokenAdvances
  <2>7. \A g \in Handlers, c \in Cancellers :
            Publishes(g)' /\ cpc[c] = "publish" => SessionOf[g] # CancelIn[c]
    BY <1>3, <2>2, <2>3 DEF Advance, TokenAdvances
  <2>8. \A g \in Handlers : ~(Publishing(g)' /\ unit'[g].cb = "publish")
    BY <1>3 DEF Advance, IInv, Resolution, Publishing
  <2> QED BY <2>4, <2>5, <2>6, <2>7, <2>8 DEF Resolution, Publishes, IInv
<1> QED BY <1>4, <1>5, <1>6, <1>7, <1>8 DEF IInv

\* What the invariant says of one owner, row by row.
LEMMA OwnersRow ==
    ASSUME IInv, NEW h \in Handlers, Owns(h)
    PROVE  /\ SessionOf[h] \in Sessions /\ MaxPhases[h] \in Nat
           /\ token \in [Sessions -> TokenShape] /\ unit \in [Handlers -> UnitShape]
           /\ pc \in [Handlers -> HandlerPcs]
           /\ result \in [Handlers -> Responses] /\ answer \in [Handlers -> Responses]
           /\ token[SessionOf[h]] \in TokenShape /\ unit[h] \in UnitShape
           /\ CallableInOrder(h) /\ PhaseCounted(h) /\ TokenAgrees(h) /\ AnswerAgrees(h)
           /\ TokenInOrder(token[SessionOf[h]]) /\ token[SessionOf[h]].reg # "none"
           /\ Publishes(h) => token[SessionOf[h]].resolving
           /\ ~(Publishing(h) /\ unit[h].cb = "publish")
  BY ActorAssumption DEF IInv, Shape, Life, Owners, Resolution, Publishes

\* The steps of a handler that change no more of its token than a mark.
LEMMA CallerAdvances ==
    ASSUME IInv, NEW h \in Handlers,
           \/ Checkpoint(h) \/ MethodReturns(h) \/ MethodRaises(h)
           \/ SubmitReturns(h) \/ Snapshot(h) \/ Complete(h)
    PROVE  Advance(h)
<1> DEFINE t == token[SessionOf[h]]
<1>1. Owns(h)
  BY DEF Owns, Checkpoint, MethodReturns, MethodRaises, SubmitReturns, Snapshot, Complete
<1> USE OwnersRow, <1>1 DEF SetPc, SetResult
<1>2. token' = token /\ unit' = unit /\ cancelVars' = cancelVars
  BY DEF Checkpoint, MethodReturns, MethodRaises, SubmitReturns, Snapshot, Complete, cancelVars
<1>3. OthersKept(h)
  BY <1>2 DEF Checkpoint, MethodReturns, MethodRaises, SubmitReturns, Snapshot, Complete,
        OthersKept, cancelVars
<1>4. Owns(h)' /\ ~Publishing(h) /\ ~Publishing(h)'
  BY DEF Owns, Publishing, Checkpoint, MethodReturns, MethodRaises, SubmitReturns, Snapshot,
        Complete
<1>5. TokenAdvances(h)
  BY <1>2, <1>4 DEF TokenAdvances, Publishes, Publishing, TokenInOrder
<1>6. CallableInOrder(h)' /\ PhaseCounted(h)'
  BY <1>2 DEF Checkpoint, MethodReturns, MethodRaises, SubmitReturns, Snapshot, Complete,
     CallableInOrder, PhaseCounted, Open, NoUnit, PastError, Finished
<1>7. TokenAgrees(h)'
  <2>1. CASE Checkpoint(h)
    BY <1>2, <2>1
    DEF Checkpoint, CheckpointPasses, TokenAgrees, CallableInOrder, NoUnit, PastError,
            Finished
  <2>2. CASE MethodReturns(h) \/ MethodRaises(h)
    BY <1>2, <2>2
    DEF MethodReturns, MethodRaises, TokenAgrees, CallableInOrder, NoUnit, PastError,
            Finished
  <2>3. CASE SubmitReturns(h)
    BY <1>2, <2>3
    DEF SubmitReturns, TokenAgrees, CallableInOrder, NoUnit, PastError,
            Finished
  <2>4. CASE Snapshot(h)
    BY <1>2, <2>4
    DEF Snapshot, CancelledCode, TokenAgrees, CallableInOrder, NoUnit, PastError,
            Finished
  <2>5. CASE Complete(h)
    BY <1>2, <2>5
    DEF Complete, TokenAgrees, CallableInOrder, NoUnit, PastError,
            Finished
  <2> QED BY <2>1, <2>2, <2>3, <2>4, <2>5
<1>8. AnswerAgrees(h)'
  <2>1. CASE Checkpoint(h)
    BY <1>2, <2>1
    DEF Checkpoint, CheckpointPasses, AnswerAgrees, TokenAgrees, TokenInOrder,
            CallableInOrder, NoUnit, PastError, Finished
  <2>2. CASE MethodReturns(h) \/ MethodRaises(h)
    BY <1>2, <2>2
    DEF MethodReturns, MethodRaises, AnswerAgrees, TokenAgrees, TokenInOrder,
            CallableInOrder, NoUnit, PastError, Finished
  <2>3. CASE SubmitReturns(h)
    BY <1>2, <2>3
    DEF SubmitReturns, AnswerAgrees, TokenAgrees, TokenInOrder,
            CallableInOrder, NoUnit, PastError, Finished
  <2>4. CASE Snapshot(h)
    BY <1>2, <2>4
    DEF Snapshot, CancelledCode, AnswerAgrees, TokenAgrees, TokenInOrder,
            CallableInOrder, NoUnit, PastError, Finished
  <2>5. CASE Complete(h)
    BY <1>2, <2>5
    DEF Complete, AnswerAgrees, TokenAgrees, TokenInOrder,
            CallableInOrder, NoUnit, PastError, Finished
  <2> QED BY <2>1, <2>2, <2>3, <2>4, <2>5
<1> QED BY <1>1, <1>2, <1>3, <1>4, <1>5, <1>6, <1>7, <1>8 DEF Advance, Life, Publishing

\* The steps that open a GUI call, and those that give up on one.
LEMMA SubmissionAdvances ==
    ASSUME IInv, NEW h \in Handlers,
           \/ Submit(h) \/ SubmitRefused(h) \/ WakeFails(h) \/ Timeout(h)
    PROVE  Advance(h)
<1>1. Owns(h)
  BY DEF Owns, Submit, SubmitRefused, WakeFails, Timeout
<1> USE OwnersRow, <1>1 DEF SetPc, SetResult
<1>2. token' = token /\ cancelVars' = cancelVars
  BY DEF Submit, SubmitRefused, WakeFails, Timeout, cancelVars
<1>3. OthersKept(h)
  BY <1>2 DEF Submit, SubmitRefused, WakeFails, Timeout, OthersKept, cancelVars
<1>4. Owns(h)' /\ ~Publishing(h) /\ ~Publishing(h)'
  BY DEF Owns, Publishing, Submit, SubmitRefused, WakeFails, Timeout
<1>5. unit'[h].cb \in {unit[h].cb, "idle", "due"}
  <2>1. CASE Submit(h) \/ SubmitRefused(h)
    BY ZenonT(40), <2>1 DEF Submit, SubmitRefused, NoUnit
  <2>2. CASE WakeFails(h)
    BY <2>2 DEF WakeFails, UnitShape
  <2>3. CASE Timeout(h)
    BY <2>3 DEF Timeout, UnitShape
  <2> QED BY <2>1, <2>2, <2>3
<1>6. TokenAdvances(h)
  BY <1>2, <1>4, <1>5 DEF TokenAdvances, Publishes, Publishing, TokenInOrder
<1>7. Life(h)'
  <2>1. CASE Submit(h)
    <3>1. /\ unit'[h].state = "queued" /\ unit'[h].cb = "idle" /\ ~unit'[h].late
          /\ ~unit'[h].unwoken /\ unit'[h].phase = unit[h].phase + 1
      BY <2>1 DEF Submit, NoUnit
    <3>2. pc[h] = "opened" /\ pc'[h] = "waiting" /\ result'[h] = result[h] /\ answer'[h] = answer[h]
      BY <2>1 DEF Submit
    <3> QED BY <1>2, <3>1, <3>2 DEF Life, CallableInOrder, PhaseCounted, Open, TokenAgrees,
          AnswerAgrees,
               UnitShape, PastError, Finished
  <2>2. CASE SubmitRefused(h)
    <3>1. /\ unit'[h].state = "none" /\ unit'[h].cb = "idle" /\ ~unit'[h].late
          /\ ~unit'[h].unwoken /\ unit'[h].phase = unit[h].phase + 1
      BY <2>2 DEF SubmitRefused, NoUnit
    <3>2. pc[h] = "opened" /\ pc'[h] = "gui_error" /\ result'[h] = "failed" /\ answer'[h] = answer[h]
      BY <2>2 DEF SubmitRefused
    <3> QED BY <1>2, <3>1, <3>2 DEF Life, CallableInOrder, PhaseCounted, Open, TokenAgrees,
          AnswerAgrees,
               UnitShape, PastError, Finished
  <2>3. CASE WakeFails(h)
    <3>1. /\ unit[h].state = "running" /\ unit'[h].state = unit[h].state /\ unit'[h].cb = unit[h].cb
          /\ unit'[h].late = unit[h].late /\ unit'[h].unwoken /\ unit'[h].phase = unit[h].phase
      BY <2>3 DEF WakeFails, UnitShape
    <3>2. pc[h] = "waiting" /\ pc'[h] = "gui_error" /\ result'[h] = "failed" /\ answer'[h] = answer[h]
      BY <2>3 DEF WakeFails
    <3> QED BY <1>2, <3>1, <3>2 DEF Life, CallableInOrder, PhaseCounted, Open, TokenAgrees,
          AnswerAgrees,
               UnitShape, PastError, Finished
  <2>4. CASE Timeout(h)
    <3>1. /\ unit'[h].late = unit[h].late /\ unit'[h].unwoken = unit[h].unwoken
          /\ unit'[h].phase = unit[h].phase
      BY <2>4 DEF Timeout, UnitShape
    <3>2. \/ /\ unit[h].state = "queued" /\ unit'[h].state = "cancelled" /\ unit'[h].cb = "due"
             /\ pc'[h] = "withdrawing" /\ result'[h] = result[h]
          \/ /\ unit[h].state = "timed_out_pending" /\ unit'[h].state = unit[h].state
             /\ unit'[h].cb = unit[h].cb /\ pc'[h] = "gui_error" /\ result'[h] = "not_run"
          \/ /\ unit[h].state = "running" /\ unit'[h].state = "timed_out_running"
             /\ unit'[h].cb = unit[h].cb /\ pc'[h] = "gui_error" /\ result'[h] = "uncertain"
      BY <2>4 DEF Timeout, UnitShape
    <3>3. pc[h] = "waiting" /\ unit[h].cb # "over" /\ answer'[h] = answer[h]
      BY <2>4 DEF Timeout
    <3> QED BY <1>2, <3>1, <3>2, <3>3 DEF Life, CallableInOrder, PhaseCounted, Open, TokenAgrees,
          AnswerAgrees,
               UnitShape, PastError, Finished
  <2> QED BY <2>1, <2>2, <2>3, <2>4
<1> QED BY <1>1, <1>3, <1>4, <1>6, <1>7 DEF Advance, Publishing

\* The callable starts, ends, or is expired or swept off the queue.
LEMMA CallableAdvances ==
    ASSUME IInv, NEW h \in Handlers,
           \/ StartCallable(h) \/ EndCallable(h) \/ ExpireInHand(h) \/ Sweep(h)
    PROVE  Advance(h)
<1>1. Owns(h)
  <2>1. unit[h].state # "none"
    BY DEF StartCallable, EndCallable, ExpireInHand, Sweep, Executing
  <2> QED BY <2>1 DEF IInv, Owners, NoUnit
<1> USE OwnersRow, <1>1
<1>2. UNCHANGED <<token, handlerVars, cancelVars>>
  BY DEF StartCallable, EndCallable, ExpireInHand, Sweep
<1>3. /\ unit'[h].unwoken = unit[h].unwoken /\ unit'[h].phase = unit[h].phase
      /\ \/ /\ unit[h].state = "queued" /\ unit'[h].state = "running"
            /\ unit'[h].cb = unit[h].cb /\ unit'[h].late = unit[h].late
         \/ /\ unit[h].state \in {"running", "timed_out_running"} /\ unit'[h].state = "completed"
            /\ unit'[h].cb = "due" /\ unit'[h].late = (unit[h].state = "timed_out_running")
         \/ /\ unit[h].state = "queued" /\ unit'[h].state \in {"cancelled", "timed_out_pending"}
            /\ unit'[h].cb = "due" /\ unit'[h].late = unit[h].late
  <2>1. CASE StartCallable(h)
    BY <2>1 DEF StartCallable, SetUnit, UnitShape
  <2>2. CASE EndCallable(h)
    <3>1. PICK ok \in BOOLEAN :
             unit'[h] = [unit[h] EXCEPT !.state = "completed", !.ok = ok, !.cb = "due",
                                        !.late = unit[h].state = "timed_out_running"]
      BY <2>2 DEF EndCallable, SetUnit
    <3>2. unit'[h].late = (unit[h].state = "timed_out_running")
      BY <3>1 DEF UnitShape
    <3> QED BY ZenonT(40), <2>2, <3>1, <3>2 DEF EndCallable, Executing, UnitShape
  <2>3. CASE ExpireInHand(h)
    BY <2>3 DEF ExpireInHand, SetUnit, UnitShape
  <2>4. CASE Sweep(h)
    BY <2>4 DEF Sweep, SetUnit, UnitShape
  <2> QED BY <2>1, <2>2, <2>3, <2>4
<1>4. OthersKept(h)
  BY <1>2 DEF StartCallable, EndCallable, ExpireInHand, Sweep, SetUnit, OthersKept, cancelVars,
              handlerVars
<1>5. Owns(h)' /\ (Publishing(h)' <=> Publishing(h)) /\ unit'[h].cb # "publish"
  BY <1>2, <1>3 DEF handlerVars, Owns, Publishing, CallableInOrder
<1>6. TokenAdvances(h)
  BY <1>2, <1>5 DEF TokenAdvances, Publishes, TokenInOrder
<1>7. unit[h].state # "none" /\ unit[h].cb = "idle" /\ pc[h] # "registered"
  BY <1>3 DEF CallableInOrder, NoUnit
<1>8. CallableInOrder(h)'
  BY <1>2, <1>3, <1>7 DEF handlerVars, CallableInOrder, TokenAgrees
<1>9. PhaseCounted(h)' /\ TokenAgrees(h)' /\ AnswerAgrees(h)'
  BY <1>2, <1>3, <1>7 DEF handlerVars, PhaseCounted, Open, TokenAgrees, AnswerAgrees,
        CallableInOrder
<1> QED BY <1>1, <1>4, <1>5, <1>6, <1>8, <1>9 DEF Advance, Life

\* begin_mutation marks a token nobody has cancelled, also when the commit has outlived
\* its callable.
LEMMA BeginMutationAdvances ==
    ASSUME IInv, WInv, NEW h \in Handlers, BeginMutation(h)
    PROVE  Advance(h)
<1> DEFINE t == token[SessionOf[h]]
           r == token'[SessionOf[h]]
<1>1. Owns(h) /\ pc[h] # "registered"
  BY DEF BeginMutation, WInv, Worked, Dispatched
<1> USE OwnersRow, <1>1
<1>2. UNCHANGED <<unit, handlerVars, cancelVars>>
  BY DEF BeginMutation
<1>3. SameResolution(t, r) /\ r.reg = t.reg /\ r.finished = t.finished /\ r.phases = t.phases
      /\ r.uncertain = t.uncertain /\ r.incident = t.incident /\ ~t.cancel
  BY DEF BeginMutation, SetToken, MayMutate, TokenShape, SameResolution
<1>4. OthersKept(h)
  BY <1>2 DEF BeginMutation, SetToken, OthersKept, cancelVars, handlerVars
<1>5. Owns(h)' /\ (Publishing(h)' <=> Publishing(h)) /\ unit' = unit
  BY <1>2 DEF handlerVars, Owns, Publishing
<1>6. TokenAdvances(h)
  BY <1>3, <1>5 DEF TokenAdvances, Publishes, TokenInOrder, SameResolution
<1>8. CallableInOrder(h)' /\ PhaseCounted(h)'
  BY <1>2, <1>3 DEF handlerVars, CallableInOrder, PhaseCounted, Open
<1>9. TokenAgrees(h)' /\ AnswerAgrees(h)'
  BY <1>2, <1>3 DEF handlerVars, TokenAgrees, AnswerAgrees, SameResolution
<1> QED BY <1>1, <1>4, <1>5, <1>6, <1>8, <1>9 DEF Advance, Life

\* Opening a GUI call counts its phase, or fails the method with nothing counted.
LEMMA BeginPhaseAdvances ==
    ASSUME IInv, NEW h \in Handlers, BeginPhase(h)
    PROVE  Advance(h)
<1> DEFINE t == token[SessionOf[h]]
           r == token'[SessionOf[h]]
<1>1. Owns(h)
  BY DEF BeginPhase, Owns
<1> USE OwnersRow, <1>1
<1>2. /\ UNCHANGED <<unit, result, answer, cancelVars>>
      /\ pc[h] = "dispatched" /\ pc'[h] = "opened" /\ unit[h].phase < MaxPhases[h]
  BY DEF BeginPhase, SetPc
<1>3. /\ SameMarks(t, r) /\ SameResolution(t, r) /\ r.reg = t.reg /\ r.finished = t.finished
      /\ t.reg = "active" => r.phases = t.phases + 1
  BY BegunPhase DEF BeginPhase, SetToken
<1>4. t.reg = "active" /\ t.phases = 0
  BY <1>2 DEF TokenInOrder, TokenAgrees, PhaseCounted, Open, CallableInOrder, PastError,
        Finished, TokenShape
<1>5. OthersKept(h)
  BY DEF BeginPhase, SetToken, SetPc, OthersKept, cancelVars
<1>6. Owns(h)' /\ ~Publishing(h) /\ ~Publishing(h)' /\ unit' = unit
  BY <1>2 DEF Owns, Publishing
<1>7. TokenAdvances(h)
  BY <1>3, <1>4, <1>6 DEF TokenAdvances, Publishes, TokenInOrder, SameResolution, SameMarks
<1>8. CallableInOrder(h)' /\ PhaseCounted(h)'
  <2>1. CallableInOrder(h)'
    BY <1>2, <1>3 DEF CallableInOrder, SameMarks, PastError, Finished
  <2>2. PhaseCounted(h)'
    BY <1>2, <1>3, <1>4 DEF PhaseCounted
  <2> QED BY <2>1, <2>2
<1>9. TokenAgrees(h)' /\ AnswerAgrees(h)'
  BY <1>2, <1>3, <1>4 DEF TokenAgrees, AnswerAgrees, SameResolution, SameMarks, PastError, Finished
<1> QED BY <1>1, <1>5, <1>6, <1>7, <1>8, <1>9 DEF Advance, Life

\* A GUI error ends the phase of a callable that will not run, or marks the token
\* uncertain and leaves the phase to the callback.
LEMMA ErrorAdvances ==
    ASSUME IInv, NEW h \in Handlers, HandleGuiDispatchError(h)
    PROVE  Advance(h)
<1> DEFINE t == token[SessionOf[h]]
           r == token'[SessionOf[h]]
<1>1. Owns(h)
  BY DEF HandleGuiDispatchError, Owns
<1> USE OwnersRow, <1>1
<1>2. /\ UNCHANGED <<unit, result, answer, cancelVars>>
      /\ pc[h] = "gui_error" /\ pc'[h] = "returned" /\ ~HoldsLock(h)
  BY DEF HandleGuiDispatchError, SetPc
<1>3. ASSUME EndsPhase(h) PROVE TokenAdvances(h) /\ Life(h)'
  <2>0. /\ unit[h].cb \in {"idle", "due"} /\ result[h] # "uncertain"
        /\ t.phases = 1 /\ t.reg = "active" /\ ~t.finished
    BY <1>2, <1>3 DEF EndsPhase, CompletionSeen, HoldsLock, UnitShape, CallbackPcs, PhaseCounted,
          Open, TokenInOrder, TokenAgrees, PastError, Finished, TokenShape
  <2>1. /\ SameMarks(t, r) /\ SameResolution(t, r)
        /\ r.finished = t.finished /\ r.phases = 0 /\ r.reg = "active"
    BY <1>3, <2>0, EndedPhase DEF HandleGuiDispatchError, SetToken
  <2>2. ~t.incident
    BY <1>2 DEF TokenAgrees, PastError, Finished
  <2>3. TokenAdvances(h) 
    BY <1>2, <2>0, <2>1 DEF TokenAdvances, Publishes, Publishing, TokenInOrder, SameResolution,
          SameMarks
  <2>4. Life(h)'
    BY <1>2, <2>0, <2>1, <2>2 DEF Life, CallableInOrder, PhaseCounted, Open, TokenAgrees,
          AnswerAgrees, SameResolution, SameMarks, PastError, Finished
  <2> QED BY <2>3, <2>4
<1>4. ASSUME ~EndsPhase(h), result[h] = "uncertain", MayMarkUncertain(h)
      PROVE  TokenAdvances(h) /\ Life(h)'
  <2>1. /\ SameResolution(t, r) /\ r.finished = t.finished /\ r.phases = t.phases /\ r.reg = t.reg
        /\ r.mutated = t.mutated /\ r.uncertain /\ r.incident
    BY <1>4 DEF HandleGuiDispatchError, SetToken, TokenShape, SameResolution
  <2>0. unit[h].cb \in {"idle", "due"} /\ t.phases = 1 /\ t.reg = "active" /\ ~t.finished
    BY <1>2, <1>4 DEF MayMarkUncertain, CompletionSeen, HoldsLock, UnitShape, CallbackPcs,
          PhaseCounted, Open, TokenInOrder, TokenAgrees, PastError, Finished, TokenShape
  <2>3. TokenAdvances(h) 
    BY <1>2, <2>0, <2>1 DEF TokenAdvances, Publishes, Publishing, TokenInOrder, SameResolution,
          SameMarks
  <2>4. Life(h)'
    <3>1. CallableInOrder(h)' /\ PhaseCounted(h)'
      BY <1>2, <2>0, <2>1 DEF CallableInOrder, PhaseCounted, Open, PastError
    <3>2. TokenAgrees(h)'
      BY <1>2, <1>4, <2>0, <2>1 DEF TokenAgrees, SameResolution, PastError, Finished
    <3>3. AnswerAgrees(h)'
      BY <1>2, <1>4, <2>0, <2>1 DEF AnswerAgrees, SameResolution
    <3> QED BY <3>1, <3>2, <3>3 DEF Life
  <2> QED BY <2>3, <2>4
<1>5. ASSUME ~EndsPhase(h), ~(result[h] = "uncertain" /\ MayMarkUncertain(h))
      PROVE  TokenAdvances(h) /\ Life(h)'
  <2>1. r = t
    BY <1>5 DEF HandleGuiDispatchError, SetToken
  <2>0. unit[h].cb = "over" \/ HoldsLock(h)
    BY <1>5 DEF EndsPhase, MayMarkUncertain, CompletionSeen
  <2>2. unit[h].cb = "over"
    BY <1>2, <2>0
  <2>3. TokenAdvances(h) 
    BY <1>2, <2>1 DEF TokenAdvances, Publishes, Publishing, TokenInOrder
  <2>4. Life(h)'
    BY <1>2, <2>1, <2>2 DEF Life, CallableInOrder, PhaseCounted, Open, TokenAgrees, AnswerAgrees,
          PastError, Finished
  <2> QED BY <2>3, <2>4
<1>6. OthersKept(h)
  BY DEF HandleGuiDispatchError, SetToken, SetPc, OthersKept, cancelVars
<1>7. Owns(h)' /\ ~Publishing(h) /\ ~Publishing(h)' /\ unit' = unit
  BY <1>2 DEF Owns, Publishing
<1> QED BY <1>1, <1>3, <1>4, <1>5, <1>6, <1>7 DEF Advance

\* The resolution of a cancellation by the handler itself.
LEMMA HandlerResolvesAdvances ==
    ASSUME IInv, NEW h \in Handlers, HandlerResolves(h) \/ HandlerPublishes(h)
    PROVE  Advance(h)
<1> DEFINE t == token[SessionOf[h]]
           r == token'[SessionOf[h]]
<1>1. Owns(h)
  BY DEF HandlerResolves, HandlerPublishes, Owns
<1> USE OwnersRow, <1>1
<1>2. UNCHANGED <<unit, result, answer, cancelVars>>
  BY DEF HandlerResolves, HandlerPublishes
<1>3. SameMarks(t, r) /\ r.finished = t.finished /\ r.phases = t.phases /\ r.cancel = t.cancel
      /\ r.reg \in {t.reg, "terminal"}
      /\ \/ r = t /\ t.resolved /\ pc[h] = "resolve" /\ pc'[h] = "finishing"
         \/ r = t /\ t.resolved /\ pc[h] = "resolve_late" /\ pc'[h] = "refinishing"
         \/ /\ ~t.resolving /\ ~t.resolved /\ r.resolving /\ ~r.resolved /\ r.reg = t.reg
            /\ \/ pc[h] = "resolve" /\ pc'[h] = "publish"
               \/ pc[h] = "resolve_late" /\ pc'[h] = "publish_late"
         \/ /\ r.resolved /\ ~r.resolving /\ r.reg = IF t.finished /\ t.phases = 0 THEN "terminal" ELSE t.reg
            /\ \/ pc[h] = "publish" /\ pc'[h] = "finishing"
               \/ pc[h] = "publish_late" /\ pc'[h] = "refinishing"
  <2>1. CASE HandlerResolves(h)
    <3>1. CASE t.resolved /\ UNCHANGED token
      BY <2>1, <3>1 DEF HandlerResolves, SetPc, AfterResolution, ClaimsResolution, SameMarks
    <3>2. CASE ~(t.resolved /\ UNCHANGED token)
      <4> DEFINE q == [t EXCEPT !.resolving = TRUE]
      <4>1. /\ SameMarks(t, q) /\ q.finished = t.finished /\ q.phases = t.phases /\ q.cancel = t.cancel
            /\ q.reg = t.reg /\ q.resolving /\ q.resolved = t.resolved
        BY ClaimedResolution
      <4>2. r = q /\ ~t.resolving /\ ~t.resolved
        BY <2>1, <3>2 DEF HandlerResolves, SetToken, ClaimsResolution
      <4>3. \/ pc[h] = "resolve" /\ pc'[h] = "publish"
            \/ pc[h] = "resolve_late" /\ pc'[h] = "publish_late"
        BY <2>1, <3>2 DEF HandlerResolves, SetPc
      <4> HIDE DEF q
      <4> QED BY <4>1, <4>2, <4>3 DEF SameMarks
    <3> QED BY <3>1, <3>2
  <2>2. CASE HandlerPublishes(h)
    BY <2>2, PublishedResolution DEF HandlerPublishes, SetToken, SetPc
  <2> QED BY <2>1, <2>2
<1>4. OthersKept(h)
  BY DEF HandlerResolves, HandlerPublishes, SetToken, SetPc, OthersKept, cancelVars
<1>5. Owns(h)'
  BY <1>3 DEF Owns
<1>6. TokenAdvances(h)
  <2>1. TokenInOrder(r) /\ r.reg # "none"
    BY <1>3 DEF TokenInOrder, TokenAgrees, SameMarks
  <2>2. Publishes(h)' => r.resolving /\ (Publishes(h) \/ ~t.resolving)
    BY <1>2, <1>3 DEF Publishes, Publishing, TokenInOrder
  <2>3. t.resolving /\ ~Publishes(h) => r.resolving
    BY <1>3 DEF Publishes, Publishing
  <2> QED BY <1>3, <2>1, <2>2, <2>3 DEF TokenAdvances
<1>7. CallableInOrder(h)' /\ PhaseCounted(h)'
  BY <1>2, <1>3 DEF CallableInOrder, PhaseCounted, Open, SameMarks, PastError, Finished
<1>8. TokenAgrees(h)'
  BY <1>2, <1>3 DEF TokenAgrees, SameMarks, PastError, Finished
<1>9. AnswerAgrees(h)'
  BY <1>2, <1>3 DEF AnswerAgrees, SameMarks
<1>10. ~(Publishing(h) /\ unit[h].cb = "publish")'
  BY <1>2, <1>3 DEF Publishing, Publishes
<1> QED BY <1>1, <1>4, <1>5, <1>6, <1>7, <1>8, <1>9, <1>10 DEF Advance, Life

\* finish_handler retires the token, or leaves it to whoever has still to act.
LEMMA FinishAdvances ==
    ASSUME IInv, NEW h \in Handlers, Finish(h)
    PROVE  Advance(h)
<1> DEFINE t == token[SessionOf[h]]
           r == token'[SessionOf[h]]
<1>1. Owns(h)
  BY DEF Finish, Owns
<1> USE OwnersRow, <1>1
<1>2. UNCHANGED <<unit, answer, cancelVars>> /\ pc[h] = "finishing"
  BY DEF Finish
<1>3. t.reg = "active" /\ ~t.finished
  BY <1>2 DEF TokenInOrder, TokenAgrees, Finished, TokenShape
<1>4. /\ SameMarks(t, r) /\ SameResolution(t, r) /\ r.phases = t.phases /\ r.finished
      /\ r.reg = IF t.phases = 0 /\ (t.cancel => t.resolved) THEN "terminal" ELSE "active"
      /\ \/ ~t.cancel /\ pc'[h] = "completing" /\ result'[h] = result[h]
         \/ /\ t.cancel /\ pc'[h] = (IF t.resolved THEN "refinishing" ELSE "resolve_late")
            /\ result'[h] = CancelledCode(r)
  <2> DEFINE failed == result[h] \notin {"ok", "outcome_uncertain"}
             q == FinishHandler(t, failed)
  <2>1. failed \in BOOLEAN
    OBVIOUS
  <2>2. r = q
    BY DEF Finish, SetToken
  <2>3. /\ SameMarks(t, q) /\ SameResolution(t, q) /\ q.phases = t.phases /\ q.finished
        /\ q.reg = IF t.phases = 0 /\ (t.cancel => t.resolved) THEN "terminal" ELSE "active"
    <3> HIDE DEF failed
    <3> QED BY <1>3, <2>1, FinishedHandler
  <2>4. \/ ~q.cancel /\ pc'[h] = "completing" /\ result'[h] = result[h]
        \/ /\ q.cancel /\ pc'[h] = (IF q.resolved THEN "refinishing" ELSE "resolve_late")
           /\ result'[h] = CancelledCode(q)
    <3>1. \/ ~q.cancel /\ SetPc(h, "completing") /\ UNCHANGED result
          \/ /\ q.cancel /\ SetResult(h, CancelledCode(q))
             /\ SetPc(h, IF q.resolved THEN "refinishing" ELSE "resolve_late")
      BY DEF Finish, GateShut
    <3> HIDE DEF q
    <3> QED BY <3>1 DEF SetPc, SetResult
  <2> HIDE DEF q
  <2> QED BY <2>2, <2>3, <2>4 DEF SameResolution
<1>5. OthersKept(h)
  BY DEF Finish, SetToken, SetPc, SetResult, OthersKept, cancelVars
<1>6. Owns(h)' /\ ~Publishing(h) /\ ~Publishing(h)'
  BY <1>2, <1>4 DEF Owns, Publishing
<1>7. TokenAdvances(h)
  BY <1>2, <1>4, <1>6 DEF TokenAdvances, Publishes, Publishing, TokenInOrder, SameMarks,
        SameResolution
<1>8. CallableInOrder(h)' /\ PhaseCounted(h)'
  BY <1>2, <1>4 DEF CallableInOrder, PhaseCounted, Open, SameMarks, PastError, Finished
<1>9. TokenAgrees(h)'
  BY <1>2, <1>4 DEF TokenAgrees, SameMarks, SameResolution, PastError, Finished, CancelledCode
<1>10. AnswerAgrees(h)'
  <2>1. CASE ~t.cancel
    <3>1. result[h] = "ok" => r.reg = "terminal"
      BY <1>2, <1>4, <2>1 DEF PhaseCounted, Open, TokenAgrees
    <3> QED BY <1>2, <1>4, <2>1, <3>1 DEF AnswerAgrees, SameMarks, SameResolution
  <2>2. CASE t.cancel
    <3>1. /\ result'[h] \in {"cancelled", "cancelled_mutated"}
          /\ result'[h] = "cancelled" => ~r.mutated
      BY <1>4, <2>2 DEF CancelledCode
    <3> QED BY <1>2, <1>3, <1>4, <2>2, <3>1 DEF AnswerAgrees, SameMarks, SameResolution
  <2> QED BY <2>1, <2>2
<1> QED BY <1>1, <1>5, <1>6, <1>7, <1>8, <1>9, <1>10 DEF Advance, Life

\* The second finish_handler, after a late resolution.
LEMMA RefinishAdvances ==
    ASSUME IInv, NEW h \in Handlers, Refinish(h)
    PROVE  Advance(h)
<1> DEFINE t == token[SessionOf[h]]
           r == token'[SessionOf[h]]
<1>1. Owns(h)
  BY DEF Refinish, Owns
<1> USE OwnersRow, <1>1
<1>2. UNCHANGED <<unit, result, answer, cancelVars>> /\ pc[h] = "refinishing" /\ pc'[h] = "completing"
  BY DEF Refinish, SetPc
<1>3. t.finished
  BY <1>2 DEF TokenAgrees, Finished
<1>4. /\ SameMarks(t, r) /\ SameResolution(t, r) /\ r.phases = t.phases /\ r.finished
      /\ r.reg = IF t.reg = "terminal" \/ (t.phases = 0 /\ (t.cancel => t.resolved))
                 THEN "terminal" ELSE "active"
  <2> DEFINE failed == TRUE
             q == FinishHandler(t, failed)
  <2>1. r = q /\ failed \in BOOLEAN
    BY DEF Refinish, SetToken
  <2> HIDE DEF failed
  <2>2. CASE t.reg = "active"
    <3>1. /\ SameMarks(t, q) /\ SameResolution(t, q) /\ q.phases = t.phases /\ q.finished
          /\ q.reg = IF t.phases = 0 /\ (t.cancel => t.resolved) THEN "terminal" ELSE "active"
      BY <2>1, <2>2, FinishedHandler
    <3> HIDE DEF q
    <3> QED BY <2>1, <2>2, <3>1
  <2>3. CASE t.reg = "terminal"
    <3>1. q = t
      BY <2>1, <2>3, FinishedHandler
    <3> QED BY <1>3, <2>1, <2>3, <3>1 DEF SameMarks, SameResolution
  <2> QED BY <2>2, <2>3 DEF TokenShape
<1>5. OthersKept(h)
  BY DEF Refinish, SetToken, SetPc, OthersKept, cancelVars
<1>6. Owns(h)' /\ ~Publishing(h) /\ ~Publishing(h)'
  BY <1>2 DEF Owns, Publishing
<1>7. TokenAdvances(h)
  BY <1>2, <1>4, <1>6 DEF TokenAdvances, Publishes, Publishing, TokenInOrder, SameMarks,
        SameResolution
<1>8. CallableInOrder(h)' /\ PhaseCounted(h)'
  BY <1>2, <1>4 DEF CallableInOrder, PhaseCounted, Open, SameMarks, PastError, Finished
<1>9. TokenAgrees(h)' /\ AnswerAgrees(h)'
  BY <1>2, <1>4 DEF TokenAgrees, AnswerAgrees, SameMarks, SameResolution, PastError, Finished
<1> QED BY <1>1, <1>5, <1>6, <1>7, <1>8, <1>9 DEF Advance, Life

\* record_completion.
LEMMA CallbackBeginsAdvances ==
    ASSUME IInv, NEW h \in Handlers, CallbackBegins(h)
    PROVE  Advance(h)
<1> DEFINE t == token[SessionOf[h]]
           r == token'[SessionOf[h]]
<1>1. Owns(h)
  BY DEF IInv, Owners, NoUnit, CallbackBegins
<1> USE OwnersRow, <1>1
<1>2. UNCHANGED <<handlerVars, cancelVars>> /\ unit[h].cb = "due"
  BY DEF CallbackBegins
<1>3. /\ SameMarks(t, r) /\ SameResolution(t, r) /\ r.finished = t.finished
      /\ \/ t.reg = "terminal" /\ r = t
         \/ /\ t.reg = "active" /\ r.phases = (IF t.phases > 0 THEN t.phases - 1 ELSE 0)
            /\ r.reg = IF t.finished /\ r.phases = 0 /\ (t.cancel => t.resolved)
                       THEN "terminal" ELSE "active"
  <2> DEFINE q == EndGuiPhase(t)
  <2>1. r = q
    BY DEF CallbackBegins, SetToken
  <2>2. /\ SameMarks(t, q) /\ SameResolution(t, q) /\ q.finished = t.finished
        /\ t.reg = "active" =>
             /\ q.phases = IF t.phases > 0 THEN t.phases - 1 ELSE 0
             /\ q.reg = IF t.finished /\ q.phases = 0 /\ (t.cancel => t.resolved)
                        THEN "terminal" ELSE "active"
        /\ t.reg # "active" => q = t
    BY EndedPhase
  <2> HIDE DEF q
  <2> QED BY <2>1, <2>2 DEF TokenShape
<1>4. /\ unit'[h].state = unit[h].state /\ unit'[h].unwoken = unit[h].unwoken
      /\ unit'[h].late = unit[h].late /\ unit'[h].phase = unit[h].phase
      /\ unit'[h].cb \in {"journal", "recover", "resolve"}
      /\ unit'[h].cb # "recover" => ~(t.reg = "active" /\ r.incident)
      /\ unit'[h].cb = "resolve" => r.cancel
  <2> DEFINE b == IF t.reg # "active" THEN "journal" ELSE IF r.incident THEN "recover" ELSE OnCancel(r)
             k == IF t.reg = "active" THEN r ELSE NoToken
  <2>1. unit' = [unit EXCEPT ![h] = [unit[h] EXCEPT !.cs = k, !.cb = b]]
    BY DEF CallbackBegins, SetToken, SetUnit
  <2>2. /\ b \in {"journal", "recover", "resolve"}
        /\ b # "recover" => ~(t.reg = "active" /\ r.incident)
        /\ b = "resolve" => r.cancel
    BY DEF OnCancel
  <2> HIDE DEF b, k
  <2> QED BY <2>1, <2>2 DEF UnitShape
<1>5. OthersKept(h)
  BY DEF CallbackBegins, SetToken, SetUnit, OthersKept, cancelVars, handlerVars
<1>6. Owns(h)' /\ (Publishing(h)' <=> Publishing(h)) /\ unit'[h].cb # "publish"
  BY <1>2, <1>4 DEF Owns, Publishing, handlerVars
<1>7. TokenAdvances(h)
  BY <1>2, <1>3, <1>6 DEF TokenAdvances, Publishes, TokenInOrder, SameMarks, SameResolution
<1>8. t.phases = IF Open(h) THEN 1 ELSE 0
  BY <1>2 DEF PhaseCounted, CallableInOrder
<1>9. unit[h].state \notin {"none", "queued", "running", "timed_out_running"} /\ pc[h] # "registered"
  BY <1>2 DEF CallableInOrder, NoUnit
<1>10. CallableInOrder(h)'
  BY <1>2, <1>4, <1>9 DEF handlerVars, CallableInOrder
<1>11. PhaseCounted(h)'
  BY <1>2, <1>3, <1>4, <1>8, <1>9 DEF handlerVars, PhaseCounted, Open, TokenInOrder, CallableInOrder
<1>12. TokenAgrees(h)'
  BY <1>2, <1>3, <1>4 DEF handlerVars, TokenAgrees, TokenInOrder, SameMarks, SameResolution,
     PhaseCounted, Open
<1>13. AnswerAgrees(h)'
  BY <1>2, <1>3 DEF handlerVars, AnswerAgrees, SameMarks, SameResolution
<1> QED BY <1>1, <1>5, <1>6, <1>7, <1>10, <1>11, <1>12, <1>13 DEF Advance, Life

\* The later steps of a completion callback.
LEMMA CallbackAdvances ==
    ASSUME IInv, NEW h \in Handlers,
           \/ CallbackRecovers(h) \/ CallbackResolves(h) \/ CallbackPublishes(h)
           \/ CallbackRefreshes(h) \/ CallbackJournals(h)
    PROVE  Advance(h)
<1> DEFINE t == token[SessionOf[h]]
           r == token'[SessionOf[h]]
<1>1. Owns(h)
  <2>1. unit[h].cb # "idle"
    BY DEF CallbackRecovers, CallbackResolves, CallbackPublishes, CallbackRefreshes,
          CallbackJournals
  <2> QED BY <2>1 DEF IInv, Owners, NoUnit
<1> USE OwnersRow, <1>1
<1>2. UNCHANGED <<handlerVars, cancelVars>>
  BY DEF CallbackRecovers, CallbackResolves, CallbackPublishes, CallbackRefreshes, CallbackJournals
<1>3. /\ unit'[h].state = unit[h].state /\ unit'[h].unwoken = unit[h].unwoken
      /\ unit'[h].late = unit[h].late /\ unit'[h].phase = unit[h].phase
      /\ \/ /\ unit[h].cb = "recover" /\ unit'[h].cb = OnCancel(r)
            /\ r = [t EXCEPT !.uncertain = FALSE]
         \/ unit[h].cb = "resolve" /\ unit'[h].cb = "refresh" /\ t.resolved /\ r = t
         \/ /\ unit[h].cb = "resolve" /\ unit'[h].cb = "publish"
            /\ ~t.resolving /\ ~t.resolved /\ r = [t EXCEPT !.resolving = TRUE]
         \/ unit[h].cb = "publish" /\ unit'[h].cb = "refresh" /\ r = PublishResolution(t)
         \/ unit[h].cb = "refresh" /\ unit'[h].cb = "journal" /\ r = t
         \/ unit[h].cb = "journal" /\ unit'[h].cb = "over" /\ r = t
  <2>1. CASE CallbackRecovers(h)
    <3> DEFINE q == [t EXCEPT !.uncertain = FALSE]
               b == OnCancel(q)
    <3>1. unit' = [unit EXCEPT ![h] = [unit[h] EXCEPT !.cs = q, !.cb = b]] /\ r = q
      BY <2>1 DEF CallbackRecovers, SetToken, SetUnit
    <3>2. unit[h].cb = "recover" /\ b = OnCancel(q)
      BY <2>1 DEF CallbackRecovers
    <3> HIDE DEF q, b
    <3>3. unit[h].cb = "recover" /\ unit'[h].cb = OnCancel(r) /\ r = q
      BY <3>1, <3>2 DEF UnitShape
    <3>4. /\ unit'[h].state = unit[h].state /\ unit'[h].unwoken = unit[h].unwoken
          /\ unit'[h].late = unit[h].late /\ unit'[h].phase = unit[h].phase
      BY <3>1 DEF UnitShape
    <3> QED BY <3>3, <3>4 DEF q
  <2>2. CASE CallbackResolves(h)
    <3> DEFINE q == [t EXCEPT !.resolving = TRUE]
    <3>1. \/ t.resolved /\ unit' = [unit EXCEPT ![h] = [unit[h] EXCEPT !.cb = "refresh"]] /\ r = t
          \/ /\ unit' = [unit EXCEPT ![h] = [unit[h] EXCEPT !.cb = "publish"]]
             /\ ~t.resolving /\ ~t.resolved /\ r = q
      BY <2>2 DEF CallbackResolves, SetToken, SetUnit, ClaimsResolution
    <3>2. unit[h].cb = "resolve"
      BY <2>2 DEF CallbackResolves
    <3> HIDE DEF q
    <3>3. /\ unit'[h].state = unit[h].state /\ unit'[h].unwoken = unit[h].unwoken
          /\ unit'[h].late = unit[h].late /\ unit'[h].phase = unit[h].phase
          /\ \/ t.resolved /\ unit'[h].cb = "refresh" /\ r = t
             \/ unit'[h].cb = "publish" /\ ~t.resolving /\ ~t.resolved /\ r = q
      BY <3>1 DEF UnitShape
    <3> QED BY <3>2, <3>3 DEF q
  <2>3. CASE CallbackPublishes(h)
    <3>1. r = PublishResolution(t) /\ unit[h].cb = "publish"
      BY <2>3 DEF CallbackPublishes, SetToken
    <3>2. unit'[h] = [unit[h] EXCEPT !.cb = "refresh"]
      BY <2>3 DEF CallbackPublishes, SetUnit
    <3> QED BY <3>1, <3>2 DEF UnitShape
  <2>4. CASE CallbackRefreshes(h)
    BY <2>4 DEF CallbackRefreshes, SetUnit, UnitShape
  <2>5. CASE CallbackJournals(h)
    BY <2>5 DEF CallbackJournals, SetUnit, UnitShape
  <2> QED BY <2>1, <2>2, <2>3, <2>4, <2>5
<1>4. OthersKept(h)
  BY DEF CallbackRecovers, CallbackResolves, CallbackPublishes, CallbackRefreshes, CallbackJournals,
     SetToken, SetUnit, OthersKept, cancelVars, handlerVars
<1>5. Owns(h)' /\ (Publishing(h)' <=> Publishing(h))
  BY <1>2 DEF Owns, Publishing, handlerVars
<1>6. unit[h].state \notin {"none", "queued", "running", "timed_out_running"} /\ pc[h] # "registered"
  BY <1>3 DEF CallableInOrder, NoUnit
<1>7. /\ unit[h].cb \notin {"idle", "due"} /\ unit'[h].cb \notin {"idle", "due"}
      /\ unit'[h].cb # unit[h].cb /\ unit'[h].cb \in {"resolve", "refresh", "publish", "journal", "over"}
      /\ unit'[h].cb = "over" \/ unit[h].cb # "journal"
  BY <1>3 DEF OnCancel
<1>8. CallableInOrder(h)'
  <2>1. pc[h] \notin {"dispatched", "opened"}
    BY <1>3, <1>6 DEF CallableInOrder
  <2>2. r.incident = t.incident
    BY <1>3, PublishedResolution DEF SameMarks, TokenShape
  <2> QED BY <1>2, <1>3, <1>6, <1>7, <2>1, <2>2 DEF handlerVars, CallableInOrder
<1>9. /\ r.finished = t.finished /\ r.phases = t.phases /\ r.incident = t.incident
      /\ r.mutated = t.mutated /\ r.cancel = t.cancel /\ r.reg \in {t.reg, "terminal"}
      /\ r.uncertain = (t.uncertain /\ unit[h].cb # "recover")
      /\ \/ r.reg = t.reg /\ r.resolved = t.resolved /\ r.resolving = t.resolving /\ unit'[h].cb # "publish"
            /\ unit[h].cb # "publish"
         \/ /\ unit[h].cb = "resolve" /\ unit'[h].cb = "publish" /\ r.reg = t.reg
            /\ ~t.resolving /\ ~t.resolved /\ r.resolving /\ ~r.resolved
         \/ /\ unit[h].cb = "publish" /\ unit'[h].cb = "refresh" /\ r.resolved /\ ~r.resolving
            /\ r.reg = IF t.finished /\ t.phases = 0 THEN "terminal" ELSE t.reg
  <2>1. CASE unit[h].cb = "recover"
    BY ZenonT(40), <1>3, <2>1 DEF TokenShape, OnCancel
  <2>2. CASE unit[h].cb = "publish"
    BY <1>3, <2>2, PublishedResolution DEF SameMarks, TokenAgrees, TokenShape
  <2>3. CASE unit[h].cb = "resolve" /\ r # t
    BY <1>3, <2>3 DEF TokenShape
  <2>4. CASE r = t /\ unit[h].cb \in {"resolve", "refresh", "journal"}
    BY <1>3, <2>4 DEF TokenAgrees, TokenShape
  <2> QED BY <1>3, <2>1, <2>2, <2>3, <2>4
<1>10. TokenAdvances(h)
  <2>1. TokenInOrder(r) /\ r.reg # "none"
    BY <1>9 DEF TokenInOrder, TokenAgrees
  <2>2. Publishes(h)' => r.resolving /\ (Publishes(h) \/ ~t.resolving)
    BY <1>5, <1>9 DEF Publishes, TokenInOrder
  <2>3. t.resolving /\ ~Publishes(h) => r.resolving
    BY <1>9 DEF Publishes
  <2> QED BY <1>9, <2>1, <2>2, <2>3 DEF TokenAdvances
<1>11. PhaseCounted(h)'
  BY <1>2, <1>7, <1>9 DEF handlerVars, PhaseCounted, Open
<1>12. TokenAgrees(h)'
  BY <1>2, <1>3, <1>7, <1>9 DEF handlerVars, TokenAgrees, OnCancel
<1>13. AnswerAgrees(h)'
  BY <1>2, <1>9 DEF handlerVars, AnswerAgrees
<1>14. ~(Publishing(h) /\ unit[h].cb = "publish")'
  BY <1>5, <1>9 DEF Publishes
<1> QED BY <1>1, <1>4, <1>5, <1>8, <1>10, <1>11, <1>12, <1>13, <1>14 DEF Advance, Life

-----------------------------------------------------------------------------
(* Steps of the cancellers, and of those that touch no token.               *)

\* All that a canceller may do to a token: mark it, resolve it, retire it.
Milder(t, r) ==
    /\ SameMarks(t, r) /\ r.finished = t.finished /\ r.phases = t.phases
    /\ t.cancel => r.cancel
    /\ r.reg = t.reg \/ (t.reg # "none" /\ r.reg = "terminal")
    /\ t.reg = "none" => r = t
    /\ t.reg = "terminal" => r.cancel = t.cancel
    /\ TokenInOrder(r)
HandlersKept ==
    /\ UNCHANGED <<pc, result, answer, unit>>
    /\ \A s \in Sessions : Milder(token[s], token'[s])
    /\ \A c \in Cancellers : cpc'[c] \notin {"idle", "over"} => token'[CancelIn[c]].reg # "none"

\* Such a step keeps the inductive invariant once the claims and the answers to the
\* cancellers are in order.
LEMMA KeptKeeps ==
    ASSUME IInv, Shape', HandlersKept, Resolution', Informed'
    PROVE  IInv'
<1>1. \A h \in Handlers : SessionOf[h] \in Sessions /\ (Owns(h)' <=> Owns(h))
  BY ActorAssumption DEF HandlersKept, Owns
<1>2. UNCHANGED <<pc, result, answer, unit>>
  BY DEF HandlersKept
<1>3. Owners'
  <2>1. \A h \in Handlers : Owns(h)' => token'[SessionOf[h]].reg # "none"
    BY <1>1 DEF HandlersKept, Milder, IInv, Owners
  <2>2. \A s \in Sessions : token'[s].reg # "none" => \E h \in Handlers : Owns(h)' /\ SessionOf[h] = s
    BY <1>1 DEF HandlersKept, Milder, IInv, Owners
  <2>3. \A s \in Sessions : token'[s].reg = "none" => token'[s] = NoToken
    BY DEF HandlersKept, Milder, IInv, Owners
  <2> QED BY <1>1, <1>2, <2>1, <2>2, <2>3 DEF HandlersKept, IInv, Owners
<1>4. ASSUME NEW h \in Handlers PROVE Life(h)'
  <2> DEFINE t == token[SessionOf[h]]
             r == token'[SessionOf[h]]
  <2>1. SUFFICES ASSUME Owns(h)
                 PROVE  (CallableInOrder(h) /\ PhaseCounted(h) /\ TokenAgrees(h) /\ AnswerAgrees(h))'
    BY <1>1 DEF Life
  <2> USE OwnersRow, <2>1
  <2>2. Milder(t, r) /\ t \in TokenShape /\ r \in TokenShape
    BY <1>1 DEF HandlersKept, Shape
  <2>3. CallableInOrder(h)' /\ PhaseCounted(h)'
    BY <1>2, <2>2 DEF CallableInOrder, PhaseCounted, Open, Milder, SameMarks
  <2>4. TokenAgrees(h)' /\ AnswerAgrees(h)'
    BY <1>2, <2>2 DEF TokenAgrees, AnswerAgrees, Milder, SameMarks
  <2> QED BY <2>3, <2>4
<1>5. \A s \in Sessions : TokenInOrder(token[s])'
  BY DEF HandlersKept, Milder
<1> QED BY <1>3, <1>4, <1>5 DEF IInv

\* Steps that leave tokens, handlers and callables alone.
LEMMA StillKeeps ==
    ASSUME IInv, Shape', UNCHANGED <<pc, result, answer, unit, token, told>>,
           \A c \in Cancellers : /\ cpc'[c] = "publish" => cpc[c] = "publish"
                                 /\ cpc[c] \in {"idle", "over"} => cpc'[c] \in {"idle", "over"}
    PROVE  IInv'
<1>1. \A s \in Sessions : Milder(token[s], token'[s])
  BY DEF Milder, SameMarks, IInv
<1>2. \A c \in Cancellers : cpc[c] \notin {"idle", "over"} => token[CancelIn[c]].reg # "none"
  BY DEF IInv, Owners
<1>2a. HandlersKept
  BY <1>1, <1>2 DEF HandlersKept
<1>3. Resolution'
  BY DEF IInv, Resolution, Publishing
<1>4. Informed'
  BY DEF IInv, Informed
<1> QED BY <1>2a, <1>3, <1>4, KeptKeeps

\* A requested cancellation leaves a token in order.
LEMMA RequestMilder ==
    ASSUME NEW t \in TokenShape, TokenInOrder(t)
    PROVE  /\ Milder(t, RequestCancel(t))
           /\ RequestCancel(t).resolving = t.resolving /\ RequestCancel(t).reg = t.reg
           /\ t.reg = "active" => RequestCancel(t).cancel
<1> DEFINE r == RequestCancel(t)
<1>1. /\ r \in TokenShape /\ SameMarks(t, r)
      /\ r.resolving = t.resolving /\ r.resolved = t.resolved
      /\ r.finished = t.finished /\ r.reg = t.reg /\ r.phases = t.phases
      /\ t.reg = "active" => r.cancel
      /\ t.reg # "active" => r = t
  BY RequestedCancel
<1> HIDE DEF r
<1>2. CASE t.reg = "active"
  <2>1. TokenInOrder(r)
    BY <1>1, <1>2 DEF TokenInOrder, SameMarks
  <2>2. Milder(t, r)
    BY <1>1, <1>2, <2>1 DEF Milder
  <2> QED BY <1>1, <1>2, <2>2 DEF r
<1>3. CASE t.reg # "active"
  <2>1. r = t
    BY <1>1, <1>3
  <2>2. Milder(t, t)
    BY <1>1, <1>3 DEF Milder, SameMarks
  <2> QED BY <1>1, <1>3, <2>1, <2>2 DEF r
<1> QED BY <1>2, <1>3

\* cancel_request marks the token it looked up and withdraws nothing yet.
LEMMA CancelRequestKeeps ==
    ASSUME IInv, Shape', NEW c \in Cancellers, CancelRequest(c)
    PROVE  IInv'
<1> DEFINE s == CancelIn[c]
           t == token[s]
           r == RequestCancel(t)
<1>1. s \in Sessions /\ t \in TokenShape /\ token \in [Sessions -> TokenShape] /\ TokenInOrder(t)
      /\ cpc \in [Cancellers -> CancellerPcs]
      /\ told \in [Cancellers -> {"none", "unknown", "completed", "already", "requested"}]
  BY ActorAssumption DEF IInv, Shape
<1>2. /\ r \in TokenShape /\ SameMarks(t, r)
      /\ r.resolving = t.resolving /\ r.resolved = t.resolved
      /\ r.finished = t.finished /\ r.reg = t.reg /\ r.phases = t.phases
      /\ t.reg = "active" => r.cancel
      /\ t.reg # "active" => r = t
  BY <1>1, RequestedCancel
<1>3. /\ token' = [token EXCEPT ![s] = r] /\ UNCHANGED <<pc, result, answer, unit>>
      /\ cpc' = [cpc EXCEPT ![c] = IF t.reg = "none" THEN "over" ELSE "in_gui"]
      /\ \E status : /\ told' = [told EXCEPT ![c] = status]
                     /\ (status = "requested" => t.reg \notin {"none", "terminal"})
  <2> DEFINE status == CASE t.reg = "none"     -> "unknown"
                         [] t.reg = "terminal" -> "completed"
                         [] t.reg = "active" /\ t.cancel -> "already"
                         [] OTHER              -> "requested"
  <2>1. told' = [told EXCEPT ![c] = status]
    BY DEF CancelRequest
  <2>2. status = "requested" => t.reg \notin {"none", "terminal"}
    OBVIOUS
  <2> HIDE DEF status
  <2> QED BY <2>1, <2>2 DEF CancelRequest, SetToken, SetCpc, handlerVars
<1> HIDE DEF r
<1>4. TokenInOrder(r) /\ Milder(t, r) /\ (t.cancel => r.cancel)
  <2>1. Milder(t, r)
    BY <1>1, RequestMilder DEF r
  <2> QED BY <2>1 DEF Milder
<1>5. \A q \in Sessions \ {s} : token'[q] = token[q] /\ Milder(token[q], token[q])
  BY <1>1, <1>3 DEF IInv, Milder, SameMarks
<1>6. token'[s] = r /\ r.reg = t.reg
  BY <1>1, <1>2, <1>3
<1>7. \A d \in Cancellers : CancelIn[d] \in Sessions
  BY ActorAssumption
<1>8. HandlersKept
  <2>1. \A q \in Sessions : Milder(token[q], token'[q])
    BY <1>4, <1>5, <1>6
  <2>2. \A d \in Cancellers : cpc'[d] \notin {"idle", "over"} => token'[CancelIn[d]].reg # "none"
    BY <1>1, <1>3, <1>5, <1>6, <1>7 DEF IInv, Owners
  <2> QED BY <1>3, <2>1, <2>2 DEF HandlersKept
<1>9. Resolution'
  <2>1. \A q \in Sessions : token'[q].resolving = token[q].resolving
    BY <1>2, <1>5, <1>6
  <2>2. \A d \in Cancellers : cpc'[d] = "publish" => cpc[d] = "publish"
    BY <1>1, <1>3
  <2>3. \A h \in Handlers : SessionOf[h] \in Sessions
    BY ActorAssumption
  <2> QED BY <1>3, <1>7, <2>1, <2>2, <2>3 DEF IInv, Resolution, Publishing
<1>10. Informed'
  <2>1. \A q \in Sessions : token[q].cancel => token'[q].cancel
    BY <1>4, <1>5, <1>6
  <2>2. told'[c] = "requested" => token'[s].cancel
    BY <1>1, <1>2, <1>3, <1>6 DEF TokenShape
  <2>3. \A d \in Cancellers \ {c} : told'[d] = told[d]
    BY <1>1, <1>3
  <2> QED BY <1>7, <2>1, <2>2, <2>3 DEF IInv, Informed
<1> QED BY <1>8, <1>9, <1>10, KeptKeeps

\* Shutdown marks every live token at once.
LEMMA CancelAllKeeps ==
    ASSUME IInv, Shape', CancelAll
    PROVE  IInv'
<1>1. \A s \in Sessions : /\ token[s] \in TokenShape /\ TokenInOrder(token[s])
                          /\ token'[s] = RequestCancel(token[s])
  BY DEF IInv, Shape, CancelAll
<1>2. UNCHANGED <<pc, result, answer, unit, told, cpc>>
  BY DEF CancelAll, handlerVars, cancelVars
<1>3. \A s \in Sessions : /\ Milder(token[s], token'[s])
                          /\ token'[s].resolving = token[s].resolving /\ token'[s].reg = token[s].reg
                          /\ token[s].cancel => token'[s].cancel
  <2> TAKE s \in Sessions
  <2> DEFINE t == token[s]
             r == RequestCancel(t)
  <2>1. /\ Milder(t, r)
        /\ r.resolving = t.resolving /\ r.reg = t.reg
    BY <1>1, RequestMilder
  <2>2. token'[s] = r
    BY <1>1
  <2> HIDE DEF r, t
  <2> QED BY <2>1, <2>2 DEF Milder, t
<1>4. \A c \in Cancellers : CancelIn[c] \in Sessions
  BY ActorAssumption
<1>5. \A h \in Handlers : SessionOf[h] \in Sessions
  BY ActorAssumption
<1>6. HandlersKept
  BY <1>2, <1>3, <1>4 DEF HandlersKept, IInv, Owners
<1>7. Resolution'
  BY <1>2, <1>3, <1>4, <1>5 DEF IInv, Resolution, Publishing
<1>8. Informed'
  BY <1>2, <1>3, <1>4 DEF IInv, Informed
<1> QED BY <1>6, <1>7, <1>8, KeptKeeps

\* A canceller claims a resolution only if no other thread holds it, then publishes.
LEMMA CancelResolutionKeeps ==
    ASSUME IInv, Shape', NEW c \in Cancellers, CancelResolves(c) \/ CancelPublishes(c)
    PROVE  IInv'
<1> DEFINE s == CancelIn[c]
           t == token[s]
           r == token'[s]
<1>1. s \in Sessions /\ t \in TokenShape /\ token \in [Sessions -> TokenShape] /\ TokenInOrder(t)
      /\ cpc \in [Cancellers -> CancellerPcs]
  BY ActorAssumption DEF IInv, Shape
<1>2. t.reg # "none" /\ (cpc[c] = "publish" => t.resolving)
  BY DEF CancelResolves, CancelPublishes, IInv, Owners, Resolution
<1>3. /\ UNCHANGED <<pc, result, answer, unit, told>>
      /\ \A q \in Sessions \ {s} : token'[q] = token[q]
      /\ \A d \in Cancellers \ {c} : cpc'[d] = cpc[d]
  BY <1>1 DEF CancelResolves, CancelPublishes, SetToken, SetCpc, handlerVars
<1>4. \/ /\ r = t /\ cpc[c] = "resolve" /\ cpc'[c] = "over"
      \/ /\ cpc[c] = "resolve" /\ cpc'[c] = "publish" /\ t.cancel /\ ~t.resolving /\ ~t.resolved
         /\ r = [t EXCEPT !.resolving = TRUE]
      \/ /\ cpc[c] = "publish" /\ cpc'[c] = "over" /\ r = PublishResolution(t)
  BY <1>1 DEF CancelResolves, CancelPublishes, SetToken, SetCpc, ClaimsResolution
<1>5. Milder(t, r) /\ r.reg # "none" /\ r.cancel = t.cancel
      /\ r.resolving = IF cpc'[c] = "publish" THEN TRUE ELSE t.resolving /\ cpc[c] # "publish"
  <2>1. CASE r = t /\ cpc[c] = "resolve" /\ cpc'[c] = "over"
    BY <1>1, <1>2, <2>1 DEF Milder, SameMarks, TokenShape
  <2>2. CASE r = [t EXCEPT !.resolving = TRUE] /\ cpc'[c] = "publish" /\ t.cancel /\ ~t.resolved
    <3> DEFINE q == [t EXCEPT !.resolving = TRUE]
    <3>1. /\ SameMarks(t, q) /\ q.finished = t.finished /\ q.phases = t.phases /\ q.cancel = t.cancel
          /\ q.reg = t.reg /\ q.resolving /\ q.resolved = t.resolved
      BY <1>1, ClaimedResolution
    <3> HIDE DEF q
    <3>3. TokenInOrder(q)
      BY <1>1, <2>2, <3>1 DEF TokenInOrder, SameMarks
    <3> QED BY <1>2, <2>2, <3>1, <3>3 DEF Milder, q
  <2>3. CASE r = PublishResolution(t) /\ cpc[c] = "publish" /\ cpc'[c] = "over"
    <3> DEFINE q == PublishResolution(t)
    <3>1. /\ SameMarks(t, q) /\ q.finished = t.finished /\ q.phases = t.phases /\ q.cancel = t.cancel
          /\ q.resolved /\ ~q.resolving
          /\ q.reg = IF t.finished /\ t.phases = 0 THEN "terminal" ELSE t.reg
      BY <1>1, PublishedResolution
    <3> HIDE DEF q
    <3>2. TokenInOrder(q)
      BY <1>1, <3>1 DEF TokenInOrder, SameMarks
    <3>3. Milder(t, q)
      BY <1>1, <1>2, <3>1, <3>2 DEF Milder, TokenInOrder
    <3>4. r = q
      BY <2>3 DEF q
    <3>5. r.resolving = FALSE /\ cpc[c] = "publish" /\ cpc'[c] = "over"
      BY <2>3, <3>1, <3>4
    <3> QED BY <1>2, <3>1, <3>3, <3>4, <3>5
  <2> QED BY <1>4, <2>1, <2>2, <2>3
<1>6. \A q \in Sessions : Milder(token[q], token'[q])
  BY <1>3, <1>5 DEF Milder, SameMarks, IInv
<1>7. \A d \in Cancellers : CancelIn[d] \in Sessions
  BY ActorAssumption
<1>8. HandlersKept
  <2>1. \A d \in Cancellers : cpc'[d] \notin {"idle", "over"} => cpc[d] \notin {"idle", "over"}
    BY <1>3, <1>4
  <2>2. \A d \in Cancellers : cpc[d] \notin {"idle", "over"} => token[CancelIn[d]].reg # "none"
    BY DEF IInv, Owners
  <2> QED BY <1>3, <1>5, <1>6, <1>7, <2>1, <2>2 DEF HandlersKept
<1>9. Resolution'
  <2> DEFINE Pub(h) == Publishing(h) \/ unit[h].cb = "publish"
  <2>1. \A h \in Handlers : Pub(h)' <=> Pub(h)
    BY <1>3 DEF Publishing
  <2>2. \A h \in Handlers : SessionOf[h] \in Sessions
    BY ActorAssumption
  <2>3. cpc[c] = "publish" \/ cpc'[c] = "publish" => \A h \in Handlers : Pub(h) => SessionOf[h] # s
    BY <1>4 DEF IInv, Resolution
  <2>4. cpc[c] = "publish" \/ cpc'[c] = "publish" =>
            \A d \in Cancellers \ {c} : cpc[d] = "publish" => CancelIn[d] # s
    BY <1>4 DEF IInv, Resolution
  <2>5. \A h \in Handlers : Pub(h) => token'[SessionOf[h]].resolving
    BY <1>3, <1>5, <2>2, <2>3 DEF IInv, Resolution
  <2>6. \A d \in Cancellers : cpc'[d] = "publish" => token'[CancelIn[d]].resolving
    <3> SUFFICES ASSUME NEW d \in Cancellers, cpc'[d] = "publish"
                 PROVE  token'[CancelIn[d]].resolving
      OBVIOUS
    <3>1. CASE d = c
      BY <1>3, <1>5, <3>1
    <3>2. CASE d # c
      <4>1. cpc[d] = "publish" /\ CancelIn[d] \in Sessions /\ token[CancelIn[d]].resolving
        BY <1>3, <1>7, <3>2 DEF IInv, Resolution
      <4>2. CASE CancelIn[d] = s
        <5>1. cpc[c] # "publish" /\ cpc'[c] # "publish"
          BY <2>4, <3>2, <4>1, <4>2
        <5> QED BY <1>5, <4>1, <4>2, <5>1
      <4>3. CASE CancelIn[d] # s
        BY <1>3, <4>1, <4>3
      <4> QED BY <4>2, <4>3
    <3> QED BY <3>1, <3>2
  <2>7. \A h \in Handlers, d \in Cancellers : Pub(h) /\ cpc'[d] = "publish" => SessionOf[h] # CancelIn[d]
    BY <1>3, <2>3 DEF IInv, Resolution
  <2>8. \A d, e \in Cancellers :
            cpc'[d] = "publish" /\ cpc'[e] = "publish" /\ CancelIn[d] = CancelIn[e] => d = e
    BY <1>3, <2>4 DEF IInv, Resolution
  <2>9. \A h \in Handlers : ~(Publishing(h) /\ unit[h].cb = "publish")'
    BY <1>3 DEF IInv, Resolution, Publishing
  <2> QED BY <1>3, <2>1, <2>5, <2>6, <2>7, <2>8, <2>9 DEF Resolution
<1>10. Informed'
  BY <1>3, <1>5, <1>7 DEF IInv, Informed
<1> QED BY <1>8, <1>9, <1>10, KeptKeeps

\* A canceller that withdraws a queued callable leaves its callback due.
LEMMA CancelInGuiKeeps ==
    ASSUME IInv, Shape', NEW c \in Cancellers, CancelInGui(c) \/ CancelWithdrew(c)
    PROVE  IInv'
<1>1. cpc \in [Cancellers -> CancellerPcs] /\ cpc[c] \notin {"idle", "over"}
  BY DEF CancelInGui, CancelWithdrew, IInv, Shape
<1>2. /\ UNCHANGED <<entry, token, handlerVars, told, poll>>
      /\ \A d \in Cancellers : /\ cpc'[d] = "publish" => cpc[d] = "publish"
                               /\ cpc[d] \in {"idle", "over"} => cpc'[d] \in {"idle", "over"}
  BY <1>1 DEF CancelInGui, CancelWithdrew, SetCpc
<1>3. CASE UNCHANGED unit
  BY <1>2, <1>3, StillKeeps DEF handlerVars
<1>4. CASE ~UNCHANGED unit
  <2>2. CancelIn[c] \in Sessions /\ token[CancelIn[c]].reg # "none"
    BY <1>1, ActorAssumption DEF IInv, Owners
  <2>3. \E g \in Handlers : SessionOf[g] = CancelIn[c] /\ Owns(g)
    BY <2>2 DEF IInv, Owners
  <2>4. PICK h \in Handlers : h = Target(c) /\ Owns(h)
    BY <2>3 DEF Target
  <2>1. unit[h].state = "queued" /\ SetUnit(h, [unit[h] EXCEPT !.state = "cancelled", !.cb = "due"])
    BY <1>4, <2>4 DEF CancelInGui, CancelWithdrew
  <2> USE OwnersRow, <2>4
  <2>5. /\ unit'[h].unwoken = unit[h].unwoken /\ unit'[h].phase = unit[h].phase
        /\ unit'[h].late = unit[h].late /\ unit'[h].state = "cancelled" /\ unit'[h].cb = "due"
    BY <2>1 DEF SetUnit, UnitShape
  <2>6. OthersKept(h)
    BY <1>2, <2>1 DEF SetUnit, OthersKept, handlerVars
  <2>7. Owns(h)' /\ (Publishing(h)' <=> Publishing(h)) /\ pc[h] = "waiting" /\ unit[h].cb = "idle"
    BY <1>2, <2>1 DEF handlerVars, Owns, Publishing, CallableInOrder
  <2>8. TokenAdvances(h)
    BY <1>2, <2>5, <2>7 DEF TokenAdvances, Publishes, TokenInOrder
  <2>9. CallableInOrder(h)' /\ PhaseCounted(h)'
    BY <1>2, <2>1, <2>5, <2>7 DEF handlerVars, CallableInOrder, PhaseCounted, Open
  <2>10. TokenAgrees(h)' /\ AnswerAgrees(h)'
    BY <1>2, <2>1, <2>5, <2>7 DEF handlerVars, TokenAgrees, AnswerAgrees
  <2>11. Advance(h)
    BY <2>4, <2>5, <2>6, <2>7, <2>8, <2>9, <2>10 DEF Advance, Life
  <2> QED BY <2>4, <2>11, AdvanceKeeps
<1> QED BY <1>3, <1>4

\* Steps of a handler that owns nothing.
LEMMA ClaimKeeps ==
    ASSUME IInv, Shape', NEW h \in Handlers, Claim(h) \/ Replay(h) \/ Register(h) \/ Abandon(h)
    PROVE  IInv'
<1> DEFINE s == SessionOf[h]
<1>1. ~Owns(h) /\ pc \in [Handlers -> HandlerPcs] /\ answer \in [Handlers -> Responses] /\ s \in Sessions
  BY ActorAssumption DEF Owns, Claim, Replay, Register, Abandon, IInv, Shape
<1>2. /\ UNCHANGED <<unit, result, told, cpc>>
      /\ \A g \in Handlers \ {h} : pc'[g] = pc[g] /\ answer'[g] = answer[g]
      /\ pc'[h] \notin {"publish", "publish_late"} /\ pc[h] \notin {"publish", "publish_late"}
      /\ pc'[h] # "turned_away" => answer'[h] = answer[h] /\ pc[h] # "turned_away"
  BY <1>1 DEF Claim, Replay, Register, Abandon, TurnAway, SetPc, cancelVars
<1>3. unit[h] = NoUnit /\ result[h] = "none" /\ (pc'[h] # "turned_away" => answer'[h] = "none")
  BY <1>1, <1>2 DEF IInv, Owners
<1>4. \A g \in Handlers \ {h} : (Owns(g)' <=> Owns(g)) /\ (Publishing(g)' <=> Publishing(g))
  BY <1>2 DEF Owns, Publishing
<1>5. ~Publishing(h) /\ ~Publishing(h)'
  BY <1>2 DEF Publishing
<1>6. \A g \in Handlers : SessionOf[g] \in Sessions
  BY ActorAssumption
<1>7. CASE UNCHANGED token
  <2>1. ~Owns(h)'
    BY <1>1, <1>7 DEF Owns, Claim, Replay, Register, Abandon, TurnAway, SetPc, SetToken, NoToken,
          IInv, Shape
  <2>2. Owners'
    <3>1. \A g \in Handlers : Owns(g)' <=> Owns(g)
      BY <1>1, <1>4, <2>1
    <3>2. \A g \in Handlers : ~Owns(g)' =>
            unit'[g] = NoUnit /\ result'[g] = "none" /\ (pc'[g] # "turned_away" => answer'[g] = "none")
      BY <1>2, <1>3, <3>1 DEF IInv, Owners
    <3>3. \A r \in Sessions : token'[r].reg # "none" => \E g \in Handlers : Owns(g)' /\ SessionOf[g] = r
      BY <1>7, <3>1 DEF IInv, Owners
    <3> QED BY <1>2, <1>7, <3>1, <3>2, <3>3 DEF IInv, Owners
  <2>3. ASSUME NEW g \in Handlers PROVE Life(g)'
    <3>1. CASE g = h
      BY <2>1, <3>1 DEF Life
    <3>2. CASE g # h
      BY <1>2, <1>4, <1>7, <3>2 DEF IInv, Life, CallableInOrder, PhaseCounted, Open, TokenAgrees,
            AnswerAgrees
    <3> QED BY <3>1, <3>2
  <2>4. Resolution'
    <3>1. \A g \in Handlers : Publishing(g)' <=> Publishing(g)
      BY <1>4, <1>5
    <3> QED BY <1>2, <1>7, <3>1 DEF IInv, Resolution
  <2>5. Informed' /\ \A r \in Sessions : TokenInOrder(token[r])'
    BY <1>2, <1>7 DEF IInv, Informed
  <2> QED BY <2>2, <2>3, <2>4, <2>5 DEF IInv
<1>8. CASE ~UNCHANGED token
  <2> DEFINE r == [NoToken EXCEPT !.reg = "active"]
  <2>1. /\ token[s].reg = "none" /\ token' = [token EXCEPT ![s] = r]
        /\ pc[h] = "claimed" /\ pc'[h] = "registered"
        /\ answer' = answer
    BY <1>1, <1>8 DEF Claim, Replay, Register, Abandon, SetToken, SetPc
  <2>2. token'[s] = r /\ \A q \in Sessions \ {s} : token'[q] = token[q]
    BY <1>1, <2>1 DEF IInv, Shape
  <2>3. \A g \in Handlers : SessionOf[g] = s => ~Owns(g)
    BY <2>1 DEF IInv, Owners
  <2>4. token[s] = NoToken /\ ~token[s].resolving /\ ~token[s].cancel
    BY <1>1, <2>1 DEF IInv, Owners, NoToken
  <2>5. Owns(h)'
    BY <2>1 DEF Owns
  <2>6. \A g \in Handlers \ {h} : Owns(g) => token'[SessionOf[g]] = token[SessionOf[g]]
    BY <1>6, <2>2, <2>3
  <2>7. r.reg = "active" /\ ~r.cancel /\ ~r.mutated /\ ~r.uncertain /\ ~r.incident /\ ~r.finished
        /\ r.phases = 0 /\ ~r.resolving
    BY DEF NoToken
  <2> HIDE DEF r
  <2>8. Owners'
    <3>1. \A g \in Handlers : Owns(g)' => token'[SessionOf[g]].reg # "none"
      BY <1>4, <2>2, <2>6, <2>7 DEF IInv, Owners
    <3>2. \A f, g \in Handlers : Owns(f)' /\ Owns(g)' /\ SessionOf[f] = SessionOf[g] => f = g
      BY <1>4, <2>3 DEF IInv, Owners
    <3>3. \A q \in Sessions : token'[q].reg # "none" => \E g \in Handlers : Owns(g)' /\ SessionOf[g] = q
      BY <1>1, <1>4, <2>2, <2>3, <2>5 DEF IInv, Owners
    <3>4. \A q \in Sessions : token'[q].reg = "none" => token'[q] = NoToken
      BY <2>2, <2>7 DEF IInv, Owners
    <3>5. \A g \in Handlers : ~Owns(g)' =>
            unit'[g] = NoUnit /\ result'[g] = "none" /\ (pc'[g] # "turned_away" => answer'[g] = "none")
      BY <1>2, <1>4, <2>5 DEF IInv, Owners
    <3>6. \A c \in Cancellers : cpc'[c] \notin {"idle", "over"} => token'[CancelIn[c]].reg # "none"
      BY <1>2, <2>2, <2>7, ActorAssumption DEF IInv, Owners
    <3> QED BY <3>1, <3>2, <3>3, <3>4, <3>5, <3>6 DEF Owners
  <2>9. ASSUME NEW g \in Handlers PROVE Life(g)'
    <3>1. CASE g = h
      <4>1. unit'[h] = NoUnit /\ result'[h] = "none" /\ answer'[h] = "none" /\ MaxPhases[h] \in Nat
        BY <1>2, <1>3, <2>1, ActorAssumption
      <4> QED BY <2>1, <2>2, <2>7, <3>1, <4>1 DEF Life, CallableInOrder, PhaseCounted, Open,
            TokenAgrees,
             AnswerAgrees, NoUnit, PastError, Finished
    <3>2. CASE g # h
      BY <1>2, <1>4, <2>6, <3>2 DEF IInv, Life, CallableInOrder, PhaseCounted, Open, TokenAgrees,
            AnswerAgrees
    <3> QED BY <3>1, <3>2
  <2>10. Resolution'
    <3>1. \A g \in Handlers : Publishing(g)' <=> Publishing(g)
      BY <1>4, <1>5
    <3>2. \A g \in Handlers : Publishing(g) \/ unit[g].cb = "publish" => SessionOf[g] # s
      BY <2>4 DEF IInv, Resolution
    <3>3. \A c \in Cancellers : cpc[c] = "publish" => CancelIn[c] # s /\ CancelIn[c] \in Sessions
      BY <2>4, ActorAssumption DEF IInv, Resolution
    <3> QED BY <1>2, <1>6, <2>2, <3>1, <3>2, <3>3 DEF IInv, Resolution
  <2>11. Informed'
    BY <1>2, <2>2, <2>4, ActorAssumption DEF IInv, Informed
  <2>12. \A q \in Sessions : TokenInOrder(token[q])'
    BY <2>2, <2>7 DEF IInv, TokenInOrder
  <2> QED BY <2>8, <2>9, <2>10, <2>11, <2>12 DEF IInv
<1> QED BY <1>7, <1>8

\* Nothing is claimed, registered or submitted at the start.
LEMMA InitIInv == Init => IInv
<1> SUFFICES ASSUME Init PROVE IInv
  OBVIOUS
<1>1. \A h \in Handlers : /\ pc[h] = "idle" /\ unit[h] = NoUnit /\ result[h] = "none"
                          /\ answer[h] = "none" /\ SessionOf[h] \in Sessions
  BY ActorAssumption DEF Init
<1>2. \A s \in Sessions : token[s] = NoToken
  BY DEF Init
<1>3. \A c \in Cancellers : cpc[c] = "idle" /\ told[c] = "none"
  BY DEF Init
<1>4. \A h \in Handlers : ~Owns(h) /\ ~Publishing(h)
  BY <1>1 DEF Owns, Publishing
<1>5. Owners
  BY <1>1, <1>2, <1>3, <1>4 DEF Owners, NoToken
<1>6. Resolution /\ Informed
  BY <1>1, <1>3, <1>4 DEF Resolution, Informed, NoUnit
<1>7. \A s \in Sessions : TokenInOrder(token[s])
  BY <1>2 DEF TokenInOrder, NoToken
<1> QED BY <1>4, <1>5, <1>6, <1>7, InitShape DEF IInv, Life

\* Every step keeps the inductive invariant: one case per actor.
LEMMA NextKeeps == IInv /\ WInv /\ [Next]_vars => IInv'
<1> SUFFICES ASSUME IInv, WInv, [Next]_vars PROVE IInv'
  OBVIOUS
<1>1. Shape'
  BY ShapeKept
<1>2. ASSUME NEW h \in Handlers, Invoke(h) \/ WakeFails(h) PROVE IInv'
  <2>1. CASE Claim(h) \/ Replay(h) \/ Register(h) \/ Abandon(h)
    BY <1>1, <2>1, ClaimKeeps
  <2>2. CASE ~(Claim(h) \/ Replay(h) \/ Register(h) \/ Abandon(h))
    <3>1. Advance(h)
      BY <1>2, <2>2, CallerAdvances, SubmissionAdvances, BeginPhaseAdvances, ErrorAdvances,
         HandlerResolvesAdvances, FinishAdvances, RefinishAdvances DEF Invoke
    <3> QED BY <1>1, <3>1, AdvanceKeeps
  <2> QED BY <2>1, <2>2
<1>3. ASSUME NEW h \in Handlers, Callback(h) \/ Callable(h) \/ ExpireInHand(h) \/ Sweep(h) PROVE IInv'
  <2>1. Advance(h)
    BY <1>3, CallbackBeginsAdvances, CallbackAdvances, CallableAdvances DEF Callback, Callable
  <2> QED BY <1>1, <2>1, AdvanceKeeps
<1>4. ASSUME NEW c \in Cancellers, Cancel(c) PROVE IInv'
  BY <1>1, <1>4, CancelRequestKeeps, CancelInGuiKeeps, CancelResolutionKeeps DEF Cancel
<1>5. CASE CancelAll
  BY <1>1, <1>5, CancelAllKeeps
<1>6. CASE Expire \/ (\E p \in Pollers : Poll(p)) \/ UNCHANGED vars
  <2>1. UNCHANGED <<pc, result, answer, unit, token, told, cpc>>
    BY <1>6 DEF Expire, Poll, PollJournal, PollToken, vars, handlerVars, cancelVars
  <2> QED BY <1>1, <2>1, StillKeeps
<1>7. ASSUME NEW h \in Handlers, Work(h) PROVE IInv'
  <2>1. CASE BeginMutation(h)
    BY <1>1, <2>1, BeginMutationAdvances, AdvanceKeeps
  <2>2. CASE ~BeginMutation(h)
    <3>1. UNCHANGED <<pc, result, answer, unit, token, told, cpc>>
      BY <1>7, <2>2 DEF Work, PostCommit, CommitRuns, CommitRejected, ChangeDirectly,
                        handlerVars, cancelVars
    <3> QED BY <1>1, <3>1, StillKeeps
  <2> QED BY <2>1, <2>2
<1> QED BY <1>2, <1>3, <1>4, <1>5, <1>6, <1>7 DEF Next

\* A dispatched request stays so: only a call that was turned away before it had a
\* token, or registers it now, is moved to a state that is not.
LEMMA DispatchedStays ==
    ASSUME IInv, [Next]_vars, NEW h \in Handlers, Dispatched(h)
    PROVE  Dispatched(h)'
<1>1. pc \in [Handlers -> HandlerPcs]
  BY DEF IInv, Shape
<1>2. CASE UNCHANGED pc
  BY <1>2 DEF Dispatched, Owns
<1>3. ASSUME NEW g \in Handlers, Invoke(g) \/ WakeFails(g) PROVE Dispatched(h)'
  <2>1. CASE Claim(g) \/ Replay(g) \/ Register(g) \/ Abandon(g)
    <3>1. ~Owns(g)
      BY <2>1 DEF Claim, Replay, Register, Abandon, Owns
    <3>2. \E p \in HandlerPcs : SetPc(g, p)
      BY <2>1 DEF Claim, Replay, Register, Abandon, TurnAway, HandlerPcs
    <3> QED BY <1>1, <3>1, <3>2 DEF SetPc, Dispatched, Owns
  <2>2. CASE ~(Claim(g) \/ Replay(g) \/ Register(g) \/ Abandon(g))
    <3>1. \E p \in HandlerPcs \ {"idle", "claimed", "abandoning", "turned_away", "registered"} : SetPc(g, p)
      <4> USE <2>2, <1>3 DEF HandlerPcs, PastError, Finished
      <4>1. CASE Checkpoint(g) \/ MethodReturns(g) \/ MethodRaises(g) \/ BeginPhase(g) \/ Submit(g)
                 \/ SubmitRefused(g) \/ WakeFails(g)
        BY <4>1 DEF Checkpoint, MethodReturns, MethodRaises, BeginPhase, Submit, SubmitRefused, WakeFails
      <4>2. CASE SubmitReturns(g) \/ Timeout(g) \/ HandleGuiDispatchError(g) \/ Snapshot(g)
        BY <4>2 DEF SubmitReturns, Timeout, HandleGuiDispatchError, Snapshot
      <4>3. CASE HandlerResolves(g) \/ HandlerPublishes(g)
        BY <4>3 DEF HandlerResolves, HandlerPublishes, AfterResolution
      <4>4. CASE Finish(g) \/ Refinish(g) \/ Complete(g)
        BY <4>4 DEF Finish, Refinish, Complete
      <4> QED BY <4>1, <4>2, <4>3, <4>4 DEF Invoke
    <3> QED BY <1>1, <3>1 DEF SetPc, Dispatched, Owns
  <2> QED BY <2>1, <2>2
<1>4. ASSUME NEW g \in Handlers,
             Callback(g) \/ Callable(g) \/ Work(g) \/ ExpireInHand(g) \/ Sweep(g)
      PROVE  UNCHANGED pc
  BY <1>4 DEF Callback, CallbackBegins, CallbackRecovers, CallbackResolves, CallbackPublishes,
     CallbackRefreshes, CallbackJournals, Callable, StartCallable, EndCallable, ExpireInHand, Sweep,
     Work, PostCommit, BeginMutation, CommitRuns, CommitRejected, ChangeDirectly, handlerVars
<1>5. ASSUME NEW c \in Cancellers, Cancel(c) PROVE UNCHANGED pc
  BY <1>5 DEF Cancel, CancelRequest, CancelInGui, CancelWithdrew, CancelResolves, CancelPublishes,
     handlerVars
<1>6. ASSUME CancelAll \/ Expire \/ (\E p \in Pollers : Poll(p)) \/ UNCHANGED vars PROVE UNCHANGED pc
  BY <1>6 DEF CancelAll, Expire, Poll, PollJournal, PollToken, vars, handlerVars
<1> QED BY <1>2, <1>3, <1>4, <1>5, <1>6 DEF Next

\* The mark of begin_mutation is never taken back.
LEMMA MarkStays ==
    ASSUME IInv, [Next]_vars, NEW s \in Sessions, token[s].mutated
    PROVE  token'[s].mutated
<1>1. \A r \in Sessions : token[r] \in TokenShape
  BY DEF IInv, Shape
<1>2. token[s].reg # "none"
  BY DEF IInv, Owners, NoToken
<1> DEFINE Kept(r) == \E t \in TokenShape : SetToken(r, t) /\ (token[r].mutated => t.mutated)
<1>3. ASSUME UNCHANGED token \/ \E r \in Sessions : Kept(r) PROVE token'[s].mutated
  BY <1>3 DEF SetToken, IInv, Shape
<1>4. ASSUME NEW h \in Handlers
      PROVE  LET t == token[SessionOf[h]] IN
             /\ SessionOf[h] \in Sessions /\ t \in TokenShape
             /\ \A r \in {BeginGuiPhase(t), EndGuiPhase(t), PublishResolution(t), [t EXCEPT !.resolving = TRUE]} \cup
                         {FinishHandler(t, b) : b \in BOOLEAN} :
                    r \in TokenShape /\ r.mutated = t.mutated
  <2>1. SessionOf[h] \in Sessions /\ token[SessionOf[h]] \in TokenShape
    BY <1>1, ActorAssumption
  <2> DEFINE t == token[SessionOf[h]]
  <2>2. t \in TokenShape
    BY <2>1
  <2> HIDE DEF t
  <2>3. /\ BeginGuiPhase(t) \in TokenShape /\ BeginGuiPhase(t).mutated = t.mutated
        /\ EndGuiPhase(t) \in TokenShape /\ EndGuiPhase(t).mutated = t.mutated
    BY <2>2, BegunPhase, EndedPhase DEF SameMarks
  <2>4. PublishResolution(t) \in TokenShape /\ PublishResolution(t).mutated = t.mutated
    BY <2>2, PublishedResolution DEF SameMarks
  <2>5. [t EXCEPT !.resolving = TRUE] \in TokenShape /\ [t EXCEPT !.resolving = TRUE].mutated = t.mutated
    BY <2>2 DEF TokenShape
  <2>6. \A b \in BOOLEAN : FinishHandler(t, b) \in TokenShape /\ FinishHandler(t, b).mutated = t.mutated
    BY <2>2, FinishedHandler DEF SameMarks
  <2> QED BY <2>1, <2>3, <2>4, <2>5, <2>6 DEF t
<1>5. ASSUME NEW h \in Handlers, Invoke(h) \/ WakeFails(h) PROVE token'[s].mutated
  <2> DEFINE t == token[SessionOf[h]]
  <2>1. CASE Register(h)
    <3>1. UNCHANGED token \/ (SessionOf[h] # s /\ SetToken(SessionOf[h], [NoToken EXCEPT !.reg = "active"]))
      BY <1>2, <2>1 DEF Register
    <3> QED BY <3>1 DEF SetToken, IInv, Shape
  <2>2. CASE BeginPhase(h) \/ HandlerResolves(h) \/ HandlerPublishes(h) \/ Refinish(h)
    <3> DEFINE u == [t EXCEPT !.resolving = TRUE]
    <3>1. \/ UNCHANGED token \/ SetToken(SessionOf[h], BeginGuiPhase(t)) \/ SetToken(SessionOf[h], u)
          \/ SetToken(SessionOf[h], PublishResolution(t)) \/ SetToken(SessionOf[h], FinishHandler(t, TRUE))
      BY <2>2 DEF BeginPhase, HandlerResolves, HandlerPublishes, Refinish
    <3>2. \A r \in {BeginGuiPhase(t), u, PublishResolution(t), FinishHandler(t, TRUE)} :
              r \in TokenShape /\ r.mutated = t.mutated
      BY <1>4
    <3> HIDE DEF u
    <3> QED BY <1>3, <1>4, <3>1, <3>2
  <2>3. CASE Finish(h)
    <3> DEFINE b == result[h] \notin {"ok", "outcome_uncertain"}
    <3>1. b \in BOOLEAN /\ SetToken(SessionOf[h], FinishHandler(t, b))
      BY <2>3 DEF Finish
    <3> HIDE DEF b, t
    <3> QED BY <1>3, <1>4, <3>1 DEF t
  <2>4. CASE HandleGuiDispatchError(h)
    <3> DEFINE u == [t EXCEPT !.uncertain = TRUE, !.incident = TRUE]
    <3>1. u \in TokenShape /\ u.mutated = t.mutated
      BY <1>4 DEF TokenShape
    <3>2. SetToken(SessionOf[h], u) \/ SetToken(SessionOf[h], EndGuiPhase(t)) \/ SetToken(SessionOf[h], t)
      BY <2>4 DEF HandleGuiDispatchError
    <3> HIDE DEF u
    <3> QED BY <1>3, <1>4, <3>1, <3>2
  <2>5. CASE ~(\/ Register(h) \/ BeginPhase(h) \/ HandlerResolves(h) \/ HandlerPublishes(h)
               \/ Refinish(h) \/ Finish(h) \/ HandleGuiDispatchError(h))
    BY <1>5, <2>5 DEF Invoke, Claim, Replay, Abandon, Checkpoint, MethodReturns, MethodRaises, Submit,
       SubmitRefused, SubmitReturns, Timeout, Snapshot, Complete, WakeFails
  <2> QED BY <2>1, <2>2, <2>3, <2>4, <2>5
<1>6. ASSUME NEW h \in Handlers, Callback(h) PROVE token'[s].mutated
  <2> DEFINE t == token[SessionOf[h]]
             u == [t EXCEPT !.uncertain = FALSE]
  <2>1. u \in TokenShape /\ u.mutated = t.mutated
    BY <1>4 DEF TokenShape
  <2>2. \/ UNCHANGED token \/ SetToken(SessionOf[h], EndGuiPhase(t)) \/ SetToken(SessionOf[h], u)
        \/ SetToken(SessionOf[h], [t EXCEPT !.resolving = TRUE])
        \/ SetToken(SessionOf[h], PublishResolution(t))
    BY <1>6 DEF Callback, CallbackBegins, CallbackRecovers, CallbackResolves, CallbackPublishes,
       CallbackRefreshes, CallbackJournals
  <2> HIDE DEF u
  <2> QED BY <1>3, <1>4, <2>1, <2>2
<1>7. ASSUME NEW h \in Handlers, Callable(h) \/ Work(h) \/ ExpireInHand(h) \/ Sweep(h)
      PROVE  token'[s].mutated
  <2> DEFINE u == [token[SessionOf[h]] EXCEPT !.mutated = TRUE]
  <2>1. u \in TokenShape /\ u.mutated
    BY <1>4 DEF TokenShape
  <2>2. UNCHANGED token \/ SetToken(SessionOf[h], u)
    BY <1>7 DEF Callable, StartCallable, EndCallable, ExpireInHand, Sweep, Work, PostCommit,
       BeginMutation, CommitRuns, CommitRejected, ChangeDirectly
  <2> HIDE DEF u
  <2> QED BY <1>3, <1>4, <2>1, <2>2
<1>8. ASSUME NEW c \in Cancellers, Cancel(c) PROVE token'[s].mutated
  <2> DEFINE t == token[CancelIn[c]]
             u == [t EXCEPT !.resolving = TRUE]
  <2>1. CancelIn[c] \in Sessions /\ t \in TokenShape
    BY <1>1, ActorAssumption
  <2>2. /\ RequestCancel(t) \in TokenShape /\ PublishResolution(t) \in TokenShape /\ u \in TokenShape
        /\ \A r \in {RequestCancel(t), PublishResolution(t), u} : r.mutated = t.mutated
    BY <2>1, RequestedCancel, PublishedResolution, ClaimedResolution DEF SameMarks
  <2>3. \/ UNCHANGED token \/ SetToken(CancelIn[c], RequestCancel(t))
        \/ SetToken(CancelIn[c], u) \/ SetToken(CancelIn[c], PublishResolution(t))
    BY <1>8 DEF Cancel, CancelRequest, CancelInGui, CancelWithdrew, CancelResolves, CancelPublishes
  <2> HIDE DEF u
  <2> QED BY <1>3, <2>1, <2>2, <2>3
<1>9. CASE CancelAll
  BY <1>1, <1>9, RequestedCancel DEF CancelAll, SameMarks
<1>10. CASE Expire \/ (\E p \in Pollers : Poll(p)) \/ UNCHANGED vars
  BY <1>10 DEF Expire, Poll, PollJournal, PollToken, vars
<1> QED BY <1>5, <1>6, <1>7, <1>8, <1>9, <1>10 DEF Next

\* The steps that post, begin or end a commit or change a document.
LEMMA WorkKeeps ==
    ASSUME IInv, WInv, [Next]_vars, NEW h \in Handlers, Work(h)
    PROVE  WInv'
<1>1. pc \in [Handlers -> HandlerPcs] /\ token \in [Sessions -> TokenShape] /\ SessionOf[h] \in Sessions
  BY ActorAssumption DEF IInv, Shape
<1>2. \A g \in Handlers : Dispatched(g) => Dispatched(g)'
  BY DispatchedStays
<1>3. \A g \in Handlers : SessionOf[g] \in Sessions
  BY ActorAssumption
<1>4. \A g \in Handlers : token[SessionOf[g]].mutated => token'[SessionOf[g]].mutated
  BY <1>3, MarkStays
<1>5. Executing(h) => Dispatched(h)
  <2>1. ASSUME Executing(h) PROVE Owns(h)
    BY <2>1 DEF Executing, IInv, Owners, NoUnit
  <2> QED BY <2>1, OwnersRow DEF Executing, Dispatched, CallableInOrder, NoUnit
<1>6. \A g \in Handlers \ {h} : commit'[g] = commit[g] /\ \A k \in Ways : <<g, k>> \in changed' <=> <<g, k>> \in changed
  BY DEF Work, PostCommit, BeginMutation, CommitRuns, CommitRejected, ChangeDirectly, SetCommit, WInv,
     WorkShape
<1>7. WorkShape' /\ (Worked(h)' => Worked(h) \/ Executing(h))
  <2> USE ActorAssumption DEF WInv, WorkShape, Worked, HasChanged, SetCommit, Ways
  <2>1. CASE PostCommit(h)
    BY <2>1 DEF PostCommit
  <2>2. CASE BeginMutation(h)
    BY <2>2 DEF BeginMutation
  <2>3. CASE CommitRuns(h)
    BY <2>3 DEF CommitRuns
  <2>4. CASE CommitRejected(h)
    BY <2>4 DEF CommitRejected
  <2>5. CASE ChangeDirectly(h)
    BY <2>5 DEF ChangeDirectly
  <2> QED BY <2>1, <2>2, <2>3, <2>4, <2>5 DEF Work
<1>8. Gated(h)' => Gated(h) \/ token'[SessionOf[h]].mutated
  <2> USE DEF WInv, WorkShape, Gated, SetCommit
  <2>1. CASE PostCommit(h)
    BY <2>1, ActorAssumption DEF PostCommit, Ways
  <2>2. CASE BeginMutation(h)
    BY <1>1, <2>2 DEF BeginMutation, SetToken, TokenShape
  <2>3. CASE CommitRuns(h)
    BY <2>3 DEF CommitRuns
  <2>4. CASE CommitRejected(h)
    BY <2>4 DEF CommitRejected
  <2>5. CASE ChangeDirectly(h)
    BY <2>5 DEF ChangeDirectly
  <2> QED BY <2>1, <2>2, <2>3, <2>4, <2>5 DEF Work
<1>9. ASSUME NEW g \in Handlers
      PROVE  (Worked(g)' => Dispatched(g)') /\ (Gated(g)' => token'[SessionOf[g]].mutated)
  <2>1. CASE g = h
    BY <1>2, <1>4, <1>5, <1>7, <1>8, <2>1 DEF WInv
  <2>2. CASE g # h
    <3>1. (Worked(g)' <=> Worked(g)) /\ (Gated(g)' <=> Gated(g))
      BY <1>6, <2>2 DEF Worked, HasChanged, Gated, Ways
    <3> QED BY <1>2, <1>4, <3>1 DEF WInv
  <2> QED BY <2>1, <2>2
<1> QED BY <1>7, <1>9 DEF WInv

\* Every step keeps what is known of commits and changes.
LEMMA NextWorks == IInv /\ WInv /\ [Next]_vars => WInv'
<1> SUFFICES ASSUME IInv, WInv, [Next]_vars PROVE WInv'
  OBVIOUS
<1>1. ASSUME NEW h \in Handlers, Work(h) PROVE WInv'
  BY <1>1, WorkKeeps
<1>2. CASE UNCHANGED workVars
  <2>1. UNCHANGED <<commit, changed>> /\ \A h \in Handlers : SessionOf[h] \in Sessions
    BY <1>2, ActorAssumption DEF workVars
  <2>2. \A h \in Handlers : Dispatched(h) => Dispatched(h)'
    BY DispatchedStays
  <2>3. \A h \in Handlers : token[SessionOf[h]].mutated => token'[SessionOf[h]].mutated
    BY <2>1, MarkStays
  <2>4. WorkShape'
    BY <2>1 DEF WInv, WorkShape
  <2>5. \A h \in Handlers : (Worked(h)' <=> Worked(h)) /\ (Gated(h)' <=> Gated(h))
    BY <2>1 DEF Worked, HasChanged, Gated
  <2> QED BY <2>2, <2>3, <2>4, <2>5 DEF WInv
<1>3. CASE UNCHANGED vars
  BY <1>2, <1>3 DEF vars, workVars
<1>4. ASSUME NEW h \in Handlers, Invoke(h) \/ WakeFails(h) PROVE UNCHANGED workVars
  BY <1>4 DEF Invoke, WakeFails, Claim, Replay, Register, Abandon, Checkpoint, MethodReturns,
     MethodRaises, BeginPhase, Submit, SubmitRefused, SubmitReturns, Timeout, HandleGuiDispatchError,
     Snapshot, HandlerResolves, HandlerPublishes, Finish, Refinish, Complete
<1>5. ASSUME NEW h \in Handlers, Callback(h) \/ Callable(h) \/ ExpireInHand(h) \/ Sweep(h)
      PROVE  UNCHANGED workVars
  BY <1>5 DEF Callback, CallbackBegins, CallbackRecovers, CallbackResolves, CallbackPublishes,
     CallbackRefreshes, CallbackJournals, Callable, StartCallable, EndCallable, ExpireInHand, Sweep
<1>6. ASSUME NEW c \in Cancellers, Cancel(c) PROVE UNCHANGED workVars
  BY <1>6 DEF Cancel, CancelRequest, CancelInGui, CancelWithdrew, CancelResolves, CancelPublishes
<1>7. ASSUME CancelAll \/ Expire \/ (\E p \in Pollers : Poll(p)) PROVE UNCHANGED workVars
  BY <1>7 DEF CancelAll, Expire, Poll, PollJournal, PollToken
<1> QED BY <1>1, <1>2, <1>3, <1>4, <1>5, <1>6, <1>7 DEF Next

\* Nothing has been posted or changed at the start.
LEMMA InitWork == Init => WInv
  BY DEF Init, WInv, WorkShape, Worked, HasChanged, Gated

\* In every reachable state a request has one owner of its token, an open phase is
\* counted exactly once, at most one thread holds the claim to a resolution, and what
\* run_cad_mutation has changed or begun to change stands in the token.
THEOREM InductiveInvariant == Spec => [](IInv /\ WInv)
<1>1. IInv /\ WInv /\ [Next]_vars => (IInv /\ WInv)'
  BY NextKeeps, NextWorks
<1> QED BY <1>1, InitIInv, InitWork, PTL DEF Spec

\* Every reachable state is of its type: in particular the registry never counts
\* two open GUI phases for one request, and a method makes no more GUI calls than it has.
THEOREM TypeCorrect == Spec => []TypeOK
<1>1. IInv /\ WInv => TypeOK
  <2> SUFFICES ASSUME IInv, WInv PROVE TypeOK
    OBVIOUS
  <2>1. Shape
    BY DEF IInv
  <2>2. token \in [Sessions -> TokenType]
    BY <2>1, TokenTyped DEF Shape
  <2>3. ASSUME NEW h \in Handlers PROVE unit[h].phase \in 0..MaxPhases[h]
    <3>1. MaxPhases[h] \in Nat /\ unit[h] \in UnitShape
      BY <2>1, ActorAssumption DEF Shape
    <3>2. CASE Owns(h)
      BY <3>1, <3>2 DEF IInv, Life, CallableInOrder, UnitShape
    <3>3. CASE ~Owns(h)
      BY <3>1, <3>3 DEF IInv, Owners, NoUnit
    <3> QED BY <3>2, <3>3
  <2>4. WorkShape
    BY DEF WInv
  <2> QED BY <2>1, <2>2, <2>3, <2>4 DEF TypeOK, Shape, UnitShape, WorkShape
<1> QED BY <1>1, InductiveInvariant, PTL

\* A handler never returns success once a cancellation of it was answered "requested"
\* (finish_handler and request_cancel decide under the one registry lock).
THEOREM AcceptedCancelWinsHolds == Spec => []AcceptedCancelWins
<1>1. IInv => AcceptedCancelWins
  BY DEF IInv, Life, AnswerAgrees, Informed, AcceptedCancelWins
<1> QED BY <1>1, InductiveInvariant, PTL

\* A request answered REQUEST_CANCELLED has changed no document through run_cad_mutation
\* and never will: such a change stands in the token from begin_mutation on, which
\* cancelled_code reads, and begin_mutation raises once the token is cancelled. The
\* statement leaves out the changes made without begin_mutation (execute_code, the typed
\* handlers, create_document, undo, the native saves), of which it would be false.
THEOREM CancelledMeansUnmutatedHolds == Spec => []CancelledMeansUnmutated
<1>1. IInv /\ WInv => CancelledMeansUnmutated
  BY DEF IInv, Life, AnswerAgrees, CancelledMeansUnmutated, Owns, WInv, Gated
<1> QED BY <1>1, InductiveInvariant, PTL

\* A callable that may still run keeps its phase open.
LEMMA OutstandingIsCounted ==
    ASSUME IInv, NEW h \in Handlers, Owns(h), Outstanding(h)
    PROVE  token[SessionOf[h]].phases = 1 /\ token[SessionOf[h]].reg = "active"
<1> USE OwnersRow
<1>1. unit[h].cb = "idle" /\ (pc[h] \in {"waiting", "gui_error"} \/ token[SessionOf[h]].incident)
  BY DEF Outstanding, Executing, CallableInOrder
<1>2. token[SessionOf[h]].phases = 1
  BY <1>1 DEF PhaseCounted, Open
<1> QED BY <1>2 DEF TokenInOrder, TokenShape

\* A token is retired only when its request has no callable that may still run.
THEOREM RetiredMeansIdleHolds == Spec => []RetiredMeansIdle
<1>1. IInv => RetiredMeansIdle
  BY OutstandingIsCounted DEF RetiredMeansIdle
<1> QED BY <1>1, InductiveInvariant, PTL

\* An uncertain token has a callable or a callback that will still settle it.
THEOREM UncertaintyIsOwnedHolds == Spec => []UncertaintyIsOwned
<1>1. IInv => UncertaintyIsOwned
  <2> SUFFICES ASSUME IInv, NEW h \in Handlers, Owns(h), token[SessionOf[h]].uncertain
               PROVE  token[SessionOf[h]].phases > 0 \/ unit[h].cb = "recover"
    BY DEF UncertaintyIsOwned
  <2> QED BY OwnersRow DEF TokenInOrder, TokenAgrees, PhaseCounted, Open
<1> QED BY <1>1, InductiveInvariant, PTL

\* Two threads between claiming and publishing a resolution are the same.
LEMMA ResolversAlone ==
    ASSUME IInv, NEW s \in Sessions
    PROVE  \A x, y \in Resolvers(s) : x = y
<1> DEFINE Handling == {g \in Handlers : SessionOf[g] = s /\ Publishing(g)}
           Calling == {g \in Handlers : SessionOf[g] = s /\ unit[g].cb = "publish"}
           Cancelling == {c \in Cancellers : CancelIn[c] = s /\ cpc[c] = "publish"}
<1>1. Resolvers(s) = {<<"handler", h>> : h \in Handling} \cup {<<"callback", h>> : h \in Calling}
                     \cup {<<"canceller", c>> : c \in Cancelling}
  BY DEF Resolvers, Publishing
<1>2. \A h \in Handling \cup Calling : h \in Handlers /\ Owns(h) /\ SessionOf[h] = s
  BY DEF IInv, Owners, Publishing, Owns, NoUnit
<1>3. \A h, g \in Handling \cup Calling : h = g
  BY <1>2 DEF IInv, Owners
<1>4. Handling \cap Calling = {}
  BY DEF IInv, Resolution
<1>5. Handling \cup Calling = {} \/ Cancelling = {}
  BY DEF IInv, Resolution
<1>6. \A c, d \in Cancelling : c = d
  BY DEF IInv, Resolution
<1>7. Handling = {} \/ Calling = {}
  BY <1>3, <1>4
<1> HIDE DEF Handling, Calling, Cancelling
<1> QED BY <1>1, <1>3, <1>5, <1>6, <1>7

\* The cancelled paths of a request (its handler, its completion callback, the
\* cancellers) never resolve it twice at once: the claim is taken under the lock.
THEOREM OneResolverHolds == Spec => []OneResolver
<1>1. ASSUME IInv, NEW s \in Sessions PROVE Cardinality(Resolvers(s)) =< 1
  <2>1. CASE Resolvers(s) = {}
    BY <2>1, FS_EmptySet
  <2>2. CASE Resolvers(s) # {}
    <3>1. PICK x \in Resolvers(s) : TRUE
      BY <2>2
    <3>2. Resolvers(s) = {x}
      BY <1>1, <3>1, ResolversAlone
    <3> QED BY <3>2, FS_Singleton
  <2> QED BY <2>1, <2>2
<1>2. ASSUME IInv, NEW s \in Sessions, token[s].reg = "terminal" PROVE Resolvers(s) = {}
  <2>1. ~token[s].resolving
    BY <1>2 DEF IInv, TokenInOrder
  <2>2. \A g \in Handlers : SessionOf[g] = s => ~Publishing(g) /\ unit[g].cb # "publish"
    BY <1>2, <2>1 DEF IInv, Resolution
  <2>3. \A c \in Cancellers : CancelIn[c] = s => cpc[c] # "publish"
    BY <1>2, <2>1 DEF IInv, Resolution
  <2>4. /\ {g \in Handlers : SessionOf[g] = s /\ pc[g] \in {"publish", "publish_late"}} = {}
        /\ {g \in Handlers : SessionOf[g] = s /\ unit[g].cb = "publish"} = {}
        /\ {d \in Cancellers : CancelIn[d] = s /\ cpc[d] = "publish"} = {}
    BY <2>2, <2>3 DEF Publishing
  <2> QED BY <2>4 DEF Resolvers
<1>3. IInv => OneResolver
  BY <1>1, <1>2 DEF OneResolver
<1> QED BY <1>3, InductiveInvariant, PTL

\* get_request_status never reports the handler that owns the token as finished while
\* that handler's callable may still run.
THEOREM OwnReportMeansIdleHolds == Spec => OwnReportMeansIdle
<1>1. IInv /\ [Next]_vars => [\A p \in Pollers : ReportsFinal(p) =>
          \A h \in Handlers : (SessionOf[h] = PollIn[p] /\ Owns(h)) => ~Outstanding(h)]_vars
  <2> SUFFICES ASSUME IInv, NEW p \in Pollers, ReportsFinal(p),
                      NEW h \in Handlers, SessionOf[h] = PollIn[p], Owns(h), Outstanding(h)
               PROVE  FALSE
    OBVIOUS
  <2>1. token[PollIn[p]].phases = 1 /\ token[PollIn[p]].reg = "active"
    BY OutstandingIsCounted
  <2>2. InflightState(token[PollIn[p]], poll[p].entry)
            \in {"expired", "cancel_requested", "running_after_timeout", "running"}
    BY <2>1 DEF InflightState
  <2> QED BY <2>2 DEF ReportsFinal, FinalReports
<1> QED BY <1>1, InductiveInvariant, PTL DEF Spec, OwnReportMeansIdle

-----------------------------------------------------------------------------
(* The journal.                                                             *)

\* Its late response, if there is one, is known before it completes.
LateKnown(h) == unit[h].cb = "over" /\ pc[h] \in {"gui_error"} \cup PastError
                /\ result[h] # "outcome_uncertain"
OthersLeft(h) ==
    \A g \in Handlers \ {h} : /\ pc'[g] = pc[g] /\ result'[g] = result[g] /\ answer'[g] = answer[g]
                              /\ pinned'[g] = pinned[g] /\ unit'[g] = unit[g]
\* A step of one request that writes no entry and gives no answer.
Journeys(h) ==
    /\ OthersLeft(h) /\ UNCHANGED <<entry, answer>>
    /\ ~Quiet(h) /\ (InFlight(h)' <=> InFlight(h))
    /\ ~InFlight(h) /\ Working(h)' => Working(h)
    /\ InFlight(h) /\ LateKnown(h) => LateKnown(h)'
    /\ unit[h].unwoken => unit'[h].unwoken
    /\ PinnedInTime(h)'

\* A journey keeps the journal's invariant.
LEMMA JourneysKeeps ==
    ASSUME IInv, JInv, NEW h \in Handlers, Journeys(h)
    PROVE  JInv'
<1>1. ASSUME NEW g \in Handlers, g # h
      PROVE  /\ InFlight(g)' <=> InFlight(g)
             /\ Working(g)' <=> Working(g)
             /\ Quiet(g)' <=> Quiet(g)
             /\ LateKnown(g)' <=> LateKnown(g)
             /\ answer'[g] = answer[g] /\ unit'[g] = unit[g]
             /\ PinnedInTime(g)'
  BY <1>1 DEF Journeys, OthersLeft, JInv, PinnedInTime, InFlight, Working, Quiet, LateKnown,
        HoldsLock
<1>2. \A g \in Handlers : PinnedInTime(g)'
  BY <1>1 DEF Journeys
<1>3. entry' = entry /\ answer' = answer
  BY DEF Journeys
<1>4. Carried'
  BY <1>1, <1>3 DEF Journeys, JInv, Carried
<1>5. ASSUME NoWakeFailed' PROVE Journalled'
  <2>1. Journalled
    BY <1>1, <1>5 DEF Journeys, JInv, NoWakeFailed
  <2>2. entry.state \notin {"absent", "expired"}
    BY <2>1 DEF Journeys, Journalled
  <2>3. \A f, g \in Handlers : InFlight(f)' /\ g # f => Quiet(g)'
    BY <1>1, <2>1 DEF Journeys, Journalled
  <2>4. \A g \in Handlers : ~InFlight(g)' /\ (Working(g)' \/ answer[g] = "outcome_uncertain") =>
            entry.state = "completed" /\ entry.pinned
    BY <1>1, <2>1 DEF Journeys, Journalled
  <2>5. \A g \in Handlers : InFlight(g)' /\ entry.late => LateKnown(g)'
    BY <1>1, <2>1 DEF Journeys, Journalled, LateKnown
  <2>6. entry.response = "outcome_uncertain" => \A g \in Handlers : ~InFlight(g)'
    BY <1>1, <2>1 DEF Journeys, Journalled
  <2> QED BY <1>3, <2>1, <2>2, <2>3, <2>4, <2>5, <2>6 DEF Journalled, LateKnown
<1> QED BY <1>2, <1>4, <1>5 DEF JInv

\* The steps of a handler between its registration and its answer.
LEMMA HandlerJourneys ==
    ASSUME IInv, JInv, NEW h \in Handlers,
           \/ Checkpoint(h) \/ MethodReturns(h) \/ MethodRaises(h) \/ BeginPhase(h)
           \/ SubmitReturns(h) \/ HandleGuiDispatchError(h) \/ Snapshot(h)
           \/ HandlerResolves(h) \/ HandlerPublishes(h) \/ Finish(h) \/ Refinish(h)
    PROVE  Journeys(h)
<1>1. Owns(h)
  BY DEF Owns, Checkpoint, MethodReturns, MethodRaises, BeginPhase, SubmitReturns,
        HandleGuiDispatchError,
     Snapshot, HandlerResolves, HandlerPublishes, Finish, Refinish
<1>2. PinnedInTime(h) /\ pinned \in [Handlers -> BOOLEAN]
  BY DEF JInv, IInv, Shape
<1> USE OwnersRow, <1>1, <1>2 DEF SetPc, SetResult
<1>3. UNCHANGED <<entry, answer, unit>>
  BY DEF Checkpoint, MethodReturns, MethodRaises, BeginPhase, SubmitReturns, HandleGuiDispatchError,
     Snapshot, HandlerResolves, HandlerPublishes, Finish, Refinish
<1>4. OthersLeft(h)
  BY <1>3 DEF OthersLeft, Checkpoint, MethodReturns, MethodRaises, BeginPhase, SubmitReturns,
     HandleGuiDispatchError, Snapshot, HandlerResolves, HandlerPublishes, Finish, Refinish
<1>5. InFlight(h) /\ InFlight(h)'
  BY ZenonT(40) DEF InFlight, Checkpoint, MethodReturns, MethodRaises, BeginPhase, SubmitReturns,
     HandleGuiDispatchError, Snapshot, HandlerResolves, HandlerPublishes, Finish, Refinish, AfterResolution
<1>6. PinnedInTime(h)' /\ (LateKnown(h) => LateKnown(h)')
  <2>1. CASE Checkpoint(h) \/ MethodReturns(h) \/ BeginPhase(h) \/ SubmitReturns(h)
    BY <1>3, <2>1 DEF PinnedInTime, LateKnown, Checkpoint, MethodReturns, BeginPhase, SubmitReturns,
       CallableInOrder, NoUnit, PastError, Finished, HoldsLock
  <2>2. CASE MethodRaises(h)
    BY <1>3, <2>2 DEF PinnedInTime, LateKnown, MethodRaises, CallableInOrder, PastError, Finished,
       HoldsLock, Working
  <2>3. CASE HandleGuiDispatchError(h) \/ HandlerResolves(h) \/ HandlerPublishes(h) \/ Refinish(h)
    BY <1>3, <2>3 DEF PinnedInTime, LateKnown, HandleGuiDispatchError, HandlerResolves,
          HandlerPublishes,
       Refinish, PastError, Finished, HoldsLock, Working, AfterResolution
  <2>4. CASE Snapshot(h)
    <3>1. pc[h] = "returned" /\ result[h] # "outcome_uncertain" /\ pc'[h] \in {"resolve", "finishing"}
      BY <2>4 DEF Snapshot, PinnedInTime
    <3>2. result'[h] # "outcome_uncertain"
      BY <2>4, <3>1 DEF Snapshot, CancelledCode
    <3>3. unit[h].state = "timed_out_running" => token[SessionOf[h]].uncertain
      BY <3>1 DEF CallableInOrder, TokenAgrees
    <3>4. unit[h].state = "timed_out_running" => pinned'[h]
      BY <2>4, <3>3 DEF Snapshot
    <3> QED BY <1>3, <3>1, <3>2, <3>4 DEF PinnedInTime, LateKnown, PastError, Finished, HoldsLock
  <2>5. CASE Finish(h)
    <3>1. pc[h] = "finishing" /\ pc'[h] \in {"completing", "refinishing", "resolve_late"}
      BY <2>5 DEF Finish
    <3>2. \/ result'[h] = result[h] /\ pinned'[h] = pinned[h]
          \/ result'[h] \in {"cancelled", "cancelled_mutated"} /\ (pinned[h] => pinned'[h])
      BY <2>5 DEF Finish, CancelledCode
    <3> QED BY <1>3, <3>1, <3>2 DEF PinnedInTime, LateKnown, PastError, Finished, HoldsLock, Working
  <2> QED BY <2>1, <2>2, <2>3, <2>4, <2>5
<1> QED BY <1>3, <1>4, <1>5, <1>6 DEF Journeys, Quiet

\* Submitting, being refused, losing the wake and timing out.
LEMMA SubmissionJourneys ==
    ASSUME IInv, JInv, NEW h \in Handlers,
           \/ Submit(h) \/ SubmitRefused(h) \/ WakeFails(h) \/ Timeout(h)
    PROVE  Journeys(h)
<1>1. Owns(h)
  BY DEF Owns, Submit, SubmitRefused, WakeFails, Timeout
<1>2. PinnedInTime(h)
  BY DEF JInv
<1> USE OwnersRow, <1>1, <1>2 DEF SetPc, SetResult
<1>3. UNCHANGED <<entry, answer, pinned>>
  BY DEF Submit, SubmitRefused, WakeFails, Timeout
<1>4. OthersLeft(h)
  BY <1>3 DEF OthersLeft, Submit, SubmitRefused, WakeFails, Timeout
<1>5. /\ pc[h] \in {"opened", "waiting"} /\ pc'[h] \in {"waiting", "withdrawing", "gui_error"}
      /\ ~LateKnown(h) /\ result[h] # "outcome_uncertain"
  BY DEF Submit, SubmitRefused, WakeFails, Timeout, LateKnown, PastError, Finished, PinnedInTime
<1>6. result'[h] # "outcome_uncertain"
  BY <1>5 DEF Submit, SubmitRefused, WakeFails, Timeout
<1>7. HoldsLock(h)' => HoldsLock(h) /\ unit'[h].cs = unit[h].cs
  <2>1. CASE Submit(h) \/ SubmitRefused(h)
    <3>1. unit'[h].cb = "idle"
      <4>1. CASE Submit(h)
        BY <4>1 DEF Submit, NoUnit
      <4>2. CASE SubmitRefused(h)
        BY <4>2 DEF SubmitRefused, NoUnit
      <4> QED BY <2>1, <4>1, <4>2
    <3> QED BY <3>1 DEF HoldsLock
  <2>2. CASE WakeFails(h)
    BY <2>2 DEF WakeFails, HoldsLock, UnitShape
  <2>3. CASE Timeout(h)
    <3>1. unit'[h].cb = "due" \/ (unit'[h].cb = unit[h].cb /\ unit'[h].cs = unit[h].cs)
      BY <2>3 DEF Timeout, UnitShape
    <3> QED BY <3>1 DEF HoldsLock
  <2> QED BY <2>1, <2>2, <2>3
<1>8. unit[h].unwoken => unit'[h].unwoken
  BY <1>5 DEF CallableInOrder, PastError, Finished
<1>9. PinnedInTime(h)'
  BY <1>5, <1>6, <1>7 DEF PinnedInTime, PastError, Finished
<1> QED BY <1>3, <1>4, <1>5, <1>8, <1>9 DEF Journeys, Quiet, InFlight

\* A callable that starts, ends or is withdrawn, seen from the journal.
LEMMA CallableJourneys ==
    ASSUME IInv, JInv, NEW h \in Handlers, unit[h].cb = "idle",
           SetUnit(h, unit'[h]), UNCHANGED <<entry, handlerVars>>,
           unit'[h].unwoken = unit[h].unwoken, unit'[h].cs = unit[h].cs,
           \/ unit[h].state = "queued" /\ unit'[h].state = "running" /\ unit'[h].cb = "idle"
           \/ unit[h].state = "queued" /\ unit'[h].state \in {"cancelled", "timed_out_pending"}
                /\ unit'[h].cb = "due"
           \/ Executing(h) /\ unit'[h].state = "completed" /\ unit'[h].cb = "due"
    PROVE  Journeys(h)
<1>1. Owns(h)
  <2>1. unit[h].state # "none"
    BY DEF Executing
  <2> QED BY <2>1 DEF IInv, Owners, NoUnit
<1>2. PinnedInTime(h)
  BY DEF JInv
<1> USE OwnersRow, <1>1, <1>2
<1>3. OthersLeft(h)
  BY DEF OthersLeft, SetUnit, handlerVars
<1>4. Working(h) /\ ~Quiet(h) /\ ~LateKnown(h) /\ (InFlight(h)' <=> InFlight(h))
  BY DEF Working, Executing, Quiet, LateKnown, InFlight, handlerVars
<1>5. PinnedInTime(h)'
  BY <1>4 DEF PinnedInTime, HoldsLock, handlerVars, Working
<1> QED BY <1>3, <1>4, <1>5 DEF Journeys, handlerVars

\* The steps of a completion callback before it writes its late response.
LEMMA CallbackJourneys ==
    ASSUME IInv, JInv, NEW h \in Handlers,
           \/ CallbackBegins(h) \/ CallbackRecovers(h) \/ CallbackResolves(h)
           \/ CallbackPublishes(h) \/ CallbackRefreshes(h)
    PROVE  Journeys(h)
<1>1. Owns(h)
  <2>1. unit[h].cb # "idle"
    BY DEF CallbackBegins, CallbackRecovers, CallbackResolves, CallbackPublishes, CallbackRefreshes
  <2> QED BY <2>1 DEF IInv, Owners, NoUnit
<1>2. PinnedInTime(h)
  BY DEF JInv
<1> USE OwnersRow, <1>1, <1>2
<1>3. UNCHANGED <<entry, handlerVars>> /\ unit[h].cb \notin {"idle", "over"}
  BY DEF CallbackBegins, CallbackRecovers, CallbackResolves, CallbackPublishes, CallbackRefreshes
<1>4. OthersLeft(h)
  BY <1>3 DEF OthersLeft, SetUnit, handlerVars, CallbackBegins, CallbackRecovers, CallbackResolves,
     CallbackPublishes, CallbackRefreshes
<1>5. /\ unit'[h].state = unit[h].state /\ unit'[h].unwoken = unit[h].unwoken
      /\ unit'[h].cs.reg = "none" \/ unit'[h].cs.finished => pc[h] \in Finished
  <2> DEFINE t == token[SessionOf[h]]
  <2>0. t.finished <=> pc[h] \in Finished
    BY DEF TokenAgrees
  <2>1. CASE CallbackBegins(h)
    <3> DEFINE q == EndGuiPhase(t)
               k == IF t.reg = "active" THEN q ELSE NoToken
               b == IF t.reg # "active" THEN "journal" ELSE IF q.incident THEN "recover" ELSE OnCancel(q)
    <3>1. unit' = [unit EXCEPT ![h] = [unit[h] EXCEPT !.cs = k, !.cb = b]]
      BY <2>1 DEF CallbackBegins, SetUnit
    <3>2. k.reg = "none" \/ k.finished => pc[h] \in Finished
      <4>1. /\ q.finished = t.finished
            /\ t.reg = "active" => q.reg \in {"active", "terminal"}
        BY EndedPhase
      <4>2. t.reg = "terminal" => t.finished
        BY DEF TokenInOrder
      <4> HIDE DEF q
      <4> QED BY <2>0, <4>1, <4>2 DEF TokenShape
    <3> HIDE DEF k, b
    <3> QED BY <3>1, <3>2 DEF UnitShape
  <2>2. CASE CallbackRecovers(h)
    <3> DEFINE q == [t EXCEPT !.uncertain = FALSE]
               b == OnCancel(q)
    <3>1. unit' = [unit EXCEPT ![h] = [unit[h] EXCEPT !.cs = q, !.cb = b]]
      BY <2>2 DEF CallbackRecovers, SetUnit
    <3>2. q.reg # "none" /\ q.finished = t.finished
      BY DEF TokenShape
    <3> HIDE DEF q, b
    <3> QED BY <2>0, <3>1, <3>2 DEF UnitShape
  <2>3. CASE CallbackRefreshes(h)
    BY <2>0, <2>3 DEF CallbackRefreshes, SetUnit, UnitShape
  <2>4. CASE CallbackResolves(h) \/ CallbackPublishes(h)
    <3>1. HoldsLock(h)
      BY <2>4 DEF CallbackResolves, CallbackPublishes, HoldsLock
    <3>2. unit'[h] = [unit[h] EXCEPT !.cb = "refresh"] \/ unit'[h] = [unit[h] EXCEPT !.cb = "publish"]
      BY <2>4 DEF CallbackResolves, CallbackPublishes, SetUnit
    <3>3. /\ unit'[h].state = unit[h].state /\ unit'[h].unwoken = unit[h].unwoken
          /\ unit'[h].cs = unit[h].cs
      BY <3>2 DEF UnitShape
    <3> QED BY <3>1, <3>3 DEF PinnedInTime
  <2> QED BY <2>1, <2>2, <2>3, <2>4 DEF CallbackBegins
<1>6. ~Quiet(h) /\ ~LateKnown(h) /\ (InFlight(h)' <=> InFlight(h)) /\ (Working(h)' <=> Working(h))
  BY <1>3, <1>5 DEF Working, Quiet, LateKnown, InFlight, handlerVars
<1>7. PinnedInTime(h)'
  BY <1>3, <1>5, <1>6 DEF PinnedInTime, handlerVars
<1> QED BY <1>3, <1>4, <1>5, <1>6, <1>7 DEF Journeys, handlerVars

\* The four steps that write the journal, and the end of its retention.
LEMMA ClaimJournals ==
    ASSUME IInv, JInv, NEW h \in Handlers, Claim(h)
    PROVE  JInv'
<1>1. /\ entry.state \in {"absent", "expired"} /\ pc[h] = "idle" /\ pc'[h] = "claimed"
      /\ UNCHANGED <<result, pinned, answer, unit>>
      /\ \A g \in Handlers \ {h} : pc'[g] = pc[g]
  BY DEF Claim, SetPc, IInv, Shape
<1>2. entry'.state = "in_progress" /\ entry'.response = "none" /\ ~entry'.late
  BY DEF Claim, NoEntry
<1>3. \A g \in Handlers : ~InFlight(g)
  BY <1>1 DEF JInv, Carried
<1>4. \A g \in Handlers \ {h} :
          ~InFlight(g)' /\ (PinnedInTime(g)' <=> PinnedInTime(g)) /\ (Quiet(g)' <=> Quiet(g))
  BY <1>1, <1>3 DEF InFlight, PinnedInTime, Quiet, HoldsLock, Working
<1>5. InFlight(h)'
  BY <1>1 DEF InFlight
<1>6. Carried'
  BY <1>2, <1>4 DEF Carried
<1>7. unit[h] = NoUnit /\ result[h] = "none" /\ answer[h] = "none"
  BY <1>1 DEF IInv, Owners, Owns
<1>8. PinnedInTime(h)'
  BY <1>1, <1>7 DEF PinnedInTime, HoldsLock, NoUnit
<1>9. ASSUME NoWakeFailed' PROVE Journalled'
  <2>1. \A g \in Handlers : Quiet(g)
    BY <1>1, <1>9 DEF JInv, NoWakeFailed, Journalled
  <2>2. \A g \in Handlers \ {h} : Quiet(g)' /\ ~Working(g)' /\ answer'[g] # "outcome_uncertain"
    BY <1>1, <1>4, <2>1 DEF Quiet, Working
  <2> QED BY <1>2, <1>4, <1>5, <2>2 DEF Journalled
<1> QED BY <1>4, <1>6, <1>8, <1>9 DEF JInv

\* A retry that finds an entry repeats its response, which is uncertain only if pinned.
LEMMA ReplayJournals ==
    ASSUME IInv, JInv, NEW h \in Handlers, Replay(h)
    PROVE  JInv'
<1>1. /\ entry.state \in {"completed", "in_progress"} /\ pc[h] = "idle" /\ pc'[h] = "turned_away"
      /\ UNCHANGED <<entry, result, pinned, unit>>
      /\ answer'[h] \in {entry.response, "in_progress"}
      /\ \A g \in Handlers \ {h} : pc'[g] = pc[g] /\ answer'[g] = answer[g]
  BY DEF Replay, TurnAway, SetPc, IInv, Shape
<1>2. unit[h] = NoUnit /\ result[h] = "none" /\ ~InFlight(h) /\ ~InFlight(h)'
  BY <1>1 DEF IInv, Owners, Owns, InFlight
<1>3. \A g \in Handlers \ {h} : /\ InFlight(g)' <=> InFlight(g)
                                /\ PinnedInTime(g)' <=> PinnedInTime(g)
                                /\ Quiet(g)' <=> Quiet(g)
                                /\ Working(g)' <=> Working(g)
  BY <1>1 DEF InFlight, PinnedInTime, Quiet, HoldsLock, Working
<1>4. Carried'
  BY <1>1, <1>2, <1>3 DEF JInv, Carried
<1>5. PinnedInTime(h)' /\ ~Working(h)'
  BY <1>1, <1>2 DEF PinnedInTime, HoldsLock, NoUnit, Working
<1>6. ASSUME NoWakeFailed' PROVE Journalled'
  <2>1. Journalled
    BY <1>1, <1>6 DEF JInv, NoWakeFailed
  <2>2. \A f \in Handlers : InFlight(f)' => Quiet(h)'
    <3>1. (\E f \in Handlers : InFlight(f)') => entry.response # "outcome_uncertain"
      BY <1>2, <1>3, <2>1 DEF Journalled
    <3> QED BY <1>1, <1>2, <1>5, <3>1 DEF Quiet, NoUnit
  <2>3. \A f, g \in Handlers : InFlight(f)' /\ g # f => Quiet(g)'
    BY <1>2, <1>3, <2>1, <2>2 DEF Journalled
  <2>4. \A g \in Handlers : ~InFlight(g)' /\ (Working(g)' \/ answer'[g] = "outcome_uncertain") =>
            entry.state = "completed" /\ entry.pinned
    BY <1>1, <1>3, <1>5, <2>1 DEF Journalled
  <2>5. entry.response = "outcome_uncertain" => \A g \in Handlers : ~InFlight(g)'
    BY <1>2, <1>3, <2>1 DEF Journalled
  <2>6. \A g \in Handlers : InFlight(g)' /\ entry.late =>
            /\ unit'[g].cb = "over" /\ pc'[g] \in {"gui_error"} \cup PastError
            /\ result'[g] # "outcome_uncertain"
    BY <1>1, <1>2, <1>3, <2>1 DEF Journalled
  <2> QED BY <1>1, <2>1, <2>3, <2>4, <2>5, <2>6 DEF Journalled
<1> QED BY <1>3, <1>4, <1>5, <1>6 DEF JInv

\* A claim whose registration failed is dropped with nothing left behind.
LEMMA AbandonJournals ==
    ASSUME IInv, JInv, NEW h \in Handlers, Abandon(h)
    PROVE  JInv'
<1>1. /\ pc[h] = "abandoning" /\ pc'[h] = "turned_away" /\ answer'[h] = "refused"
      /\ UNCHANGED <<result, pinned, unit>> /\ entry' = NoEntry
      /\ \A g \in Handlers \ {h} : pc'[g] = pc[g] /\ answer'[g] = answer[g]
  BY DEF Abandon, TurnAway, SetPc, IInv, Shape
<1>2. unit[h] = NoUnit /\ result[h] = "none" /\ InFlight(h) /\ ~InFlight(h)'
  BY <1>1 DEF IInv, Owners, Owns, InFlight
<1>3. \A g \in Handlers \ {h} : /\ InFlight(g)' <=> InFlight(g)
                                /\ PinnedInTime(g)' <=> PinnedInTime(g)
                                /\ Quiet(g)' <=> Quiet(g)
                                /\ Working(g)' <=> Working(g)
  BY <1>1 DEF InFlight, PinnedInTime, Quiet, HoldsLock, Working
<1>4. \A g \in Handlers : ~InFlight(g)'
  BY <1>2, <1>3 DEF JInv, Carried
<1>5. PinnedInTime(h)' /\ Quiet(h)' /\ ~Working(h)'
  BY <1>1, <1>2 DEF PinnedInTime, HoldsLock, NoUnit, Working, Quiet
<1>6. Carried'
  BY <1>4 DEF Carried
<1>7. ASSUME NoWakeFailed' PROVE Journalled'
  <2>1. Journalled
    BY <1>1, <1>7 DEF JInv, NoWakeFailed
  <2>2. \A g \in Handlers : Quiet(g)'
    BY <1>2, <1>3, <1>5, <2>1 DEF Journalled
  <2>3. \A g \in Handlers : ~Working(g)' /\ answer'[g] # "outcome_uncertain"
    BY <2>2 DEF Quiet
  <2>4. entry'.response = "none"
    BY <1>1 DEF NoEntry
  <2> QED BY <1>4, <2>2, <2>3, <2>4 DEF Journalled
<1> QED BY <1>3, <1>5, <1>6, <1>7 DEF JInv

\* Completing records the response, and pins an uncertain one.
LEMMA CompleteJournals ==
    ASSUME IInv, JInv, NEW h \in Handlers, Complete(h)
    PROVE  JInv'
<1>1. /\ pc[h] = "completing" /\ pc'[h] = "done" /\ answer'[h] = result[h] /\ result'[h] = "none"
      /\ UNCHANGED unit /\ entry' = JournalComplete(entry, result[h], pinned[h])
      /\ \A g \in Handlers \ {h} : /\ pc'[g] = pc[g] /\ answer'[g] = answer[g]
                                   /\ result'[g] = result[g] /\ pinned'[g] = pinned[g]
  BY DEF Complete, SetPc, SetResult, IInv, Shape
<1>2. InFlight(h) /\ ~InFlight(h)' /\ Owns(h)
  BY <1>1 DEF Owns, InFlight
<1>3. entry \in EntryType /\ entry.state \in {"in_progress", "completed"}
  BY <1>2 DEF JInv, Carried, IInv, Shape
<1>4. IF entry.late THEN entry' = entry
      ELSE /\ entry'.state = "completed" /\ entry'.response = result[h]
           /\ pinned[h] \/ entry.pinned => entry'.pinned
  BY <1>1, <1>3 DEF JournalComplete, EntryType
<1>5. \A g \in Handlers \ {h} : /\ InFlight(g)' <=> InFlight(g)
                                /\ PinnedInTime(g)' <=> PinnedInTime(g)
                                /\ Quiet(g)' <=> Quiet(g)
                                /\ Working(g)' <=> Working(g)
  BY <1>1 DEF InFlight, PinnedInTime, Quiet, HoldsLock, Working
<1>6. \A g \in Handlers : ~InFlight(g)'
  BY <1>2, <1>5 DEF JInv, Carried
<1>7. PinnedInTime(h) /\ PinnedInTime(h)'
  BY <1>1 DEF JInv, PinnedInTime, Finished, HoldsLock
<1>8. Carried'
  BY <1>6 DEF Carried
<1>9. ASSUME NoWakeFailed' PROVE Journalled'
  <2>1. Journalled /\ ~unit[h].unwoken
    BY <1>1, <1>9 DEF JInv, NoWakeFailed
  <2>2. entry'.state \notin {"absent", "expired"}
    BY <1>3, <1>4
  <2>3. \A g \in Handlers \ {h} : ~Working(g)' /\ answer'[g] # "outcome_uncertain"
    BY <1>1, <1>2, <1>5, <2>1 DEF Journalled, Quiet
  <2>4. Working(h) => pinned[h]
    BY <1>1, <1>2, <1>7, <2>1, OwnersRow DEF Working, CallableInOrder, PinnedInTime, PastError,
          Finished
  <2>5. result[h] = "outcome_uncertain" => pinned[h]
    BY <1>7 DEF PinnedInTime
  <2>6. entry.late => ~Working(h) /\ result[h] # "outcome_uncertain"
    BY <1>2, <2>1, OwnersRow DEF Journalled, Working, CallableInOrder
  <2>7. Working(h)' \/ answer'[h] = "outcome_uncertain" => entry'.state = "completed" /\ entry'.pinned
    BY <1>1, <1>4, <2>4, <2>5, <2>6 DEF Working
  <2>8. entry'.response = "outcome_uncertain" => entry'.state = "completed" /\ entry'.pinned
    BY <1>4, <2>1, <2>5 DEF Journalled
  <2> QED BY <1>6, <2>2, <2>3, <2>7, <2>8 DEF Journalled
<1> QED BY <1>5, <1>7, <1>8, <1>9 DEF JInv

\* A late response lands on the entry of the request it belongs to.
LEMMA CallbackJournalled ==
    ASSUME IInv, JInv, NEW h \in Handlers, CallbackJournals(h)
    PROVE  JInv'
<1>1. Owns(h) /\ unit[h].cb = "journal"
  BY DEF CallbackJournals, IInv, Owners, NoUnit
<1>2. UNCHANGED <<pc, result, pinned, answer>>
      /\ \A g \in Handlers \ {h} : unit'[g] = unit[g]
  BY DEF CallbackJournals, handlerVars, SetUnit, IInv, Shape
<1>3. unit'[h].cb = "over" /\ unit'[h].state = unit[h].state /\ unit'[h].unwoken = unit[h].unwoken
  BY <1>1, OwnersRow DEF CallbackJournals, SetUnit, UnitShape
<1>4. \/ entry' = entry /\ ~MustJournal(unit[h])
      \/ entry' = entry /\ entry.state \in {"absent", "expired"}
      \/ /\ MustJournal(unit[h]) /\ entry'.state = "completed" /\ entry'.pinned = entry.pinned
         /\ entry'.response # "outcome_uncertain" /\ entry.state \in {"in_progress", "completed"}
  <2> DEFINE r == LateResponse(unit[h])
  <2>1. r # "outcome_uncertain"
    BY ResponseCodes
  <2>2. entry \in EntryType
    BY DEF IInv, Shape
  <2>3. \/ entry' = entry /\ ~MustJournal(unit[h])
        \/ entry' = JournalLate(entry, r) /\ MustJournal(unit[h])
    BY DEF CallbackJournals
  <2> HIDE DEF r
  <2> QED BY <2>1, <2>2, <2>3 DEF JournalLate, EntryType, EntryStates
<1>5. \A g \in Handlers : InFlight(g)' <=> InFlight(g)
  BY <1>2 DEF InFlight
<1>6. \A g \in Handlers \ {h} : /\ PinnedInTime(g)' <=> PinnedInTime(g)
                                /\ Quiet(g)' <=> Quiet(g)
                                /\ Working(g)' <=> Working(g)
  BY <1>2 DEF InFlight, PinnedInTime, Quiet, HoldsLock, Working
<1>7. PinnedInTime(h) /\ HoldsLock(h)
  BY <1>1 DEF JInv, HoldsLock
<1>8. PinnedInTime(h)'
  BY <1>2, <1>3, <1>7 DEF PinnedInTime, HoldsLock, Working
<1>9. Carried'
  BY <1>4, <1>5 DEF JInv, Carried
<1>10. ASSUME NoWakeFailed' PROVE Journalled'
  <2>1. Journalled
    BY <1>2, <1>3, <1>10 DEF JInv, NoWakeFailed
  <2>2. ~Quiet(h) /\ ~Working(h) /\ ~Working(h)'
    BY <1>1, <1>3, OwnersRow DEF Quiet, Working, CallableInOrder
  <2>3. entry.state \notin {"absent", "expired"}
    BY <2>1, <2>2 DEF Journalled
  <2>4. entry'.state \notin {"absent", "expired"}
    BY <1>4, <2>3
  <2>5. \A f, g \in Handlers : InFlight(f)' /\ g # f => Quiet(g)'
    BY <1>5, <1>6, <2>1, <2>2 DEF Journalled
  <2>6. \A g \in Handlers : ~InFlight(g)' /\ (Working(g)' \/ answer'[g] = "outcome_uncertain") =>
            entry'.state = "completed" /\ entry'.pinned
    BY <1>2, <1>4, <1>5, <1>6, <2>1, <2>2 DEF Journalled
  <2>7. entry'.response = "outcome_uncertain" =>
            entry'.state = "completed" /\ entry'.pinned /\ \A g \in Handlers : ~InFlight(g)'
    BY <1>4, <1>5, <2>1 DEF Journalled
  <2>8. ASSUME NEW g \in Handlers, InFlight(g)', entry'.late
        PROVE  /\ unit'[g].cb = "over" /\ pc'[g] \in {"gui_error"} \cup PastError
               /\ result'[g] # "outcome_uncertain"
    <3>1. g = h /\ InFlight(h)
      BY <1>5, <2>1, <2>2, <2>8 DEF Journalled
    <3>2. ~entry.late
      BY <1>1, <2>1, <3>1 DEF Journalled
    <3>3. MustJournal(unit[h])
      BY <1>4, <2>3, <2>8, <3>2
    <3>4. pc[h] \in {"gui_error"} \cup PastError
      BY <1>1, <1>7, <3>3, OwnersRow DEF MustJournal, CallableInOrder, PinnedInTime, PastError
    <3>5. result[h] # "outcome_uncertain"
      BY <1>1, <1>7 DEF PinnedInTime
    <3> QED BY <1>2, <1>3, <3>1, <3>4, <3>5
  <2> QED BY <2>4, <2>5, <2>6, <2>7, <2>8 DEF Journalled
<1> QED BY <1>6, <1>8, <1>9, <1>10 DEF JInv

\* Only an unpinned entry expires, so nothing of its request is left.
LEMMA ExpireJournals ==
    ASSUME IInv, JInv, Expire
    PROVE  JInv'
<1>1. UNCHANGED <<pc, result, pinned, answer, unit>> /\ entry.state = "completed" /\ entry' = Pruned(entry)
  BY DEF Expire, handlerVars
<1>2. \A g \in Handlers : ~InFlight(g) /\ ~InFlight(g)' /\ unit[g].cb \in {"idle", "over"}
  BY <1>1 DEF Expire, InFlight
<1>3. \A g \in Handlers : (PinnedInTime(g)' <=> PinnedInTime(g)) /\ (Working(g)' <=> Working(g))
  BY <1>1 DEF PinnedInTime, HoldsLock, Working
<1>4. Carried'
  BY <1>2 DEF Carried
<1>5. IF entry.pinned
      THEN entry'.state = "completed" /\ entry'.pinned /\ entry'.response = "compacted"
      ELSE entry'.state = "expired" /\ entry'.response = "none"
  BY <1>1 DEF Pruned, NoEntry, IInv, Shape, EntryType
<1>6. ASSUME NoWakeFailed' PROVE Journalled'
  <2>1. Journalled
    BY <1>1, <1>6 DEF JInv, NoWakeFailed
  <2>2. ~entry.pinned => \A g \in Handlers : ~Working(g) /\ answer[g] # "outcome_uncertain"
    BY <1>2, <2>1 DEF Journalled
  <2>3. ~entry.pinned => \A g \in Handlers : Quiet(g)'
    BY <1>1, <1>2, <2>2 DEF Quiet, Working
  <2> QED BY <1>1, <1>2, <1>3, <1>5, <2>2, <2>3 DEF Journalled
<1> QED BY <1>3, <1>4, <1>6 DEF JInv

\* A step that touches neither the journal nor a handler keeps the invariant.
LEMMA LeftJournal ==
    ASSUME JInv, UNCHANGED <<entry, pc, result, pinned, answer, unit>>
    PROVE  JInv'
<1>1. \A g \in Handlers : /\ InFlight(g)' <=> InFlight(g)
                          /\ PinnedInTime(g)' <=> PinnedInTime(g)
                          /\ Quiet(g)' <=> Quiet(g)
                          /\ Working(g)' <=> Working(g)
  BY DEF InFlight, PinnedInTime, Quiet, HoldsLock, Working
<1>2. Carried'
  BY <1>1 DEF JInv, Carried
<1>3. ASSUME NoWakeFailed' PROVE Journalled'
  <2>1. Journalled
    BY <1>3 DEF JInv, NoWakeFailed
  <2> QED BY <1>1, <2>1 DEF Journalled
<1> QED BY <1>1, <1>2, <1>3 DEF JInv

\* The steps of a callable and of the queue's sweep.
LEMMA CallableStepJourneys ==
    ASSUME IInv, JInv, NEW h \in Handlers,
           StartCallable(h) \/ EndCallable(h) \/ ExpireInHand(h) \/ Sweep(h)
    PROVE  Journeys(h)
<1>1. Owns(h)
  <2>1. unit[h].state # "none"
    BY DEF StartCallable, EndCallable, ExpireInHand, Sweep, Executing
  <2> QED BY <2>1 DEF IInv, Owners, NoUnit
<1> USE OwnersRow, <1>1
<1>2. UNCHANGED <<entry, handlerVars>> /\ unit[h].cb = "idle"
  BY DEF StartCallable, EndCallable, ExpireInHand, Sweep, CallableInOrder, Executing
<1>3. SetUnit(h, unit'[h])
  BY DEF StartCallable, EndCallable, ExpireInHand, Sweep, SetUnit
<1>4. /\ unit'[h].unwoken = unit[h].unwoken /\ unit'[h].cs = unit[h].cs
      /\ \/ unit[h].state = "queued" /\ unit'[h].state = "running" /\ unit'[h].cb = "idle"
         \/ /\ unit[h].state = "queued" /\ unit'[h].state \in {"cancelled", "timed_out_pending"}
            /\ unit'[h].cb = "due"
         \/ Executing(h) /\ unit'[h].state = "completed" /\ unit'[h].cb = "due"
  <2>1. CASE StartCallable(h)
    BY <1>2, <2>1 DEF StartCallable, SetUnit, UnitShape
  <2>2. CASE EndCallable(h)
    <3>1. PICK ok \in BOOLEAN :
             unit'[h] = [unit[h] EXCEPT !.state = "completed", !.ok = ok, !.cb = "due",
                                        !.late = unit[h].state = "timed_out_running"]
      BY <2>2 DEF EndCallable, SetUnit
    <3> QED BY <2>2, <3>1 DEF EndCallable, UnitShape
  <2>3. CASE ExpireInHand(h)
    BY <2>3 DEF ExpireInHand, SetUnit, UnitShape
  <2>4. CASE Sweep(h)
    BY <2>4 DEF Sweep, SetUnit, UnitShape
  <2> QED BY <2>1, <2>2, <2>3, <2>4
<1> QED BY <1>2, <1>3, <1>4, CallableJourneys

\* A canceller withdraws a queued callable of a request in flight, and no more.
LEMMA CancelJournals ==
    ASSUME IInv, JInv, NEW c \in Cancellers, Cancel(c)
    PROVE  JInv'
<1>1. UNCHANGED <<entry, handlerVars>>
  BY DEF Cancel, CancelRequest, CancelInGui, CancelWithdrew, CancelResolves, CancelPublishes
<1>2. CASE UNCHANGED unit
  BY <1>1, <1>2, LeftJournal DEF handlerVars
<1>3. CASE ~UNCHANGED unit
  <2>1. CancelInGui(c) /\ unit[Target(c)].state = "queued"
        /\ SetUnit(Target(c), [unit[Target(c)] EXCEPT !.state = "cancelled", !.cb = "due"])
    BY <1>3 DEF Cancel, CancelRequest, CancelInGui, CancelWithdrew, CancelResolves, CancelPublishes
  <2>2. CancelIn[c] \in Sessions /\ token[CancelIn[c]].reg # "none"
    BY <2>1, ActorAssumption DEF CancelInGui, IInv, Owners
  <2>3. \E g \in Handlers : SessionOf[g] = CancelIn[c] /\ Owns(g)
    BY <2>2 DEF IInv, Owners
  <2>4. PICK h \in Handlers : h = Target(c) /\ Owns(h)
    BY <2>3 DEF Target
  <2>5. unit[h].state = "queued" /\ SetUnit(h, [unit[h] EXCEPT !.state = "cancelled", !.cb = "due"])
    BY <2>1, <2>4
  <2>6. /\ unit'[h].unwoken = unit[h].unwoken /\ unit'[h].cs = unit[h].cs
        /\ unit'[h].state = "cancelled" /\ unit'[h].cb = "due"
    BY <2>4, <2>5, OwnersRow DEF SetUnit, UnitShape
  <2>7. unit[h].cb = "idle" /\ SetUnit(h, unit'[h])
    BY <2>4, <2>5, OwnersRow DEF CallableInOrder, SetUnit
  <2> QED BY <1>1, <2>4, <2>5, <2>6, <2>7, CallableJourneys, JourneysKeeps
<1> QED BY <1>2, <1>3

\* Registering, or being refused, leaves the claimed entry as it is.
LEMMA RegisterJournals ==
    ASSUME IInv, JInv, NEW h \in Handlers, Register(h)
    PROVE  JInv'
<1>a. pc[h] = "claimed" /\ UNCHANGED <<entry, result, pinned, answer, unit>>
  BY DEF Register
<1>b. SetPc(h, "registered") \/ SetPc(h, "abandoning")
  BY Zenon DEF Register
<1>c. pc \in [Handlers -> HandlerPcs]
  BY DEF IInv, Shape
<1>1. /\ pc[h] = "claimed" /\ pc'[h] \in {"registered", "abandoning"}
      /\ UNCHANGED <<entry, result, pinned, answer, unit>>
  BY <1>a, <1>b, <1>c DEF SetPc
<1>2. OthersLeft(h)
  BY <1>a, <1>b, <1>c DEF SetPc, OthersLeft
<1>3. unit[h] = NoUnit /\ result[h] = "none" /\ InFlight(h) /\ InFlight(h)'
  BY <1>1 DEF IInv, Owners, Owns, InFlight
<1>4. PinnedInTime(h)' /\ ~LateKnown(h)
  BY <1>1, <1>3 DEF PinnedInTime, HoldsLock, NoUnit, LateKnown
<1>5. Journeys(h)
  BY <1>1, <1>2, <1>3, <1>4 DEF Journeys, Quiet, NoUnit
<1> QED BY <1>5, JourneysKeeps

\* Every step keeps the journal's invariant.
LEMMA NextJournals == IInv /\ JInv /\ [Next]_vars => JInv'
<1> SUFFICES ASSUME IInv, JInv, [Next]_vars PROVE JInv'
  OBVIOUS
<1>1. ASSUME NEW h \in Handlers, Invoke(h) \/ WakeFails(h) PROVE JInv'
  <2>1. CASE Claim(h) \/ Replay(h) \/ Register(h) \/ Abandon(h) \/ Complete(h)
    BY <2>1, ClaimJournals, ReplayJournals, RegisterJournals, AbandonJournals, CompleteJournals
  <2>2. CASE ~(Claim(h) \/ Replay(h) \/ Register(h) \/ Abandon(h) \/ Complete(h))
    <3>1. Journeys(h)
      BY <1>1, <2>2, HandlerJourneys, SubmissionJourneys DEF Invoke
    <3> QED BY <3>1, JourneysKeeps
  <2> QED BY <2>1, <2>2
<1>2. ASSUME NEW h \in Handlers, Callback(h) \/ Callable(h) \/ ExpireInHand(h) \/ Sweep(h) PROVE JInv'
  <2>1. CASE CallbackJournals(h)
    BY <2>1, CallbackJournalled
  <2>2. CASE ~CallbackJournals(h)
    <3>1. Journeys(h)
      BY <1>2, <2>2, CallbackJourneys, CallableStepJourneys DEF Callback, Callable
    <3> QED BY <3>1, JourneysKeeps
  <2> QED BY <2>1, <2>2
<1>3. ASSUME NEW c \in Cancellers, Cancel(c) PROVE JInv'
  BY <1>3, CancelJournals
<1>4. CASE Expire
  BY <1>4, ExpireJournals
<1>5. CASE CancelAll \/ (\E p \in Pollers : Poll(p)) \/ UNCHANGED vars
  <2>1. UNCHANGED <<entry, pc, result, pinned, answer, unit>>
    BY <1>5 DEF CancelAll, Poll, PollJournal, PollToken, vars, handlerVars
  <2> QED BY <2>1, LeftJournal
<1>6. ASSUME NEW h \in Handlers, Work(h) PROVE JInv'
  <2>1. UNCHANGED <<entry, pc, result, pinned, answer, unit>>
    BY <1>6 DEF Work, PostCommit, BeginMutation, CommitRuns, CommitRejected, ChangeDirectly, handlerVars
  <2> QED BY <2>1, LeftJournal
<1> QED BY <1>1, <1>2, <1>3, <1>4, <1>5, <1>6 DEF Next

\* The journal is empty at the start.
LEMMA InitJournal == Init => JInv
<1> SUFFICES ASSUME Init PROVE JInv
  OBVIOUS
<1>1. \A h \in Handlers : /\ pc[h] = "idle" /\ unit[h] = NoUnit /\ result[h] = "none" /\ answer[h] = "none"
  BY DEF Init
<1>2. \A h \in Handlers : ~InFlight(h) /\ ~Working(h) /\ Quiet(h) /\ PinnedInTime(h)
  BY <1>1 DEF InFlight, Working, Quiet, PinnedInTime, HoldsLock, NoUnit
<1>3. entry.response = "none"
  BY DEF Init, NoEntry
<1> QED BY <1>1, <1>2, <1>3 DEF JInv, Carried, Journalled

\* While a request id is carried or may be claimed again nothing is left of its earlier
\* requests, as long as no wake has failed; a finished one that may still run keeps its
\* entry pinned.
THEOREM JournalInvariant == Spec => [](IInv /\ JInv)
<1>1. IInv /\ JInv /\ [Next]_vars => JInv'
  BY NextJournals
<1> QED BY <1>1, InductiveInvariant, InitJournal, PTL DEF Spec

\* A request id is dispatched again only when no earlier callable of it may still run
\* and no earlier caller was told that the outcome is uncertain, as long as no wake
\* has failed (a retry claims the id only if the journal has let it go).
THEOREM NoRedispatchOfLiveWorkHolds == Spec => NoRedispatchOfLiveWork
<1>1. IInv /\ JInv /\ [Next]_vars => [\A h \in Handlers : Redispatches(h) /\ NoWakeFailed =>
          \A g \in Handlers : ~Outstanding(g) /\ answer[g] # "outcome_uncertain"]_vars
  <2> SUFFICES ASSUME IInv, JInv, NEW h \in Handlers, Redispatches(h), NoWakeFailed, NEW g \in Handlers
               PROVE  ~Outstanding(g) /\ answer[g] # "outcome_uncertain"
    OBVIOUS
  <2>1. pc[h] = "registered" /\ InFlight(h) /\ Owns(h)
    BY DEF Redispatches, InFlight, Owns
  <2>2. CASE g = h
    BY <2>1, <2>2, OwnersRow DEF CallableInOrder, AnswerAgrees, NoUnit, Outstanding, Executing
  <2>3. CASE g # h
    <3>1. Quiet(g)
      BY <2>1, <2>3 DEF JInv, Journalled
    <3> QED BY <3>1 DEF Quiet, Working, Outstanding, Executing
  <2> QED BY <2>2, <2>3
<1> QED BY <1>1, JournalInvariant, PTL DEF Spec, NoRedispatchOfLiveWork

=============================================================================
