-------------------------- MODULE GuiScheduleProofs --------------------------
(* Work that may run is always about to be woken, and in the right order:   *)
(* no wakeup is lost and no deferred request is overtaken, for any          *)
(* requests, documents and owners.                                          *)
EXTENDS GuiQueueProofs

Disjoint(q, r) == keysOf[q] \cap keysOf[r] = {}

Runnable == HasRunnable(requests, deferredRequests)

\* Work is runnable when some queued request shares no document with a deferred one.
LEMMA RunnableMeans ==
    /\ Runnable <=>
          \E r \in Range(requests) : \A q \in deferredRequests :
              state[q] = "deferred" => Disjoint(q, r)
    /\ Runnable' <=>
          \E r \in Range(requests') : \A q \in deferredRequests' :
              state'[q] = "deferred" => Disjoint(q, r)
<1>1. ASSUME NEW st, NEW D, NEW r
      PROVE  keysOf[r] \cap UNION {keysOf[x] : x \in {q \in D : st[q] = "deferred"}} = {}
                <=> \A q \in D : st[q] = "deferred" => Disjoint(q, r)
  BY DEF Disjoint
<1>2. \A D, r : Unblocked(r, D) <=> \A q \in D : state[q] = "deferred" => Disjoint(q, r)
  BY <1>1 DEF Unblocked, BlockedKeys
<1>3. \A D, r : keysOf[r] \cap UNION {keysOf[x] : x \in {q \in D : state'[q] = "deferred"}} = {}
          <=> \A q \in D : state'[q] = "deferred" => Disjoint(q, r)
  BY <1>1
<1> DEFINE Blocked == UNION {keysOf[x] : x \in {q \in deferredRequests : state[q] = "deferred"}}
<1>4. Runnable <=> \E i \in DOMAIN requests : Unblocked(requests[i], deferredRequests)
  BY DEF Runnable, HasRunnable
<1>5. Runnable' <=> \E i \in DOMAIN requests' : keysOf[requests'[i]] \cap Blocked' = {}
  BY DEF Runnable, HasRunnable, Unblocked, BlockedKeys
<1>6. \A r : keysOf[r] \cap Blocked' = {} <=>
                \A q \in deferredRequests' : state'[q] = "deferred" => Disjoint(q, r)
  BY <1>3
<1> HIDE DEF Blocked
<1>7. Runnable <=> \E r \in Range(requests) : Unblocked(r, deferredRequests)
  BY <1>4 DEF Range
<1>8. Runnable' <=> \E r \in Range(requests') : keysOf[r] \cap Blocked' = {}
  BY <1>5 DEF Range
<1> QED BY <1>2, <1>6, <1>7, <1>8

\* What a critical section computes of its own new queues, before any state changes.
LEMMA RunnableThen ==
    ASSUME NEW queue, NEW deferred, queue = requests', deferred = deferredRequests',
           \A q \in deferred : state'[q] = "deferred" => state[q] = "deferred",
           \A q \in deferred : state[q] = "deferred" => state'[q] = "deferred"
    PROVE  Runnable' <=> HasRunnable(queue, deferred)
<1>1. {q \in deferred : state'[q] = "deferred"} = {q \in deferred : state[q] = "deferred"}
  OBVIOUS
<1> QED BY <1>1 DEF Runnable, HasRunnable, Unblocked, BlockedKeys

-----------------------------------------------------------------------------
(* The inductive invariant of the wakes.                                    *)

\* drain_one will look at the queue again before it is idle.
RunPhases == {"run", "completing", "release", "finally"}
Undecided == {"deadline", "busy", "requeue", "probe", "start"}

Promised ==
    \/ gui \in RunPhases \cup {"failed", "defer"}
    \/ gui \in Undecided /\ state[hand] = "pending" /\ accepting

\* stop_accepting left nothing waiting, and nothing waits after it.
StoppedIsEmpty == ~accepting => Range(requests) = {} /\ deferredRequests = {}

\* A flag that keeps later submitters from posting has a wake behind it, unless
\* a callable runs: the wake may have been dropped, and the end of the run looks.
SignalHasWake == signalPending /\ gui \notin RunPhases => WakeComing

\* Runnable work has a wake coming, a removal that will signal it, or a drain
\* that will look at it again.
RunnableIsSeen == Runnable => WakeComing \/ CleanupComing \/ Promised

WakeInvariant == StoppedIsEmpty /\ SignalHasWake /\ RunnableIsSeen

\* No wake is used up, and no run ends.
WakesKept ==
    /\ WakeComing => WakeComing'
    /\ gui' \notin RunPhases => gui \notin RunPhases

\* What a step may do to wakes, the flag and the work they are for.
WakeMove ==
    \/ WakeComing' \/ gui' \in RunPhases
    \/ ~signalPending' /\ (Runnable' => Promised' \/ CleanupComing')
    \/ /\ WakesKept
       /\ signalPending' => signalPending
       /\ \/ signalPending' \/ ~Runnable' \/ CleanupComing'
          \/ /\ Runnable' => Runnable
             /\ CleanupComing => CleanupComing'
             /\ Promised => Promised'

\* Each of those keeps the invariant.
LEMMA WakeMoveKeeps ==
    ASSUME SignalHasWake, RunnableIsSeen, WakeMove
    PROVE  SignalHasWake' /\ RunnableIsSeen'
<1>1. gui' \in RunPhases => Promised'  BY DEF Promised
<1> QED BY <1>1 DEF SignalHasWake, RunnableIsSeen, WakeMove, WakesKept

\* A sum of counters is positive when one of them is.
LEMMA PositiveSum ==
    \A a, b, c \in Nat : a + b + c > 0 <=> a > 0 \/ b > 0 \/ c > 0
  OBVIOUS

\* A wake stays on its way when no counter falls and no handler leaves "wake".
LEMMA WakesStay ==
    ASSUME Shape, Shape', wakes' >= wakes, timers' >= timers, owedWakes' >= owedWakes,
           \A r \in Requests : pc[r] = "wake" => pc'[r] = "wake"
    PROVE  WakeComing => WakeComing'
<1>1. /\ wakes \in Nat /\ timers \in Nat /\ owedWakes \in Nat
      /\ wakes' \in Nat /\ timers' \in Nat /\ owedWakes' \in Nat
  BY DEF Shape, TypeOK
<1>2. /\ wakes > 0 => wakes' > 0
      /\ timers > 0 => timers' > 0
      /\ owedWakes > 0 => owedWakes' > 0
  BY <1>1
<1> QED BY <1>1, <1>2, PositiveSum DEF WakeComing

\* A wake is on its way when one counter is positive or a handler is about to post one.
LEMMA WakeIsComing ==
    ASSUME Shape'
    PROVE  /\ wakes' > 0 => WakeComing'
           /\ timers' > 0 => WakeComing'
           /\ owedWakes' > 0 => WakeComing'
           /\ \A r \in Requests : pc'[r] = "wake" => WakeComing'
<1>1. wakes' \in Nat /\ timers' \in Nat /\ owedWakes' \in Nat  BY DEF Shape, TypeOK
<1> QED BY <1>1, PositiveSum DEF WakeComing

\* _request_wake posts a wake, or it empties the queue and clears the flag.
LEMMA RequestWakeMove ==
    ASSUME Inductive, Shape', RequestWake
    PROVE  WakeMove
<1>1. CASE wakes' = wakes + 1
  <2>1. wakes' > 0  BY <1>1 DEF Inductive, Shape, TypeOK
  <2> QED BY <2>1, WakeIsComing DEF WakeMove
<1>2. CASE FailPendingWakes
  <2>1. Range(requests') = {} /\ signalPending' = FALSE
    BY <1>2, SweptPlaces DEF FailPendingWakes
  <2> QED BY <2>1, RunnableMeans DEF WakeMove
<1> QED BY <1>1, <1>2 DEF RequestWake

\* Work that becomes runnable when requests leave the queue is signalled.
LEMMA SignalRunnableMove ==
    ASSUME Inductive, Shape', NEW queue, NEW deferred,
           SignalRunnable(queue, HasRunnable(queue, deferred)),
           queue = requests', deferred = deferredRequests',
           \A q \in deferred : state'[q] = "deferred" => state[q] = "deferred",
           \A q \in deferred : state[q] = "deferred" => state'[q] = "deferred",
           UNCHANGED <<pc, gui, wakes, timers>>
    PROVE  WakeMove
<1>1. Runnable' <=> HasRunnable(queue, deferred)  BY RunnableThen
<1>2. signalPending' = (Runnable' \/ (signalPending /\ queue # <<>>))
  BY <1>1 DEF SignalRunnable
<1>3. owedWakes' = IF Runnable' /\ ~signalPending THEN owedWakes + 1 ELSE owedWakes
  BY <1>1 DEF SignalRunnable
<1>4. owedWakes \in Nat /\ wakes \in Nat /\ timers \in Nat  BY DEF Inductive, Shape, TypeOK
<1>5. CASE Runnable' /\ ~signalPending
  <2>1. owedWakes' > 0  BY <1>3, <1>4, <1>5
  <2> QED BY <2>1, WakeIsComing DEF WakeMove
<1>6. CASE ~(Runnable' /\ ~signalPending)
  <2>1. owedWakes' = owedWakes  BY <1>3, <1>6
  <2>2. WakeComing => WakeComing'  BY <2>1 DEF WakeComing
  <2> QED BY <1>2, <1>6, <2>2 DEF WakeMove, WakesKept
<1> QED BY <1>5, <1>6

\* A step that leaves the queues, the flag and the counters alone.
LEMMA CalmMove ==
    ASSUME Inductive, Shape',
           UNCHANGED <<requests, deferredRequests, signalPending, wakes, timers, owedWakes>>,
           \A r \in Requests : pc[r] = "wake" => pc'[r] = "wake",
           gui' \notin RunPhases => gui \notin RunPhases,
           \A q \in deferredRequests : state'[q] = "deferred" <=> state[q] = "deferred",
           CleanupComing => CleanupComing', Promised => Promised'
    PROVE  WakeMove
<1>1. WakeComing => WakeComing'  BY DEF WakeComing
<1>2. Runnable' <=> Runnable  BY RunnableThen DEF Runnable
<1> QED BY <1>1, <1>2 DEF WakeMove, WakesKept

\* The steps of handlers.
LEMMA HandlerWakeMove ==
    ASSUME ConstantsAssumption, Inductive, Inductive', QueueInvariant, WakeInvariant,
           NEW r \in Requests, Handler(r)
    PROVE  WakeMove
<1> USE DEF handlerVars, requestVars, queueVars, coreVars, guiVars, documentVars, historyVars
<1>t. /\ Shape' /\ pc \in [Requests -> HandlerStates]
      /\ state \in [Requests -> RequestStates]
      /\ settling \in [Requests -> {"none", "remove", "forget"}]
      /\ deferredRequests \subseteq Requests /\ (gui # "idle" => hand \in Requests)
  BY LifeTypes DEF Inductive, Shape, TypeOK
<1>1. CASE Enqueue(r)
  <2>1. CASE signalPending
    <3>1. \A q \in Requests : q # r => pc'[q] = pc[q]  BY <1>t, <1>1 DEF Enqueue
    <3>2. pc[r] # "wake" /\ UNCHANGED <<wakes, timers, owedWakes, gui>> /\ signalPending' = TRUE
      BY <1>1 DEF Enqueue
    <3>3. WakesKept  BY <3>1, <3>2 DEF WakesKept, WakeComing
    <3> QED BY <2>1, <3>2, <3>3 DEF WakeMove
  <2>2. CASE ~signalPending
    <3>1. pc'[r] = "wake"  BY <1>t, <1>1, <2>2 DEF Enqueue
    <3> QED BY <1>t, <3>1, WakeIsComing DEF WakeMove
  <2> QED BY <2>1, <2>2
<1>2. CASE WakeForSubmit(r)
  <2>1. RequestWake  BY <1>2 DEF WakeForSubmit
  <2> QED BY <1>t, <2>1, RequestWakeMove
<1>3. CASE QuarantineRunning(r)
  <2>1. SweepAll /\ UNCHANGED <<signalPending, wakes, timers, owedWakes, gui>>
    BY <1>3 DEF QuarantineRunning
  <2>2. ~Runnable'  BY <2>1, SweptPlaces, RunnableMeans
  <2>3. \A q \in Requests : pc[q] = "wake" => pc'[q] = "wake"
    BY <1>t, <1>3 DEF QuarantineRunning, Leave
  <2>4. WakesKept  BY <2>1, <2>3 DEF WakesKept, WakeComing
  <2> QED BY <2>1, <2>2, <2>4 DEF WakeMove
<1>4. CASE CancelOnTimeout(r)
  <2>1. /\ UNCHANGED <<signalPending, wakes, timers, owedWakes, gui>>
        /\ pc[r] = "timeout" /\ pc' = [pc EXCEPT ![r] = "cleanup"]
        /\ settling' = [settling EXCEPT ![r] = "remove"]
    BY <1>4 DEF CancelOnTimeout
  <2>2. \A q \in Requests : pc[q] = "wake" => pc'[q] = "wake"  BY <1>t, <2>1
  <2>3. CleanupComing'  BY <1>t, <2>1 DEF CleanupComing
  <2>4. WakesKept  BY <2>1, <2>2 DEF WakesKept, WakeComing
  <2> QED BY <2>1, <2>3, <2>4 DEF WakeMove
<1>5. CASE SubmitInline(r)
  <2>1. /\ UNCHANGED <<requests, deferredRequests, signalPending, wakes, timers, owedWakes,
                       gui, hand, accepting, settling>>
        /\ pc[r] = "idle" /\ pc' = [pc EXCEPT ![r] = "returned"]
        /\ UNCHANGED state \/ state' = [state EXCEPT ![r] = "completed"]
    BY <1>5 DEF SubmitInline
  <2>2. r \notin deferredRequests /\ r # hand
    BY <2>1 DEF Inductive, Life, FreshIsUntouched, Fresh, Known
  <2>3. \A q \in Requests : q # r => state'[q] = state[q]  BY <1>t, <2>1
  <2>4. \A q \in Requests : pc[q] = "wake" => pc'[q] = "wake"  BY <1>t, <2>1
  <2>5. CleanupComing => CleanupComing'  BY <2>1 DEF CleanupComing
  <2>6. Promised => Promised'  BY <1>t, <2>1, <2>2, <2>3 DEF Promised, Undecided
  <2>7. \A q \in deferredRequests : state'[q] = "deferred" <=> state[q] = "deferred"
    BY <1>t, <2>2, <2>3
  <2> QED BY <1>t, <2>1, <2>4, <2>5, <2>6, <2>7, CalmMove
<1>6. CASE MarkTimedOut(r)
  <2>1. /\ UNCHANGED <<requests, deferredRequests, signalPending, wakes, timers, owedWakes,
                       gui, hand, accepting, settling>>
        /\ pc[r] = "timeout" /\ pc' = [pc EXCEPT ![r] = "quarantine"]
        /\ state[r] = "running" /\ state' = [state EXCEPT ![r] = "timed_out_running"]
    BY <1>6 DEF MarkTimedOut, TimesOutRunning
  <2>3. \A q : state[q] # "running" => state'[q] = state[q]  BY <1>t, <2>1
  <2>4. \A q \in Requests : pc[q] = "wake" => pc'[q] = "wake"  BY <1>t, <2>1
  <2>5. CleanupComing => CleanupComing'  BY <2>1 DEF CleanupComing
  <2>6. Promised => Promised'  BY <2>1, <2>3 DEF Promised
  <2>7. \A q \in deferredRequests : state'[q] = "deferred" <=> state[q] = "deferred"
    BY <1>t, <2>1
  <2> QED BY <1>t, <2>1, <2>4, <2>5, <2>6, <2>7, CalmMove
<1>7. CASE \/ Submit(r) \/ RefuseStopping(r) \/ RefuseQuarantined(r) \/ RefuseDuplicate(r)
           \/ WaitReturns(r) \/ WaitExpires(r) \/ TimeoutAlreadyExpired(r)
           \/ TimeoutOvertaken(r) \/ CleanupDone(r) \/ OvertakenReturns(r)
           \/ HandlerRelease(r)
  <2>1. UNCHANGED <<state, requests, deferredRequests, signalPending, wakes, timers,
                    owedWakes, gui, hand, accepting, settling>>
    BY <1>7
    DEF Submit, RefuseStopping, RefuseQuarantined, RefuseDuplicate, WaitReturns, WaitExpires,
        TimeoutAlreadyExpired, TimeoutOvertaken, CleanupDone, OvertakenReturns, HandlerRelease
  <2>2. pc[r] # "wake" /\ \E at : pc' = [pc EXCEPT ![r] = at]
    BY <1>7
    DEF Submit, RefuseStopping, RefuseQuarantined, RefuseDuplicate, WaitReturns, WaitExpires,
        TimeoutAlreadyExpired, TimeoutOvertaken, CleanupDone, OvertakenReturns,
        HandlerRelease, Leave
  <2>3. \A q \in Requests : pc[q] = "wake" => pc'[q] = "wake"  BY <1>t, <2>2
  <2>4. CleanupComing => CleanupComing'  BY <2>1 DEF CleanupComing
  <2>5. Promised => Promised'  BY <2>1 DEF Promised
  <2> QED BY <1>t, <2>1, <2>3, <2>4, <2>5, CalmMove
<1> QED BY <1>1, <1>2, <1>3, <1>4, <1>5, <1>6, <1>7
        DEF Handler, Proceed, Admission, HandleTimeout

\* The steps that end or cancel requests, and those of the environment.
LEMMA EndingWakeMove ==
    ASSUME ConstantsAssumption, Inductive, Inductive', QueueInvariant, WakeInvariant,
           \/ \E r \in Requests : Settle(r) \/ CancelSwept(r) \/ Tick(r)
           \/ PostOwedWake \/ TimerFires \/ EventLoop \/ Environment \/ UNCHANGED vars
    PROVE  WakeMove
<1> USE DEF handlerVars, requestVars, queueVars, coreVars, guiVars, documentVars, historyVars
<1>t. /\ Shape' /\ pc \in [Requests -> HandlerStates]
      /\ state \in [Requests -> RequestStates]
      /\ settling \in [Requests -> {"none", "remove", "forget"}]
      /\ requestsByOwner \in [Owners -> Requests \cup {NULL}]
      /\ deferredRequests \subseteq Requests /\ owedWakes \in Nat
      /\ gui # "idle" => hand \in Requests
  BY LifeTypes DEF Inductive, Shape, TypeOK
<1>p. Placed  BY DEF QueueInvariant
<1>1. ASSUME NEW r \in Requests, Settle(r)  PROVE WakeMove
  <2>1. /\ UNCHANGED <<pc, state, gui, hand, wakes, timers, accepting>>
        /\ settling' = [settling EXCEPT ![r] = "none"]
    BY <1>1 DEF Settle
  <2>2. CASE settling[r] = "remove"
    <3> DEFINE queue == Without(requests, r)
               deferred == deferredRequests \ {r}
    <3>1. RemovePending(r)  BY <1>1, <2>2 DEF Settle
    <3>2. /\ queue = requests' /\ deferred = deferredRequests'
          /\ SignalRunnable(queue, HasRunnable(queue, deferred))
      BY <3>1 DEF RemovePending
    <3> HIDE DEF queue, deferred
    <3> QED BY <1>t, <2>1, <3>2, SignalRunnableMove
  <2>3. CASE settling[r] # "remove"
    <3>1. UNCHANGED <<requests, deferredRequests, signalPending, owedWakes>>
      BY <1>1, <2>3 DEF Settle, ForgetAfterExecution
    <3>2. CleanupComing => CleanupComing'  BY <1>t, <2>1, <2>3 DEF CleanupComing
    <3>3. Promised => Promised'  BY <2>1 DEF Promised
    <3> QED BY <1>t, <2>1, <3>1, <3>2, <3>3, CalmMove
  <2> QED BY <2>2, <2>3
<1>2. ASSUME NEW r \in Requests, CancelSwept(r)  PROVE WakeMove
  <2>1. /\ UNCHANGED <<requests, deferredRequests, signalPending, wakes, timers, owedWakes,
                       pc, gui, hand, accepting, settling>>
        /\ r \in swept
        /\ UNCHANGED state \/ state' = [state EXCEPT ![r] = "cancelled"]
    BY <1>2 DEF CancelSwept, CancelIfPending
  <2>2. r \notin deferredRequests /\ r # hand  BY <1>p, <2>1 DEF Placed
  <2>3. \A q \in Requests : q # r => state'[q] = state[q]  BY <1>t, <2>1
  <2>4. CleanupComing => CleanupComing'  BY <2>1 DEF CleanupComing
  <2>5. Promised => Promised'  BY <1>t, <2>1, <2>2, <2>3 DEF Promised, Undecided
  <2>6. \A q \in deferredRequests : state'[q] = "deferred" <=> state[q] = "deferred"
    BY <1>t, <2>2, <2>3
  <2> QED BY <1>t, <2>1, <2>4, <2>5, <2>6, CalmMove
<1>3. ASSUME NEW k \in Owners, CancelRequest(k)  PROVE WakeMove
  <2> DEFINE r == requestsByOwner[k]
  <2>1. UNCHANGED <<pc, gui, hand, wakes, timers, accepting, settling>> /\ r \in Requests
    BY <1>t, <1>3 DEF CancelRequest
  <2>2. CASE CancelIfPending(r)
    <3> DEFINE queue == Without(requests, r)
               deferred == deferredRequests \ {r}
    <3>1. RemovePending(r)
      BY <1>3, <2>2 DEF CancelRequest, CancelIfPending, Waiting, Terminal
    <3>2. /\ queue = requests' /\ deferred = deferredRequests'
          /\ SignalRunnable(queue, HasRunnable(queue, deferred))
      BY <3>1 DEF RemovePending
    <3>3. \A q \in deferred : state'[q] = state[q]
      BY <1>t, <2>2 DEF CancelIfPending
    <3> HIDE DEF queue, deferred, r
    <3> QED BY <1>t, <2>1, <3>2, <3>3, SignalRunnableMove
  <2>3. CASE ~CancelIfPending(r)
    <3>1. UNCHANGED <<state, requests, deferredRequests, signalPending, owedWakes>>
      BY <1>3, <2>3 DEF CancelRequest
    <3>2. CleanupComing => CleanupComing'  BY <2>1 DEF CleanupComing
    <3>3. Promised => Promised'  BY <2>1, <3>1 DEF Promised
    <3> QED BY <1>t, <2>1, <3>1, <3>2, <3>3, CalmMove
  <2> QED BY <2>2, <2>3
<1>4. CASE StopAccepting
  <2>1. SweepAll /\ signalPending' = FALSE  BY <1>4 DEF StopAccepting
  <2>2. ~Runnable'  BY <2>1, SweptPlaces, RunnableMeans
  <2> QED BY <2>1, <2>2 DEF WakeMove
<1>5. CASE PostOwedWake \/ TimerFires
  <2>1. RequestWake  BY <1>5 DEF PostOwedWake, TimerFires
  <2> QED BY <1>t, <2>1, RequestWakeMove
<1>6. ASSUME NEW d \in Docs, NotifyStable(d)  PROVE WakeMove
  <2>1. /\ signalPending' = (signalPending \/ (PromotedBy(d) # {} /\ accepting))
        /\ owedWakes' = IF PromotedBy(d) # {} /\ accepting /\ ~signalPending
                        THEN owedWakes + 1 ELSE owedWakes
        /\ UNCHANGED <<pc, gui, hand, wakes, timers, accepting, settling>>
    BY <1>6 DEF NotifyStable, PromotedBy
  <2>2. /\ Range(requests') = PromotedBy(d) \cup Range(requests)
        /\ deferredRequests' = deferredRequests \ PromotedBy(d)
        /\ state' = [q \in Requests |-> IF q \in PromotedBy(d) THEN "pending" ELSE state[q]]
    BY <1>p, <1>6, PromotedPlaces
  <2>3. CASE PromotedBy(d) = {}
    <3>1. /\ Range(requests') = Range(requests) /\ deferredRequests' = deferredRequests
          /\ owedWakes' = owedWakes /\ (signalPending' => signalPending)
          /\ \A q \in Requests : state'[q] = state[q]
      BY <2>1, <2>2, <2>3
    <3>2. Runnable' <=> Runnable  BY <1>t, <3>1, RunnableMeans
    <3>3. CleanupComing => CleanupComing'  BY <2>1 DEF CleanupComing
    <3>4. Promised => Promised'  BY <1>t, <2>1, <3>1 DEF Promised, Undecided
    <3>5. WakesKept  BY <2>1, <3>1 DEF WakesKept, WakeComing
    <3> QED BY <3>1, <3>2, <3>3, <3>4, <3>5 DEF WakeMove
  <2>4. CASE PromotedBy(d) # {}
    <3>1. accepting
      BY <2>4 DEF PromotedBy, WakeInvariant, StoppedIsEmpty
    <3>2. CASE signalPending
      <4>1. signalPending' /\ owedWakes' = owedWakes  BY <2>1, <2>4, <3>1, <3>2
      <4>2. WakesKept  BY <2>1, <4>1 DEF WakesKept, WakeComing
      <4> QED BY <3>2, <4>1, <4>2 DEF WakeMove
    <3>3. CASE ~signalPending
      <4>1. owedWakes' > 0  BY <1>t, <2>1, <2>4, <3>1, <3>3
      <4> QED BY <1>t, <4>1, WakeIsComing DEF WakeMove
    <3> QED BY <3>2, <3>3
  <2> QED BY <2>3, <2>4
<1>7. ASSUME NEW d \in Docs, NotifyDeleted(d)  PROVE WakeMove
  <2>1. PICK queue, deferred :
           /\ requests' = queue /\ deferredRequests' = deferred
           /\ SignalRunnable(queue, HasRunnable(queue, deferred))
    BY <1>7 DEF NotifyDeleted
  <2>2. UNCHANGED <<pc, state, gui, wakes, timers>>  BY <1>7 DEF NotifyDeleted
  <2> QED BY <1>t, <2>1, <2>2, SignalRunnableMove
<1>8. CASE \/ \E r \in Requests : Tick(r)
           \/ \E d \in Docs : DocumentChanges(d)
           \/ UNCHANGED vars
  <2>1. UNCHANGED <<pc, state, requests, deferredRequests, signalPending, wakes, timers,
                    owedWakes, gui, hand, accepting, settling>>
    BY <1>8 DEF Tick, DocumentChanges, vars
  <2>2. CleanupComing => CleanupComing'  BY <2>1 DEF CleanupComing
  <2>3. Promised => Promised'  BY <2>1 DEF Promised
  <2> QED BY <1>t, <2>1, <2>2, <2>3, CalmMove
<1> QED BY <1>1, <1>2, <1>3, <1>4, <1>5, <1>6, <1>7, <1>8 DEF EventLoop, Environment

\* The steps of drain_one.
LEMMA DrainWakeMove ==
    ASSUME ConstantsAssumption, Inductive, Inductive', QueueInvariant, WakeInvariant, Gui
    PROVE  WakeMove
<1> USE DEF handlerVars, requestVars, queueVars, coreVars, guiVars, documentVars, historyVars
<1>t. /\ Shape' /\ state \in [Requests -> RequestStates]
      /\ settling \in [Requests -> {"none", "remove", "forget"}]
      /\ deferredRequests \subseteq Requests /\ (gui # "idle" => hand \in Requests)
      /\ owedWakes \in Nat /\ timers \in Nat
  BY LifeTypes DEF Inductive, Shape, TypeOK
<1>p. /\ Placed /\ Settled /\ CompletedIsGone /\ StateAgrees
      /\ SignalHasWake /\ StoppedIsEmpty
  BY DEF QueueInvariant, WakeInvariant
<1>1. ASSUME NEW r \in Requests, DrainTakes(r)  PROVE WakeMove
  <2>1. /\ signalPending' = FALSE /\ hand' = r /\ gui' = "deadline"
        /\ UNCHANGED <<state, accepting, settling>>
    BY <1>1 DEF DrainTakes
  <2>2. r \in Range(requests) /\ hand = NULL  BY <1>p, <1>1, TakenPlaces
  <2>3. accepting  BY <1>p, <2>2 DEF StoppedIsEmpty
  <2>4. state[r] \in {"pending"} \cup Terminal  BY <1>p, <2>2 DEF StateAgrees
  <2>5. CASE state[r] = "pending"
    BY <2>1, <2>3, <2>5 DEF WakeMove, Promised, Undecided
  <2>6. CASE state[r] \in Terminal
    <3>1. ~completion[r]  BY <1>p, <2>2 DEF CompletedIsGone, Gone
    <3>2. settling[r] \in {"remove", "forget"}  BY <1>t, <1>p, <2>6, <3>1 DEF Settled
    <3>3. settling[r] # "forget"  BY <1>p, <2>2 DEF Settled, ConstantsAssumption
    <3>4. CleanupComing'  BY <2>1, <3>2, <3>3 DEF CleanupComing
    <3> QED BY <2>1, <3>4 DEF WakeMove
  <2> QED BY <2>4, <2>5, <2>6
<1>2. CASE DrainFindsNothing
  <2>1. ~Runnable /\ signalPending' = FALSE /\ UNCHANGED <<state, requests, deferredRequests>>
    BY <1>2 DEF DrainFindsNothing, Runnable
  <2>2. ~Runnable'  BY <2>1, RunnableMeans
  <2> QED BY <2>1, <2>2 DEF WakeMove
<1>3. CASE NestedDrain
  BY <1>3 DEF NestedDrain, WakeMove, RunPhases
<1>4. CASE ExpireInHand
  <2>1. /\ UNCHANGED <<pc, signalPending, wakes, timers, owedWakes>>
        /\ gui = "deadline" /\ gui' = "expiring"
        /\ settling' = [settling EXCEPT ![hand] = "remove"]
    BY <1>4 DEF ExpireInHand, GuiAt
  <2>2. CleanupComing'  BY <1>t, <2>1 DEF CleanupComing
  <2>3. WakesKept  BY <2>1 DEF WakesKept, WakeComing, RunPhases
  <2> QED BY <2>1, <2>2, <2>3 DEF WakeMove
\* drain_one moves on towards the start, or turns to deferring.
<1>5. CASE DeadlineHolds \/ SampleBusy \/ SampleFree \/ ProbeDefers \/ ProbeClears
  <2>1. /\ UNCHANGED <<pc, state, requests, deferredRequests, signalPending, wakes, timers,
                       owedWakes, hand, accepting, settling>>
        /\ gui \in {"deadline", "busy", "probe"}
        /\ gui' \in {"busy", "requeue", "probe", "start", "defer"}
    BY <1>5 DEF DeadlineHolds, SampleBusy, SampleFree, ProbeDefers, ProbeClears, GuiAt
  <2>2. gui \notin RunPhases  BY <2>1 DEF RunPhases
  <2>3. CleanupComing => CleanupComing'  BY <2>1 DEF CleanupComing
  <2>4. Promised => Promised'  BY <2>1 DEF Promised, Undecided, RunPhases
  <2> QED BY <1>t, <2>1, <2>2, <2>3, <2>4, CalmMove
\* drain_one puts down a request it could not promise anything for.
<1>6. CASE ExpiryDone \/ StartRefused \/ (RequeueBusy /\ ~(state[hand] = "pending" /\ accepting))
  <2>1. /\ UNCHANGED <<pc, state, requests, deferredRequests, signalPending, wakes, timers,
                       owedWakes, settling>>
        /\ gui \in {"expiring", "start", "requeue"}
        /\ gui \in {"start", "requeue"} => ~(state[hand] = "pending" /\ accepting)
    BY <1>6 DEF ExpiryDone, StartRefused, RequeueBusy, Drained, MayStart
  <2>2. gui \notin RunPhases  BY <2>1 DEF RunPhases
  <2>3. CleanupComing => CleanupComing'  BY <2>1 DEF CleanupComing
  <2>4. ~Promised  BY <2>1 DEF Promised, Undecided, RunPhases
  <2> QED BY <1>t, <2>1, <2>2, <2>3, <2>4, CalmMove
<1>7. CASE RequeueBusy /\ state[hand] = "pending" /\ accepting
  <2>1. timers' > 0  BY <1>t, <1>7 DEF RequeueBusy
  <2> QED BY <1>t, <2>1, WakeIsComing DEF WakeMove
<1>8. CASE ProbeRaises
  <2>1. /\ UNCHANGED <<pc, requests, deferredRequests, signalPending, wakes, timers,
                       owedWakes, hand, accepting>>
        /\ gui = "probe" /\ gui' = "failed"
    BY <1>8 DEF ProbeRaises, GuiAt
  <2>2. hand \in Requests /\ hand \notin deferredRequests
    BY <1>t, <1>p, <2>1 DEF Placed
  <2>3. \A q \in Requests : q # hand => state'[q] = state[q]
    BY <1>t, <1>8 DEF ProbeRaises
  <2>4. \A q \in deferredRequests : state'[q] = "deferred" <=> state[q] = "deferred"
    BY <1>t, <2>2, <2>3
  <2>5. CleanupComing => CleanupComing'
    <3>1. CASE Completes(hand)
      <4>1. settling[hand] = "none"
        BY <1>t, <1>p, <2>2, <3>1 DEF Completes, Settled
      <4>2. settling' = [settling EXCEPT ![hand] = "forget"]
        BY <1>8, <3>1 DEF ProbeRaises
      <4> QED BY <1>t, <4>1, <4>2 DEF CleanupComing
    <3>2. CASE ~Completes(hand)
      BY <1>8, <3>2 DEF ProbeRaises, CleanupComing
    <3> QED BY <3>1, <3>2
  <2>6. Promised'  BY <2>1 DEF Promised
  <2>7. gui \notin RunPhases  BY <2>1 DEF RunPhases
  <2> QED BY <1>t, <2>1, <2>4, <2>5, <2>6, <2>7, CalmMove
<1>9. CASE ProbeFailureDone
  <2>1. /\ UNCHANGED <<pc, state, requests, deferredRequests, wakes, timers>>
        /\ gui = "failed"
        /\ SignalMore(Runnable, FALSE)
    BY <1>9 DEF ProbeFailureDone, Drained, Runnable
  <2>2. CASE Runnable
    <3>1. owedWakes' > 0  BY <1>t, <2>1, <2>2 DEF SignalMore
    <3> QED BY <1>t, <3>1, WakeIsComing DEF WakeMove
  <2>3. CASE ~Runnable
    <3>1. owedWakes' = owedWakes /\ (signalPending' => signalPending)
      BY <2>1, <2>3 DEF SignalMore
    <3>2. ~Runnable'  BY <2>1, <2>3, RunnableMeans
    <3>3. WakesKept  BY <2>1, <3>1 DEF WakesKept, WakeComing, RunPhases
    <3> QED BY <3>1, <3>2, <3>3 DEF WakeMove
  <2> QED BY <2>2, <2>3
<1>10. CASE DeferInHand
  <2>1. gui = "defer" /\ UNCHANGED <<pc, requests>> /\ hand \in Requests
    BY <1>t, <1>10 DEF DeferInHand, Drained
  <2>2. PICK more :
           /\ SignalMore(more, TRUE)
           /\ Runnable' => more
    <3>1. CASE accepting /\ state[hand] = "pending"
      <4> DEFINE more == \E i \in DOMAIN requests :
                             /\ Unblocked(requests[i], deferredRequests)
                             /\ keysOf[requests[i]] \cap keysOf[hand] = {}
      <4>1. /\ state' = [state EXCEPT ![hand] = "deferred"]
            /\ deferredRequests' = deferredRequests \cup {hand}
            /\ SignalMore(more, TRUE)
        BY <1>10, <3>1 DEF DeferInHand
      <4>2. hand \notin deferredRequests  BY <1>p DEF Placed
      <4>3. ASSUME Runnable'  PROVE more
        <5>1. PICK r \in Range(requests) : \A q \in deferredRequests' :
                 state'[q] = "deferred" => Disjoint(q, r)
          BY <2>1, <4>3, RunnableMeans
        <5>2. PICK i \in DOMAIN requests : requests[i] = r  BY DEF Range
        <5>3. Disjoint(hand, r)  BY <1>t, <2>1, <4>1, <5>1
        <5>4. \A q \in deferredRequests : state[q] = "deferred" => Disjoint(q, r)
          BY <1>t, <4>1, <4>2, <5>1
        <5>5. Unblocked(r, deferredRequests)
          BY <5>4 DEF Unblocked, BlockedKeys, Disjoint
        <5> QED BY <5>2, <5>3, <5>5 DEF Disjoint
      <4> QED BY <4>1, <4>3
    <3>2. CASE ~(accepting /\ state[hand] = "pending")
      <4>1. SignalMore(Runnable, TRUE) /\ UNCHANGED <<state, deferredRequests>>
        BY <1>10, <3>2 DEF DeferInHand, Runnable
      <4>2. Runnable' => Runnable  BY <2>1, <4>1, RunnableMeans
      <4> QED BY <4>1, <4>2
    <3> QED BY <3>1, <3>2
  <2>3. CASE more
    <3>1. owedWakes' > 0  BY <1>t, <2>2, <2>3 DEF SignalMore
    <3> QED BY <1>t, <3>1, WakeIsComing DEF WakeMove
  <2>4. CASE ~more
    BY <2>2, <2>4 DEF SignalMore, WakeMove
  <2> QED BY <2>3, <2>4
<1>11. CASE StartInHand \/ (\E ok \in BOOLEAN : CompleteRunning(ok)) \/ RunSettled \/ GuiRelease
  <2>1. gui' \in RunPhases
    BY <1>11 DEF StartInHand, CompleteRunning, RunSettled, GuiRelease, GuiAt, RunPhases
  <2> QED BY <2>1 DEF WakeMove
<1>12. CASE RunFinally
  <2>1. SignalMore(requests # <<>>, TRUE) /\ UNCHANGED requests  BY <1>12 DEF RunFinally
  <2>2. CASE requests # <<>>
    <3>1. owedWakes' > 0  BY <1>t, <2>1, <2>2 DEF SignalMore
    <3> QED BY <1>t, <3>1, WakeIsComing DEF WakeMove
  <2>3. CASE requests = <<>>
    <3>1. Range(requests') = {}  BY <2>1, <2>3 DEF Range
    <3>2. ~Runnable'  BY <3>1, RunnableMeans
    <3> QED BY <2>1, <2>3, <3>2 DEF SignalMore, WakeMove
  <2> QED BY <2>2, <2>3
<1> QED BY <1>1, <1>2, <1>3, <1>4, <1>5, <1>6, <1>7, <1>8, <1>9, <1>10, <1>11, <1>12
        DEF Gui, Drain, InHand

\* Admission is only ever stopped, and what stops it sweeps the queues.
LEMMA AcceptingSteps ==
    ASSUME [Next]_vars
    PROVE  UNCHANGED accepting \/ (StopAccepting /\ SweepAll)
<1> USE DEF handlerVars, requestVars, queueVars, coreVars, guiVars, documentVars, historyVars
<1>1. ASSUME NEW r \in Requests, Handler(r)  PROVE UNCHANGED accepting
  BY <1>1
  DEF Handler, Proceed, Admission, HandleTimeout, Submit, SubmitInline, RefuseStopping,
      RefuseQuarantined, RefuseDuplicate, Enqueue, WakeForSubmit, WaitReturns, WaitExpires,
      CancelOnTimeout, TimeoutAlreadyExpired, MarkTimedOut, TimeoutOvertaken, CleanupDone,
      QuarantineRunning, OvertakenReturns, HandlerRelease
<1>2. CASE \/ \E r \in Requests : Settle(r) \/ CancelSwept(r) \/ Tick(r)
           \/ PostOwedWake \/ TimerFires
           \/ \E k \in Owners : CancelRequest(k)
           \/ \E d \in Docs : DocumentChanges(d) \/ NotifyStable(d) \/ NotifyDeleted(d)
           \/ DrainFindsNothing \/ NestedDrain \/ UNCHANGED vars
  BY <1>2
  DEF Settle, CancelSwept, Tick, PostOwedWake, TimerFires, CancelRequest,
      DocumentChanges, NotifyStable, NotifyDeleted, DrainFindsNothing, NestedDrain, vars
<1>3. CASE \/ (\E r \in Requests : DrainTakes(r))
           \/ ExpireInHand \/ ExpiryDone \/ DeadlineHolds \/ SampleBusy \/ SampleFree
           \/ RequeueBusy \/ ProbeDefers \/ ProbeClears \/ ProbeRaises \/ ProbeFailureDone
           \/ DeferInHand \/ StartInHand \/ StartRefused
           \/ (\E ok \in BOOLEAN : CompleteRunning(ok))
           \/ RunSettled \/ GuiRelease \/ RunFinally
  BY <1>3
  DEF DrainTakes, ExpireInHand, ExpiryDone, DeadlineHolds, SampleBusy, SampleFree,
      RequeueBusy, ProbeDefers, ProbeClears, ProbeRaises, ProbeFailureDone, DeferInHand,
      StartInHand, StartRefused, CompleteRunning, RunSettled, GuiRelease, RunFinally
<1>4. CASE StopAccepting  BY <1>4 DEF StopAccepting
<1> QED BY <1>1, <1>2, <1>3, <1>4 DEF Next, Gui, Drain, InHand, EventLoop, Environment

\* After stop_accepting nothing gets back into the queues.
LEMMA StoppedNext ==
    ASSUME ConstantsAssumption, Inductive, QueueInvariant, StoppedIsEmpty, [Next]_vars
    PROVE  StoppedIsEmpty'
<1> DEFINE Empty == Range(requests) = {} /\ deferredRequests = {}
<1>p. Placed  BY DEF QueueInvariant
<1>1. CASE SweepAll
  BY <1>1, SweptPlaces DEF StoppedIsEmpty
<1>2. CASE UNCHANGED accepting /\ accepting  BY <1>2 DEF StoppedIsEmpty
<1>3. CASE UNCHANGED accepting /\ ~accepting
  <2>1. Empty  BY <1>3 DEF StoppedIsEmpty
  <2>2. SUFFICES Empty'  BY DEF StoppedIsEmpty
  <2>3. CASE UNCHANGED places  BY <2>1, <2>3 DEF places
  <2>4. ASSUME NEW r \in Requests, Enqueue(r) \/ DrainTakes(r)  PROVE FALSE
    <3>1. ~Enqueue(r)  BY <1>3 DEF Enqueue
    <3>2. ~DrainTakes(r)  BY <1>p, <2>1, TakenPlaces
    <3> QED BY <2>4, <3>1, <3>2
  <2>5. ASSUME NEW r \in Requests, Removes(r)  PROVE Empty'
    BY <1>p, <2>1, <2>5, RemovedPlaces DEF Removes
  <2>6. ASSUME NEW r \in Requests, Forgets(r) \/ CancelSwept(r)  PROVE Empty'
    BY <2>1, <2>6 DEF Forgets, CancelSwept
  <2>7. CASE hand \in Requests /\ (PutsDown \/ Abandons \/ Requeues \/ Defers)
    BY <1>3, <2>1, <2>7 DEF PutsDown, Abandons, Requeues, Defers
  <2>8. ASSUME NEW d \in Docs, NotifyStable(d)  PROVE Empty'
    <3>1. PromotedBy(d) = {}  BY <2>1 DEF PromotedBy
    <3> QED BY <1>p, <2>1, <2>8, <3>1, PromotedPlaces
  <2>9. ASSUME NEW d \in Docs, NotifyDeleted(d)  PROVE Empty'
    BY <2>1, <2>9, ClosedPlaces
  <2>10. CASE SweepAll  BY <2>10, SweptPlaces
  <2> HIDE DEF Empty
  <2> QED BY <2>3, <2>4, <2>5, <2>6, <2>7, <2>8, <2>9, <2>10, PlaceSteps
<1> QED BY <1>1, <1>2, <1>3, AcceptingSteps

\* The inductive invariant of the wakes: runnable work always has a wake coming.
THEOREM WakeInvariantHolds == Spec => []WakeInvariant
<1>1. Init => WakeInvariant
  <2>1. SUFFICES ASSUME Init  PROVE WakeInvariant  OBVIOUS
  <2>2. Range(requests) = {}  BY <2>1 DEF Init, Range
  <2>3. ~Runnable  BY <2>2, RunnableMeans
  <2> QED BY <2>1, <2>3 DEF Init, WakeInvariant, StoppedIsEmpty, SignalHasWake, RunnableIsSeen
<1>2. Inductive /\ Inductive' /\ QueueInvariant /\ WakeInvariant /\ [Next]_vars
         => WakeInvariant'
  <2> SUFFICES ASSUME Inductive, Inductive', QueueInvariant, WakeInvariant, [Next]_vars
               PROVE  WakeInvariant'
    OBVIOUS
  <2>1. StoppedIsEmpty'  BY StoppedNext, ConstantsAssumption DEF WakeInvariant
  <2>2. WakeMove
    <3>1. CASE \E r \in Requests : Handler(r)
      BY <3>1, HandlerWakeMove, ConstantsAssumption
    <3>2. CASE Gui  BY <3>2, DrainWakeMove, ConstantsAssumption
    <3>3. CASE \/ \E r \in Requests : Settle(r) \/ CancelSwept(r) \/ Tick(r)
               \/ PostOwedWake \/ TimerFires \/ EventLoop \/ Environment \/ UNCHANGED vars
      BY <3>3, EndingWakeMove, ConstantsAssumption
    <3> QED BY <3>1, <3>2, <3>3 DEF Next
  <2>3. SignalHasWake' /\ RunnableIsSeen'  BY <2>2, WakeMoveKeeps DEF WakeInvariant
  <2> QED BY <2>1, <2>3 DEF WakeInvariant
<1> QED BY <1>1, <1>2, InductiveInvariant, QueueInvariantHolds, PTL DEF Spec

\* No wakeup is lost: an idle GUI thread with a set flag or with runnable work has
\* a wake event, a timer or a thread behind it that will post one.
THEOREM NoLostWakeHolds == Spec => []NoLostWake
<1>1. WakeInvariant => NoLostWake
  BY DEF WakeInvariant, SignalHasWake, RunnableIsSeen, Promised, Runnable, RunPhases,
         Undecided, NoLostWake
<1> QED BY <1>1, WakeInvariantHolds, PTL

-----------------------------------------------------------------------------
(* The inductive invariant of the order.                                    *)

\* Requests that wait for a document, and those that waited for one and are
\* queued again.
Deferred == {q \in deferredRequests : state[q] = "deferred"}
Promoted == {q \in everDeferred : q \in Range(requests) /\ state[q] \in Waiting}

\* Nothing that shares a document with a deferred request is let past it to be
\* deferred, promoted, or taken.
DeferredApart ==
    /\ \A q, r \in Deferred : q # r => Disjoint(q, r)
    /\ \A q \in Deferred, r \in Promoted : Disjoint(q, r)

\* Nothing that shares a document with a promoted request is queued ahead of it.
PromotedFirst ==
    \A a \in Requests, b \in Promoted : Ahead(requests, a, b) => Disjoint(a, b)

HandApart ==
    gui \in Undecided \cup {"defer"} => \A q \in Deferred \cup Promoted : Disjoint(hand, q)

\* A request that waited is not lost from sight.
EverDeferredIsSeen ==
    \A q \in everDeferred : state[q] \in Waiting =>
        q \in Range(requests) \cup deferredRequests \cup swept \cup {hand}

\* A request arrives once.
ArrivedOnce == Single(arrived) /\ \A q \in Range(arrived) : ~Fresh(q)

OrderInvariant ==
    DeferredApart /\ PromotedFirst /\ HandApart /\ EverDeferredIsSeen /\ ArrivedOnce

\* Requests arrive by being enqueued, and begin to wait by being deferred.
LEMMA HistorySteps ==
    ASSUME [Next]_vars
    PROVE  /\ \/ UNCHANGED arrived
              \/ \E r \in Requests : Enqueue(r) /\ arrived' = Append(arrived, r)
           /\ \/ UNCHANGED everDeferred
              \/ /\ DeferInHand /\ everDeferred' = everDeferred \cup {hand}
                 /\ deferredRequests' = deferredRequests \cup {hand}
<1> USE DEF handlerVars, requestVars, queueVars, coreVars, guiVars, documentVars, historyVars
<1> DEFINE Recorded ==
           /\ \/ UNCHANGED arrived
              \/ \E r \in Requests : Enqueue(r) /\ arrived' = Append(arrived, r)
           /\ \/ UNCHANGED everDeferred
              \/ /\ DeferInHand /\ everDeferred' = everDeferred \cup {hand}
                 /\ deferredRequests' = deferredRequests \cup {hand}
<1> SUFFICES Recorded  OBVIOUS
<1>1. ASSUME NEW r \in Requests, Enqueue(r)  PROVE Recorded
  BY <1>1 DEF Enqueue
<1>2. CASE DeferInHand
  BY <1>2 DEF DeferInHand
<1>3. ASSUME NEW r \in Requests, Handler(r), ~Enqueue(r)  PROVE UNCHANGED <<arrived, everDeferred>>
  BY <1>3
  DEF Handler, Proceed, Admission, HandleTimeout, Submit, SubmitInline, RefuseStopping,
      RefuseQuarantined, RefuseDuplicate, WakeForSubmit, WaitReturns, WaitExpires,
      CancelOnTimeout, TimeoutAlreadyExpired, MarkTimedOut, TimeoutOvertaken, CleanupDone,
      QuarantineRunning, OvertakenReturns, HandlerRelease
<1>4. CASE \/ \E r \in Requests : Settle(r) \/ CancelSwept(r) \/ Tick(r)
           \/ PostOwedWake \/ TimerFires \/ StopAccepting
           \/ \E k \in Owners : CancelRequest(k)
           \/ \E d \in Docs : DocumentChanges(d) \/ NotifyStable(d) \/ NotifyDeleted(d)
           \/ DrainFindsNothing \/ NestedDrain \/ UNCHANGED vars
  BY <1>4
  DEF Settle, CancelSwept, Tick, PostOwedWake, TimerFires, StopAccepting, CancelRequest,
      DocumentChanges, NotifyStable, NotifyDeleted, DrainFindsNothing, NestedDrain, vars
<1>5. CASE \/ (\E r \in Requests : DrainTakes(r))
           \/ ExpireInHand \/ ExpiryDone \/ DeadlineHolds \/ SampleBusy \/ SampleFree
           \/ RequeueBusy \/ ProbeDefers \/ ProbeClears \/ ProbeRaises \/ ProbeFailureDone
           \/ StartInHand \/ StartRefused
           \/ (\E ok \in BOOLEAN : CompleteRunning(ok))
           \/ RunSettled \/ GuiRelease \/ RunFinally
  <2>1. UNCHANGED <<arrived, everDeferred>>
    BY <1>5
    DEF DrainTakes, ExpireInHand, ExpiryDone, DeadlineHolds, SampleBusy, SampleFree,
        RequeueBusy, ProbeDefers, ProbeClears, ProbeRaises, ProbeFailureDone,
        StartInHand, StartRefused, CompleteRunning, RunSettled, GuiRelease, RunFinally
  <2> QED BY <2>1
<1>6. CASE \E r \in Requests : Handler(r)  BY <1>1, <1>3, <1>6
<1> HIDE DEF Recorded
<1> QED BY <1>2, <1>4, <1>5, <1>6 DEF Next, Gui, Drain, InHand, EventLoop, Environment, Recorded

\* A request arrives once.
LEMMA ArrivedNext ==
    ASSUME ConstantsAssumption, Inductive, ArrivedOnce, [Next]_vars
    PROVE  ArrivedOnce'
<1>1. \A q \in Requests : ~Fresh(q) \/ Enqueue(q) => ~Fresh(q)'
  BY FreshWas DEF Inductive, Life
<1>2. arrived \in Seq(Requests)  BY DEF Inductive, Shape, TypeOK
<1>3. Range(arrived) \subseteq Requests  BY <1>2, RangeOfSeq
<1>4. CASE UNCHANGED arrived
  BY <1>1, <1>3, <1>4 DEF ArrivedOnce
<1>5. ASSUME NEW r \in Requests, Enqueue(r), arrived' = Append(arrived, r)
      PROVE  ArrivedOnce'
  <2>1. /\ Range(arrived') = Range(arrived) \cup {r}
        /\ \A a, b : Ahead(arrived', a, b) =>
              Ahead(arrived, a, b) \/ (a \in Range(arrived) /\ b = r)
    BY <1>2, <1>5, AppendedOrder
  <2>2. Fresh(r)  BY <1>5 DEF Enqueue, Fresh
  <2>3. Single(arrived')  BY <2>1, <2>2 DEF ArrivedOnce, Single
  <2>4. \A q \in Range(arrived') : ~Fresh(q)'  BY <1>1, <1>3, <1>5, <2>1 DEF ArrivedOnce
  <2> QED BY <2>3, <2>4 DEF ArrivedOnce
<1> QED BY <1>4, <1>5, HistorySteps

\* A request that waits after a step waited before it, and one that is deferred
\* has just been put aside or was so before.
LEMMA WaitingWas ==
    ASSUME ConstantsAssumption, Inductive, [Next]_vars, NEW q \in Requests
    PROVE  /\ state'[q] \in Waiting => state[q] \in Waiting
           /\ state'[q] = "deferred" => state[q] = "deferred" \/ (DeferInHand /\ q = hand)
<1>1. CASE state'[q] = state[q]  BY <1>1
<1>2. CASE state'[q] # state[q]
  BY <1>2, StateSteps DEF Ends, Waiting, Terminal
<1> QED BY <1>1, <1>2

\* No step hides a request that waited for a document.
LEMMA EverDeferredNext ==
    ASSUME ConstantsAssumption, Inductive, QueueInvariant, EverDeferredIsSeen, [Next]_vars
    PROVE  EverDeferredIsSeen'
<1> SUFFICES ASSUME NEW q \in everDeferred', state'[q] \in Waiting
             PROVE  q \in Range(requests') \cup deferredRequests' \cup swept' \cup {hand'}
  BY DEF EverDeferredIsSeen
<1> DEFINE Seen == q \in Range(requests') \cup deferredRequests' \cup swept' \cup {hand'}
<1> SUFFICES Seen  OBVIOUS
<1>p. Placed  BY DEF QueueInvariant
<1>1. CASE q \notin everDeferred
  BY <1>1, HistorySteps
<1>2. CASE q \in everDeferred
  <2>1. q \in Requests  BY <1>2 DEF Inductive, Shape, TypeOK
  <2>2. state[q] \in Waiting /\ state'[q] \notin Terminal
    BY <2>1, WaitingWas DEF Waiting, Terminal
  <2>3. q \in Range(requests) \cup deferredRequests \cup swept \cup {hand}
    BY <1>2, <2>2 DEF EverDeferredIsSeen
  <2>4. CASE UNCHANGED places  BY <2>3, <2>4 DEF places
  <2>5. ASSUME NEW r \in Requests, Enqueue(r)  PROVE Seen
    BY <2>3, <2>5, EnqueuedPlaces
  <2>6. ASSUME NEW r \in Requests, Removes(r)  PROVE Seen
    BY <1>p, <2>2, <2>3, <2>6, RemovedPlaces DEF Removes
  <2>7. ASSUME NEW r \in Requests, Forgets(r)  PROVE Seen
    BY <2>3, <2>7 DEF Forgets
  <2>8. ASSUME NEW r \in Requests, CancelSwept(r)  PROVE Seen
    <3>1. /\ swept' = swept \ {r} /\ UNCHANGED <<requests, deferredRequests, hand>>
          /\ UNCHANGED state \/ state' = [state EXCEPT ![r] = "cancelled"]
          /\ UNCHANGED state => state[r] \notin Waiting
      BY <2>8, LifeTypes DEF CancelSwept, CancelIfPending, Waiting, Inductive, guiVars
    <3>2. q # r  BY <2>1, <2>2, <3>1, LifeTypes DEF Terminal, Inductive
    <3> QED BY <2>3, <3>1, <3>2
  <2>9. ASSUME NEW r \in Requests, DrainTakes(r)  PROVE Seen
    <3>1. /\ Range(requests') = Range(requests) \ {r} /\ hand' = r /\ hand = NULL
          /\ UNCHANGED <<deferredRequests, swept>>
      BY <1>p, <2>9, TakenPlaces
    <3>2. q # NULL  BY <2>1 DEF ConstantsAssumption
    <3> QED BY <2>3, <3>1, <3>2
  <2>10. CASE SweepAll /\ UNCHANGED <<hand, state>>
    BY <2>3, <2>10, SweptPlaces
  <2>11. CASE hand \in Requests /\ PutsDown
    <3>1. q # hand  BY <2>2, <2>11 DEF PutsDown, Waiting, Terminal
    <3> QED BY <2>3, <2>11, <3>1 DEF PutsDown
  <2>12. CASE hand \in Requests /\ Abandons
    BY <2>3, <2>12 DEF Abandons, AbandonInHand
  <2>13. CASE hand \in Requests /\ Requeues
    <3>1. requests \in Seq(Requests)  BY DEF Inductive, Shape, TypeOK
    <3>2. Range(requests') = Range(requests) \cup {hand}
      BY <2>13, <3>1, RequeuedOrder DEF Requeues, RequeueFirst
    <3> QED BY <2>3, <2>13, <3>2 DEF Requeues
  <2>14. CASE hand \in Requests /\ Defers
    BY <2>3, <2>14 DEF Defers
  <2>15. ASSUME NEW d \in Docs, NotifyStable(d)  PROVE Seen
    <3>1. /\ Range(requests') = PromotedBy(d) \cup Range(requests)
          /\ deferredRequests' = deferredRequests \ PromotedBy(d)
          /\ UNCHANGED <<swept, hand>>
      BY <1>p, <2>15, PromotedPlaces
    <3> QED BY <2>3, <3>1
  <2>16. ASSUME NEW d \in Docs, NotifyDeleted(d)  PROVE Seen
    <3>1. /\ Range(requests') = Range(requests) \ ClosedBy(d)
          /\ deferredRequests' = deferredRequests \ ClosedBy(d)
          /\ swept' = swept \cup ClosedBy(d) /\ UNCHANGED hand
      BY <2>16, ClosedPlaces
    <3> QED BY <2>3, <3>1
  <2> HIDE DEF Seen
  <2> QED
    BY <2>4, <2>5, <2>6, <2>7, <2>8, <2>9, <2>10, <2>11, <2>12, <2>13, <2>14, <2>15, <2>16,
       PlaceSteps
<1> QED BY <1>1, <1>2

\* Of two requests in a queue one is ahead of the other.
LEMMA AheadTotal ==
    ASSUME NEW queue \in Seq(Requests), NEW a \in Range(queue), NEW b \in Range(queue), a # b
    PROVE  Ahead(queue, a, b) \/ Ahead(queue, b, a)
<1>1. PICK i \in DOMAIN queue : queue[i] = a  BY DEF Range
<1>2. PICK j \in DOMAIN queue : queue[j] = b  BY DEF Range
<1>3. i \in Nat /\ j \in Nat
  <2>1. DOMAIN queue = 1..Len(queue) /\ Len(queue) \in Nat  BY LenProperties
  <2> QED BY <2>1
<1>4. i < j \/ j < i  BY <1>1, <1>2, <1>3
<1> QED BY <1>1, <1>2, <1>4 DEF Ahead

\* What drain_one takes is not blocked, and what it passes over is.
LEMMA TakenIsFirst ==
    ASSUME Inductive, Placed, NEW r \in Requests, DrainTakes(r)
    PROVE  /\ \A q \in Deferred : Disjoint(q, r)
           /\ \A b : Ahead(requests, b, r) => \E q \in Deferred : ~Disjoint(q, b)
<1>1. PICK k \in DOMAIN requests :
         /\ requests[k] = r
         /\ Unblocked(r, deferredRequests)
         /\ \A j \in 1..(k - 1) : ~Unblocked(requests[j], deferredRequests)
  BY DEF DrainTakes, Take
<1>2. \A b : Unblocked(b, deferredRequests) <=> \A q \in Deferred : Disjoint(q, b)
  BY DEF Unblocked, BlockedKeys, Deferred, Disjoint
<1>3. DOMAIN requests = 1..Len(requests) /\ Len(requests) \in Nat
  BY LenProperties DEF Inductive, Shape, TypeOK
<1>4. ASSUME NEW b, Ahead(requests, b, r)  PROVE \E q \in Deferred : ~Disjoint(q, b)
  <2>1. PICK i, j \in DOMAIN requests : i < j /\ requests[i] = b /\ requests[j] = r
    BY <1>4 DEF Ahead
  <2>2. ~Ahead(requests, r, r)  BY DEF Placed, Single
  <2>3. ~(j < k) /\ ~(k < j)  BY <1>1, <2>1, <2>2 DEF Ahead
  <2>4. i \in 1..(k - 1)  BY <1>1, <1>3, <2>1, <2>3
  <2> QED BY <1>1, <1>2, <2>1, <2>4
<1> QED BY <1>1, <1>2, <1>4

\* drain_one comes to a decision about the request it has taken.
LEMMA UndecidedSteps ==
    ASSUME [Next]_vars, gui' \in Undecided \cup {"defer"}
    PROVE  \/ gui \in Undecided \cup {"defer"} /\ hand' = hand
           \/ \E r \in Requests : DrainTakes(r) /\ hand' = r
<1>1. ASSUME NEW r \in Requests, DrainTakes(r)  PROVE hand' = r  BY <1>1 DEF DrainTakes
<1>2. CASE UNCHANGED <<gui, hand>>  BY <1>2
<1>3. CASE DeadlineHolds \/ SampleBusy \/ SampleFree \/ ProbeDefers \/ ProbeClears
  BY <1>3 DEF DeadlineHolds, SampleBusy, SampleFree, ProbeDefers, ProbeClears, GuiAt, Undecided
<1>4. CASE \/ ExpireInHand \/ ExpiryDone \/ RequeueBusy \/ ProbeRaises \/ ProbeFailureDone
           \/ DeferInHand \/ StartInHand \/ StartRefused
           \/ (\E ok \in BOOLEAN : CompleteRunning(ok))
           \/ RunSettled \/ GuiRelease \/ RunFinally
  <2>1. gui' \in {"idle", "run"} \cup EndPhases
    BY <1>4
    DEF ExpireInHand, ExpiryDone, RequeueBusy, ProbeRaises, ProbeFailureDone, DeferInHand,
        StartInHand, StartRefused, CompleteRunning, RunSettled, GuiRelease, RunFinally,
        GuiAt, Drained, EndPhases
  <2> QED BY <2>1 DEF Undecided, EndPhases
<1> QED BY <1>1, <1>2, <1>3, <1>4, GuiSteps

\* A request becomes deferred only out of the hand of drain_one.
LEMMA DeferredWas ==
    ASSUME ConstantsAssumption, Inductive, QueueInvariant, [Next]_vars, NEW q \in Deferred'
    PROVE  /\ q \in Requests
           /\ q \in Deferred \/ (hand \in Requests /\ Defers /\ q = hand)
<1>p. Placed  BY DEF QueueInvariant
<1>1. q \in deferredRequests' /\ state'[q] = "deferred"  BY DEF Deferred
<1>2. q \in deferredRequests \/ (hand \in Requests /\ Defers /\ q = hand)
  <2> DEFINE Was == q \in deferredRequests \/ (hand \in Requests /\ Defers /\ q = hand)
  <2>1. CASE UNCHANGED deferredRequests  BY <1>1, <2>1
  <2>2. UNCHANGED places => UNCHANGED deferredRequests  BY DEF places
  <2>3. \A r \in Requests : Enqueue(r) \/ Forgets(r) \/ CancelSwept(r) \/ DrainTakes(r)
           => UNCHANGED deferredRequests
    BY DEF Enqueue, Forgets, CancelSwept, DrainTakes
  <2>4. \A r \in Requests : Removes(r) => Was  BY <1>1 DEF Removes
  <2>5. SweepAll => Was  BY <1>1 DEF SweepAll
  <2>6. PutsDown \/ Abandons \/ Requeues => UNCHANGED deferredRequests
    BY DEF PutsDown, Abandons, Requeues
  <2>7. hand \in Requests /\ Defers => Was  BY <1>1 DEF Defers
  <2>8. \A d \in Docs : NotifyStable(d) => Was  BY <1>1 DEF NotifyStable
  <2>9. \A d \in Docs : NotifyDeleted(d) => Was  BY <1>1 DEF NotifyDeleted
  <2> HIDE DEF Was
  <2>10. Was  BY <2>2, <2>3, <2>4, <2>5, <2>6, <2>7, <2>8, <2>9, PlaceSteps, <2>1 DEF Was
  <2> QED BY <2>10 DEF Was
<1>3. CASE q \in deferredRequests
  <2>1. q \in Requests /\ q # hand  BY <1>p, <1>3 DEF Placed, Inductive, Shape, TypeOK
  <2>2. state[q] = "deferred"  BY <1>1, <2>1, WaitingWas
  <2> QED BY <1>3, <2>1, <2>2 DEF Deferred
<1> QED BY <1>2, <1>3

\* A request that waited is queued again only from those put aside or from the hand.
LEMMA PromotedWas ==
    ASSUME ConstantsAssumption, Inductive, QueueInvariant, EverDeferredIsSeen, [Next]_vars,
           NEW q \in Promoted'
    PROVE  /\ q \in Requests /\ q \in Range(requests')
           /\ \/ q \in Promoted \/ (hand \in Requests /\ Requeues /\ q = hand)
              \/ q \in Deferred /\ \E d \in Docs : NotifyStable(d) /\ q \in PromotedBy(d)
<1>p. Placed  BY DEF QueueInvariant
<1>1. q \in everDeferred' /\ q \in Range(requests') /\ state'[q] \in Waiting  BY DEF Promoted
<1>2. q \in everDeferred
  <2>1. SUFFICES ASSUME q \notin everDeferred  PROVE FALSE  OBVIOUS
  <2>2. q \in deferredRequests'  BY <1>1, <2>1, HistorySteps
  <2>3. Placed'  BY PlacedNext
  <2> QED BY <1>1, <2>2, <2>3 DEF Placed
<1>3. q \in Requests  BY <1>2 DEF Inductive, Shape, TypeOK
<1>4. state[q] \in Waiting  BY <1>1, <1>3, WaitingWas
<1> DEFINE Was ==
       \/ q \in Range(requests) \/ (hand \in Requests /\ Requeues /\ q = hand)
       \/ \E d \in Docs : NotifyStable(d) /\ q \in PromotedBy(d)
<1>5. Was
  <2>1. UNCHANGED requests => Was  BY <1>1
  <2>2. UNCHANGED places => UNCHANGED requests  BY DEF places
  <2>3. \A r \in Requests : Forgets(r) \/ CancelSwept(r) => UNCHANGED requests
    BY DEF Forgets, CancelSwept
  <2>4. ASSUME NEW r \in Requests, Enqueue(r)  PROVE Was
    <3>1. Range(requests') = Range(requests) \cup {r} /\ r \notin Known
      BY <2>4, EnqueuedPlaces
    <3>2. q \in Known  BY <1>2, <1>4 DEF EverDeferredIsSeen, Known
    <3> QED BY <1>1, <3>1, <3>2
  <2>5. ASSUME NEW r \in Requests, Removes(r)  PROVE Was
    BY <1>p, <1>1, <2>5, RemovedPlaces
  <2>6. ASSUME NEW r \in Requests, DrainTakes(r)  PROVE Was
    BY <1>p, <1>1, <2>6, TakenPlaces
  <2>7. ASSUME SweepAll  PROVE Was  BY <1>1, <2>7, SweptPlaces
  <2>8. PutsDown \/ Abandons \/ Defers => UNCHANGED requests
    BY DEF PutsDown, Abandons, Defers
  <2>9. ASSUME hand \in Requests, Requeues  PROVE Was
    <3>1. requests \in Seq(Requests)  BY DEF Inductive, Shape, TypeOK
    <3>2. Range(requests') = Range(requests) \cup {hand}
      BY <2>9, <3>1, RequeuedOrder DEF Requeues, RequeueFirst
    <3> QED BY <1>1, <2>9, <3>2
  <2>10. ASSUME NEW d \in Docs, NotifyStable(d)  PROVE Was
    <3>1. Range(requests') = PromotedBy(d) \cup Range(requests)  BY <1>p, <2>10, PromotedPlaces
    <3> QED BY <1>1, <2>10, <3>1
  <2>11. ASSUME NEW d \in Docs, NotifyDeleted(d)  PROVE Was
    <3>1. Range(requests') = Range(requests) \ ClosedBy(d)  BY <2>11, ClosedPlaces
    <3> QED BY <1>1, <3>1
  <2> HIDE DEF Was
  <2> QED BY <2>1, <2>2, <2>3, <2>4, <2>5, <2>6, <2>7, <2>8, <2>9, <2>10, <2>11, PlaceSteps
<1>6. CASE q \in Range(requests)  BY <1>1, <1>2, <1>3, <1>4, <1>6 DEF Promoted
<1>7. \A d : q \in PromotedBy(d) => q \in Deferred  BY DEF PromotedBy, Deferred
<1> QED BY <1>1, <1>3, <1>5, <1>6, <1>7

\* How one request comes to stand ahead of another.
LEMMA AheadWas ==
    ASSUME ConstantsAssumption, Inductive, QueueInvariant, [Next]_vars,
           NEW a \in Requests, NEW b \in Requests, Ahead(requests', a, b)
    PROVE  \/ Ahead(requests, a, b)
           \/ Enqueue(b)
           \/ Requeues /\ hand \in Requests /\ a = hand /\ b \in Range(requests)
           \/ \E r \in Requests : DrainTakes(r) /\ Ahead(requests, b, r)
           \/ \E d \in Docs : NotifyStable(d) /\ a \in PromotedBy(d) /\ a # b
<1> DEFINE Was ==
       \/ Ahead(requests, a, b)
       \/ Enqueue(b)
       \/ Requeues /\ hand \in Requests /\ a = hand /\ b \in Range(requests)
       \/ \E r \in Requests : DrainTakes(r) /\ Ahead(requests, b, r)
       \/ \E d \in Docs : NotifyStable(d) /\ a \in PromotedBy(d) /\ a # b
<1> SUFFICES Was  OBVIOUS
<1>p. Placed  BY DEF QueueInvariant
<1>1. UNCHANGED requests => Was  OBVIOUS
<1>2. UNCHANGED places => UNCHANGED requests  BY DEF places
<1>3. \A r \in Requests : Forgets(r) \/ CancelSwept(r) => UNCHANGED requests
  BY DEF Forgets, CancelSwept
<1>4. ASSUME NEW r \in Requests, Enqueue(r)  PROVE Was
  <2>1. Ahead(requests, a, b) \/ b = r  BY <1>4, EnqueuedPlaces
  <2> QED BY <1>4, <2>1
<1>5. ASSUME NEW r \in Requests, Removes(r)  PROVE Was
  <2>1. Ahead(requests, a, b)  BY <1>p, <1>5, RemovedPlaces
  <2> QED BY <2>1
<1>6. ASSUME NEW r \in Requests, DrainTakes(r)  PROVE Was
  <2>1. Ahead(requests, a, b) \/ Ahead(requests, b, r)  BY <1>p, <1>6, TakenPlaces
  <2> QED BY <1>6, <2>1
<1>7. ASSUME SweepAll  PROVE Was
  <2>1. Range(requests') = {}  BY <1>7, SweptPlaces
  <2> QED BY <2>1, AheadRange
<1>8. PutsDown \/ Abandons \/ Defers => UNCHANGED requests
  BY DEF PutsDown, Abandons, Defers
<1>9. ASSUME hand \in Requests, Requeues  PROVE Was
  <2>1. requests \in Seq(Requests)  BY DEF Inductive, Shape, TypeOK
  <2>2. Ahead(requests, a, b) \/ (a = hand /\ b \in Range(requests))
    BY <1>9, <2>1, RequeuedOrder DEF Requeues, RequeueFirst
  <2> QED BY <1>9, <2>2
<1>10. ASSUME NEW d \in Docs, NotifyStable(d)  PROVE Was
  <2>1. Ahead(requests, a, b) \/ (a \in PromotedBy(d) /\ a # b)
    BY <1>p, <1>10, PromotedPlaces
  <2> QED BY <1>10, <2>1
<1>11. ASSUME NEW d \in Docs, NotifyDeleted(d)  PROVE Was
  <2>1. Ahead(requests, a, b)  BY <1>11, ClosedPlaces
  <2> QED BY <2>1
<1> HIDE DEF Was
<1> QED BY <1>1, <1>2, <1>3, <1>4, <1>5, <1>6, <1>7, <1>8, <1>9, <1>10, <1>11, PlaceSteps

\* No step brings work that shares a document together with deferred work.
LEMMA DeferredApartNext ==
    ASSUME ConstantsAssumption, Inductive, QueueInvariant, OrderInvariant, [Next]_vars
    PROVE  DeferredApart'
<1>o. DeferredApart /\ HandApart /\ EverDeferredIsSeen  BY DEF OrderInvariant
<1>h. /\ Defers => gui = "defer" /\ \A q \in Deferred \cup Promoted : Disjoint(hand, q)
      /\ Requeues => gui = "requeue" /\ \A q \in Deferred \cup Promoted : Disjoint(hand, q)
  BY <1>o DEF HandApart, Undecided, Defers, Requeues
<1>s. \A q, r : Disjoint(q, r) => Disjoint(r, q)  BY DEF Disjoint
<1>1. ASSUME NEW q \in Deferred', NEW r \in Deferred', q # r  PROVE Disjoint(q, r)
  <2>1. /\ q \in Deferred \/ (Defers /\ q = hand)
        /\ r \in Deferred \/ (Defers /\ r = hand)
    BY DeferredWas
  <2> QED BY <1>1, <1>o, <1>h, <1>s, <2>1 DEF DeferredApart
<1>2. ASSUME NEW q \in Deferred', NEW r \in Promoted'  PROVE Disjoint(q, r)
  <2>1. q \in Deferred \/ (Defers /\ q = hand)  BY DeferredWas
  <2>2. \/ r \in Promoted \/ (Requeues /\ r = hand)
        \/ r \in Deferred /\ \E d \in Docs : NotifyStable(d) /\ r \in PromotedBy(d)
    BY <1>o, PromotedWas
  <2>3. CASE r \in Promoted  BY <1>o, <1>h, <2>1, <2>3 DEF DeferredApart
  <2>4. CASE Requeues /\ r = hand  BY <1>h, <1>s, <2>1, <2>4
  <2>5. CASE r \in Deferred /\ \E d \in Docs : NotifyStable(d) /\ r \in PromotedBy(d)
    <3>1. PICK d \in Docs : NotifyStable(d) /\ r \in PromotedBy(d)  BY <2>5
    <3>2. r \notin deferredRequests'  BY <3>1 DEF NotifyStable, PromotedBy
    <3>3. q # r  BY <3>2 DEF Deferred
    <3> QED BY <1>o, <1>h, <2>1, <2>5, <3>3 DEF DeferredApart
  <2> QED BY <2>2, <2>3, <2>4, <2>5
<1>3. DeferredApart' <=>
          /\ \A q, r \in Deferred' : q # r => Disjoint(q, r)
          /\ \A q \in Deferred', r \in Promoted' : Disjoint(q, r)
  BY DEF DeferredApart, Disjoint
<1> QED BY <1>1, <1>2, <1>3

\* No step queues work ahead of a promoted request it shares a document with.
LEMMA PromotedFirstNext ==
    ASSUME ConstantsAssumption, Inductive, QueueInvariant, OrderInvariant, [Next]_vars
    PROVE  PromotedFirst'
<1>o. DeferredApart /\ PromotedFirst /\ HandApart /\ EverDeferredIsSeen  BY DEF OrderInvariant
<1>p. Placed  BY DEF QueueInvariant
<1>h. Requeues => \A q \in Deferred \cup Promoted : Disjoint(hand, q)
  BY <1>o DEF HandApart, Undecided, Requeues
<1>s. \A q, r : Disjoint(q, r) => Disjoint(r, q)  BY DEF Disjoint
<1>1. ASSUME NEW a \in Requests, NEW b \in Promoted', Ahead(requests', a, b)
      PROVE  Disjoint(a, b)
  <2>1. /\ b \in Requests /\ b \in Range(requests')
        /\ \/ b \in Promoted \/ (Requeues /\ hand \in Requests /\ b = hand)
           \/ b \in Deferred /\ \E d \in Docs : NotifyStable(d) /\ b \in PromotedBy(d)
    BY <1>o, PromotedWas
  <2>2. b \in Range(requests) => b \in Promoted
    BY <1>p, <2>1 DEF Placed, Deferred
  <2>3. \/ Ahead(requests, a, b)
        \/ Enqueue(b)
        \/ Requeues /\ hand \in Requests /\ a = hand /\ b \in Range(requests)
        \/ \E r \in Requests : DrainTakes(r) /\ Ahead(requests, b, r)
        \/ \E d \in Docs : NotifyStable(d) /\ a \in PromotedBy(d) /\ a # b
    BY <1>1, <2>1, AheadWas
  <2>4. CASE Ahead(requests, a, b)
    <3>1. b \in Promoted  BY <2>2, <2>4, AheadRange
    <3> QED BY <1>o, <2>4, <3>1 DEF PromotedFirst
  <2>5. CASE Enqueue(b)
    <3>1. b \notin Known  BY <2>1, <2>5, EnqueuedPlaces
    <3> QED BY <2>1, <3>1 DEF Known, Promoted, Deferred
  <2>6. CASE Requeues /\ hand \in Requests /\ a = hand /\ b \in Range(requests)
    BY <1>h, <2>2, <2>6
  <2>7. ASSUME NEW r \in Requests, DrainTakes(r), Ahead(requests, b, r)  PROVE FALSE
    <3>1. b \in Promoted  BY <2>2, <2>7, AheadRange
    <3>2. \E q \in Deferred : ~Disjoint(q, b)  BY <1>p, <2>7, TakenIsFirst
    <3> QED BY <1>o, <3>1, <3>2 DEF DeferredApart
  <2>8. ASSUME NEW d \in Docs, NotifyStable(d), a \in PromotedBy(d), a # b
        PROVE  Disjoint(a, b)
    <3>1. a \in Deferred  BY <2>8 DEF PromotedBy, Deferred
    <3> QED BY <1>o, <1>h, <1>s, <2>1, <2>8, <3>1 DEF DeferredApart
  <2> QED BY <2>3, <2>4, <2>5, <2>6, <2>7, <2>8
<1>2. PromotedFirst' <=>
          \A a \in Requests, b \in Promoted' : Ahead(requests', a, b) => Disjoint(a, b)
  BY DEF PromotedFirst, Disjoint, Ahead
<1> QED BY <1>1, <1>2

\* drain_one takes nothing that shares a document with work that waited for one.
LEMMA HandApartNext ==
    ASSUME ConstantsAssumption, Inductive, QueueInvariant, OrderInvariant, [Next]_vars
    PROVE  HandApart'
<1>o. DeferredApart /\ PromotedFirst /\ HandApart /\ EverDeferredIsSeen  BY DEF OrderInvariant
<1>p. Placed  BY DEF QueueInvariant
<1>s. \A q, r : Disjoint(q, r) => Disjoint(r, q)  BY DEF Disjoint
<1> SUFFICES ASSUME gui' \in Undecided \cup {"defer"}, NEW q \in Deferred' \cup Promoted'
             PROVE  Disjoint(hand', q)
  BY DEF HandApart, Disjoint
<1>1. \/ q \in Deferred
      \/ hand \in Requests /\ hand' = NULL
      \/ q \in Promoted /\ q \in Range(requests')
  <2>1. CASE q \in Deferred'
    BY <2>1, DeferredWas DEF Defers
  <2>2. CASE q \in Promoted'
    BY <1>o, <2>2, PromotedWas DEF Requeues
  <2> QED BY <2>1, <2>2
<1>2. CASE gui \in Undecided \cup {"defer"} /\ hand' = hand
  <2>1. q \in Deferred \cup Promoted  BY <1>1, <1>2 DEF ConstantsAssumption
  <2> QED BY <1>o, <1>2, <2>1 DEF HandApart
<1>3. ASSUME NEW r \in Requests, DrainTakes(r), hand' = r  PROVE Disjoint(hand', q)
  <2>1. /\ \A x \in Deferred : Disjoint(x, r)
        /\ \A b : Ahead(requests, b, r) => \E x \in Deferred : ~Disjoint(x, b)
    BY <1>p, <1>3, TakenIsFirst
  <2>2. /\ r \in Range(requests) /\ Range(requests') = Range(requests) \ {r}
    BY <1>p, <1>3, TakenPlaces
  <2>3. CASE q \in Deferred  BY <1>3, <1>s, <2>1, <2>3
  <2>4. CASE q \in Promoted /\ q \in Range(requests')
    <3>1. q \in Range(requests) /\ q # r  BY <2>2, <2>4
    <3>2. Ahead(requests, q, r) \/ Ahead(requests, r, q)
      <4>1. requests \in Seq(Requests)  BY DEF Inductive, Shape, TypeOK
      <4> QED BY <2>2, <3>1, <4>1, AheadTotal
    <3>3. ~Ahead(requests, q, r)  BY <1>o, <2>1, <2>4 DEF DeferredApart
    <3>4. Disjoint(r, q)  BY <1>o, <2>4, <3>2, <3>3 DEF PromotedFirst
    <3> QED BY <1>3, <3>4
  <2> QED BY <1>1, <1>3, <2>3, <2>4 DEF ConstantsAssumption
<1> QED BY <1>2, <1>3, UndecidedSteps

\* Nobody has arrived, and nothing waits, to begin with.
LEMMA OrderInit == ASSUME ConstantsAssumption, Init PROVE OrderInvariant
<1>1. Range(<<>>) = {} /\ Single(<<>>)  BY DEF Range, Single, Ahead
<1> QED BY <1>1
        DEF Init, OrderInvariant, DeferredApart, PromotedFirst, HandApart, EverDeferredIsSeen,
            ArrivedOnce, Deferred, Promoted, Undecided

\* The inductive invariant of the order: a request that waited for a document is
\* ahead of all later work on it, whether it still waits, is queued again, or the
\* other is in hand.
THEOREM OrderInvariantHolds == Spec => []OrderInvariant
<1>1. Init => OrderInvariant  BY OrderInit, ConstantsAssumption
<1>2. Inductive /\ QueueInvariant /\ OrderInvariant /\ [Next]_vars => OrderInvariant'
  <2> SUFFICES ASSUME Inductive, QueueInvariant, OrderInvariant, [Next]_vars
               PROVE  OrderInvariant'
    OBVIOUS
  <2>1. DeferredApart' /\ PromotedFirst' /\ HandApart'
    BY DeferredApartNext, PromotedFirstNext, HandApartNext, ConstantsAssumption
  <2>2. EverDeferredIsSeen' /\ ArrivedOnce'
    BY EverDeferredNext, ArrivedNext, ConstantsAssumption DEF OrderInvariant
  <2> QED BY <2>1, <2>2 DEF OrderInvariant
<1> QED BY <1>1, <1>2, InductiveInvariant, QueueInvariantHolds, PTL DEF Spec

\* A request never starts ahead of an earlier one that had to wait for a document
\* of both, neither while that one is deferred nor once it is queued again.
THEOREM DeferredNotOvertakenHolds == Spec => DeferredNotOvertaken
<1> DEFINE Kept == \A r \in Requests : Starts(r) =>
               \A q \in everDeferred \ swept :
                   /\ Precedes(q, r) /\ state[q] \in Waiting
                   => keysOf[q] \cap keysOf[r] = {}
<1>1. Inductive /\ QueueInvariant /\ OrderInvariant /\ [Next]_vars => [Kept]_vars
  <2> SUFFICES ASSUME Inductive, QueueInvariant, OrderInvariant, [Next]_vars,
                      NEW r \in Requests, Starts(r),
                      NEW q \in everDeferred \ swept, Precedes(q, r), state[q] \in Waiting
               PROVE  Disjoint(q, r)
    BY DEF Disjoint
  <2>1. StartInHand /\ r = hand
    <3>1. state[r] = "pending" /\ state'[r] = "running"  BY DEF Starts
    <3> QED BY <3>1, StateSteps, ConstantsAssumption DEF Ends, Terminal
  <2>2. gui = "start"  BY <2>1 DEF StartInHand, GuiAt
  <2>3. \A x \in Deferred \cup Promoted : Disjoint(r, x)
    BY <2>1, <2>2 DEF OrderInvariant, HandApart, Undecided
  <2>4. q \in Range(requests) \cup deferredRequests \cup {hand}
    BY DEF OrderInvariant, EverDeferredIsSeen
  <2>5. q # hand
    <3>1. ~Ahead(arrived, r, r)  BY DEF OrderInvariant, ArrivedOnce, Single
    <3> QED BY <2>1, <3>1 DEF Ahead, Precedes
  <2>6. q \in deferredRequests => q \in Deferred
    BY DEF QueueInvariant, StateAgrees, Deferred, Waiting, Terminal
  <2>7. q \in Range(requests) => q \in Promoted  BY DEF Promoted
  <2> QED BY <2>3, <2>4, <2>5, <2>6, <2>7 DEF Disjoint
<1>2. DeferredNotOvertaken <=> [][Kept]_vars  BY DEF DeferredNotOvertaken
<1> QED BY <1>1, <1>2, InductiveInvariant, QueueInvariantHolds, OrderInvariantHolds, PTL DEF Spec
=============================================================================
