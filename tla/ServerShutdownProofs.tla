------------------------ MODULE ServerShutdownProofs ------------------------
(* Theorems about ServerShutdown, for any stop calls, runtimes and faults.  *)
EXTENDS ServerShutdown, SequenceTheorems, TLAPS

-----------------------------------------------------------------------------
(* The removal of the observer.                                             *)

\* A step of the controller, which never puts an observer back.
CleanupStep ==
    /\ CleanupType'
    /\ \A n \in Runtimes : cleanup'[n].observer => cleanup[n].observer

\* A step that leaves the controllers alone is a step of them all the same.
LEMMA SameCleanup == CleanupType /\ UNCHANGED cleanupVars => CleanupStep
  BY DEF CleanupType, CleanupStep, cleanupVars

\* The critical sections of the controller keep its type and put no observer back.
LEMMA CriticalSections ==
    ASSUME CleanupType, NEW n \in Runtimes,
           Request(n) \/ RequestSettled(n) \/ PostFails(n) \/ TakeRequest(n) \/ RemovalRaises(n)
    PROVE  CleanupStep
<1>1. UNCHANGED <<posted, deleted>>
  BY DEF Request, RequestSettled, PostFails, TakeRequest, RemovalRaises
<1>2. cleanup' \in [Runtimes -> Controller]
      /\ \A k \in Runtimes : cleanup'[k].observer = cleanup[k].observer
  <2> USE DEF CleanupType, Controller
  <2>1. CASE Request(n)
    <3> DEFINE still == cleanup[n].complete /\ cleanup[n].pending
    <3>1. still \in BOOLEAN
      OBVIOUS
    <3>2. cleanup' = [cleanup EXCEPT ![n].deleteRequested = TRUE, ![n].pending = TRUE,
                                     ![n].complete = still]
      BY <2>1 DEF Request
    <3> HIDE DEF still
    <3> QED BY ZenonT(40), <3>1, <3>2
  <2>2. CASE RequestSettled(n)
    BY <2>2 DEF RequestSettled
  <2>3. CASE PostFails(n) \/ RemovalRaises(n)
    <3>1. Failed(cleanup[n]) \in Controller /\ Failed(cleanup[n]).observer = cleanup[n].observer
      BY DEF Failed
    <3> QED BY <2>3, <3>1 DEF PostFails, RemovalRaises
  <2>4. CASE TakeRequest(n)
    BY <2>4 DEF TakeRequest
  <2> QED BY <2>1, <2>2, <2>3, <2>4
<1> QED BY <1>1, <1>2 DEF CleanupType, CleanupStep

\* So does posting the cleanup event.
LEMMA EventPosted ==
    ASSUME CleanupType, NEW n \in Runtimes, NEW alreadyPending, Post(n, alreadyPending)
    PROVE  CleanupStep
<1>1. Append(posted[n], "cleanup") \in Seq({"cleanup", "delete"})
  BY AppendProperties DEF CleanupType
<1> QED BY <1>1 DEF CleanupType, CleanupStep, Post

\* So does the end of a removal.
LEMMA RemovalCompletes ==
    ASSUME CleanupType, NEW n \in Runtimes, Complete(n)
    PROVE  CleanupStep
<1>1. Append(posted[n], "delete") \in Seq({"cleanup", "delete"})
  BY AppendProperties DEF CleanupType
<1>2. posted' \in [Runtimes -> Seq({"cleanup", "delete"})] /\ deleted' = deleted
  BY <1>1 DEF CleanupType, Complete
<1>3. cleanup' \in [Runtimes -> Controller]
      /\ \A k \in Runtimes : cleanup'[k].observer => cleanup[k].observer
  <2> DEFINE observer == [cleanup EXCEPT ![n].observer = FALSE, ![n].error = FALSE]
             scheduled == observer[n].deleteScheduled \/ DeleteNow(n)
  <2>1. scheduled \in BOOLEAN
    OBVIOUS
  <2>2. observer \in [Runtimes -> Controller]
        /\ \A k \in Runtimes : observer[k].observer => cleanup[k].observer
    BY ZenonT(40) DEF CleanupType, Controller
  <2>3. cleanup' = [observer EXCEPT ![n].deleteScheduled = scheduled, ![n].complete = TRUE]
    BY DEF Complete
  <2> HIDE DEF observer, scheduled
  <2>4. ASSUME NEW d \in BOOLEAN,
               cleanup' = [observer EXCEPT ![n].deleteScheduled = d, ![n].complete = TRUE]
        PROVE  /\ cleanup' \in [Runtimes -> Controller]
               /\ \A k \in Runtimes : cleanup'[k].observer = observer[k].observer
    BY ZenonT(40), <2>2, <2>4 DEF Controller
  <2> QED BY <2>1, <2>2, <2>3, <2>4
<1> QED BY <1>2, <1>3 DEF CleanupType, CleanupStep

\* So does the deletion of the QObject, which takes the events posted to it along.
LEMMA ObjectDeleted ==
    ASSUME CleanupType, NEW n \in Runtimes, Delete(n)
    PROVE  CleanupStep
<1>1. <<>> \in Seq({"cleanup", "delete"})
  BY EmptySeq
<1> QED BY <1>1 DEF CleanupType, CleanupStep, Delete

\* So does the delivery of a cleanup event.
LEMMA EventDelivered ==
    ASSUME CleanupType, NEW n \in Runtimes, Delivers(n, "cleanup"), UNCHANGED deleted,
           cleanup' = [cleanup EXCEPT ![n].pending = FALSE],
           posted' = [posted EXCEPT ![n] = Tail(@)]
    PROVE  CleanupStep
<1>1. Tail(posted[n]) \in Seq({"cleanup", "delete"})
  BY HeadTailProperties DEF CleanupType, Delivers
<1>2. posted' \in [Runtimes -> Seq({"cleanup", "delete"})]
  BY <1>1 DEF CleanupType
<1>3. cleanup' \in [Runtimes -> Controller]
      /\ \A k \in Runtimes : cleanup'[k].observer = cleanup[k].observer
  BY DEF CleanupType, Controller
<1> QED BY <1>2, <1>3 DEF CleanupType, CleanupStep

-----------------------------------------------------------------------------
(* Claims.                                                                  *)

\* A call that has not been made has no claim, a claim has its runtime for good.
Named ==
    /\ claim # NULL => runtimeOf[claim] \in Runtimes
    /\ \A c \in Claims : tear[c] # "none" => runtimeOf[c] \in Runtimes
    /\ \A s \in Calls :
        /\ joined[s] # NULL => runtimeOf[joined[s]] \in Runtimes
        /\ call[s] \in {"fence", "launch"} => joined[s] = s
        /\ call[s] = "idle" => joined[s] = NULL /\ runtimeOf[s] = NULL

\* The caller that made a claim has not started its teardown yet.
Preparing(c) ==
    c \in Calls /\ joined[c] = c
        /\ call[c] \in {"fence", "prepare", "take", "remove", "read", "launch"}

\* Until its teardown has unpublished it, a claim is the claim.
ClaimsInOrder ==
    /\ \A c \in Claims : Preparing(c) \/ Tearing(c) => claim = c
    /\ \A c \in Claims : Preparing(c) => tear[c] = "none"
    /\ \A c \in Claims : c \in completed <=> tear[c] = "over"

-----------------------------------------------------------------------------
(* Types.                                                                   *)

\* The initial state is typed, and no claim is named yet.
LEMMA InitTypes == Init => TypeOK /\ Named
<1> SUFFICES ASSUME Init PROVE TypeOK /\ Named
  OBVIOUS
<1>1. CleanupType
  BY EmptySeq DEF Init, CleanupInit, CleanupType, Controller, Unbound
<1>2. Named
  BY DEF Init, Named, Claims
<1>3. /\ claim \in Claims \union {NULL} /\ runtimeOf \in [Claims -> Runtimes \union {NULL}]
      /\ tear \in [Claims -> TearStates] /\ kept \in [Claims -> SUBSET Resources]
      /\ preflight \in [Claims -> SUBSET Stages] /\ failures \in [Claims -> SUBSET Stages]
  BY DEF Init, TearStates
<1>4. /\ call \in [Calls -> CallStates] /\ joined \in [Calls -> Claims \union {NULL}]
      /\ answer \in [Calls -> Answers]
      /\ \A s \in Calls : call[s] = "idle"
  BY DEF Init, CallStates, Answers
<1>5. /\ owned \in [Runtimes -> SUBSET Resources]
      /\ handler \in [Runtimes -> {"none", "busy", "queued", "served"}]
  BY DEF Init
<1> QED BY <1>1, <1>2, <1>3, <1>4, <1>5 DEF Init, TypeOK

\* Who joins a claim has a runtime to stop.
LEMMA TargetIs ==
    ASSUME TypeOK, Named, NEW s \in Calls, InStop(s)
    PROVE  /\ joined[s] \in Claims /\ Target(s) \in Runtimes
           /\ joined[s] = s => runtimeOf[s] \in Runtimes
  BY DEF TypeOK, InStop, Target

\* A start, whether or not it fails, keeps the types.
LEMMA StartsType ==
    ASSUME TypeOK, Named, NEW n \in Runtimes, Start(n) \/ StartFails(n)
    PROVE  TypeOK' /\ Named'
<1> USE ShutdownAssumption DEF Claims
<1>1. CASE Start(n)
  <2>1. CleanupType'
    BY <1>1 DEF Start, TypeOK, CleanupType, Controller, Bound, Unbound
  <2>2. Named'
    BY <1>1 DEF Start, Named, claimVars, tearVars, callVars
  <2> QED
    BY <1>1, <2>1, <2>2 DEF Start, TypeOK, Resources, claimVars, tearVars, callVars
<1>2. CASE StartFails(n)
  <2>1. CleanupType'
    BY <1>2, SameCleanup DEF StartFails, TypeOK, CleanupStep
  <2>2. Named'
    BY <1>2 DEF StartFails, Named, TypeOK, callVars, Calls
  <2>3. owned' \in [Runtimes -> SUBSET Resources]
    BY <1>2 DEF StartFails, TypeOK, Resources
  <2>4. /\ claim' \in Claims \union {NULL}
        /\ runtimeOf' \in [Claims -> Runtimes \union {NULL}]
        /\ completed' \subseteq Claims /\ failed' \subseteq Claims
        /\ disposed' \subseteq Runtimes /\ settled' \subseteq Runtimes
        /\ tear' \in [Claims -> TearStates] /\ failures' \in [Claims -> SUBSET Stages]
    BY <1>2 DEF StartFails, TypeOK, TearStates, Stages
  <2>5. \A s \in Calls : call'[s] \notin {"idle", "returned"} =>
            joined'[s] \in Claims /\ runtimeOf'[joined'[s]] \in Runtimes
    BY <1>2 DEF StartFails, TypeOK, callVars
  <2> QED
    BY <1>2, <2>1, <2>2, <2>3, <2>4, <2>5 DEF StartFails, TypeOK, serveVars, callVars
<1> QED BY <1>1, <1>2

\* Handlers and Qt events keep the types and put no observer back.
LEMMA RuntimeEventsType ==
    ASSUME TypeOK, Named, NEW n \in Runtimes, Serves(n) \/ Events(n)
    PROVE  TypeOK' /\ Named' /\ CleanupStep
<1>1. CASE Serves(n)
  <2>1. /\ UNCHANGED <<cleanupVars, claimVars, runtimeVars, accepting, open, tearVars,
                       callVars, removing>>
        /\ handler' \in [Runtimes -> {"none", "busy", "queued", "served"}]
    BY <1>1 DEF Serves, Admit, Submit, Finish, Serve, ServeEnds, Handles, TypeOK
  <2>2. CleanupStep /\ CleanupType'
    BY <2>1, SameCleanup DEF TypeOK, CleanupStep
  <2> QED BY <2>1, <2>2 DEF TypeOK, Named, claimVars, runtimeVars, tearVars, callVars
<1>2. CASE Events(n)
  <2>1. /\ UNCHANGED <<claimVars, runtimeVars, serveVars, tearVars, callVars>>
        /\ removing' \in Runtimes \union {NULL}
    BY <1>2 DEF Events, RunCleanup, EndCleanup, DeleteObject, TypeOK
  <2>2. CleanupStep
    BY <1>2, EventDelivered, RemovalCompletes, CriticalSections, ObjectDeleted
    DEF Events, RunCleanup, EndCleanup, DeleteObject, TypeOK
  <2> QED BY <2>1, <2>2 DEF TypeOK, Named, CleanupStep, claimVars, runtimeVars, serveVars,
                            tearVars, callVars
<1> QED BY <1>1, <1>2

\* What a stop call changes when it is made.
LEMMA DecisionsType ==
    ASSUME TypeOK, Named, NEW s \in Calls, NotRunning(s) \/ Claim(s) \/ Join(s)
    PROVE  TypeOK' /\ Named'
<1> USE ShutdownAssumption DEF Claims
<1>1. /\ UNCHANGED <<cleanupVars, completed, failed, retryable, preflight, runtimeVars,
                     serveVars, tearVars, removing>>
      /\ final' \subseteq OwnerStops /\ call[s] = "idle"
  BY DEF NotRunning, Claim, Join, MayCall, claimVars, TypeOK
<1>2. CleanupType'
  BY <1>1, SameCleanup DEF TypeOK, CleanupStep
<1>3. CASE NotRunning(s)
  <2>1. /\ UNCHANGED <<claim, runtimeOf, joined>>
        /\ call' = [call EXCEPT ![s] = "returned"]
        /\ answer' = [answer EXCEPT ![s] = "notRunning"]
    BY <1>3 DEF NotRunning, Returns, claimVars
  <2>2. call' \in [Calls -> CallStates] /\ answer' \in [Calls -> Answers]
    BY <2>1 DEF TypeOK, CallStates, Answers
  <2>3. Named'
    BY <1>1, <2>1 DEF Named, tearVars, TypeOK
  <2> QED BY <1>1, <1>2, <2>1, <2>2, <2>3 DEF TypeOK, runtimeVars, serveVars, tearVars
<1>4. CASE Claim(s)
  <2>1. /\ claim' = s /\ joined' = [joined EXCEPT ![s] = s]
        /\ call' = [call EXCEPT ![s] = "fence"] /\ UNCHANGED answer
        /\ \E n \in Runtimes : runtimeOf' = [runtimeOf EXCEPT ![s] = n]
    <3>1. Running => published \in Runtimes
      BY DEF Running, TypeOK
    <3> QED BY <1>4, <3>1 DEF Claim, Named
  <2>2. /\ call' \in [Calls -> CallStates] /\ joined' \in [Calls -> Claims \union {NULL}]
        /\ runtimeOf' \in [Claims -> Runtimes \union {NULL}]
    BY <2>1 DEF TypeOK, CallStates
  <2>3. \A c \in Claims : runtimeOf[c] \in Runtimes => runtimeOf'[c] \in Runtimes
    BY <2>1 DEF TypeOK
  <2>4. runtimeOf'[s] \in Runtimes
    BY <2>1 DEF TypeOK
  <2>5. Named'
    BY <1>1, <2>1, <2>3, <2>4 DEF Named, tearVars, TypeOK
  <2>6. \A t \in Calls : call'[t] \notin {"idle", "returned"} =>
            joined'[t] \in Claims /\ runtimeOf'[joined'[t]] \in Runtimes
    BY <2>1, <2>3, <2>4 DEF TypeOK
  <2> QED BY <1>1, <1>2, <2>1, <2>2, <2>5, <2>6 DEF TypeOK, runtimeVars, serveVars, tearVars
<1>5. CASE Join(s)
  <2>1. /\ UNCHANGED <<claim, runtimeOf, answer>> /\ joined' = [joined EXCEPT ![s] = claim]
        /\ call' = [call EXCEPT ![s] = "prepare"] /\ claim \in Claims
    BY <1>5 DEF Join, claimVars, TypeOK
  <2>2. /\ call' \in [Calls -> CallStates] /\ joined' \in [Calls -> Claims \union {NULL}]
    BY <2>1 DEF TypeOK, CallStates
  <2>3. Named'
    BY <1>1, <2>1 DEF Named, tearVars, TypeOK
  <2>4. \A t \in Calls : call'[t] \notin {"idle", "returned"} =>
            joined'[t] \in Claims /\ runtimeOf'[joined'[t]] \in Runtimes
    BY <2>1 DEF TypeOK, Named
  <2> QED BY <1>1, <1>2, <2>1, <2>2, <2>3, <2>4 DEF TypeOK, runtimeVars, serveVars, tearVars
<1> QED BY <1>3, <1>4, <1>5

\* The rest of a stop call leaves the claim, the runtimes and the joins alone.
StopGoesOn(s) ==
    \/ Fence(s) \/ SkipPrepare(s) \/ Prepare(s) \/ PrepareTakes(s)
    \/ PrepareRemoves(s) \/ PrepareReads(s) \/ Launch(s)
    \/ WaitEnds(s) \/ WaitExpires(s)

\* A stop call past its decision moves neither the claim nor the runtime, but to fence it.
LEMMA StopKeeps ==
    ASSUME NEW s \in Calls, StopGoesOn(s)
    PROVE  /\ UNCHANGED <<claim, runtimeOf, completed, failed, runtimeVars, accepting, failures,
                          kept, joined, final, removing>>
           /\ InStop(s)
<1>1. CASE Fence(s) \/ SkipPrepare(s) \/ Prepare(s) \/ PrepareTakes(s)
  BY <1>1 DEF Fence, SkipPrepare, Prepare, PrepareTakes, StopAccepting, InStop, claimVars,
              serveVars, tearVars
<1>2. CASE PrepareRemoves(s) \/ PrepareReads(s) \/ Launch(s) \/ WaitEnds(s) \/ WaitExpires(s)
  BY <1>2 DEF PrepareRemoves, PrepareReads, Launch, WaitEnds, WaitExpires, InStop, claimVars,
              serveVars, tearVars
<1> QED BY <1>1, <1>2 DEF StopGoesOn

\* A stop call puts no observer back.
LEMMA StopCleanup ==
    ASSUME TypeOK, Named, NEW s \in Calls, StopGoesOn(s)
    PROVE  CleanupStep
<1>1. Target(s) \in Runtimes
  BY StopKeeps, TargetIs
<1>2. CASE Prepare(s) \/ PrepareTakes(s)
  BY <1>1, <1>2, CriticalSections DEF Prepare, PrepareTakes, TypeOK
<1>3. CASE PrepareRemoves(s)
  BY <1>1, <1>3, CriticalSections, RemovalCompletes DEF PrepareRemoves, TypeOK
<1>4. CASE Fence(s) \/ SkipPrepare(s) \/ PrepareReads(s) \/ Launch(s) \/ WaitEnds(s)
           \/ WaitExpires(s)
  BY <1>4, SameCleanup DEF Fence, SkipPrepare, PrepareReads, Launch, WaitEnds, WaitExpires,
                           TypeOK
<1> QED BY <1>2, <1>3, <1>4 DEF StopGoesOn

\* Where a stop call may go from where it stands.
LEMMA StopMoves ==
    ASSUME TypeOK, NEW s \in Calls, StopGoesOn(s)
    PROVE  \E to \in CallStates \ {"idle", "fence"} :
               /\ call' = [call EXCEPT ![s] = to]
               /\ to \notin {"launch", "wait", "returned"} => call[s] # "launch"
               /\ to = "launch" => joined[s] = s
               /\ joined[s] # s => to # "launch"
               /\ call[s] \in {"launch", "wait"} => to \in {"wait", "returned"}
<1> USE DEF CallStates
<1>1. CASE Fence(s) \/ SkipPrepare(s)
  BY <1>1 DEF Fence, SkipPrepare, AfterPrepare
<1>2. CASE Prepare(s) \/ PrepareTakes(s) \/ PrepareRemoves(s)
  BY <1>2 DEF Prepare, PrepareTakes, PrepareRemoves
<1>3. CASE PrepareReads(s) \/ Launch(s)
  BY <1>3 DEF PrepareReads, Launch, AfterPrepare
<1>4. CASE WaitEnds(s) \/ WaitExpires(s)
  BY <1>4 DEF WaitEnds, WaitExpires, Returns
<1> QED BY <1>1, <1>2, <1>3, <1>4 DEF StopGoesOn

\* What it may change besides.
LEMMA StopChanges ==
    ASSUME TypeOK, Named, NEW s \in Calls, StopGoesOn(s)
    PROVE  /\ preflight' \in [Claims -> SUBSET Stages] /\ retryable' \subseteq Claims
           /\ open' \subseteq Runtimes /\ answer' \in [Calls -> Answers]
           /\ handler' \in [Runtimes -> {"none", "busy", "queued", "served"}]
           /\ \A n \in Runtimes : handler'[n] # "none" <=> handler[n] # "none"
           /\ \/ UNCHANGED tear
              \/ /\ call[s] = "launch" /\ tear' = [tear EXCEPT ![s] = "quiesce"]
                 /\ call' = [call EXCEPT ![s] = "wait"]
<1>1. joined[s] \in Claims /\ Target(s) \in Runtimes
  BY StopKeeps, TargetIs
<1>2. CASE Fence(s)
  BY <1>2 DEF Fence, TypeOK, Claims, Stages, serveVars, tearVars
<1>3. CASE SkipPrepare(s) \/ PrepareTakes(s) \/ PrepareRemoves(s)
  BY <1>3 DEF SkipPrepare, PrepareTakes, PrepareRemoves, TypeOK, claimVars, serveVars, tearVars
<1>4. CASE Prepare(s)
  BY <1>1, <1>4 DEF Prepare, StopAccepting, TypeOK, claimVars, serveVars, tearVars
<1>5. CASE PrepareReads(s)
  BY <1>1, <1>5 DEF PrepareReads, NoteUnprepared, TypeOK, Stages, serveVars, tearVars
<1>6. CASE Launch(s)
  BY <1>6 DEF Launch, TypeOK, claimVars, serveVars, tearVars
<1>7. CASE WaitEnds(s) \/ WaitExpires(s)
  BY <1>7 DEF WaitEnds, WaitExpires, Returns, TypeOK, Answers, claimVars, serveVars, tearVars
<1> QED BY <1>2, <1>3, <1>4, <1>5, <1>6, <1>7 DEF StopGoesOn

\* A stop call past its decision keeps the types.
LEMMA StopType ==
    ASSUME TypeOK, Named, NEW s \in Calls, StopGoesOn(s)
    PROVE  TypeOK' /\ Named'
<1>1. PICK to \in CallStates \ {"idle", "fence"} :
         /\ call' = [call EXCEPT ![s] = to]
         /\ to = "launch" => joined[s] = s
  BY StopMoves
<1>2. InStop(s) /\ joined[s] \in Claims /\ Target(s) \in Runtimes
      /\ (call[s] = "launch" => joined[s] = s)
  BY StopKeeps, TargetIs DEF Named
<1>3. call' \in [Calls -> CallStates]
  BY <1>1 DEF TypeOK
<1>4. tear' \in [Claims -> TearStates]
      /\ \A c \in Claims : tear'[c] # "none" => runtimeOf[c] \in Runtimes
  BY <1>2, StopChanges DEF Target, Named, TypeOK, TearStates, Claims
<1>5. CleanupType'
  BY StopCleanup DEF CleanupStep
<1>6. \A t \in Calls : call'[t] \notin {"idle", "returned"} =>
          joined'[t] \in Claims /\ runtimeOf'[joined'[t]] \in Runtimes
  BY <1>1, <1>2, StopKeeps DEF TypeOK, Target
<1>7. Named'
  BY <1>1, <1>2, <1>4, StopKeeps DEF Named, TypeOK, InStop
<1> QED BY <1>3, <1>4, <1>5, <1>6, <1>7, StopKeeps, StopChanges DEF TypeOK, runtimeVars

\* The teardown of a claim leaves the stop calls alone.
LEMMA TeardownKeeps ==
    ASSUME NEW c \in Claims, Teardown(c)
    PROVE  UNCHANGED <<callVars, runtimeOf, retryable, preflight, published, removing>>
<1>1. CASE Quiesce(c) \/ ClaimDisposal(c) \/ DisposeDispatcher(c) \/ ReadOutcome(c)
  BY <1>1 DEF Quiesce, ClaimDisposal, DisposeDispatcher, ReadOutcome, claimVars, runtimeVars
<1>2. ASSUME NEW r, Release(c, r)
      PROVE  UNCHANGED <<callVars, runtimeOf, retryable, preflight, published, removing>>
  BY <1>2 DEF Release, claimVars, runtimeVars
<1>3. CASE PostCleanup(c) \/ PostCleanupFails(c) \/ CompleteDisposal(c)
  BY <1>3 DEF PostCleanup, PostCleanupFails, CompleteDisposal, claimVars, runtimeVars
<1>4. CASE Unpublish(c) \/ EndTeardown(c)
  BY <1>4 DEF Unpublish, EndTeardown, runtimeVars
<1> QED BY <1>1, <1>2, <1>3, <1>4 DEF Teardown

\* A teardown moves on, never back to where it starts.
LEMMA TeardownMoves ==
    ASSUME TypeOK, NEW c \in Claims, Teardown(c)
    PROVE  /\ tear[c] # "none"
           /\ \E to \in TearStates \ {"none", "quiesce"} : tear' = [tear EXCEPT ![c] = to]
<1> USE DEF TearStates, Tears
<1>1. CASE Quiesce(c) \/ DisposeDispatcher(c) \/ ReadOutcome(c)
  BY <1>1 DEF Quiesce, DisposeDispatcher, ReadOutcome
<1>2. CASE ClaimDisposal(c)
  BY <1>2 DEF ClaimDisposal, NextResource
<1>3. ASSUME NEW r \in {"listener", "bridge", "worker"}, Release(c, r)
      PROVE  /\ tear[c] # "none"
             /\ \E to \in TearStates \ {"none", "quiesce"} : tear' = [tear EXCEPT ![c] = to]
  BY <1>3 DEF Release, NextResource
<1>4. CASE PostCleanup(c) \/ PostCleanupFails(c) \/ CompleteDisposal(c)
  BY <1>4 DEF PostCleanup, PostCleanupFails, CompleteDisposal
<1>5. CASE Unpublish(c) \/ EndTeardown(c)
  BY <1>5 DEF Unpublish, EndTeardown
<1> QED BY <1>1, <1>2, <1>3, <1>4, <1>5 DEF Teardown

\* A teardown puts no observer back.
LEMMA TeardownCleanup ==
    ASSUME TypeOK, Named, NEW c \in Claims, Teardown(c)
    PROVE  CleanupStep
<1>1. runtimeOf[c] \in Runtimes
  BY TeardownMoves DEF Named
<1>2. CASE DisposeDispatcher(c) \/ PostCleanup(c) \/ PostCleanupFails(c)
  BY <1>1, <1>2, CriticalSections, EventPosted DEF DisposeDispatcher, PostCleanup,
     PostCleanupFails, TypeOK
<1>3. ASSUME NEW r, Release(c, r) PROVE CleanupStep
  BY <1>3, SameCleanup DEF Release, TypeOK
<1>4. CASE Quiesce(c) \/ ClaimDisposal(c) \/ ReadOutcome(c) \/ CompleteDisposal(c)
           \/ Unpublish(c) \/ EndTeardown(c)
  BY <1>4, SameCleanup DEF Quiesce, ClaimDisposal, ReadOutcome, CompleteDisposal, Unpublish,
                           EndTeardown, TypeOK
<1> QED BY <1>2, <1>3, <1>4 DEF Teardown

\* A teardown keeps the types.
LEMMA TeardownType ==
    ASSUME TypeOK, Named, NEW c \in Claims, Teardown(c)
    PROVE  TypeOK' /\ Named'
<1>1. /\ UNCHANGED <<callVars, runtimeOf, retryable, preflight, published, removing>>
      /\ runtimeOf[c] \in Runtimes /\ CleanupType'
  BY TeardownKeeps, TeardownMoves, TeardownCleanup DEF Named, CleanupStep
<1>2. tear' \in [Claims -> TearStates] /\ \A k \in Claims : tear'[k] # "none" => tear[k] # "none"
  BY TeardownMoves DEF TypeOK
<1>3. /\ completed' \subseteq Claims /\ failed' \subseteq Claims
      /\ claim' \in {claim, NULL}
      /\ disposed' \subseteq Runtimes /\ settled' \subseteq Runtimes
      /\ accepting' \subseteq Runtimes /\ open' \subseteq Runtimes
      /\ owned' \in [Runtimes -> SUBSET Resources]
      /\ handler' \in [Runtimes -> {"none", "busy", "queued", "served"}]
      /\ failures' \in [Claims -> SUBSET Stages] /\ kept' \in [Claims -> SUBSET Resources]
  <2> USE DEF TypeOK, Resources, Stages
  <2>1. CASE Quiesce(c)
    <3>1. failures' \in [Claims -> SUBSET Stages]
      BY <2>1 DEF Quiesce
    <3> QED BY <2>1, <3>1 DEF Quiesce, claimVars, runtimeVars
  <2>2. CASE ClaimDisposal(c)
    BY <1>1, <2>2 DEF ClaimDisposal, claimVars, serveVars
  <2>3. ASSUME NEW r \in {"listener", "bridge", "worker"}, Release(c, r)
        PROVE  /\ kept' \in [Claims -> SUBSET Resources]
               /\ UNCHANGED <<claimVars, runtimeVars, serveVars, failures>>
    BY <2>3 DEF Release
  <2>4. CASE DisposeDispatcher(c)
    BY <1>1, <2>4 DEF DisposeDispatcher, StopAccepting, claimVars, runtimeVars
  <2>5. CASE PostCleanup(c) \/ PostCleanupFails(c)
    BY <2>5 DEF PostCleanup, PostCleanupFails, claimVars, runtimeVars, serveVars
  <2>6. CASE ReadOutcome(c)
    BY <2>6 DEF ReadOutcome, claimVars, runtimeVars, serveVars
  <2>7. CASE CompleteDisposal(c)
    BY <1>1, <2>7 DEF CompleteDisposal, DisposalFails, claimVars, serveVars
  <2>8. CASE Unpublish(c) \/ EndTeardown(c)
    BY <2>8 DEF Unpublish, EndTeardown, runtimeVars, serveVars
  <2> QED BY <2>1, <2>2, <2>3, <2>4, <2>5, <2>6, <2>7, <2>8
          DEF Teardown, claimVars, runtimeVars, serveVars
<1>4. Named'
  BY <1>1, <1>2, <1>3 DEF Named, callVars
<1> QED BY <1>1, <1>2, <1>3, <1>4 DEF TypeOK, callVars

\* Every step keeps the types.
LEMMA TypesKept == TypeOK /\ Named /\ [Next]_vars => TypeOK' /\ Named'
<1> SUFFICES ASSUME TypeOK, Named, [Next]_vars PROVE TypeOK' /\ Named'
  OBVIOUS
<1>1. CASE UNCHANGED vars
  BY <1>1 DEF vars, cleanupVars, claimVars, runtimeVars, serveVars, tearVars, callVars,
              TypeOK, CleanupType, Named
<1> QED BY <1>1, StartsType, RuntimeEventsType, DecisionsType, StopType, TeardownType
        DEF Next, StopCall, StopGoesOn

-----------------------------------------------------------------------------
(* One claim at a time.                                                     *)

\* Every step keeps the claims in order: one teardown, of the claim that stands.
LEMMA ClaimsKept == TypeOK /\ Named /\ ClaimsInOrder /\ [Next]_vars => ClaimsInOrder'
<1> SUFFICES ASSUME TypeOK, Named, ClaimsInOrder, [Next]_vars PROVE ClaimsInOrder'
  OBVIOUS
<1> USE ShutdownAssumption
<1>1. CASE UNCHANGED <<claim, completed, tear, call, joined>>
  BY <1>1 DEF ClaimsInOrder, Preparing, Tearing
<1>2. ASSUME NEW n \in Runtimes, Start(n) \/ Serves(n) \/ Events(n) PROVE ClaimsInOrder'
  BY <1>1, <1>2 DEF Start, Serves, Admit, Submit, Finish, Serve, ServeEnds, Handles, Events,
     RunCleanup, EndCleanup, DeleteObject, claimVars, tearVars, callVars
<1>3. ASSUME NEW n \in Runtimes, StartFails(n) PROVE ClaimsInOrder'
  <2>1. /\ claim = NULL /\ UNCHANGED <<call, joined>> /\ n \in Claims /\ n \notin Calls
        /\ completed' = completed \union {n} /\ tear' = [tear EXCEPT ![n] = "over"]
    BY <1>3 DEF StartFails, MayStart, callVars, Claims
  <2>2. \A c \in Claims : ~Preparing(c) /\ ~Tearing(c)
    BY <2>1 DEF ClaimsInOrder
  <2>3. \A c \in Claims : ~Preparing(c)' /\ ~Tearing(c)'
    BY <2>1, <2>2 DEF Preparing, Tearing, TypeOK
  <2> QED BY <2>1, <2>3 DEF ClaimsInOrder, TypeOK
<1>4. ASSUME NEW s \in Calls, NotRunning(s) PROVE ClaimsInOrder'
  <2>1. /\ UNCHANGED <<claim, completed, tear, joined>> /\ call[s] = "idle"
        /\ call' = [call EXCEPT ![s] = "returned"]
    BY <1>4 DEF NotRunning, MayCall, Returns, claimVars, tearVars
  <2> QED BY <2>1 DEF ClaimsInOrder, Preparing, Tearing, TypeOK
<1>5. ASSUME NEW s \in Calls, Claim(s) PROVE ClaimsInOrder'
  <2>1. /\ UNCHANGED <<completed, tear>> /\ call[s] = "idle" /\ claim' = s
        /\ joined' = [joined EXCEPT ![s] = s] /\ call' = [call EXCEPT ![s] = "fence"]
        /\ claim # NULL => claim \in completed
    BY <1>5 DEF Claim, MayCall, Replaceable, tearVars
  <2>2. s \in Claims /\ tear[s] = "none"
    BY <2>1 DEF Named, Claims
  <2>3. \A c \in Claims : ~Preparing(c) /\ ~Tearing(c)
    BY <2>1 DEF ClaimsInOrder, Tearing, TypeOK
  <2>4. \A c \in Claims : ~Tearing(c)' /\ (Preparing(c)' => c = s)
    BY <2>1, <2>3 DEF Preparing, Tearing, TypeOK
  <2> QED BY <2>1, <2>2, <2>4 DEF ClaimsInOrder
<1>6. ASSUME NEW s \in Calls, Join(s) PROVE ClaimsInOrder'
  <2>1. /\ UNCHANGED <<claim, completed, tear>> /\ call[s] = "idle" /\ claim # NULL
        /\ joined' = [joined EXCEPT ![s] = claim] /\ call' = [call EXCEPT ![s] = "prepare"]
    BY <1>6 DEF Join, MayCall, claimVars, tearVars
  <2>2. claim # s
    BY <2>1 DEF Named, Claims
  <2>3. \A c \in Claims : Preparing(c)' => Preparing(c)
    BY <2>1, <2>2 DEF Preparing, TypeOK
  <2> QED BY <2>1, <2>3 DEF ClaimsInOrder, Tearing
<1>7. ASSUME NEW s \in Calls, StopGoesOn(s) PROVE ClaimsInOrder'
  <2>1. PICK to \in CallStates \ {"idle", "fence"} :
           /\ call' = [call EXCEPT ![s] = to]
           /\ call[s] \in {"launch", "wait"} => to \in {"wait", "returned"}
    BY <1>7, StopMoves
  <2>2. UNCHANGED <<claim, completed, joined>> /\ InStop(s)
    BY <1>7, StopKeeps
  <2>3. \A c \in Claims : Preparing(c)' => Preparing(c)
    BY <2>1, <2>2 DEF Preparing, TypeOK, InStop, CallStates
  <2>4. CASE UNCHANGED tear
    BY <2>2, <2>3, <2>4 DEF ClaimsInOrder, Tearing
  <2>5. CASE call[s] = "launch" /\ tear' = [tear EXCEPT ![s] = "quiesce"]
             /\ call' = [call EXCEPT ![s] = "wait"]
    <3>1. Preparing(s) /\ s \in Claims
      BY <2>5 DEF Preparing, Named, Claims
    <3>2. claim = s /\ tear[s] = "none"
      BY <3>1 DEF ClaimsInOrder
    <3>3. ~Preparing(s)'
      BY <2>5 DEF Preparing, TypeOK
    <3>4. \A c \in Claims : c # s => (Tearing(c)' <=> Tearing(c)) /\ tear'[c] = tear[c]
      BY <2>5 DEF Tearing, TypeOK
    <3>5. tear'[s] = "quiesce"
      BY <2>5, <3>1 DEF TypeOK
    <3> QED BY <2>2, <2>3, <3>1, <3>2, <3>3, <3>4, <3>5 DEF ClaimsInOrder
  <2> QED BY <1>7, <2>4, <2>5, StopChanges
<1>8. ASSUME NEW c \in Claims, Teardown(c) PROVE ClaimsInOrder'
  <2>1. UNCHANGED <<call, joined>>
    BY <1>8, TeardownKeeps DEF callVars
  <2>2. /\ \A k \in Claims : Preparing(k)' <=> Preparing(k)
        /\ ~Preparing(c)
    BY <1>8, <2>1, TeardownMoves DEF Preparing, ClaimsInOrder
  <2>3. PICK to \in TearStates \ {"none", "quiesce"} : tear' = [tear EXCEPT ![c] = to]
    BY <1>8, TeardownMoves
  <2>4. CASE Unpublish(c)
    <3>1. /\ UNCHANGED completed /\ tear' = [tear EXCEPT ![c] = "end"] /\ claim = c
          /\ tear[c] = "publish"
      BY <2>4 DEF Unpublish, Tears, ClaimsInOrder, Tearing
    <3>2. \A k \in Claims : ~Preparing(k)' /\ ~Tearing(k)'
      BY <2>2, <3>1 DEF ClaimsInOrder, Tearing, TypeOK
    <3> QED BY <2>2, <3>1, <3>2 DEF ClaimsInOrder, TypeOK
  <2>5. CASE EndTeardown(c)
    <3>1. /\ completed' = completed \union {c} /\ tear' = [tear EXCEPT ![c] = "over"]
          /\ UNCHANGED claim
      BY <2>5 DEF EndTeardown, Tears
    <3>2. \A k \in Claims : Tearing(k)' => Tearing(k)
      BY <3>1 DEF Tearing, TypeOK
    <3> QED BY <2>2, <3>1, <3>2 DEF ClaimsInOrder, TypeOK
  <2>6. ASSUME ~Unpublish(c), ~EndTeardown(c)
        PROVE  /\ UNCHANGED <<claim, completed>> /\ Tearing(c) /\ to # "over"
    <3> USE <2>3 DEF Tears, Tearing, claimVars
    <3>1. CASE Quiesce(c) \/ DisposeDispatcher(c) \/ ReadOutcome(c)
      BY <3>1 DEF Quiesce, DisposeDispatcher, ReadOutcome, TypeOK
    <3>2. CASE ClaimDisposal(c)
      BY <3>2 DEF ClaimDisposal, NextResource, TypeOK
    <3>3. ASSUME NEW r \in {"listener", "bridge", "worker"}, Release(c, r)
          PROVE  /\ UNCHANGED <<claim, completed>> /\ Tearing(c) /\ to # "over"
      BY <3>3 DEF Release, NextResource, TypeOK
    <3>4. CASE PostCleanup(c) \/ PostCleanupFails(c) \/ CompleteDisposal(c)
      BY <3>4 DEF PostCleanup, PostCleanupFails, CompleteDisposal, TypeOK
    <3> QED BY <1>8, <2>6, <3>1, <3>2, <3>3, <3>4 DEF Teardown
  <2>7. ASSUME ~Unpublish(c), ~EndTeardown(c) PROVE ClaimsInOrder'
    <3>1. \A k \in Claims : Tearing(k)' => Tearing(k)
      BY <2>3, <2>6, <2>7 DEF Tearing, TypeOK
    <3>2. c \notin completed /\ tear'[c] = to
      BY <2>3, <2>6, <2>7 DEF ClaimsInOrder, Tearing, TypeOK
    <3>3. \A k \in Claims : k # c => tear'[k] = tear[k]
      BY <2>3 DEF TypeOK
    <3> QED BY <2>2, <2>6, <2>7, <3>1, <3>2, <3>3 DEF ClaimsInOrder
  <2> QED BY <2>4, <2>5, <2>7
<1>9. CASE UNCHANGED vars
  BY <1>1, <1>9 DEF vars, claimVars, tearVars, callVars
<1> QED BY <1>2, <1>3, <1>4, <1>5, <1>6, <1>7, <1>8, <1>9 DEF Next, StopCall, StopGoesOn

-----------------------------------------------------------------------------
(* What a runtime holds, and who sees to it.                                *)

Keeps(n) == Holds(n) \/ n \in accepting

\* Whatever is left of a runtime belongs to the one that serves or to the claim.
Held ==
    /\ \A n \in Runtimes : Keeps(n) =>
            (Running /\ n = published) \/ (claim # NULL /\ runtimeOf[claim] = n)
    /\ claim # NULL /\ Running => runtimeOf[claim] = published
    /\ \A n \in Runtimes : "listener" \notin owned[n] => handler[n] = "none" /\ n \notin accepting
    /\ \A n \in Runtimes : "dispatcher" \notin owned[n] => ~cleanup[n].observer

Releasing == {"listener", "bridge", "worker", "dispatcher", "post", "postPending", "outcome"}
PastListener == {"bridge", "worker", "dispatcher", "post", "postPending", "outcome",
                 "complete", "publish"}

\* How far a teardown has come.
ProgressOf(c) ==
    /\ Tearing(c) /\ tear[c] # "quiesce" => runtimeOf[c] \notin accepting
    /\ tear[c] \in Releasing \union {"complete", "publish"} => runtimeOf[c] \in disposed
    /\ tear[c] \in PastListener => handler[runtimeOf[c]] = "none"
    /\ tear[c] = "complete" => "dispatcher" \in kept[c] \/ ~cleanup[runtimeOf[c]].observer
    /\ tear[c] \in Releasing \union {"claim", "complete"} => "dispose" \notin failures[c]
    /\ tear[c] = "publish" =>
            IF "dispose" \in failures[c]
            THEN owned[runtimeOf[c]] # {} /\ runtimeOf[c] \in settled
            ELSE owned[runtimeOf[c]] = {}
Progress == \A c \in Claims : ProgressOf(c)

\* Nothing is left of a runtime, for good.
Done(n) ==
    /\ n \in disposed /\ ~Keeps(n)
    /\ claim # NULL => runtimeOf[claim] # n

\* What a claim that has been unpublished tells.
Outcomes ==
    /\ \A c \in Claims :
        /\ "dispose" \notin preflight[c]
        /\ "prepare" \in preflight[c] \/ "prepare" \in failures[c] => c \in retryable
        /\ tear[c] \in {"end", "over"} /\ claim = c =>
            /\ c \in failed /\ failures[c] # {}
            /\ "dispose" \in failures[c] =>
                    owned[runtimeOf[c]] # {} /\ runtimeOf[c] \in settled
        /\ tear[c] \in {"end", "over"} /\ c \notin failed => Done(runtimeOf[c])
    /\ \A s \in Calls : answer[s] = "stopped" => joined[s] \in completed /\ joined[s] \notin failed

IInv == TypeOK /\ Named /\ ClaimsInOrder /\ Held /\ Progress /\ Outcomes

\* A step that does not touch the claim or the resources, and lets handlers and
\* observers only go.
Lets ==
    /\ UNCHANGED <<claim, runtimeOf, published, disposed, owned>>
    /\ accepting' \subseteq accepting
    /\ \A n \in Runtimes : handler'[n] # "none" => handler[n] # "none" \/ n \in accepting
    /\ \A n \in Runtimes : cleanup'[n].observer => cleanup[n].observer

\* A step that only lets go leaves whatever is held where it belongs.
LEMMA LetsHeld == ASSUME Held, Lets PROVE Held'
  BY DEF Held, Lets, Keeps, Holds, Running

\* A step that only lets go brings nothing of a finished runtime back.
LEMMA LetsDone == ASSUME NEW n \in Runtimes, Done(n), Lets PROVE Done(n)'
  BY DEF Done, Lets, Keeps, Holds

\* The steps that let go.
LEMMA RuntimeEventsLet ==
    ASSUME TypeOK, Named, NEW n \in Runtimes, Serves(n) \/ Events(n)
    PROVE  /\ Lets /\ UNCHANGED <<claimVars, runtimeVars, tearVars, callVars>>
<1>1. CleanupStep
  BY RuntimeEventsType
<1>2. CASE Serves(n)
  <2>1. /\ UNCHANGED <<claimVars, runtimeVars, accepting, tearVars, callVars>>
        /\ \A k \in Runtimes : handler'[k] # "none" => handler[k] # "none" \/ k \in accepting
    BY <1>2 DEF Serves, Admit, Submit, Finish, Serve, ServeEnds, Handles, TypeOK
  <2> QED BY <1>1, <2>1 DEF Lets, CleanupStep, claimVars, runtimeVars
<1>3. CASE Events(n)
  BY <1>1, <1>3 DEF Events, RunCleanup, EndCleanup, DeleteObject, Lets, CleanupStep, claimVars,
     runtimeVars, serveVars
<1> QED BY <1>2, <1>3

\* A stop call past its decision only lets go.
LEMMA StopLets == ASSUME TypeOK, Named, NEW s \in Calls, StopGoesOn(s) PROVE Lets
  BY StopKeeps, StopCleanup, StopChanges DEF Lets, CleanupStep, runtimeVars

\* A teardown only lets go, but where it claims the disposal, ends it and unpublishes.
LEMMA TeardownLets ==
    ASSUME TypeOK, Named, NEW c \in Claims, Teardown(c),
           ~ClaimDisposal(c), ~CompleteDisposal(c), ~Unpublish(c)
    PROVE  Lets
<1>1. CleanupStep /\ UNCHANGED <<runtimeOf, published>>
  BY TeardownCleanup, TeardownKeeps
<1>2. runtimeOf[c] \in Runtimes
  BY TeardownMoves DEF Named
<1>3. /\ UNCHANGED <<claim, disposed, owned>> /\ accepting' \subseteq accepting
      /\ \A n \in Runtimes : handler'[n] # "none" => handler[n] # "none" \/ n \in accepting
  <2>1. CASE Quiesce(c) \/ PostCleanup(c) \/ PostCleanupFails(c) \/ ReadOutcome(c)
             \/ EndTeardown(c)
    BY <2>1 DEF Quiesce, PostCleanup, PostCleanupFails, ReadOutcome, EndTeardown, claimVars,
                runtimeVars, serveVars
  <2>2. CASE DisposeDispatcher(c)
    BY <1>2, <2>2 DEF DisposeDispatcher, StopAccepting, claimVars, runtimeVars, TypeOK
  <2>3. ASSUME NEW r, Release(c, r)
        PROVE  UNCHANGED <<claim, disposed, owned, accepting, handler>>
    BY <2>3 DEF Release, claimVars, runtimeVars, serveVars
  <2> QED BY <2>1, <2>2, <2>3 DEF Teardown
<1> QED BY <1>1, <1>3 DEF Lets, CleanupStep

\* Every step leaves what is held with the published runtime or the claim's.
LEMMA HeldKept ==
    TypeOK /\ Named /\ ClaimsInOrder /\ Held /\ Progress /\ [Next]_vars => Held'
<1> SUFFICES ASSUME TypeOK, Named, ClaimsInOrder, Held, Progress, [Next]_vars PROVE Held'
  OBVIOUS
<1> USE ShutdownAssumption
<1>1. CASE UNCHANGED <<claim, runtimeOf, published, disposed, owned, accepting, handler, cleanup>>
  BY <1>1, LetsHeld DEF Lets
<1>2. ASSUME NEW n \in Runtimes, MayStart, n \in Unused
      PROVE  claim = NULL /\ ~Running /\ n \notin disposed /\ owned[n] = {}
             /\ \A m \in Runtimes : ~Keeps(m)
  BY <1>2 DEF MayStart, Unused, Running, Held
<1>3. ASSUME NEW n \in Runtimes, Start(n) PROVE Held'
  <2>1. /\ claim' = NULL /\ published' = n /\ UNCHANGED <<disposed, handler>>
        /\ n \notin disposed /\ \A m \in Runtimes : ~Keeps(m)
        /\ owned' = [owned EXCEPT ![n] = Resources] /\ accepting' = accepting \union {n}
        /\ cleanup' = [cleanup EXCEPT ![n] = Bound]
    BY <1>2, <1>3 DEF Start, claimVars
  <2>2. \A m \in Runtimes : m # n =>
           owned'[m] = owned[m] /\ cleanup'[m] = cleanup[m] /\ (m \in accepting' => m \in accepting)
    BY <2>1 DEF TypeOK, CleanupType
  <2>3. \A m \in Runtimes : Keeps(m)' => m = n
    BY <2>1, <2>2 DEF Keeps, Holds
  <2>4. Running' /\ owned'[n] = Resources
    BY <2>1 DEF Running, TypeOK, Claims
  <2> QED BY <2>1, <2>2, <2>3, <2>4 DEF Held, Resources
<1>4. ASSUME NEW n \in Runtimes, StartFails(n) PROVE Held'
  <2>1. /\ claim' = n /\ UNCHANGED <<published, handler, accepting, cleanup>>
        /\ runtimeOf' = [runtimeOf EXCEPT ![n] = n] /\ disposed' = disposed \union {n}
        /\ \A m \in Runtimes : ~Keeps(m)
        /\ \A m \in Runtimes : m # n => owned'[m] = owned[m]
        /\ ~Running
    BY <1>2, <1>4 DEF StartFails, serveVars, cleanupVars, TypeOK
  <2>2. ~Running'
    BY <2>1 DEF Running
  <2>3. runtimeOf'[n] = n /\ \A m \in Runtimes : Keeps(m)' => m = n
    BY <2>1 DEF Keeps, Holds, TypeOK, Claims
  <2>4. \A m \in Runtimes : handler'[m] = "none" /\ m \notin accepting' /\ ~cleanup'[m].observer
    BY <2>1 DEF Keeps, Holds
  <2> QED BY <2>1, <2>2, <2>3, <2>4 DEF Held, Claims
<1>5. ASSUME NEW s \in Calls, NotRunning(s) \/ Join(s) PROVE Held'
  BY <1>1, <1>5 DEF NotRunning, Join, cleanupVars, claimVars, runtimeVars, serveVars
<1>6. ASSUME NEW s \in Calls, Claim(s) PROVE Held'
  <2>1. /\ UNCHANGED <<published, disposed, owned, accepting, handler, cleanup>> /\ claim' = s
        /\ \/ claim = NULL /\ Running /\ runtimeOf' = [runtimeOf EXCEPT ![s] = published]
           \/ claim # NULL /\ runtimeOf' = [runtimeOf EXCEPT ![s] = runtimeOf[claim]]
    BY <1>6 DEF Claim, runtimeVars, serveVars, cleanupVars
  <2>2. (\A m \in Runtimes : Keeps(m)' <=> Keeps(m)) /\ (Running' <=> Running)
    BY <2>1 DEF Keeps, Holds, Running
  <2>3. s \in Claims /\ claim' # NULL
    BY <2>1 DEF Claims
  <2>4. \/ claim = NULL /\ Running /\ runtimeOf'[s] = published
        \/ claim # NULL /\ runtimeOf'[s] = runtimeOf[claim]
    BY <2>1, <2>3 DEF TypeOK
  <2> QED BY <2>1, <2>2, <2>3, <2>4 DEF Held
<1>7. ASSUME NEW c \in Claims, ClaimDisposal(c) PROVE Held'
  <2>1. /\ UNCHANGED <<claim, runtimeOf, published, owned, accepting, handler, cleanup>>
        /\ disposed' = disposed \union {runtimeOf[c]} /\ claim = c
    BY <1>7 DEF ClaimDisposal, Tears, ClaimsInOrder, Tearing, claimVars, serveVars, cleanupVars
  <2>2. (\A m \in Runtimes : Keeps(m)' <=> Keeps(m)) /\ (Running' => Running)
    BY <2>1 DEF Keeps, Holds, Running
  <2> QED BY <2>1, <2>2 DEF Held
<1>8. ASSUME NEW c \in Claims, CompleteDisposal(c) PROVE Held'
  <2>1. /\ UNCHANGED <<claim, runtimeOf, published, disposed, accepting, handler, cleanup>>
        /\ owned' = [owned EXCEPT ![runtimeOf[c]] = kept[c]] /\ claim = c
        /\ tear[c] = "complete" /\ runtimeOf[c] \in Runtimes
    BY <1>8 DEF CompleteDisposal, Tears, ClaimsInOrder, Tearing, Named, claimVars, serveVars,
                cleanupVars
  <2>2. /\ runtimeOf[c] \notin accepting /\ handler[runtimeOf[c]] = "none"
        /\ "dispatcher" \in kept[c] \/ ~cleanup[runtimeOf[c]].observer
    BY <2>1 DEF Progress, ProgressOf, PastListener, Tearing
  <2>3. owned'[runtimeOf[c]] = kept[c]
        /\ \A m \in Runtimes : m # runtimeOf[c] => owned'[m] = owned[m]
    BY <2>1 DEF TypeOK
  <2>4. (\A m \in Runtimes : m # runtimeOf[c] => (Keeps(m)' <=> Keeps(m))) /\ (Running' <=> Running)
    BY <2>1, <2>3 DEF Keeps, Holds, Running
  <2> QED BY <2>1, <2>2, <2>3, <2>4 DEF Held
<1>9. ASSUME NEW c \in Claims, Unpublish(c) PROVE Held'
  <2>1. /\ UNCHANGED <<runtimeOf, published, disposed, owned, accepting, handler, cleanup>>
        /\ claim' = (IF Withdraws(c) THEN NULL ELSE claim) /\ tear[c] = "publish" /\ claim = c
    BY <1>9 DEF Unpublish, Tears, ClaimsInOrder, Tearing, runtimeVars, serveVars, cleanupVars
  <2>2. CASE ~Withdraws(c)
    BY <1>1, <2>1, <2>2
  <2>3. CASE Withdraws(c)
    <3>1. /\ owned[runtimeOf[c]] = {} /\ runtimeOf[c] \in disposed /\ runtimeOf[c] \in Runtimes
      BY <2>1, <2>3 DEF Withdraws, Progress, ProgressOf, Named
    <3>2. ~Keeps(runtimeOf[c])
      BY <3>1 DEF Held, Keeps, Holds
    <3>3. ~Running
      BY <2>1, <3>1 DEF Held, Running, Claims
    <3>4. \A m \in Runtimes : ~Keeps(m)
      BY <2>1, <3>2, <3>3 DEF Held
    <3>5. (\A m \in Runtimes : ~Keeps(m)') /\ claim' = NULL
      BY <2>1, <2>3, <3>4 DEF Keeps, Holds
    <3> QED BY <2>1, <3>5 DEF Held
  <2> QED BY <2>2, <2>3
<1>10. ASSUME NEW n \in Runtimes, Serves(n) \/ Events(n) PROVE Held'
  BY <1>10, RuntimeEventsLet, LetsHeld
<1>11. ASSUME NEW s \in Calls, StopGoesOn(s) PROVE Held'
  BY <1>11, StopLets, LetsHeld
<1>12. ASSUME NEW c \in Claims, Teardown(c), ~ClaimDisposal(c), ~CompleteDisposal(c), ~Unpublish(c)
       PROVE  Held'
  BY <1>12, TeardownLets, LetsHeld
<1>13. CASE UNCHANGED vars
  BY <1>1, <1>13 DEF vars, cleanupVars, claimVars, runtimeVars, serveVars
<1> QED BY <1>3, <1>4, <1>5, <1>6, <1>7, <1>8, <1>9, <1>10, <1>11, <1>12, <1>13
        DEF Next, StopCall, StopGoesOn

-----------------------------------------------------------------------------
(* The teardown.                                                            *)

\* Every step of a teardown has released what its stage says.
LEMMA ProgressKept ==
    TypeOK /\ Named /\ ClaimsInOrder /\ Held /\ Progress /\ Outcomes /\ [Next]_vars => Progress'
<1> SUFFICES ASSUME TypeOK, Named, ClaimsInOrder, Held, Progress, Outcomes, [Next]_vars
             PROVE  Progress'
  OBVIOUS
<1> USE ShutdownAssumption
<1>1. ASSUME NEW c \in Claims, Lets, tear'[c] = tear[c], kept'[c] = kept[c],
             failures'[c] = failures[c], UNCHANGED settled
      PROVE  ProgressOf(c)'
  <2>1. ProgressOf(c)
    BY DEF Progress
  <2>2. tear[c] # "none" => runtimeOf[c] \in Runtimes
    BY DEF Named
  <2> QED BY <1>1, <2>1, <2>2 DEF Lets, ProgressOf, Tearing, Releasing, PastListener
<1>2. ASSUME NEW c \in Claims, tear'[c] \in {"none", "quiesce", "end", "over"}
      PROVE  ProgressOf(c)'
  BY <1>2 DEF ProgressOf, Tearing, Releasing, PastListener
<1>3. ASSUME \A c \in Claims : ~Tearing(c), NEW d \in Claims,
             \A c \in Claims : c # d => tear'[c] = tear[c],
             tear'[d] \in {"none", "over"}
      PROVE  Progress'
  BY <1>2, <1>3 DEF Progress, Tearing
<1>4. CASE UNCHANGED vars
  BY <1>1, <1>4, SameCleanup DEF Progress, Lets, vars, cleanupVars, claimVars, runtimeVars,
     serveVars, tearVars
<1>5. ASSUME NEW n \in Runtimes, Start(n) \/ StartFails(n) PROVE Progress'
  <2>1. /\ claim = NULL /\ tear[n] = "none" /\ n \in Claims
        /\ tear' = tear \/ tear' = [tear EXCEPT ![n] = "over"]
    BY <1>5 DEF Start, StartFails, MayStart, Unused, Named, Claims, tearVars
  <2>2. \A c \in Claims : ~Tearing(c)
    BY <2>1 DEF ClaimsInOrder
  <2> QED BY <1>3, <2>1, <2>2 DEF TypeOK
<1>6. ASSUME NEW n \in Runtimes, Serves(n) \/ Events(n) PROVE Progress'
  BY <1>1, <1>6, RuntimeEventsLet DEF Progress, runtimeVars, tearVars
<1>7. ASSUME NEW s \in Calls, NotRunning(s) \/ Join(s) PROVE Progress'
  BY <1>1, <1>7 DEF NotRunning, Join, Progress, Lets, cleanupVars, claimVars, runtimeVars,
     serveVars, tearVars
<1>8. ASSUME NEW s \in Calls, Claim(s) PROVE Progress'
  <2>1. /\ s \in Claims /\ tear[s] = "none" /\ UNCHANGED tear
        /\ claim # NULL => claim \in completed
    BY <1>8 DEF Claim, MayCall, Replaceable, Named, Claims, tearVars
  <2>2. \A c \in Claims : ~Tearing(c)
    BY <2>1 DEF ClaimsInOrder, Tearing
  <2> QED BY <1>3, <2>1, <2>2
<1>9. ASSUME NEW s \in Calls, StopGoesOn(s) PROVE Progress'
  <2>1. Lets /\ UNCHANGED <<kept, failures, settled>>
    BY <1>9, StopLets, StopKeeps DEF runtimeVars
  <2>2. \A c \in Claims : tear'[c] \in {tear[c], "quiesce"}
    BY <1>9, StopChanges DEF TypeOK
  <2> QED BY <1>1, <1>2, <2>1, <2>2 DEF Progress
<1>10. ASSUME NEW c \in Claims, Teardown(c), ProgressOf(c)' PROVE Progress'
  <2>1. PICK to : tear' = [tear EXCEPT ![c] = to]
    BY <1>10, TeardownMoves
  <2>2. ASSUME NEW k \in Claims, k # c PROVE ProgressOf(k)'
    <3>1. tear[k] = tear'[k]
      BY <2>1, <2>2 DEF TypeOK
    <3>2. CASE Tearing(c)
      <4>1. ~Tearing(k)
        BY <2>2, <3>2 DEF ClaimsInOrder
      <4> QED BY <1>2, <3>1, <4>1 DEF Tearing
    <3>3. CASE ~Tearing(c)
      <4>1. EndTeardown(c)
        BY <1>10, <3>3, TeardownMoves DEF Tearing, Teardown, Quiesce, ClaimDisposal, Release,
           DisposeDispatcher, PostCleanup, PostCleanupFails, ReadOutcome, CompleteDisposal,
           Unpublish, Tears
      <4>2. Lets /\ UNCHANGED <<kept, failures, settled>>
        BY <4>1 DEF EndTeardown, Lets, cleanupVars, runtimeVars, serveVars
      <4> QED BY <1>1, <3>1, <4>2
    <3> QED BY <3>2, <3>3
  <2> QED BY <1>10, <2>2 DEF Progress
<1>11. ASSUME NEW c \in Claims, Teardown(c) PROVE ProgressOf(c)'
  <2> DEFINE n == runtimeOf[c]
  <2>0. n \in Runtimes /\ ProgressOf(c) /\ UNCHANGED runtimeOf
    BY <1>11, TeardownMoves, TeardownKeeps DEF Named, Progress
  <2> USE DEF Tears
  <2>1. CASE Unpublish(c) \/ EndTeardown(c)
    BY <1>2, <2>1 DEF Unpublish, EndTeardown, TypeOK
  <2>2. CASE Quiesce(c)
    <3>1. /\ tear'[c] = "claim" /\ n \notin accepting'
          /\ failures'[c] \in {preflight[c], preflight[c] \union {"listener"}}
      BY <2>2 DEF Quiesce, TypeOK
    <3> QED BY <2>0, <3>1 DEF ProgressOf, Outcomes, Releasing, PastListener, Tearing
  <2>3. CASE ClaimDisposal(c)
    <3>1. /\ tear[c] = "claim" /\ n \in disposed' /\ UNCHANGED <<owned, accepting, handler, failures>>
          /\ tear'[c] = IF owned[n] = {} THEN "publish" ELSE NextResource(n, {})
      BY <2>3 DEF ClaimDisposal, TypeOK, serveVars
    <3>2. n \notin accepting /\ "dispose" \notin failures[c]
      BY <2>0, <3>1 DEF ProgressOf, Tearing
    <3>3. "listener" \notin owned[n] => handler[n] = "none"
      BY <2>0 DEF Held
    <3>4. CASE owned[n] = {}
      BY <2>0, <3>1, <3>2, <3>3, <3>4 DEF ProgressOf, Releasing
    <3>5. CASE owned[n] # {}
      <4>0. owned[n] \subseteq {"listener", "bridge", "worker", "dispatcher"}
        BY <2>0 DEF TypeOK, Resources
      <4>1. /\ tear'[c] \in {"listener", "bridge", "worker", "dispatcher"}
            /\ tear'[c] # "listener" => "listener" \notin owned[n]
        BY <3>1, <3>5, <4>0 DEF NextResource
      <4> QED BY <2>0, <3>1, <3>2, <3>3, <4>1 DEF ProgressOf, Releasing, PastListener
    <3> QED BY <3>4, <3>5
  <2>4. ASSUME NEW r \in {"listener", "bridge", "worker"}, Release(c, r) PROVE ProgressOf(c)'
    <3>1. /\ tear[c] = r /\ tear'[c] = NextResource(n, UpTo(r))
          /\ r = "listener" => handler[n] = "none"
          /\ UNCHANGED <<owned, disposed, accepting, handler, failures, cleanup>>
      BY <2>4 DEF Release, TypeOK, runtimeVars, serveVars, cleanupVars
    <3>2. /\ n \notin accepting /\ n \in disposed /\ "dispose" \notin failures[c]
          /\ handler[n] = "none"
      BY <2>0, <3>1 DEF ProgressOf, Releasing, PastListener, Tearing
    <3>3. /\ tear'[c] \in {"listener", "bridge", "worker", "dispatcher", "complete"}
          /\ tear'[c] = "complete" => "dispatcher" \notin owned[n]
      BY <3>1 DEF NextResource, UpTo
    <3>4. tear'[c] = "complete" => ~cleanup[n].observer
      BY <2>0, <3>3 DEF Held
    <3> QED BY <2>0, <3>1, <3>2, <3>3, <3>4 DEF ProgressOf
  <2>5. CASE DisposeDispatcher(c) \/ PostCleanup(c) \/ PostCleanupFails(c)
    <3>1. /\ tear[c] \in {"dispatcher", "post", "postPending"}
          /\ tear'[c] \in {"post", "postPending", "outcome"}
          /\ UNCHANGED <<disposed, accepting, failures>>
      BY <2>5 DEF DisposeDispatcher, StopAccepting, PostCleanup, PostCleanupFails, TypeOK,
                  runtimeVars, serveVars
    <3>2. /\ n \notin accepting /\ n \in disposed /\ "dispose" \notin failures[c]
          /\ handler[n] = "none"
      BY <2>0, <3>1 DEF ProgressOf, Releasing, PastListener, Tearing
    <3>3. handler'[n] = "none"
      BY <2>5, <3>2 DEF DisposeDispatcher, StopAccepting, PostCleanup, PostCleanupFails, serveVars
    <3> QED BY <2>0, <3>1, <3>2, <3>3 DEF ProgressOf
  <2>6. CASE ReadOutcome(c)
    <3>1. /\ tear[c] = "outcome" /\ tear'[c] = "complete"
          /\ UNCHANGED <<disposed, accepting, handler, failures, cleanup>>
          /\ Unclean(n) => "dispatcher" \in kept'[c]
      BY <2>6 DEF ReadOutcome, TypeOK, runtimeVars, serveVars, cleanupVars
    <3>2. /\ n \notin accepting /\ n \in disposed /\ "dispose" \notin failures[c]
          /\ handler[n] = "none"
      BY <2>0, <3>1 DEF ProgressOf, Releasing, PastListener, Tearing
    <3>3. ~Unclean(n) => ~cleanup[n].observer
      BY DEF Unclean, AttemptFailed, Incomplete
    <3> QED BY <2>0, <3>1, <3>2, <3>3 DEF ProgressOf, Releasing
  <2>7. CASE CompleteDisposal(c)
    <3>1. /\ tear[c] = "complete" /\ tear'[c] = "publish" /\ n \in settled'
          /\ UNCHANGED <<disposed, accepting, handler>> /\ owned'[n] = kept[c]
          /\ failures'[c] = IF kept[c] = {} THEN failures[c] ELSE failures[c] \union {"dispose"}
      BY <2>0, <2>7 DEF CompleteDisposal, DisposalFails, TypeOK, serveVars
    <3>2. /\ n \notin accepting /\ n \in disposed /\ "dispose" \notin failures[c]
          /\ handler[n] = "none"
      BY <2>0, <3>1 DEF ProgressOf, PastListener, Tearing
    <3> QED BY <2>0, <3>1, <3>2 DEF ProgressOf, Releasing
  <2> QED BY <1>11, <2>1, <2>2, <2>3, <2>4, <2>5, <2>6, <2>7 DEF Teardown
<1> QED BY <1>4, <1>5, <1>6, <1>7, <1>8, <1>9, <1>10, <1>11 DEF Next, StopCall, StopGoesOn

-----------------------------------------------------------------------------
(* Claims that are over.                                                    *)

\* A runtime of which nothing is left stays so: it is not started again.
LEMMA DoneKept ==
    ASSUME TypeOK, Named, ClaimsInOrder, Held, [Next]_vars, NEW n \in Runtimes, Done(n)
    PROVE  Done(n)'
<1> USE ShutdownAssumption
<1>1. CASE UNCHANGED <<claim, runtimeOf, published, disposed, owned, accepting, handler, cleanup>>
  BY <1>1, LetsDone DEF Lets
<1>2. ASSUME NEW m \in Runtimes, Start(m) \/ StartFails(m) PROVE Done(n)'
  <2>1. m # n /\ (m \in Unused) /\ claim = NULL
    BY <1>2 DEF Start, StartFails, Unused, MayStart, Done
  <2>2. /\ n \in disposed' /\ owned'[n] = owned[n] /\ cleanup'[n] = cleanup[n]
        /\ handler'[n] = handler[n] /\ n \notin accepting'
    BY <1>2, <2>1 DEF Start, StartFails, Done, Keeps, TypeOK, CleanupType, cleanupVars, serveVars
  <2>3. claim' # NULL => runtimeOf'[claim'] # n
    BY <1>2, <2>1 DEF Start, StartFails, claimVars, TypeOK, Claims
  <2> QED BY <2>2, <2>3 DEF Done, Keeps, Holds
<1>3. ASSUME NEW s \in Calls, NotRunning(s) \/ Join(s) PROVE Done(n)'
  BY <1>1, <1>3 DEF NotRunning, Join, cleanupVars, claimVars, runtimeVars, serveVars
<1>4. ASSUME NEW s \in Calls, Claim(s) PROVE Done(n)'
  <2>1. /\ UNCHANGED <<disposed, owned, accepting, handler, cleanup>> /\ claim' = s
        /\ s \in Claims
        /\ \/ claim = NULL /\ Running /\ runtimeOf' = [runtimeOf EXCEPT ![s] = published]
           \/ claim # NULL /\ runtimeOf' = [runtimeOf EXCEPT ![s] = runtimeOf[claim]]
    BY <1>4 DEF Claim, runtimeVars, serveVars, cleanupVars, Claims
  <2>2. runtimeOf'[s] # n
    BY <2>1 DEF Done, Running, TypeOK
  <2> QED BY <2>1, <2>2 DEF Done, Keeps, Holds
<1>5. ASSUME NEW c \in Claims, ClaimDisposal(c) PROVE Done(n)'
  BY <1>5 DEF ClaimDisposal, Done, Keeps, Holds, claimVars, serveVars, cleanupVars
<1>6. ASSUME NEW c \in Claims, CompleteDisposal(c) PROVE Done(n)'
  <2>1. /\ UNCHANGED <<claim, runtimeOf, disposed, accepting, handler, cleanup>>
        /\ owned' = [owned EXCEPT ![runtimeOf[c]] = kept[c]] /\ claim = c
    BY <1>6 DEF CompleteDisposal, Tears, ClaimsInOrder, Tearing, claimVars, serveVars, cleanupVars
  <2>2. owned'[n] = owned[n]
    BY <2>1 DEF Done, TypeOK, Claims
  <2> QED BY <2>1, <2>2 DEF Done, Keeps, Holds
<1>7. ASSUME NEW c \in Claims, Unpublish(c) PROVE Done(n)'
  BY <1>7 DEF Unpublish, Done, Keeps, Holds, runtimeVars, serveVars, cleanupVars
<1>8. ASSUME NEW m \in Runtimes, Serves(m) \/ Events(m) PROVE Done(n)'
  BY <1>8, RuntimeEventsLet, LetsDone
<1>9. ASSUME NEW s \in Calls, StopGoesOn(s) PROVE Done(n)'
  BY <1>9, StopLets, LetsDone
<1>10. ASSUME NEW c \in Claims, Teardown(c), ~ClaimDisposal(c), ~CompleteDisposal(c), ~Unpublish(c)
       PROVE  Done(n)'
  BY <1>10, TeardownLets, LetsDone
<1>11. CASE UNCHANGED vars
  BY <1>1, <1>11 DEF vars, cleanupVars, claimVars, runtimeVars, serveVars
<1> QED BY <1>2, <1>3, <1>4, <1>5, <1>6, <1>7, <1>8, <1>9, <1>10, <1>11
        DEF Next, StopCall, StopGoesOn

\* Every step keeps what a finished claim tells true.
LEMMA OutcomesKept == IInv /\ [Next]_vars => Outcomes'
<1> SUFFICES ASSUME IInv, [Next]_vars PROVE Outcomes'
  OBVIOUS
<1> USE ShutdownAssumption
<1>0. /\ TypeOK /\ Named /\ ClaimsInOrder /\ Held /\ Progress /\ Outcomes
      /\ \A n \in Runtimes : Done(n) => Done(n)'
  BY DoneKept DEF IInv
\* The last conjunct but one follows wherever no claim comes to its end.
<1>1. ASSUME UNCHANGED <<claim, runtimeOf, failed, retryable, preflight, failures, tear, owned,
                         settled, completed, answer, joined>>
      PROVE  Outcomes'
  <2>1. \A c \in Claims : tear[c] # "none" => runtimeOf[c] \in Runtimes
    BY <1>0 DEF Named
  <2> QED BY <1>0, <1>1, <2>1 DEF Outcomes
<1>2. ASSUME NEW n \in Runtimes, Start(n) PROVE Outcomes'
  <2>1. /\ UNCHANGED <<runtimeOf, failed, retryable, preflight, failures, tear, completed, answer,
                       joined>>
        /\ claim' = NULL
    BY <1>2 DEF Start, MayStart, claimVars, tearVars, callVars
  <2>2. \A c \in Claims : tear[c] # "none" => runtimeOf[c] \in Runtimes
    BY <1>0 DEF Named
  <2> QED BY <1>0, <2>1, <2>2 DEF Outcomes
<1>3. ASSUME NEW n \in Runtimes, StartFails(n) PROVE Outcomes'
  <2>1. /\ UNCHANGED <<retryable, preflight, answer, joined>> /\ claim' = n /\ claim = NULL
        /\ runtimeOf' = [runtimeOf EXCEPT ![n] = n]
        /\ completed' = completed \union {n} /\ failed' = failed \union {n}
        /\ settled' = settled \union {n} /\ n \in Unused
        /\ tear' = [tear EXCEPT ![n] = "over"]
        /\ failures' = [failures EXCEPT ![n] = {"dispose"}]
        /\ n \in Claims
    BY <1>3 DEF StartFails, MayStart, callVars, Claims
  <2>2. owned'[n] # {}
    BY <1>0, <1>3 DEF StartFails, TypeOK
  <2>3. tear[n] = "none" /\ n \notin completed
    BY <1>0, <2>1 DEF Unused, Named, ClaimsInOrder, Claims
  <2>4. \A c \in Claims : c # n => runtimeOf'[c] = runtimeOf[c] /\ tear'[c] = tear[c]
                                   /\ failures'[c] = failures[c]
    BY <1>0, <2>1 DEF TypeOK
  <2>5. runtimeOf'[n] = n /\ tear'[n] = "over" /\ failures'[n] = {"dispose"}
    BY <1>0, <2>1 DEF TypeOK
  <2>6. \A c \in Claims : tear[c] # "none" => runtimeOf[c] \in Runtimes
    BY <1>0 DEF Named
  <2>7. \A s \in Calls : answer'[s] = "stopped" => joined'[s] \in completed' /\ joined'[s] \notin failed'
    BY <1>0, <2>1, <2>3 DEF Outcomes
  <2> QED BY <1>0, <2>1, <2>2, <2>4, <2>5, <2>6, <2>7 DEF Outcomes
<1>4. ASSUME NEW n \in Runtimes, Serves(n) \/ Events(n) PROVE Outcomes'
  <2>1. UNCHANGED <<claimVars, runtimeVars, tearVars, callVars>>
    BY <1>0, <1>4, RuntimeEventsLet
  <2> QED BY <1>1, <2>1 DEF claimVars, runtimeVars, tearVars, callVars
<1>5. ASSUME NEW s \in Calls, NotRunning(s) \/ Claim(s) \/ Join(s) PROVE Outcomes'
  <2>1. /\ UNCHANGED <<failed, retryable, preflight, failures, tear, owned, settled, completed>>
        /\ claim' \in {claim, s} /\ call[s] = "idle"
        /\ \A c \in Claims : c # s => runtimeOf'[c] = runtimeOf[c]
        /\ \A t \in Calls : answer'[t] \in {answer[t], "notRunning"}
                            /\ (joined'[t] = joined[t] \/ t = s)
    BY <1>0, <1>5 DEF NotRunning, Claim, Join, MayCall, Returns, TypeOK, Claims, claimVars,
       runtimeVars, tearVars
  <2>2. s \in Claims /\ tear[s] = "none" /\ joined[s] = NULL /\ NULL \notin completed
    BY <1>0, <2>1 DEF Named, Claims, TypeOK
  <2>3. answer[s] # "stopped"
    BY <1>0, <2>2 DEF Outcomes
  <2>4. \A c \in Claims : tear[c] # "none" => runtimeOf[c] \in Runtimes
    BY <1>0 DEF Named
  <2>5. \A c \in Claims : tear'[c] \in {"end", "over"} /\ claim' = c => claim = c
    BY <2>1, <2>2
  <2>6. \A c \in Claims : tear'[c] \in {"end", "over"} => runtimeOf'[c] = runtimeOf[c] /\ c # s
    BY <2>1, <2>2
  <2>7. \A t \in Calls : answer'[t] = "stopped" => joined'[t] \in completed' /\ joined'[t] \notin failed'
    BY <1>0, <2>1, <2>3 DEF Outcomes
  <2> QED BY <1>0, <2>1, <2>4, <2>5, <2>6, <2>7 DEF Outcomes
<1>6. ASSUME NEW s \in Calls, StopGoesOn(s) PROVE Outcomes'
  <2>1. /\ UNCHANGED <<claim, runtimeOf, completed, failed, owned, settled, failures, joined>>
        /\ joined[s] \in Claims
    BY <1>0, <1>6, StopKeeps, TargetIs DEF runtimeVars
  <2>2. \A c \in Claims : tear'[c] \in {"end", "over"} => tear[c] = tear'[c]
    BY <1>0, <1>6, StopChanges DEF TypeOK
  <2>3. \A c \in Claims : tear[c] # "none" => runtimeOf[c] \in Runtimes
    BY <1>0 DEF Named
  <2>4. \A c \in Claims :
          /\ "dispose" \notin preflight'[c]
          /\ "prepare" \in preflight'[c] \/ "prepare" \in failures[c] => c \in retryable'
    <3>1. CASE Fence(s)
      BY <1>0, <3>1 DEF Fence, Outcomes, TypeOK
    <3>2. CASE PrepareReads(s)
      BY <1>0, <2>1, <3>2 DEF PrepareReads, NoteUnprepared, Outcomes, TypeOK
    <3>3. CASE SkipPrepare(s) \/ Prepare(s) \/ PrepareTakes(s) \/ PrepareRemoves(s) \/ Launch(s)
               \/ WaitEnds(s) \/ WaitExpires(s)
      BY <1>0, <3>3 DEF SkipPrepare, Prepare, PrepareTakes, PrepareRemoves, Launch, WaitEnds,
                        WaitExpires, Outcomes, claimVars
    <3> QED BY <1>6, <3>1, <3>2, <3>3 DEF StopGoesOn
  <2>5. \A t \in Calls : answer'[t] = "stopped" => joined[t] \in completed /\ joined[t] \notin failed
    <3>1. CASE WaitEnds(s)
      BY <1>0, <3>1 DEF WaitEnds, Returns, Outcomes, TypeOK
    <3>2. CASE WaitExpires(s)
      BY <1>0, <3>2 DEF WaitExpires, Returns, Outcomes, TypeOK
    <3>3. CASE Fence(s) \/ SkipPrepare(s) \/ Prepare(s) \/ PrepareTakes(s) \/ PrepareRemoves(s)
               \/ PrepareReads(s) \/ Launch(s)
      BY <1>0, <3>3 DEF Fence, SkipPrepare, Prepare, PrepareTakes, PrepareRemoves, PrepareReads,
                        Launch, Outcomes
    <3> QED BY <1>6, <3>1, <3>2, <3>3 DEF StopGoesOn
  <2> QED BY <1>0, <2>1, <2>2, <2>3, <2>4, <2>5 DEF Outcomes
<1>7. ASSUME NEW c \in Claims, EndTeardown(c) PROVE Outcomes'
  <2>1. /\ UNCHANGED <<claim, runtimeOf, failed, retryable, preflight, failures, owned, settled,
                       answer, joined>>
        /\ completed' = completed \union {c} /\ tear[c] = "end"
        /\ \A k \in Claims : k # c => tear'[k] = tear[k]
    BY <1>0, <1>7 DEF EndTeardown, Tears, TypeOK, runtimeVars, callVars
  <2>2. \A k \in Claims : tear[k] # "none" => runtimeOf[k] \in Runtimes
    BY <1>0 DEF Named
  <2> QED BY <1>0, <2>1, <2>2 DEF Outcomes
<1>8. ASSUME NEW c \in Claims, Unpublish(c) PROVE Outcomes'
  <2> DEFINE n == runtimeOf[c]
  <2>1. /\ UNCHANGED <<runtimeOf, completed, retryable, preflight, failures, owned, settled,
                       disposed, accepting, handler, cleanup, answer, joined>>
        /\ tear[c] = "publish" /\ \A k \in Claims : k # c => tear'[k] = tear[k]
        /\ claim' = IF Withdraws(c) THEN NULL ELSE claim
        /\ failed' = IF failures[c] = {} THEN failed ELSE failed \union {c}
    BY <1>0, <1>8 DEF Unpublish, Tears, TypeOK, runtimeVars, serveVars, callVars, cleanupVars
  <2>2. claim = c /\ c \notin completed /\ n \in Runtimes /\ ProgressOf(c)
    BY <1>0, <2>1 DEF ClaimsInOrder, Tearing, Named, Progress
  <2>3. ASSUME failures[c] = {} PROVE Done(n)'
    <3>1. owned[n] = {} /\ n \in disposed /\ claim' = NULL
      BY <2>1, <2>2, <2>3 DEF ProgressOf, Withdraws
    <3>2. ~Keeps(n)
      BY <1>0, <2>2, <3>1 DEF Held, Keeps, Holds
    <3> QED BY <2>1, <3>1, <3>2 DEF Done, Keeps, Holds
  <2>4. ASSUME claim' = c
        PROVE  /\ c \in failed' /\ failures[c] # {}
               /\ "dispose" \in failures[c] => owned[n] # {} /\ n \in settled
    <3>1. ~Withdraws(c)
      BY <2>1, <2>4
    <3> QED BY <2>1, <2>2, <3>1 DEF Withdraws, ProgressOf
  <2>5. \A k \in Claims : k # c => claim' # k
    BY <2>1, <2>2
  <2>6. \A k \in Claims : tear[k] # "none" => runtimeOf[k] \in Runtimes
    BY <1>0 DEF Named
  <2>7. \A s \in Calls : answer'[s] = "stopped" => joined'[s] \in completed' /\ joined'[s] \notin failed'
    BY <1>0, <2>1, <2>2 DEF Outcomes
  <2>8. c \notin failed' => failures[c] = {}
    BY <2>1
  <2>9. ASSUME NEW k \in Claims, tear'[k] \in {"end", "over"}, k \notin failed'
        PROVE  Done(runtimeOf[k])'
    <3>1. CASE k = c
      <4>1. Done(n)'
        BY <2>3, <2>8, <2>9, <3>1
      <4> QED BY <2>1, <3>1, <4>1 DEF Done, Keeps, Holds
    <3>2. CASE k # c
      <4>1. tear[k] \in {"end", "over"} /\ k \notin failed
        BY <2>1, <2>9, <3>2
      <4>2. Done(runtimeOf[k])
        BY <1>0, <4>1 DEF Outcomes
      <4>3. claim' # NULL => claim' = claim
        BY <2>1
      <4> QED BY <2>1, <4>2, <4>3 DEF Done, Keeps, Holds
    <3> QED BY <3>1, <3>2
  <2>10. \A k \in Claims :
           /\ "dispose" \notin preflight'[k]
           /\ "prepare" \in preflight'[k] \/ "prepare" \in failures'[k] => k \in retryable'
    BY <1>0, <2>1 DEF Outcomes
  <2>11. \A k \in Claims : claim' = k =>
           /\ k \in failed' /\ failures'[k] # {}
           /\ "dispose" \in failures'[k] =>
                   owned'[runtimeOf'[k]] # {} /\ runtimeOf'[k] \in settled'
    BY <2>1, <2>4, <2>5
  <2> QED BY <2>7, <2>9, <2>10, <2>11 DEF Outcomes
<1>9. ASSUME NEW c \in Claims, Teardown(c), ~EndTeardown(c), ~Unpublish(c) PROVE Outcomes'
  <2>1. UNCHANGED <<callVars, runtimeOf, retryable, preflight>>
    BY <1>9, TeardownKeeps
  <2>2. /\ UNCHANGED <<claim, completed, failed>> /\ Tearing(c) /\ tear'[c] \notin {"end", "over"}
        /\ \A k \in Claims : k # c => tear'[k] = tear[k] /\ failures'[k] = failures[k]
        /\ "prepare" \in failures'[c] => "prepare" \in preflight[c] \/ "prepare" \in failures[c]
    <3> USE <1>0 DEF Tears, Tearing, claimVars, TypeOK
    <3>1. CASE Quiesce(c)
      BY <3>1 DEF Quiesce
    <3>2. CASE ClaimDisposal(c)
      BY <3>2 DEF ClaimDisposal, NextResource
    <3>3. ASSUME NEW r \in {"listener", "bridge", "worker"}, Release(c, r)
          PROVE  /\ UNCHANGED <<claim, completed, failed, failures>> /\ Tearing(c)
                 /\ tear'[c] \notin {"end", "over"}
                 /\ \A k \in Claims : k # c => tear'[k] = tear[k]
      BY <3>3 DEF Release, NextResource
    <3>4. CASE DisposeDispatcher(c) \/ PostCleanup(c) \/ PostCleanupFails(c) \/ ReadOutcome(c)
      <4>1. /\ UNCHANGED <<claim, completed, failed, failures>>
            /\ tear[c] \in {"dispatcher", "post", "postPending", "outcome"}
        BY <3>4 DEF DisposeDispatcher, PostCleanup, PostCleanupFails, ReadOutcome
      <4>2. \E to \in {"post", "postPending", "outcome", "complete"} :
              tear' = [tear EXCEPT ![c] = to]
        BY <3>4 DEF DisposeDispatcher, PostCleanup, PostCleanupFails, ReadOutcome
      <4> QED BY <4>1, <4>2
    <3>5. CASE CompleteDisposal(c)
      BY <3>5 DEF CompleteDisposal, DisposalFails
    <3> QED BY <1>9, <3>1, <3>2, <3>3, <3>4, <3>5 DEF Teardown
  <2>3. claim = c
    BY <1>0, <2>2 DEF ClaimsInOrder
  <2>4. \A k \in Claims : tear[k] # "none" => runtimeOf[k] \in Runtimes
    BY <1>0 DEF Named
  <2>5. \A k \in Claims : tear'[k] \in {"end", "over"} => k # c /\ claim' # k /\ tear'[k] = tear[k]
    BY <2>2, <2>3
  <2> QED BY <1>0, <2>1, <2>2, <2>4, <2>5 DEF Outcomes, callVars
<1>10. CASE UNCHANGED vars
  BY <1>1, <1>10 DEF vars, claimVars, runtimeVars, tearVars, callVars
<1> QED BY <1>2, <1>3, <1>4, <1>5, <1>6, <1>7, <1>8, <1>9, <1>10 DEF Next, StopCall, StopGoesOn

-----------------------------------------------------------------------------
(* The theorems.                                                            *)

\* The inductive invariant holds at first.
LEMMA InitInvariant == Init => IInv
<1> SUFFICES ASSUME Init PROVE IInv
  OBVIOUS
<1>1. ClaimsInOrder
  BY DEF Init, ClaimsInOrder, Preparing, Tearing, Claims
<1>2. \A n \in Runtimes : ~Keeps(n) /\ ~cleanup[n].observer
  BY DEF Init, CleanupInit, Unbound, Keeps, Holds
<1>3. Held
  BY <1>2 DEF Init, Held
<1>4. Progress
  BY DEF Init, Progress, ProgressOf, Tearing, Releasing, PastListener
<1>5. Outcomes
  BY DEF Init, Outcomes
<1> QED BY InitTypes, <1>1, <1>3, <1>4, <1>5 DEF IInv

\* IInv holds in every reachable state: one claim at a time, whatever is left of
\* a runtime is its, and what it tells when it is over is true.
THEOREM InductiveInvariant == Spec => []IInv
<1>1. IInv /\ [Next]_vars => IInv'
  BY TypesKept, ClaimsKept, HeldKept, ProgressKept, OutcomesKept DEF IInv
<1> QED BY InitInvariant, <1>1, PTL DEF Spec

\* The type invariant; a call in progress has a claim, and the claim a runtime.
THEOREM TypeCorrect == Spec => []TypeOK
<1>1. IInv => TypeOK
  BY DEF IInv
<1> QED BY InductiveInvariant, <1>1, PTL

\* Two teardowns never work at once.
THEOREM OneTeardownHolds == Spec => []OneTeardown
<1>1. IInv => OneTeardown
  BY DEF IInv, ClaimsInOrder, OneTeardown
<1> QED BY InductiveInvariant, <1>1, PTL

\* While a runtime serves, nothing is left of another one and none is torn down.
THEOREM RunningAloneHolds == Spec => []RunningAlone
<1>1. IInv => RunningAlone
  <2> SUFFICES ASSUME IInv, Running PROVE RunningAlone
    BY DEF RunningAlone
  <2>1. \A n \in Runtimes \ {published} : ~Holds(n)
    BY DEF IInv, Held, Keeps
  <2>2. \A c \in Claims : Tearing(c) => runtimeOf[c] = published
    BY ShutdownAssumption DEF IInv, ClaimsInOrder, Held
  <2> QED BY <2>1, <2>2 DEF RunningAlone
<1> QED BY InductiveInvariant, <1>1, PTL

\* A caller told that the server stopped finds nothing of its runtime left.
THEOREM StoppedMeansReleasedHolds == Spec => []StoppedMeansReleased
<1>1. IInv => StoppedMeansReleased
  <2> SUFFICES ASSUME IInv, NEW s \in Calls, answer[s] = "stopped" PROVE ~Holds(Target(s))
    BY DEF StoppedMeansReleased
  <2>1. joined[s] \in Claims /\ joined[s] \in completed /\ joined[s] \notin failed
    BY DEF IInv, Outcomes, TypeOK
  <2>2. tear[joined[s]] = "over"
    BY <2>1 DEF IInv, ClaimsInOrder
  <2>3. Done(Target(s))
    BY <2>1, <2>2 DEF IInv, Outcomes, Target
  <2> QED BY <2>3 DEF Done, Keeps
<1> QED BY InductiveInvariant, <1>1, PTL

\* A claim that failed only in disposing can be replaced by the next stop.
THEOREM DisposalCanBeRetriedHolds == Spec => []DisposalCanBeRetried
<1>1. IInv => DisposalCanBeRetried
  <2> SUFFICES ASSUME IInv, claim # NULL, claim \in completed,
                      failures[claim] \subseteq {"prepare", "dispose"}
               PROVE  Replaceable(claim)
    BY DEF DisposalCanBeRetried
  <2>1. claim \in Claims /\ tear[claim] = "over"
    BY DEF IInv, TypeOK, ClaimsInOrder
  <2>2. /\ claim \in failed /\ failures[claim] # {}
        /\ "dispose" \in failures[claim] =>
                owned[runtimeOf[claim]] # {} /\ runtimeOf[claim] \in settled
        /\ "prepare" \in failures[claim] => claim \in retryable
    BY <2>1 DEF IInv, Outcomes
  <2>3. "prepare" \in failures[claim] \/ "dispose" \in failures[claim]
    BY <2>2
  <2> QED BY <2>2, <2>3 DEF Replaceable, Retryable
<1> QED BY InductiveInvariant, <1>1, PTL
=============================================================================
