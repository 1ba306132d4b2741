---------------------------- MODULE ServerShutdown ----------------------------
(* Stopping and restarting the add-on's RPC runtime (server_shutdown.py,    *)
(* AddonRuntime.dispose, the gate of start_rpc_server).                     *)
(*                                                                          *)
(* Every stop goes through one shutdown claim.  The call that creates the   *)
(* claim fences the requests in flight and starts a teardown thread; calls  *)
(* that find a claim join it.  Calls come from timer threads (the RPC       *)
(* method) and from the GUI thread (the Stop command, which waits for a     *)
(* bounded time, and the end of the application, which does not).  The      *)
(* teardown waits for the handlers, and for the GUI thread to remove the    *)
(* document observer; a handler may itself wait for the GUI thread.         *)
(*                                                                          *)
(* Telemetry, the worker's jobs and what a handler computes are left out.   *)
(* One handler per runtime stands for those the listener has admitted.      *)
EXTENDS ObserverCleanup

CONSTANTS
    RemoteStops,     \* stop calls of the RPC method's timer threads
    OwnerStops,      \* stop calls of the GUI thread
    Fallible,        \* resources whose disposer may raise
    FenceMayFail,    \* fencing or stopping the listener may raise
    NULL

Calls == RemoteStops \union OwnerStops

\* A claim is named by the stop that made it, or the start that left it behind.
Claims == Calls \union Runtimes

ASSUME ShutdownAssumption ==
    /\ RemoteStops \intersect OwnerStops = {}
    /\ Calls \intersect Runtimes = {}
    /\ NULL \notin Claims
    /\ Fallible \subseteq {"listener", "bridge", "worker"}
    /\ FenceMayFail \in BOOLEAN

VARIABLES
    claim,        \* _runtime_shutdown_claim
    runtimeOf,    \* the runtime of each claim
    completed, failed, retryable,    \* the fields of the claims
    preflight,    \* preflight_failures, by the stage that raised
    published,    \* _addon_runtime
    disposed,     \* runtimes whose disposal was claimed
    owned,        \* _owned_resources: what each runtime still has to release
    settled,      \* runtimes with a completed disposal attempt
    accepting,    \* runtimes whose listener admits requests
    open,         \* runtimes whose dispatcher core accepts submissions
    handler,      \* the admitted handler of each runtime
    tear,         \* where the teardown of each claim stands
    failures,     \* what the teardown of each claim has met, by stage
    kept,         \* resources the running disposal attempt could not release
    call,         \* where each stop call stands
    joined,       \* the claim each stop call waits for
    answer,       \* what each stop call returned
    final,        \* stop calls made at the end of the application
    removing      \* the dispatcher whose queued cleanup the GUI thread is in

claimVars == <<claim, runtimeOf, completed, failed, retryable, preflight>>
runtimeVars == <<published, disposed, owned, settled>>
serveVars == <<accepting, open, handler>>
tearVars == <<tear, failures, kept>>
callVars == <<call, joined, answer, final>>
vars == <<cleanupVars, claimVars, runtimeVars, serveVars, tearVars, callVars,
          removing>>

Resources == {"listener", "bridge", "worker", "dispatcher"}

TearStates == {"none", "quiesce", "claim", "listener", "bridge", "worker",
               "dispatcher", "post", "postPending", "outcome", "complete",
               "publish", "end", "over"}
CallStates == {"idle", "fence", "prepare", "take", "remove", "read", "launch",
               "wait", "returned"}
Stages == {"fence", "prepare", "listener", "dispose"}
Answers == {"none", "notRunning", "stopped", "failed", "continuing"}

TypeOK ==
    /\ CleanupType
    /\ claim \in Claims \union {NULL}
    /\ runtimeOf \in [Claims -> Runtimes \union {NULL}]
    /\ completed \subseteq Claims /\ failed \subseteq Claims
    /\ retryable \subseteq Claims
    /\ preflight \in [Claims -> SUBSET Stages]
    /\ published \in Runtimes \union {NULL}
    /\ disposed \subseteq Runtimes /\ settled \subseteq Runtimes
    /\ owned \in [Runtimes -> SUBSET Resources]
    /\ accepting \subseteq Runtimes /\ open \subseteq Runtimes
    /\ handler \in [Runtimes -> {"none", "busy", "queued", "served"}]
    /\ tear \in [Claims -> TearStates]
    /\ failures \in [Claims -> SUBSET Stages]
    /\ kept \in [Claims -> SUBSET Resources]
    /\ call \in [Calls -> CallStates]
    /\ joined \in [Calls -> Claims \union {NULL}]
    /\ answer \in [Calls -> Answers]
    /\ final \subseteq OwnerStops
    /\ removing \in Runtimes \union {NULL}
    /\ \A s \in Calls : call[s] \notin {"idle", "returned"} =>
        joined[s] \in Claims /\ runtimeOf[joined[s]] \in Runtimes

Init ==
    /\ CleanupInit
    /\ claim = NULL
    /\ runtimeOf = [c \in Claims |-> NULL]
    /\ completed = {} /\ failed = {} /\ retryable = {}
    /\ preflight = [c \in Claims |-> {}]
    /\ published = NULL
    /\ disposed = {} /\ settled = {}
    /\ owned = [n \in Runtimes |-> {}]
    /\ accepting = {} /\ open = {}
    /\ handler = [n \in Runtimes |-> "none"]
    /\ tear = [c \in Claims |-> "none"]
    /\ failures = [c \in Claims |-> {}]
    /\ kept = [c \in Claims |-> {}]
    /\ call = [s \in Calls |-> "idle"]
    /\ joined = [s \in Calls |-> NULL]
    /\ answer = [s \in Calls |-> "none"]
    /\ final = {}
    /\ removing = NULL

-----------------------------------------------------------------------------
(* The GUI thread.  It is inside a stop call, inside a queued cleanup, or   *)
(* in its event loop; that loop may be nested in the callable of a handler, *)
(* except at the end of the application.                                    *)

InStop(s) == call[s] \notin {"idle", "returned"}
GuiFree == removing = NULL /\ \A s \in OwnerStops : ~InStop(s)
Serving == \E n \in Runtimes : handler[n] = "served"
HasQuit == \E s \in final : call[s] = "returned"

-----------------------------------------------------------------------------
(* start_rpc_server, on the GUI thread under the lifecycle lock throughout. *)

Unused == {n \in Runtimes : runtimeOf[n] = NULL /\ owned[n] = {} /\ n \notin disposed}

\* Mutation: the gate looks at the runtime and not at the claim.
StartsWhenDisposed == published # NULL => published \in disposed

\* A claim that is still there, completed or not, refuses the start.
MayStart ==
    /\ claim = NULL
    /\ published # NULL => published \in disposed

Start(n) ==
    /\ GuiFree /\ ~HasQuit
    /\ MayStart
    /\ n \in Unused
    /\ published' = n
    /\ owned' = [owned EXCEPT ![n] = Resources]
    /\ accepting' = accepting \union {n}
    /\ open' = open \union {n}
    /\ cleanup' = [cleanup EXCEPT ![n] = Bound]
    /\ UNCHANGED <<posted, deleted, claimVars, disposed, settled, handler,
                   tearVars, callVars, removing>>

\* The launch fails and its cleanup leaves something behind: the failed start
\* keeps a claim that is completed from the beginning.
StartFails(n) ==
    /\ GuiFree /\ ~HasQuit
    /\ MayStart
    /\ n \in Unused
    /\ \E left \in SUBSET Fallible :
        /\ left # {}
        /\ owned' = [owned EXCEPT ![n] = left]
    /\ claim' = n
    /\ runtimeOf' = [runtimeOf EXCEPT ![n] = n]
    /\ completed' = completed \union {n}
    /\ failed' = failed \union {n}
    /\ disposed' = disposed \union {n}
    /\ settled' = settled \union {n}
    /\ tear' = [tear EXCEPT ![n] = "over"]
    /\ failures' = [failures EXCEPT ![n] = {"dispose"}]
    /\ UNCHANGED <<cleanupVars, retryable, preflight, published, serveVars,
                   kept, callVars, removing>>

-----------------------------------------------------------------------------
(* Handlers, and the callables they submit to the GUI thread.               *)

Handles(n, from, to) ==
    /\ handler[n] = from
    /\ handler' = [handler EXCEPT ![n] = to]
    /\ UNCHANGED <<cleanupVars, claimVars, runtimeVars, accepting, open,
                   tearVars, callVars, removing>>

Admit(n) == n \in accepting /\ Handles(n, "none", "busy")
Submit(n) == n \in open /\ Handles(n, "busy", "queued")
Finish(n) == Handles(n, "busy", "none")
Serve(n) == GuiFree /\ ~Serving /\ ~HasQuit /\ Handles(n, "queued", "served")
ServeEnds(n) == GuiFree /\ Handles(n, "served", "busy")

\* stop_accepting of the dispatcher core: what waits in the queue is cancelled.
StopAccepting(n) ==
    /\ open' = open \ {n}
    /\ handler' = IF handler[n] = "queued" THEN [handler EXCEPT ![n] = "busy"]
                  ELSE handler
    /\ UNCHANGED accepting

-----------------------------------------------------------------------------
(* The events of a dispatcher's QObject.                                    *)

RunCleanup(n) ==
    /\ GuiFree /\ ~HasQuit
    /\ Delivers(n, "cleanup")
    /\ removing' = n
    /\ cleanup' = [cleanup EXCEPT ![n].pending = FALSE]
    /\ posted' = [posted EXCEPT ![n] = Tail(@)]
    /\ UNCHANGED <<deleted, claimVars, runtimeVars, serveVars, tearVars, callVars>>

EndCleanup(n) ==
    /\ removing = n
    /\ removing' = NULL
    /\ Complete(n) \/ RemovalRaises(n)
    /\ UNCHANGED <<claimVars, runtimeVars, serveVars, tearVars, callVars>>

DeleteObject(n) ==
    /\ GuiFree /\ ~HasQuit
    /\ Delete(n)
    /\ UNCHANGED <<claimVars, runtimeVars, serveVars, tearVars, callVars, removing>>

-----------------------------------------------------------------------------
(* stop_rpc_server: the decision under the lifecycle lock.                  *)

MayCall(s) ==
    /\ call[s] = "idle"
    /\ s \in OwnerStops => GuiFree /\ ~HasQuit
    /\ \/ UNCHANGED final
       \/ s \in OwnerStops /\ ~Serving /\ final' = final \union {s}

Running == published # NULL /\ published \notin disposed

\* disposal_retryable of the runtime, or retryable_disposal of the claim.
Retryable(c) ==
    \/ runtimeOf[c] \in settled /\ owned[runtimeOf[c]] # {}
    \/ c \in retryable

\* Mutation: the retry does not wait for the failed teardown to be over.
ReplacesRunning(c) == Retryable(c)

Replaceable(c) == c \in completed /\ c \in failed /\ Retryable(c)

Returns(s, result) ==
    /\ call' = [call EXCEPT ![s] = "returned"]
    /\ answer' = [answer EXCEPT ![s] = result]

NotRunning(s) ==
    /\ MayCall(s)
    /\ claim = NULL /\ ~Running
    /\ Returns(s, "notRunning")
    /\ UNCHANGED <<cleanupVars, claimVars, runtimeVars, serveVars, tearVars,
                   joined, removing>>

\* The call makes a claim of its own, the first or one in place of a claim
\* that failed and may be tried again.
Claim(s) ==
    /\ MayCall(s)
    /\ \/ claim = NULL /\ Running
          /\ runtimeOf' = [runtimeOf EXCEPT ![s] = published]
       \/ claim # NULL /\ Replaceable(claim)
          /\ runtimeOf' = [runtimeOf EXCEPT ![s] = runtimeOf[claim]]
    /\ claim' = s
    /\ joined' = [joined EXCEPT ![s] = s]
    /\ call' = [call EXCEPT ![s] = "fence"]
    /\ UNCHANGED <<cleanupVars, completed, failed, retryable, preflight,
                   runtimeVars, serveVars, tearVars, answer, removing>>

\* Mutation: a call that finds neither a claim nor a runtime goes on.
JoinAny(s) ==
    /\ MayCall(s)
    /\ claim = NULL \/ ~Replaceable(claim)
    /\ joined' = [joined EXCEPT ![s] = claim]
    /\ call' = [call EXCEPT ![s] = "prepare"]
    /\ UNCHANGED <<cleanupVars, claimVars, runtimeVars, serveVars, tearVars,
                   answer, removing>>

Join(s) ==
    /\ MayCall(s)
    /\ claim # NULL /\ ~Replaceable(claim)
    /\ joined' = [joined EXCEPT ![s] = claim]
    /\ call' = [call EXCEPT ![s] = "prepare"]
    /\ UNCHANGED <<cleanupVars, claimVars, runtimeVars, serveVars, tearVars,
                   answer, removing>>

-----------------------------------------------------------------------------
(* stop_rpc_server outside the lock.                                        *)

\* The requests in flight are cancelled; a runtime that was disposed of before
\* has given up its registry.
Fence(s) ==
    /\ call[s] = "fence"
    /\ \/ UNCHANGED preflight
       \/ /\ FenceMayFail /\ runtimeOf[s] \notin disposed
          /\ preflight' = [preflight EXCEPT ![s] = @ \union {"fence"}]
    /\ call' = [call EXCEPT ![s] = "prepare"]
    /\ UNCHANGED <<cleanupVars, claim, runtimeOf, completed, failed, retryable,
                   runtimeVars, serveVars, tearVars, joined, answer, final, removing>>

Target(s) == runtimeOf[joined[s]]
HasDispatcher(n) == "dispatcher" \in owned[n]

\* Mutation: only the call that made the claim prepares the dispatcher.
PreparesOwnClaim(s) ==
    /\ s \in OwnerStops
    /\ joined[s] = s
    /\ HasDispatcher(Target(s))
    /\ ~DisposalComplete(Target(s))

Prepares(s) ==
    /\ s \in OwnerStops
    /\ joined[s] \notin completed
    /\ HasDispatcher(Target(s))
    /\ ~DisposalComplete(Target(s))
AfterPrepare(s) == IF joined[s] = s THEN "launch" ELSE "wait"

SkipPrepare(s) ==
    /\ call[s] = "prepare"
    /\ ~Prepares(s)
    /\ call' = [call EXCEPT ![s] = AfterPrepare(s)]
    /\ UNCHANGED <<cleanupVars, claimVars, runtimeVars, serveVars, tearVars,
                   joined, answer, final, removing>>

\* dispose on the owner: admission ends, the observer is removed at once.
Prepare(s) ==
    /\ call[s] = "prepare"
    /\ Prepares(s)
    /\ StopAccepting(Target(s))
    /\ \/ Request(Target(s)) /\ call' = [call EXCEPT ![s] = "take"]
       \/ RequestSettled(Target(s)) /\ call' = [call EXCEPT ![s] = "read"]
    /\ UNCHANGED <<claimVars, runtimeVars, tearVars, joined, answer, final, removing>>

PrepareTakes(s) ==
    /\ call[s] = "take"
    /\ TakeRequest(Target(s))
    /\ call' = [call EXCEPT ![s] = "remove"]
    /\ UNCHANGED <<claimVars, runtimeVars, serveVars, tearVars, joined, answer,
                   final, removing>>

PrepareRemoves(s) ==
    /\ call[s] = "remove"
    /\ Complete(Target(s)) \/ RemovalRaises(Target(s))
    /\ call' = [call EXCEPT ![s] = "read"]
    /\ UNCHANGED <<claimVars, runtimeVars, serveVars, tearVars, joined, answer,
                   final, removing>>

\* What a waiter gets: an attempt that has not completed times out.
Unclean(n) == ~cleanup[n].complete \/ AttemptFailed(n)

\* Mutation: a failed preparation does not mark the claim as retryable.
NoteFailureOnly(c) ==
    /\ preflight' = [preflight EXCEPT ![c] = @ \union {"prepare"}]
    /\ UNCHANGED retryable

NoteUnprepared(c) ==
    /\ preflight' = [preflight EXCEPT ![c] = @ \union {"prepare"}]
    /\ retryable' = retryable \union {c}

PrepareReads(s) ==
    /\ call[s] = "read"
    /\ IF Unclean(Target(s)) THEN NoteUnprepared(joined[s])
       ELSE UNCHANGED <<preflight, retryable>>
    /\ call' = [call EXCEPT ![s] = AfterPrepare(s)]
    /\ UNCHANGED <<cleanupVars, claim, runtimeOf, completed, failed, runtimeVars,
                   serveVars, tearVars, joined, answer, final, removing>>

Launch(s) ==
    /\ call[s] = "launch"
    /\ tear' = [tear EXCEPT ![s] = "quiesce"]
    /\ call' = [call EXCEPT ![s] = "wait"]
    /\ UNCHANGED <<cleanupVars, claimVars, runtimeVars, serveVars, failures, kept,
                   joined, answer, final, removing>>

WaitEnds(s) ==
    /\ call[s] = "wait"
    /\ joined[s] \in completed
    /\ Returns(s, IF joined[s] \in failed THEN "failed" ELSE "stopped")
    /\ UNCHANGED <<cleanupVars, claimVars, runtimeVars, serveVars, tearVars,
                   joined, final, removing>>

WaitExpires(s) ==
    /\ call[s] = "wait"
    /\ s \notin final
    /\ joined[s] \notin completed
    /\ Returns(s, "continuing")
    /\ UNCHANGED <<cleanupVars, claimVars, runtimeVars, serveVars, tearVars,
                   joined, final, removing>>

-----------------------------------------------------------------------------
(* _dispose_claimed_runtime, on the thread of the claim.                    *)

Tears(c, from, to) == tear[c] = from /\ tear' = [tear EXCEPT ![c] = to]

\* The preflight failures are copied, the listener stops admitting and the
\* worker manager is told; waiting for the listener's thread may time out.
Quiesce(c) ==
    /\ Tears(c, "quiesce", "claim")
    /\ \E raised \in {{}, {"listener"}} :
        /\ raised # {} =>
            FenceMayFail /\ owned[runtimeOf[c]] \intersect {"listener", "worker"} # {}
        /\ failures' = [failures EXCEPT ![c] = preflight[c] \union raised]
    /\ accepting' = accepting \ {runtimeOf[c]}
    /\ UNCHANGED <<cleanupVars, claimVars, runtimeVars, open, handler, kept,
                   callVars, removing>>

\* The resources are released in the reverse of the order they were built in.
NextResource(n, released) ==
    LET left == owned[n] \ released IN
    IF "listener" \in left THEN "listener"
    ELSE IF "bridge" \in left THEN "bridge"
    ELSE IF "worker" \in left THEN "worker"
    ELSE IF "dispatcher" \in left THEN "dispatcher"
    ELSE "complete"

\* A runtime with nothing left to release has a completed attempt to go by.
ClaimDisposal(c) ==
    LET n == runtimeOf[c] IN
    /\ Tears(c, "claim", IF owned[n] = {} THEN "publish" ELSE NextResource(n, {}))
    /\ disposed' = disposed \union {n}
    /\ settled' = IF owned[n] = {} THEN settled ELSE settled \ {n}
    /\ kept' = [kept EXCEPT ![c] = {}]
    /\ UNCHANGED <<cleanupVars, claimVars, published, owned, serveVars, failures,
                   callVars, removing>>

UpTo(r) == CASE r = "listener" -> {"listener"}
             [] r = "bridge" -> {"listener", "bridge"}
             [] r = "worker" -> {"listener", "bridge", "worker"}

\* Closing the listener waits for the handlers it has admitted.
Release(c, r) ==
    /\ Tears(c, r, NextResource(runtimeOf[c], UpTo(r)))
    /\ r = "listener" => handler[runtimeOf[c]] = "none"
    /\ \/ UNCHANGED kept
       \/ r \in Fallible /\ kept' = [kept EXCEPT ![c] = @ \union {r}]
    /\ UNCHANGED <<cleanupVars, claimVars, runtimeVars, serveVars, failures,
                   callVars, removing>>

DisposeDispatcher(c) ==
    LET n == runtimeOf[c] IN
    /\ \/ /\ Tears(c, "dispatcher", IF cleanup[n].pending THEN "postPending" ELSE "post")
          /\ Request(n)
       \/ Tears(c, "dispatcher", "outcome") /\ RequestSettled(n)
    /\ StopAccepting(n)
    /\ UNCHANGED <<claimVars, runtimeVars, failures, kept, callVars, removing>>

PostCleanup(c) ==
    /\ \/ Tears(c, "post", "outcome") /\ Post(runtimeOf[c], FALSE)
       \/ Tears(c, "postPending", "outcome") /\ Post(runtimeOf[c], TRUE)
    /\ UNCHANGED <<claimVars, runtimeVars, serveVars, failures, kept, callVars, removing>>

PostCleanupFails(c) ==
    /\ Tears(c, "post", "outcome") \/ Tears(c, "postPending", "outcome")
    /\ PostFails(runtimeOf[c])
    /\ UNCHANGED <<claimVars, runtimeVars, serveVars, failures, kept, callVars, removing>>

ReadOutcome(c) ==
    /\ Tears(c, "outcome", "complete")
    /\ kept' = IF Unclean(runtimeOf[c])
               THEN [kept EXCEPT ![c] = @ \union {"dispatcher"}] ELSE kept
    /\ UNCHANGED <<cleanupVars, claimVars, runtimeVars, serveVars, failures,
                   callVars, removing>>

\* Mutation: what the disposer of a resource raised is lost.
DisposalFailureLost(c) == UNCHANGED failures

DisposalFails(c) ==
    failures' = IF kept[c] = {} THEN failures
                ELSE [failures EXCEPT ![c] = @ \union {"dispose"}]

CompleteDisposal(c) ==
    /\ Tears(c, "complete", "publish")
    /\ owned' = [owned EXCEPT ![runtimeOf[c]] = kept[c]]
    /\ settled' = settled \union {runtimeOf[c]}
    /\ DisposalFails(c)
    /\ UNCHANGED <<cleanupVars, claimVars, published, disposed, serveVars, kept,
                   callVars, removing>>

\* A clean teardown drops its claim, any other leaves it in place as failed.
Withdraws(c) == failures[c] = {} /\ claim = c

Unpublish(c) ==
    /\ Tears(c, "publish", "end")
    /\ claim' = IF Withdraws(c) THEN NULL ELSE claim
    /\ failed' = IF failures[c] = {} THEN failed ELSE failed \union {c}
    /\ UNCHANGED <<cleanupVars, runtimeOf, completed, retryable, preflight,
                   runtimeVars, serveVars, failures, kept, callVars, removing>>

EndTeardown(c) ==
    /\ Tears(c, "end", "over")
    /\ completed' = completed \union {c}
    /\ UNCHANGED <<cleanupVars, claim, runtimeOf, failed, retryable, preflight,
                   runtimeVars, serveVars, failures, kept, callVars, removing>>

-----------------------------------------------------------------------------

StopCall(s) ==
    \/ NotRunning(s) \/ Claim(s) \/ Join(s)
    \/ Fence(s) \/ SkipPrepare(s) \/ Prepare(s) \/ PrepareTakes(s)
    \/ PrepareRemoves(s) \/ PrepareReads(s) \/ Launch(s)
    \/ WaitEnds(s) \/ WaitExpires(s)

Teardown(c) ==
    \/ Quiesce(c) \/ ClaimDisposal(c)
    \/ \E r \in {"listener", "bridge", "worker"} : Release(c, r)
    \/ DisposeDispatcher(c) \/ PostCleanup(c) \/ PostCleanupFails(c)
    \/ ReadOutcome(c) \/ CompleteDisposal(c) \/ Unpublish(c) \/ EndTeardown(c)

Serves(n) == Admit(n) \/ Submit(n) \/ Finish(n) \/ Serve(n) \/ ServeEnds(n)
Events(n) == RunCleanup(n) \/ EndCleanup(n) \/ DeleteObject(n)

Next ==
    \/ \E s \in Calls : StopCall(s)
    \/ \E c \in Claims : Teardown(c)
    \/ \E n \in Runtimes : Start(n) \/ StartFails(n) \/ Serves(n) \/ Events(n)

Spec == Init /\ [][Next]_vars

\* Threads and the event loop go on; a stop call, once made, goes on, and a
\* handler makes finitely many calls into the GUI.
Fairness ==
    /\ \A s \in Calls : WF_vars(InStop(s) /\ StopCall(s))
    /\ \A c \in Claims : WF_vars(Teardown(c))
    /\ \A n \in Runtimes :
        /\ WF_vars(Serve(n)) /\ WF_vars(ServeEnds(n)) /\ WF_vars(Events(n))
        /\ SF_vars(Finish(n))

FairSpec == Spec /\ Fairness

-----------------------------------------------------------------------------
(* Properties.                                                              *)

Tearing(c) == tear[c] \notin {"none", "end", "over"}

\* What a runtime still holds: a resource, its observer, a handler at work.
Holds(n) == owned[n] # {} \/ cleanup[n].observer \/ handler[n] # "none"

\* A runtime that serves is alone: nothing of another one is left behind by a
\* stop that failed, expired or is still going on, and no teardown is under
\* way for it (the gate of start_rpc_server against the shutdown claim).
RunningAlone ==
    Running =>
        /\ \A n \in Runtimes \ {published} : ~Holds(n)
        /\ \A c \in Claims : Tearing(c) => runtimeOf[c] = published

\* A caller that was told the server stopped can count on it: no resource, no
\* document observer and no handler of that runtime is left.
StoppedMeansReleased ==
    \A s \in Calls : answer[s] = "stopped" => ~Holds(Target(s))

\* Two teardowns never work at once, whoever retries a claim that failed.
OneTeardown ==
    \A b, c \in Claims : Tearing(b) /\ Tearing(c) => b = c

\* A shutdown that failed only in disposing can be tried again by the next
\* stop, also when all that failed was the owner's preparation; the claim
\* blocks a restart, so it must not stay for ever.
DisposalCanBeRetried ==
    /\ claim # NULL
    /\ claim \in completed
    /\ failures[claim] \subseteq {"prepare", "dispose"}
    => Replaceable(claim)

\* Every stop returns and every teardown ends, also while handlers wait for the
\* GUI thread and the GUI thread waits for the shutdown: time and again nothing
\* of it is under way.
StopsEnd ==
    []<>(/\ \A s \in Calls : ~InStop(s)
         /\ \A c \in Claims : tear[c] \in {"none", "over"})

\* A removal that went through is reported as such: whoever disposes of the
\* dispatcher is told of a failure only if there was one ("raise unless it
\* completed safely", "The dispatcher operation is idempotent").
CompletedSafely(n) ==
    /\ cleanup[n].complete /\ ~cleanup[n].error
    /\ ~cleanup[n].observer /\ cleanup[n].deleteScheduled
SafeRemovalSucceeds ==
    [][\A c \in Claims :
        tear[c] = "outcome" /\ tear'[c] # "outcome" /\ CompletedSafely(runtimeOf[c])
        => "dispatcher" \notin kept'[c]]_vars
=============================================================================
