--------------------------- MODULE ObserverCleanup ---------------------------
(* The removal of a dispatcher's document observer (_ObserverCleanup-       *)
(* Controller and the dispose operations of GuiDispatcher).                 *)
(*                                                                          *)
(* Any thread may ask for the removal; only the GUI thread, which owns the  *)
(* QObject, may carry it out.  It does so when the event posted to it is    *)
(* delivered, or at once when it is the one that asks.  Whoever asked then  *)
(* waits for `complete` and reads how the attempt ended.                    *)
EXTENDS Sequences, FiniteSets

CONSTANTS
    Runtimes,        \* each composed runtime has one dispatcher
    RemovalMayFail   \* removeDocumentObserver may raise

ASSUME RemovalAssumption == RemovalMayFail \in BOOLEAN

VARIABLES
    cleanup,    \* the controller of each dispatcher
    posted,     \* events posted to the dispatcher, in order
    deleted     \* dispatchers whose QObject is gone

cleanupVars == <<cleanup, posted, deleted>>

Controller ==
    [observer : BOOLEAN, pending : BOOLEAN, deleteRequested : BOOLEAN,
     deleteScheduled : BOOLEAN, error : BOOLEAN, complete : BOOLEAN]

\* Before the dispatcher is built, and after it registered its observer.
Unbound ==
    [observer |-> FALSE, pending |-> FALSE, deleteRequested |-> FALSE,
     deleteScheduled |-> FALSE, error |-> FALSE, complete |-> FALSE]
Bound == [Unbound EXCEPT !.observer = TRUE]

CleanupType ==
    /\ cleanup \in [Runtimes -> Controller]
    /\ posted \in [Runtimes -> Seq({"cleanup", "delete"})]
    /\ deleted \subseteq Runtimes

CleanupInit ==
    /\ cleanup = [n \in Runtimes |-> Unbound]
    /\ posted = [n \in Runtimes |-> <<>>]
    /\ deleted = {}

-----------------------------------------------------------------------------
(* What the controller reports.                                             *)

DisposalComplete(n) ==
    /\ ~cleanup[n].observer /\ ~cleanup[n].pending /\ ~cleanup[n].error
    /\ cleanup[n].deleteScheduled /\ cleanup[n].complete

\* The attempt a waiter reads: its error, or a state it calls incomplete.
Incomplete(n) ==
    \/ cleanup[n].pending
    \/ cleanup[n].observer
    \/ cleanup[n].deleteRequested /\ ~cleanup[n].deleteScheduled
AttemptFailed(n) == cleanup[n].error \/ Incomplete(n)

-----------------------------------------------------------------------------
(* The critical sections of the controller.                                 *)

Failed(c) == [c EXCEPT !.pending = FALSE, !.error = TRUE, !.complete = TRUE]

\* request(delete_after=True), under the lock, when no deletion is scheduled.
Request(n) ==
    /\ ~cleanup[n].deleteScheduled
    /\ cleanup' = [cleanup EXCEPT ![n].deleteRequested = TRUE,
                                  ![n].pending = TRUE,
                                  ![n].complete = @ /\ cleanup[n].pending]
    /\ UNCHANGED <<posted, deleted>>

RequestSettled(n) ==
    /\ cleanup[n].deleteScheduled
    /\ cleanup' = [cleanup EXCEPT ![n].deleteRequested = TRUE]
    /\ UNCHANGED <<posted, deleted>>

\* request() after the lock, off the owner: the QObject posts the event,
\* unless an earlier request has; once it is gone, asking it raises.
Post(n, alreadyPending) ==
    /\ n \notin deleted
    /\ posted' = IF alreadyPending THEN posted
                 ELSE [posted EXCEPT ![n] = Append(@, "cleanup")]
    /\ UNCHANGED <<cleanup, deleted>>

PostFails(n) ==
    /\ n \in deleted
    /\ cleanup' = [cleanup EXCEPT ![n] = Failed(@)]
    /\ UNCHANGED <<posted, deleted>>

\* run_on_owner, first section: the request is taken and the observer removed.
TakeRequest(n) ==
    /\ cleanup' = [cleanup EXCEPT ![n].pending = FALSE]
    /\ UNCHANGED <<posted, deleted>>

RemovalRaises(n) ==
    /\ RemovalMayFail
    /\ cleanup[n].observer
    /\ cleanup' = [cleanup EXCEPT ![n] = Failed(@)]
    /\ UNCHANGED <<posted, deleted>>

\* run_on_owner, second section: the observer is off, deletion is scheduled if
\* it was requested and has not been, and the waiters are released.
DeleteNow(n) == cleanup[n].deleteRequested /\ ~cleanup[n].deleteScheduled

Complete(n) ==
    /\ cleanup' = [cleanup EXCEPT ![n].observer = FALSE,
                                  ![n].error = FALSE,
                                  ![n].deleteScheduled = @ \/ DeleteNow(n),
                                  ![n].complete = TRUE]
    /\ posted' = IF DeleteNow(n) THEN [posted EXCEPT ![n] = Append(@, "delete")]
                 ELSE posted
    /\ UNCHANGED deleted

\* The event loop takes the next event of the dispatcher; with its deletion
\* every event still posted to it is gone.
Delivers(n, event) ==
    /\ posted[n] # <<>>
    /\ Head(posted[n]) = event

Delete(n) ==
    /\ Delivers(n, "delete")
    /\ deleted' = deleted \union {n}
    /\ posted' = [posted EXCEPT ![n] = <<>>]
    /\ UNCHANGED cleanup
=============================================================================
