-------------------------- MODULE TransportListener --------------------------
(* The add-on's JSON-RPC listener (transport/listener.py, request_handler.py *)
(* and the admission of JsonRpcTransport), with the pause of remote writes   *)
(* at the head of every dispatch.                                            *)
(*                                                                           *)
(* One thread accepts connections and hands them to a pool with as many      *)
(* threads as there are handler slots.  A pool thread reads one HTTP request *)
(* under a deadline that a timer thread enforces, and dispatches the calls   *)
(* of its batch in order, each under a slot of the general or the control    *)
(* lane.  Closing stops admission, waits for the accepting thread and then   *)
(* for the pool.                                                             *)
(*                                                                           *)
(* HTTP parsing, the address filter and the encoding of results are left     *)
(* out; what a client sends, when, and whether at all, is not constrained.   *)
(* So are calls answered without a slot (malformed, of an unknown method)    *)
(* and the failure to start a thread, for the pool or for the timer.         *)
EXTENDS Naturals, FiniteSets, Sequences, AutomationPause

CONSTANTS
    Conns,          \* connections, each of which may be made again and again
    HandlerSlots,   \* _handler_slots, and the threads of the pool
    GeneralSlots,   \* _general_slots
    ControlSlots,   \* _control_slots
    callsOf,        \* the calls in the batch of each connection
    NULL

Kinds == {"control", "read", "write"}

ASSUME ListenerAssumption ==
    /\ HandlerSlots \in Nat /\ GeneralSlots \in Nat /\ ControlSlots \in Nat
    /\ HandlerSlots = GeneralSlots + ControlSlots
    /\ callsOf \in [Conns -> Seq(Kinds)]
    /\ NULL \notin Conns /\ "ended" \notin Conns /\ NULL # "ended"

VARIABLES
    accepting,     \* _accepting_requests of the listener
    serving,       \* _accepting of the transport
    loop,          \* the accepting thread: idle, a connection in hand, ended
    handlerSlots, generalSlots, controlSlots,    \* the free slots
    conn,          \* where each connection stands
    done,          \* how many calls of its batch have been answered
    deadlines,     \* _request_deadlines, by connection
    late,          \* connections past their read deadline
    expired,       \* deadlines whose timer fired while they were in the table
    close          \* where the closing thread stands

slotVars == <<handlerSlots, generalSlots, controlSlots>>
timeVars == <<deadlines, late, expired>>
gateVars == <<accepting, serving, close>>
vars == <<gateVars, loop, slotVars, conn, done, timeVars, pauseVars>>

Outside == {"offered", "refused", "closed"}
\* A connection that holds a handler slot; the last five run on a pool thread
\* past the reading of the request.
InPool == {"queued", "headers", "take", "body", "call", "admitted", "lane",
           "granted", "run", "leave", "finish"}
HoldsLane == {"granted", "run", "leave"}

TypeOK ==
    /\ accepting \in BOOLEAN /\ serving \in BOOLEAN
    /\ loop \in Conns \union {NULL, "ended"}
    /\ handlerSlots \in 0..HandlerSlots
    /\ generalSlots \in 0..GeneralSlots
    /\ controlSlots \in 0..ControlSlots
    /\ conn \in [Conns -> Outside \union {"handover"} \union InPool]
    /\ \A c \in Conns : done[c] \in 0..Len(callsOf[c])
    /\ deadlines \subseteq Conns /\ late \subseteq Conns /\ expired \subseteq Conns
    /\ close \in {"open", "flagged", "refusing", "joined", "draining", "closed"}
    /\ paused \in BOOLEAN /\ active \subseteq Conns

Init ==
    /\ accepting = TRUE /\ serving = TRUE
    /\ loop = NULL
    /\ handlerSlots = HandlerSlots
    /\ generalSlots = GeneralSlots
    /\ controlSlots = ControlSlots
    /\ conn = [c \in Conns |-> "offered"]
    /\ done = [c \in Conns |-> 0]
    /\ deadlines = {} /\ late = {} /\ expired = {}
    /\ close = "open"
    /\ PauseInit

Moves(c, from, to) == conn[c] = from /\ conn' = [conn EXCEPT ![c] = to]

-----------------------------------------------------------------------------
(* The accepting thread: process_request.                                   *)

Admit(c) ==
    /\ loop = NULL
    /\ accepting /\ handlerSlots > 0
    /\ Moves(c, "offered", "handover")
    /\ loop' = c
    /\ handlerSlots' = handlerSlots - 1
    /\ UNCHANGED <<gateVars, generalSlots, controlSlots, done, timeVars, pauseVars>>

Refuse(c) ==
    /\ loop = NULL
    /\ ~(accepting /\ handlerSlots > 0)
    /\ Moves(c, "offered", "refused")
    /\ UNCHANGED <<gateVars, loop, slotVars, done, timeVars, pauseVars>>

HandOver(c) ==
    /\ loop = c
    /\ Moves(c, "handover", "queued")
    /\ loop' = NULL
    /\ UNCHANGED <<gateVars, slotVars, done, timeVars, pauseVars>>

\* The client's next connection is a new one: no deadline, no call answered.
Reconnect(c) ==
    /\ conn[c] \in {"refused", "closed"}
    /\ conn' = [conn EXCEPT ![c] = "offered"]
    /\ done' = [done EXCEPT ![c] = 0]
    /\ late' = late \ {c} /\ expired' = expired \ {c}
    /\ UNCHANGED <<gateVars, loop, slotVars, deadlines, pauseVars>>

-----------------------------------------------------------------------------
(* Reading a request under its deadline.                                    *)

BeginRequest(c) ==
    /\ Moves(c, "queued", "headers")
    /\ deadlines' = deadlines \union {c}
    /\ UNCHANGED <<gateVars, loop, slotVars, done, late, expired, pauseVars>>

DeadlinePasses(c) ==
    /\ conn[c] \in {"headers", "take", "body"}
    /\ c \notin late
    /\ late' = late \union {c}
    /\ UNCHANGED <<gateVars, loop, slotVars, conn, done, deadlines, expired, pauseVars>>

\* Mutation: the timer marks the deadline and leaves the connection alone.
ExpireUncut(c) == expired' = expired

\* expire_request: what follows of the request reads as ended.
Cut(c) == expired' = expired \union {c}

ExpireRequest(c) ==
    /\ c \in late \intersect deadlines
    /\ c \notin expired
    /\ Cut(c)
    /\ UNCHANGED <<gateVars, loop, slotVars, conn, done, deadlines, late, pauseVars>>

\* The headers are in, possibly from what had arrived before the cut, and lead
\* to the JSON-RPC route or to a refusal.
HeadersRead(c) ==
    /\ Moves(c, "headers", "take") \/ Moves(c, "headers", "finish")
    /\ UNCHANGED <<gateVars, loop, slotVars, done, timeVars, pauseVars>>

HeadersCut(c) ==
    /\ c \in expired
    /\ Moves(c, "headers", "finish")
    /\ UNCHANGED <<gateVars, loop, slotVars, done, timeVars, pauseVars>>

TakeDeadline(c) ==
    /\ Moves(c, "take", IF c \in expired THEN "finish" ELSE "body")
    /\ deadlines' = deadlines \ {c}
    /\ UNCHANGED <<gateVars, loop, slotVars, done, late, expired, pauseVars>>

BodyRead(c) ==
    /\ c \notin late
    /\ Moves(c, "body", IF callsOf[c] = <<>> THEN "finish" ELSE "call")
    /\ UNCHANGED <<gateVars, loop, slotVars, done, timeVars, pauseVars>>

\* The client goes away or sends too little.
ReadFails(c) ==
    /\ Moves(c, "headers", "finish") \/ Moves(c, "body", "finish")
    /\ UNCHANGED <<gateVars, loop, slotVars, done, timeVars, pauseVars>>

BodyLate(c) ==
    /\ c \in late
    /\ Moves(c, "body", "finish")
    /\ UNCHANGED <<gateVars, loop, slotVars, done, timeVars, pauseVars>>

-----------------------------------------------------------------------------
(* Dispatching the calls of a batch.                                        *)

Call(c) == callsOf[c][done[c] + 1]
AfterCall(c) == IF done[c] + 1 = Len(callsOf[c]) THEN "finish" ELSE "call"

\* The next call of the batch has its answer.
Answers(c, from) ==
    /\ Moves(c, from, AfterCall(c))
    /\ done' = [done EXCEPT ![c] = @ + 1]

TransportGate(c) ==
    /\ \/ serving /\ Moves(c, "call", "admitted") /\ UNCHANGED done
       \/ ~serving /\ Answers(c, "call")
    /\ UNCHANGED <<gateVars, loop, slotVars, timeVars, pauseVars>>

ListenerGate(c) ==
    /\ \/ accepting /\ Moves(c, "admitted", "lane") /\ UNCHANGED done
       \/ ~accepting /\ Answers(c, "admitted")
    /\ UNCHANGED <<gateVars, loop, slotVars, timeVars, pauseVars>>

\* Mutation: what acquire answers is not looked at.
LaneUnchecked(c) == conn[c] = "lane"

LaneFree(c) ==
    IF Call(c) = "control" THEN controlSlots > 0 ELSE generalSlots > 0

TakesLane(c) ==
    IF Call(c) = "control"
    THEN controlSlots' = controlSlots - 1 /\ UNCHANGED generalSlots
    ELSE generalSlots' = generalSlots - 1 /\ UNCHANGED controlSlots

LeavesLane(c) ==
    IF Call(c) = "control"
    THEN controlSlots' = controlSlots + 1 /\ UNCHANGED generalSlots
    ELSE generalSlots' = generalSlots + 1 /\ UNCHANGED controlSlots

EnterLane(c) ==
    /\ Moves(c, "lane", "granted")
    /\ LaneFree(c)
    /\ TakesLane(c)
    /\ UNCHANGED <<gateVars, loop, handlerSlots, done, timeVars, pauseVars>>

\* Mutation: acquire blocks, and no call is told that the server is busy.
NeverBusy(c) == FALSE /\ UNCHANGED vars

ServerBusy(c) ==
    /\ Answers(c, "lane")
    /\ ~LaneFree(c)
    /\ UNCHANGED <<gateVars, loop, slotVars, timeVars, pauseVars>>

\* dispatch: a write is admitted first, any other method starts at once.
BeginMethod(c) ==
    /\ Moves(c, "granted", "run")
    /\ IF Call(c) = "write" THEN AdmitWrite(c) ELSE UNCHANGED pauseVars
    /\ UNCHANGED <<gateVars, loop, slotVars, done, timeVars>>

WritePaused(c) ==
    /\ Moves(c, "granted", "leave")
    /\ Call(c) = "write"
    /\ RefuseWrite(c)
    /\ UNCHANGED <<gateVars, loop, slotVars, done, timeVars>>

EndMethod(c) ==
    /\ Moves(c, "run", "leave")
    /\ FinishWrite(c)
    /\ UNCHANGED <<gateVars, loop, slotVars, done, timeVars>>

EndControl(c) == EndMethod(c) /\ Call(c) = "control"

LeaveLane(c) ==
    /\ Answers(c, "leave")
    /\ LeavesLane(c)
    /\ UNCHANGED <<gateVars, loop, handlerSlots, timeVars, pauseVars>>

\* Mutation: a request whose read was cut keeps its slot.
ReleaseUnlessCut(c) ==
    handlerSlots' = IF c \in expired THEN handlerSlots ELSE handlerSlots + 1

ReleaseSlot(c) == handlerSlots' = handlerSlots + 1

FinishRequest(c) ==
    /\ Moves(c, "finish", "closed")
    /\ deadlines' = deadlines \ {c}
    /\ ReleaseSlot(c)
    /\ UNCHANGED <<gateVars, loop, generalSlots, controlSlots, done, late,
                   expired, pauseVars>>

-----------------------------------------------------------------------------
(* Closing: begin_shutdown, shutdown of the accepting loop, server_close.   *)

Closes(from, to) == close = from /\ close' = to

StopAccepting ==
    /\ Closes("open", "flagged")
    /\ accepting' = FALSE
    /\ UNCHANGED <<serving, loop, slotVars, conn, done, timeVars, pauseVars>>

StopServing ==
    /\ Closes("flagged", "refusing")
    /\ serving' = FALSE
    /\ UNCHANGED <<accepting, loop, slotVars, conn, done, timeVars, pauseVars>>

\* shutdown returns when the accepting thread has left its loop.
JoinLoop ==
    /\ Closes("refusing", "joined")
    /\ loop = NULL
    /\ loop' = "ended"
    /\ UNCHANGED <<accepting, serving, slotVars, conn, done, timeVars, pauseVars>>

CloseSocket ==
    /\ Closes("joined", "draining")
    /\ UNCHANGED <<accepting, serving, loop, slotVars, conn, done, timeVars, pauseVars>>

\* Mutation: the executor is not waited for.
DrainedAtOnce == TRUE

Drained == \A c \in Conns : conn[c] \notin InPool

CloseReturns ==
    /\ Closes("draining", "closed")
    /\ Drained
    /\ UNCHANGED <<accepting, serving, loop, slotVars, conn, done, timeVars, pauseVars>>

UserPauses ==
    /\ Pause \/ Resume
    /\ UNCHANGED <<gateVars, loop, slotVars, conn, done, timeVars>>

-----------------------------------------------------------------------------

Accept(c) == Admit(c) \/ Refuse(c) \/ HandOver(c)

\* The steps a pool thread takes of its own accord, the client's left out.
Handle(c) ==
    \/ BeginRequest(c) \/ HeadersCut(c) \/ TakeDeadline(c) \/ BodyLate(c)
    \/ TransportGate(c) \/ ListenerGate(c) \/ EnterLane(c) \/ ServerBusy(c)
    \/ BeginMethod(c) \/ WritePaused(c) \/ LeaveLane(c) \/ FinishRequest(c)

Client(c) == Reconnect(c) \/ HeadersRead(c) \/ BodyRead(c) \/ ReadFails(c)
Timer(c) == DeadlinePasses(c) \/ ExpireRequest(c)
Close == StopServing \/ JoinLoop \/ CloseSocket \/ CloseReturns

Next ==
    \/ \E c \in Conns : Accept(c) \/ Handle(c) \/ Client(c) \/ Timer(c) \/ EndMethod(c)
    \/ StopAccepting \/ Close \/ UserPauses

Spec == Init /\ [][Next]_vars

\* Threads, clock and timers go on, and a control call ends; a client need not
\* send anything, and a general call may take for ever.
Fairness ==
    /\ \A c \in Conns :
        /\ WF_vars(HandOver(c)) /\ WF_vars(Handle(c)) /\ WF_vars(Timer(c))
        /\ WF_vars(EndControl(c))
    /\ WF_vars(Close)

FairSpec == Spec /\ Fairness

-----------------------------------------------------------------------------
(* Properties.                                                              *)

\* Every slot that is taken is held by a connection that will give it back, on
\* whatever path it leaves: refused, cut, expired, busy, paused or served.
HoldsSlot == {c \in Conns : conn[c] \in InPool \union {"handover"}}
InLane(kinds) == {c \in Conns : conn[c] \in HoldsLane /\ Call(c) \in kinds}
SlotsAccounted ==
    /\ handlerSlots + Cardinality(HoldsSlot) = HandlerSlots
    /\ controlSlots + Cardinality(InLane({"control"})) = ControlSlots
    /\ generalSlots + Cardinality(InLane({"read", "write"})) = GeneralSlots

\* Once server_close has returned, no request is being read or served and no
\* method of a request runs, whatever was under way when it was called.
NothingAfterClose ==
    close = "closed" =>
        /\ \A c \in Conns : conn[c] \in Outside
        /\ active = {} /\ deadlines = {}

\* A user who is shown a pause with no write left to wait for can edit: no
\* handler is inside a remote write, from the last one's end until the resume.
\* (A callable that its handler gave up on is beyond this: finish_remote_write
\* runs when the handler returns.)
PauseIsHonest ==
    paused /\ ~PauseAfterCurrent =>
        \A c \in Conns : ~(conn[c] = "run" /\ Call(c) = "write")

\* General calls that never end and clients that never finish sending do not
\* take every slot for good: time and again a control call finds one.
ControlReachable == []<>(handlerSlots > 0)

\* server_close returns once the calls in progress have ended.
RunsGeneral(c) == conn[c] = "run" /\ Call(c) # "control"
CloseEnds ==
    []<>(close \in {"open", "closed"} \/ \E c \in Conns : RunsGeneral(c))
=============================================================================
