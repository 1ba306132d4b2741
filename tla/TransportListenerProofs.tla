----------------------- MODULE TransportListenerProofs -----------------------
(* Theorems about TransportListener, for any connections, batches and slots. *)
EXTENDS TransportListener, SequenceTheorems, FiniteSetTheorems, TLAPS

-----------------------------------------------------------------------------
(* The inductive invariant.                                                  *)

\* Reading takes place before the first call of the batch, and a call in
\* progress is one of the batch.
Reading == {"offered", "refused", "handover", "queued", "headers", "take", "body"}
Calling == {"call", "admitted", "lane", "granted", "run", "leave"}

\* The types; that no slot is given back twice follows from SlotsHeld.
Shape ==
    /\ accepting \in BOOLEAN /\ serving \in BOOLEAN
    /\ loop \in Conns \union {NULL, "ended"}
    /\ handlerSlots \in Nat /\ generalSlots \in Nat /\ controlSlots \in Nat
    /\ conn \in [Conns -> Outside \union {"handover"} \union InPool]
    /\ done \in [Conns -> Nat]
    /\ \A c \in Conns :
        /\ done[c] <= Len(callsOf[c])
        /\ conn[c] \in Reading => done[c] = 0
        /\ conn[c] \in Calling => done[c] < Len(callsOf[c])
    /\ deadlines \subseteq Conns /\ late \subseteq Conns /\ expired \subseteq Conns
    /\ close \in {"open", "flagged", "refusing", "joined", "draining", "closed"}
    /\ paused \in BOOLEAN /\ active \subseteq Conns

\* The accepting thread has one connection in hand, and has ended before the
\* pool is waited for; then nobody enters the pool.
GatesOrdered ==
    /\ \A c \in Conns : conn[c] = "handover" <=> loop = c
    /\ close \in {"joined", "draining", "closed"} => loop = "ended"
    /\ close = "closed" => Drained

\* The tokens of the pause are the writes that run; a deadline in the table is
\* one of a connection in the pool.
Registered ==
    /\ active = {c \in Conns : conn[c] = "run" /\ Call(c) = "write"}
    /\ \A c \in deadlines : conn[c] \in InPool

SlotsHeld ==
    /\ IsFiniteSet(HoldsSlot) /\ IsFiniteSet(InLane({"control"}))
    /\ IsFiniteSet(InLane({"read", "write"}))
    /\ SlotsAccounted

IInv == Shape /\ GatesOrdered /\ Registered /\ SlotsHeld

-----------------------------------------------------------------------------
(* What a step does to the connections.                                      *)

\* The steps of one connection, but for the accepting thread, grouped by how
\* far they take it: inside the pool before, inside the pool after or closed.
Reads(c) == BeginRequest(c) \/ HeadersRead(c) \/ HeadersCut(c) \/ TakeDeadline(c)
            \/ BodyRead(c) \/ ReadFails(c) \/ BodyLate(c)
Calls(c) == TransportGate(c) \/ ListenerGate(c) \/ ServerBusy(c)
Serves(c) == EnterLane(c) \/ BeginMethod(c) \/ WritePaused(c) \/ EndMethod(c) \/ LeaveLane(c)

\* A call in progress is of one of the three kinds.
LEMMA CallKind ==
    ASSUME Shape, NEW c \in Conns, conn[c] \in Calling
    PROVE  Call(c) \in Kinds
<1>1. callsOf[c] \in Seq(Kinds)  BY ListenerAssumption
<1>2. done[c] + 1 \in 1..Len(callsOf[c])  BY <1>1, LenProperties DEF Shape
<1> QED BY <1>1, <1>2, ElementOfSeq DEF Call

\* What is left to show of a step, action by action.
LEMMA Steps ==
    ASSUME [Next]_vars
    PROVE  \/ \E c \in Conns :
               \/ Admit(c) \/ Refuse(c) \/ HandOver(c) \/ Reconnect(c) \/ FinishRequest(c)
               \/ Reads(c) \/ Calls(c) \/ Serves(c) \/ Timer(c)
           \/ StopAccepting \/ Close \/ UserPauses \/ UNCHANGED vars
  BY DEF Next, Accept, Handle, Client, Reads, Calls, Serves

\* A lane slot is taken and given back by the call in hand, and nothing else is.
LEMMA ServesMoves ==
    ASSUME NEW c \in Conns, Serves(c)
    PROVE  UNCHANGED <<gateVars, loop, handlerSlots, timeVars>>
  BY DEF Serves, EnterLane, BeginMethod, WritePaused, EndMethod, LeaveLane, slotVars

-----------------------------------------------------------------------------
(* Types.                                                                    *)

\* The initial state is typed.
LEMMA InitShape == Init => Shape
<1>1. \A c \in Conns : Len(callsOf[c]) \in Nat
  BY ListenerAssumption, LenProperties
<1> SUFFICES ASSUME Init PROVE Shape
  OBVIOUS
<1>2. /\ conn \in [Conns -> Outside \union {"handover"} \union InPool]
      /\ \A c \in Conns : conn[c] = "offered"
  BY DEF Init, Outside
<1>3. done \in [Conns -> Nat] /\ \A c \in Conns : done[c] = 0
  BY DEF Init
<1>4. \A c \in Conns : /\ done[c] <= Len(callsOf[c])
                       /\ conn[c] \in Reading => done[c] = 0
                       /\ conn[c] \in Calling => done[c] < Len(callsOf[c])
  BY <1>1, <1>2, <1>3 DEF Calling
<1> QED BY <1>2, <1>3, <1>4, ListenerAssumption DEF Init, Shape, PauseInit

\* The next answer of a batch keeps the count within the batch.
LEMMA AnswersShape ==
    ASSUME Shape, NEW c \in Conns, NEW from \in Calling, Answers(c, from)
    PROVE  /\ conn' \in [Conns -> Outside \union {"handover"} \union InPool]
           /\ done' \in [Conns -> Nat]
           /\ \A k \in Conns :
               /\ done'[k] <= Len(callsOf[k])
               /\ conn'[k] \in Reading => done'[k] = 0
               /\ conn'[k] \in Calling => done'[k] < Len(callsOf[k])
<1>1. \A k \in Conns : Len(callsOf[k]) \in Nat
  BY ListenerAssumption, LenProperties
<1>2. /\ conn[c] \in Calling /\ conn' = [conn EXCEPT ![c] = AfterCall(c)]
      /\ done' = [done EXCEPT ![c] = @ + 1]
  BY DEF Answers, Moves
<1>3. AfterCall(c) \in {"finish", "call"}
      /\ (AfterCall(c) = "call" => done[c] + 1 # Len(callsOf[c]))
  BY DEF AfterCall
<1>4. done[c] < Len(callsOf[c]) /\ done[c] \in Nat
  BY <1>2 DEF Shape
<1> QED BY <1>1, <1>2, <1>3, <1>4 DEF Shape, Reading, Calling, InPool

\* A move to another place before the calls, or between them.
LEMMA MovesShape ==
    ASSUME Shape, NEW c \in Conns, NEW from, NEW to, Moves(c, from, to), UNCHANGED done,
           to \in Outside \union {"handover"} \union InPool,
           to \in Reading => done[c] = 0,
           to \in Calling => done[c] < Len(callsOf[c])
    PROVE  /\ conn' \in [Conns -> Outside \union {"handover"} \union InPool]
           /\ done' \in [Conns -> Nat]
           /\ \A k \in Conns :
               /\ done'[k] <= Len(callsOf[k])
               /\ conn'[k] \in Reading => done'[k] = 0
               /\ conn'[k] \in Calling => done'[k] < Len(callsOf[k])
  BY DEF Shape, Moves

\* Every step keeps the types.
LEMMA ShapeKept == Shape /\ [Next]_vars => Shape'
<1> SUFFICES ASSUME Shape, [Next]_vars PROVE Shape'
  OBVIOUS
<1> DEFINE Placed(c, d) == /\ c \in [Conns -> Outside \union {"handover"} \union InPool]
                           /\ d \in [Conns -> Nat]
                           /\ \A k \in Conns :
                               /\ d[k] <= Len(callsOf[k])
                               /\ c[k] \in Reading => d[k] = 0
                               /\ c[k] \in Calling => d[k] < Len(callsOf[k])
<1>0. \A k \in Conns : Len(callsOf[k]) \in Nat
  BY ListenerAssumption, LenProperties
<1>1. ASSUME NEW c \in Conns, NEW from, NEW to, Moves(c, from, to), UNCHANGED done,
             to \in Outside \union {"handover"} \union InPool,
             to \in Reading => done[c] = 0,
             to \in Calling => done[c] < Len(callsOf[c])
      PROVE  Placed(conn', done')
  BY <1>1, MovesShape
<1>2. ASSUME NEW c \in Conns, NEW from \in Calling, Answers(c, from)
      PROVE  Placed(conn', done')
  BY <1>2, AnswersShape
<1>3. Placed(conn, done)
  BY DEF Shape
<1>4. ASSUME NEW c \in Conns, Admit(c) \/ Refuse(c) \/ HandOver(c) PROVE Shape'
  <2>1. Placed(conn', done')
    BY <1>4 DEF Shape, Admit, Refuse, HandOver, Moves, Reading, Calling, Outside, InPool
  <2> QED BY <1>4, <2>1 DEF Shape, Admit, Refuse, HandOver, gateVars, slotVars, timeVars,
                            pauseVars
<1>5. ASSUME NEW c \in Conns, Reconnect(c) PROVE Shape'
  <2>1. Placed(conn', done')
    BY <1>0, <1>5 DEF Shape, Reconnect, Reading, Calling, Outside
  <2> QED BY <1>5, <2>1 DEF Shape, Reconnect, gateVars, slotVars, pauseVars
<1>6. ASSUME NEW c \in Conns, FinishRequest(c) PROVE Shape'
  <2>1. Placed(conn', done')
    BY <1>6 DEF Shape, FinishRequest, Moves, Reading, Calling, Outside
  <2> QED BY <1>6, <2>1 DEF Shape, FinishRequest, ReleaseSlot, gateVars, pauseVars
<1>7. ASSUME NEW c \in Conns, Reads(c) PROVE Shape'
  <2>1. Placed(conn', done')
    <3> USE DEF Shape, Moves, Reading, Calling, Outside, InPool
    <3>1. CASE BeginRequest(c) \/ HeadersRead(c) \/ HeadersCut(c)
      BY <3>1 DEF BeginRequest, HeadersRead, HeadersCut
    <3>2. CASE TakeDeadline(c) \/ ReadFails(c) \/ BodyLate(c)
      BY <3>2 DEF TakeDeadline, ReadFails, BodyLate
    <3>3. CASE BodyRead(c)
      <4>1. callsOf[c] # <<>> => Len(callsOf[c]) > 0
        BY <1>0, ListenerAssumption, EmptySeq
      <4> QED BY <1>0, <3>3, <4>1 DEF BodyRead
    <3> QED BY <1>7, <3>1, <3>2, <3>3 DEF Reads
  <2>2. /\ UNCHANGED <<gateVars, loop, slotVars, late, expired, pauseVars>>
        /\ deadlines' \subseteq Conns
    BY <1>7 DEF Shape, Reads, BeginRequest, HeadersRead, HeadersCut, TakeDeadline, ReadFails,
                BodyLate, BodyRead, timeVars
  <2> QED BY <2>1, <2>2 DEF Shape, gateVars, slotVars, pauseVars
<1>8. ASSUME NEW c \in Conns, Calls(c) PROVE Shape'
  <2>1. Placed(conn', done')
    BY <1>2, <1>8 DEF Calls, Shape, TransportGate, ListenerGate, ServerBusy, Moves, Reading,
                      Calling, InPool
  <2>2. UNCHANGED <<gateVars, loop, slotVars, timeVars, pauseVars>>
    BY <1>8 DEF Calls, TransportGate, ListenerGate, ServerBusy
  <2> QED BY <2>1, <2>2 DEF Shape, gateVars, slotVars, timeVars, pauseVars
<1>9. ASSUME NEW c \in Conns, Serves(c) PROVE Shape'
  <2>1. Placed(conn', done')
    <3>1. CASE LeaveLane(c)
      BY <1>2, <3>1 DEF LeaveLane, Calling
    <3>2. CASE EnterLane(c) \/ BeginMethod(c) \/ WritePaused(c) \/ EndMethod(c)
      BY <3>2 DEF Shape, EnterLane, BeginMethod, WritePaused, EndMethod, Moves, Reading,
                  Calling, InPool
    <3> QED BY <1>9, <3>1, <3>2 DEF Serves
  <2>2. /\ UNCHANGED <<gateVars, loop, handlerSlots, timeVars>>
        /\ generalSlots' \in Nat /\ controlSlots' \in Nat
    <3>1. CASE EnterLane(c)
      BY <3>1 DEF Shape, EnterLane, LaneFree, TakesLane
    <3>2. CASE LeaveLane(c)
      BY <3>2 DEF Shape, LeaveLane, LeavesLane
    <3>3. CASE BeginMethod(c) \/ WritePaused(c) \/ EndMethod(c)
      BY <3>3 DEF Shape, BeginMethod, WritePaused, EndMethod, slotVars
    <3> QED BY <1>9, <3>1, <3>2, <3>3, ServesMoves DEF Serves
  <2>3. paused' \in BOOLEAN /\ active' \subseteq Conns
    BY <1>9 DEF Shape, Serves, EnterLane, BeginMethod, WritePaused, EndMethod, LeaveLane,
                AdmitWrite, RefuseWrite, FinishWrite, pauseVars
  <2> QED BY <2>1, <2>2, <2>3 DEF Shape, gateVars, timeVars
<1>10. ASSUME NEW c \in Conns, Timer(c) PROVE Shape'
  BY <1>10 DEF Shape, Timer, DeadlinePasses, ExpireRequest, Cut, gateVars, slotVars, pauseVars
<1>11. CASE StopAccepting \/ Close
  BY <1>11 DEF Shape, StopAccepting, Close, StopServing, JoinLoop, CloseSocket, CloseReturns,
               Closes, slotVars, timeVars, pauseVars
<1>12. CASE UserPauses
  BY <1>12 DEF Shape, UserPauses, Pause, Resume, gateVars, slotVars, timeVars
<1>13. CASE UNCHANGED vars
  BY <1>13 DEF Shape, vars, gateVars, slotVars, timeVars, pauseVars
<1> QED BY <1>4, <1>5, <1>6, <1>7, <1>8, <1>9, <1>10, <1>11, <1>12, <1>13, Steps

-----------------------------------------------------------------------------
(* Gates.                                                                    *)

\* Every step keeps the gates in order: the accepting thread ends before the pool is drained.
LEMMA GatesKept == Shape /\ GatesOrdered /\ [Next]_vars => GatesOrdered'
<1> SUFFICES ASSUME Shape, GatesOrdered, [Next]_vars PROVE GatesOrdered'
  OBVIOUS
<1> USE ListenerAssumption
<1> USE DEF GatesOrdered, Drained, Moves, InPool
<1>1. CASE UNCHANGED <<conn, loop, close>>
  BY <1>1
<1>2. ASSUME NEW c \in Conns, conn[c] \in InPool, conn'[c] # "handover",
             \A k \in Conns : k # c => conn'[k] = conn[k], UNCHANGED <<loop, close>>
      PROVE  GatesOrdered'
  BY <1>2
<1>3. ASSUME NEW c \in Conns, Admit(c) \/ Refuse(c) PROVE GatesOrdered'
  BY <1>3 DEF Shape, Admit, Refuse, gateVars
<1>4. ASSUME NEW c \in Conns, HandOver(c) PROVE GatesOrdered'
  BY <1>4 DEF Shape, HandOver, gateVars
<1>5. ASSUME NEW c \in Conns, Reconnect(c) PROVE GatesOrdered'
  BY <1>5 DEF Shape, Reconnect, gateVars
<1>6. ASSUME NEW c \in Conns, FinishRequest(c) \/ Reads(c) PROVE GatesOrdered'
  BY <1>2, <1>6 DEF Shape, FinishRequest, Reads, BeginRequest, HeadersRead, HeadersCut,
                    TakeDeadline, BodyRead, ReadFails, BodyLate, gateVars
<1>7. ASSUME NEW c \in Conns, Calls(c) PROVE GatesOrdered'
  BY <1>2, <1>7 DEF Shape, Calls, TransportGate, ListenerGate, ServerBusy, Answers, AfterCall,
                    gateVars
<1>8. ASSUME NEW c \in Conns, Serves(c) PROVE GatesOrdered'
  BY <1>2, <1>8 DEF Shape, Serves, EnterLane, BeginMethod, WritePaused, EndMethod, LeaveLane,
                    Answers, AfterCall, gateVars
<1>9. ASSUME NEW c \in Conns, Timer(c) PROVE GatesOrdered'
  BY <1>1, <1>9 DEF Timer, DeadlinePasses, ExpireRequest, gateVars
<1>10. CASE StopAccepting \/ Close
  BY <1>10 DEF StopAccepting, Close, StopServing, JoinLoop, CloseSocket, CloseReturns, Closes
<1>11. CASE UserPauses \/ UNCHANGED vars
  BY <1>1, <1>11 DEF UserPauses, vars, gateVars
<1> HIDE DEF GatesOrdered
<1> QED BY <1>3, <1>4, <1>5, <1>6, <1>7, <1>8, <1>9, <1>10, <1>11, Steps

-----------------------------------------------------------------------------
(* The tokens of the pause and the table of deadlines.                       *)

\* Every step keeps the pause's tokens and the deadlines with their connections.
LEMMA RegisteredKept == Shape /\ Registered /\ [Next]_vars => Registered'
<1> SUFFICES ASSUME Shape, Registered, [Next]_vars PROVE Registered'
  OBVIOUS
<1> DEFINE RunsWrite(c) == conn[c] = "run" /\ Call(c) = "write"
<1>1. ASSUME NEW c \in Conns, ~RunsWrite(c), ~RunsWrite(c)', UNCHANGED active,
             \A k \in Conns : k # c => conn'[k] = conn[k] /\ done'[k] = done[k],
             deadlines' \subseteq deadlines \union {c},
             c \in deadlines' => conn'[c] \in InPool
      PROVE  Registered'
  <2>1. \A k \in Conns : RunsWrite(k)' <=> RunsWrite(k)
    BY <1>1 DEF Call
  <2>2. active' = {k \in Conns : RunsWrite(k)'}
    BY <1>1, <2>1 DEF Registered
  <2>3. \A k \in deadlines' : k \in Conns /\ conn'[k] \in InPool
    BY <1>1 DEF Registered, Shape
  <2> QED BY <2>2, <2>3 DEF Registered
<1>2. CASE UNCHANGED <<conn, done, active, deadlines>>
  BY <1>2 DEF Registered, Call
<1>3. ASSUME NEW c \in Conns, Admit(c) \/ Refuse(c) \/ HandOver(c) \/ Reconnect(c)
      PROVE  Registered'
  <2>1. UNCHANGED <<active, deadlines>>
    BY <1>3 DEF Admit, Refuse, HandOver, Reconnect, timeVars, pauseVars
  <2>2. /\ conn[c] \in {"offered", "handover", "refused", "closed"}
        /\ conn'[c] # "run" /\ (conn[c] = "handover" => conn'[c] = "queued")
    BY <1>3 DEF Shape, Admit, Refuse, HandOver, Reconnect, Moves
  <2>3. \A k \in Conns : k # c => conn'[k] = conn[k] /\ done'[k] = done[k]
    BY <1>3 DEF Shape, Admit, Refuse, HandOver, Reconnect, Moves
  <2>4. c \notin deadlines \/ conn[c] \in InPool
    BY DEF Registered
  <2> QED BY <1>1, <2>1, <2>2, <2>3, <2>4 DEF InPool
<1>4. ASSUME NEW c \in Conns, FinishRequest(c) \/ Reads(c) PROVE Registered'
  BY <1>1, <1>4 DEF Registered, Shape, FinishRequest, Reads, BeginRequest, HeadersRead,
                    HeadersCut, TakeDeadline, BodyRead, ReadFails, BodyLate, Moves, timeVars,
                    pauseVars, InPool
<1>5. ASSUME NEW c \in Conns, Calls(c) PROVE Registered'
  BY <1>1, <1>5 DEF Registered, Shape, Calls, TransportGate, ListenerGate, ServerBusy, Answers,
                    AfterCall, Moves, timeVars, pauseVars, InPool
<1>6. ASSUME NEW c \in Conns, EnterLane(c) \/ WritePaused(c) \/ LeaveLane(c) PROVE Registered'
  BY <1>1, <1>6 DEF Registered, Shape, EnterLane, WritePaused, RefuseWrite, LeaveLane, Answers,
                    AfterCall, Moves, timeVars, pauseVars, InPool
<1>7. ASSUME NEW c \in Conns, BeginMethod(c) PROVE Registered'
  <2>1. /\ conn[c] = "granted" /\ conn' = [conn EXCEPT ![c] = "run"]
        /\ UNCHANGED <<done, deadlines>>
        /\ active' = IF Call(c) = "write" THEN active \union {c} ELSE active
    BY <1>7 DEF BeginMethod, Moves, AdmitWrite, timeVars, pauseVars
  <2> QED BY <2>1 DEF Registered, Shape, Call, InPool
<1>8. ASSUME NEW c \in Conns, EndMethod(c) PROVE Registered'
  <2>1. /\ conn[c] = "run" /\ conn' = [conn EXCEPT ![c] = "leave"]
        /\ UNCHANGED <<done, deadlines>> /\ active' = active \ {c}
    BY <1>8 DEF EndMethod, Moves, FinishWrite, timeVars
  <2> QED BY <2>1 DEF Registered, Shape, Call, InPool
<1>9. ASSUME NEW c \in Conns, Timer(c) PROVE Registered'
  BY <1>2, <1>9 DEF Timer, DeadlinePasses, ExpireRequest, pauseVars
<1>10. CASE StopAccepting \/ Close \/ UserPauses \/ UNCHANGED vars
  BY <1>2, <1>10 DEF StopAccepting, Close, StopServing, JoinLoop, CloseSocket, CloseReturns,
                     UserPauses, Pause, Resume, timeVars, pauseVars, vars
<1> QED BY <1>3, <1>4, <1>5, <1>6, <1>7, <1>8, <1>9, <1>10, Steps DEF Serves

-----------------------------------------------------------------------------
(* Slots.                                                                    *)

\* A step of one connection adds it to a lane, or takes it from a lane.
LEMMA LaneOfOthers ==
    ASSUME NEW c \in Conns, NEW CONSTANT kinds,
           \A k \in Conns : k # c => conn'[k] = conn[k] /\ done'[k] = done[k]
    PROVE  InLane(kinds)' =
               IF conn'[c] \in HoldsLane /\ Call(c)' \in kinds
               THEN InLane(kinds) \union {c} ELSE InLane(kinds) \ {c}
  BY DEF InLane, Call

\* A step outside the lanes leaves their holders alone.
LEMMA LanesKept ==
    ASSUME NEW c \in Conns, SlotsHeld, UNCHANGED <<generalSlots, controlSlots>>,
           \A k \in Conns : k # c => conn'[k] = conn[k] /\ done'[k] = done[k],
           conn[c] \in HoldsLane <=> conn'[c] \in HoldsLane,
           conn[c] \in HoldsLane => UNCHANGED done
    PROVE  UNCHANGED <<InLane({"control"}), InLane({"read", "write"})>>
  BY DEF InLane, Call

\* A step within the pool leaves the holders of handler slots alone.
LEMMA PoolKept ==
    ASSUME NEW c \in Conns,
           \A k \in Conns : k # c => conn'[k] = conn[k],
           conn[c] \in InPool \union {"handover"} <=> conn'[c] \in InPool \union {"handover"}
    PROVE  UNCHANGED HoldsSlot
  BY DEF HoldsSlot

\* Every step keeps slots and holders adding up.
LEMMA SlotsKept == Shape /\ SlotsHeld /\ [Next]_vars => SlotsHeld'
<1> SUFFICES ASSUME Shape, SlotsHeld, [Next]_vars PROVE SlotsHeld'
  OBVIOUS
<1> DEFINE control == InLane({"control"})
           general == InLane({"read", "write"})
<1>0. /\ handlerSlots \in Nat /\ generalSlots \in Nat /\ controlSlots \in Nat
      /\ IsFiniteSet(HoldsSlot) /\ Cardinality(HoldsSlot) \in Nat
      /\ IsFiniteSet(control) /\ Cardinality(control) \in Nat
      /\ IsFiniteSet(general) /\ Cardinality(general) \in Nat
      /\ handlerSlots + Cardinality(HoldsSlot) = HandlerSlots
      /\ controlSlots + Cardinality(control) = ControlSlots
      /\ generalSlots + Cardinality(general) = GeneralSlots
  BY FS_CardinalityType DEF Shape, SlotsHeld, SlotsAccounted
<1>1. CASE UNCHANGED <<slotVars, conn, done>>
  <2>1. UNCHANGED <<HoldsSlot, control, general>>
    BY <1>1 DEF HoldsSlot, InLane, Call
  <2> QED BY <1>1, <2>1 DEF SlotsHeld, SlotsAccounted, slotVars
<1>2. ASSUME NEW c \in Conns, UNCHANGED slotVars,
             \A k \in Conns : k # c => conn'[k] = conn[k] /\ done'[k] = done[k],
             conn[c] \in InPool \union {"handover"} <=> conn'[c] \in InPool \union {"handover"},
             conn[c] \in HoldsLane <=> conn'[c] \in HoldsLane,
             conn[c] \in HoldsLane => UNCHANGED done
      PROVE  SlotsHeld'
  <2>1. UNCHANGED <<generalSlots, controlSlots, handlerSlots>>
    BY <1>2 DEF slotVars
  <2>2. UNCHANGED <<control, general>>
    BY <1>2, <2>1, LanesKept
  <2>3. UNCHANGED HoldsSlot
    BY <1>2, PoolKept
  <2> QED BY <2>1, <2>2, <2>3 DEF SlotsHeld, SlotsAccounted
<1>3. ASSUME NEW c \in Conns, Admit(c) PROVE SlotsHeld'
  <2>1. /\ conn[c] = "offered" /\ conn' = [conn EXCEPT ![c] = "handover"]
        /\ handlerSlots' = handlerSlots - 1 /\ UNCHANGED <<generalSlots, controlSlots, done>>
    BY <1>3 DEF Admit, Moves
  <2>2. UNCHANGED <<control, general>>
    BY <2>1, LanesKept DEF Shape, HoldsLane
  <2>3. HoldsSlot' = HoldsSlot \union {c} /\ c \notin HoldsSlot
    BY <2>1 DEF Shape, HoldsSlot, InPool
  <2>4. IsFiniteSet(HoldsSlot') /\ Cardinality(HoldsSlot') = Cardinality(HoldsSlot) + 1
    BY <1>0, <2>3, FS_AddElement
  <2> QED BY <1>0, <2>1, <2>2, <2>4 DEF SlotsHeld, SlotsAccounted
<1>4. ASSUME NEW c \in Conns, FinishRequest(c) PROVE SlotsHeld'
  <2>1. /\ conn[c] = "finish" /\ conn' = [conn EXCEPT ![c] = "closed"]
        /\ handlerSlots' = handlerSlots + 1 /\ UNCHANGED <<generalSlots, controlSlots, done>>
    BY <1>4 DEF FinishRequest, ReleaseSlot, Moves
  <2>2. UNCHANGED <<control, general>>
    BY <2>1, LanesKept DEF Shape, HoldsLane
  <2>3. HoldsSlot' = HoldsSlot \ {c} /\ c \in HoldsSlot
    BY <2>1 DEF Shape, HoldsSlot, InPool
  <2>4. IsFiniteSet(HoldsSlot') /\ Cardinality(HoldsSlot') = Cardinality(HoldsSlot) - 1
    BY <1>0, <2>3, FS_RemoveElement
  <2> QED BY <1>0, <2>1, <2>2, <2>4 DEF SlotsHeld, SlotsAccounted
<1>5. ASSUME NEW c \in Conns, Refuse(c) \/ HandOver(c) \/ Reconnect(c) PROVE SlotsHeld'
  BY <1>2, <1>5 DEF Shape, Refuse, HandOver, Reconnect, Moves, InPool, HoldsLane
<1>6. ASSUME NEW c \in Conns, Reads(c) PROVE SlotsHeld'
  BY <1>2, <1>6 DEF Shape, Reads, BeginRequest, HeadersRead, HeadersCut, TakeDeadline,
                    BodyRead, ReadFails, BodyLate, Moves, InPool, HoldsLane
<1>7. ASSUME NEW c \in Conns, Calls(c) PROVE SlotsHeld'
  BY <1>2, <1>7 DEF Shape, Calls, TransportGate, ListenerGate, ServerBusy, Answers, AfterCall,
                    Moves, InPool, HoldsLane
<1>8. ASSUME NEW c \in Conns, BeginMethod(c) \/ WritePaused(c) \/ EndMethod(c)
      PROVE  SlotsHeld'
  BY <1>2, <1>8 DEF Shape, BeginMethod, WritePaused, EndMethod, Moves, InPool, HoldsLane
<1>9. ASSUME NEW c \in Conns, EnterLane(c) PROVE SlotsHeld'
  <2>1. /\ conn[c] = "lane" /\ conn' = [conn EXCEPT ![c] = "granted"]
        /\ UNCHANGED <<done, handlerSlots>> /\ TakesLane(c)
    BY <1>9 DEF EnterLane, Moves
  <2>2. UNCHANGED HoldsSlot
    BY <2>1, PoolKept DEF Shape, InPool
  <2>3. c \notin control /\ c \notin general
    BY <2>1 DEF InLane, HoldsLane
  <2>4. conn'[c] \in HoldsLane /\ UNCHANGED Call(c)
        /\ \A k \in Conns : k # c => conn'[k] = conn[k] /\ done'[k] = done[k]
    BY <2>1 DEF Shape, HoldsLane, Call
  <2>5. /\ control' = IF Call(c) = "control" THEN control \union {c} ELSE control
        /\ general' = IF Call(c) \in {"read", "write"} THEN general \union {c} ELSE general
    BY SMTT(30), <2>3, <2>4, LaneOfOthers
  <2>6. Call(c) \in Kinds
    BY <2>1, CallKind DEF Calling
  <2>7. CASE Call(c) = "control"
    <3>1. /\ control' = control \union {c} /\ UNCHANGED <<general, generalSlots>>
          /\ controlSlots' = controlSlots - 1
      BY <2>1, <2>5, <2>7 DEF TakesLane
    <3>2. IsFiniteSet(control') /\ Cardinality(control') = Cardinality(control) + 1
      BY <1>0, <2>3, <3>1, FS_AddElement
    <3> QED BY <1>0, <2>1, <2>2, <3>1, <3>2 DEF SlotsHeld, SlotsAccounted
  <2>8. CASE Call(c) # "control"
    <3>1. /\ general' = general \union {c} /\ UNCHANGED <<control, controlSlots>>
          /\ generalSlots' = generalSlots - 1
      BY <2>1, <2>5, <2>6, <2>8 DEF TakesLane, Kinds
    <3>2. IsFiniteSet(general') /\ Cardinality(general') = Cardinality(general) + 1
      BY <1>0, <2>3, <3>1, FS_AddElement
    <3> QED BY <1>0, <2>1, <2>2, <3>1, <3>2 DEF SlotsHeld, SlotsAccounted
  <2> QED BY <2>7, <2>8
<1>10. ASSUME NEW c \in Conns, LeaveLane(c) PROVE SlotsHeld'
  <2>1. /\ conn[c] = "leave" /\ conn' = [conn EXCEPT ![c] = AfterCall(c)]
        /\ done' = [done EXCEPT ![c] = @ + 1]
        /\ UNCHANGED handlerSlots /\ LeavesLane(c) /\ AfterCall(c) \in {"finish", "call"}
    BY <1>10 DEF LeaveLane, Answers, AfterCall, Moves
  <2>2. UNCHANGED HoldsSlot
    BY <2>1, PoolKept DEF Shape, InPool
  <2>3. /\ c \in control <=> Call(c) = "control"
        /\ c \in general <=> Call(c) \in {"read", "write"}
    BY <2>1 DEF InLane, HoldsLane
  <2>4. conn'[c] \notin HoldsLane
        /\ \A k \in Conns : k # c => conn'[k] = conn[k] /\ done'[k] = done[k]
    BY <2>1 DEF Shape, HoldsLane
  <2>5. control' = control \ {c} /\ general' = general \ {c}
    BY <2>4, LaneOfOthers
  <2>6. Call(c) \in Kinds
    BY <2>1, CallKind DEF Calling
  <2>7. CASE Call(c) = "control"
    <3>1. /\ c \in control /\ c \notin general
          /\ controlSlots' = controlSlots + 1 /\ UNCHANGED generalSlots
      BY <2>1, <2>3, <2>7 DEF LeavesLane
    <3>2. IsFiniteSet(control') /\ Cardinality(control') = Cardinality(control) - 1
      BY <1>0, <2>5, <3>1, FS_RemoveElement
    <3>3. general' = general
      BY <2>5, <3>1
    <3> QED BY <1>0, <2>1, <2>2, <3>1, <3>2, <3>3 DEF SlotsHeld, SlotsAccounted
  <2>8. CASE Call(c) # "control"
    <3>1. /\ c \in general /\ c \notin control
          /\ generalSlots' = generalSlots + 1 /\ UNCHANGED controlSlots
      BY <2>1, <2>3, <2>6, <2>8 DEF LeavesLane, Kinds
    <3>2. IsFiniteSet(general') /\ Cardinality(general') = Cardinality(general) - 1
      BY <1>0, <2>5, <3>1, FS_RemoveElement
    <3>3. control' = control
      BY <2>5, <3>1
    <3> QED BY <1>0, <2>1, <2>2, <3>1, <3>2, <3>3 DEF SlotsHeld, SlotsAccounted
  <2> QED BY <2>7, <2>8
<1>11. ASSUME NEW c \in Conns, Timer(c) PROVE SlotsHeld'
  BY <1>1, <1>11 DEF Timer, DeadlinePasses, ExpireRequest
<1>12. CASE StopAccepting \/ Close \/ UserPauses \/ UNCHANGED vars
  BY <1>1, <1>12 DEF StopAccepting, Close, StopServing, JoinLoop, CloseSocket, CloseReturns,
                     UserPauses, vars
<1> QED BY <1>3, <1>4, <1>5, <1>6, <1>7, <1>8, <1>9, <1>10, <1>11, <1>12, Steps DEF Serves

-----------------------------------------------------------------------------
(* The theorems.                                                             *)

\* The inductive invariant holds at first.
LEMMA InitInvariant == Init => IInv
<1> SUFFICES ASSUME Init PROVE IInv
  OBVIOUS
<1>1. \A c \in Conns : conn[c] = "offered"
  BY DEF Init
<1>2. GatesOrdered /\ Registered
  BY <1>1, ListenerAssumption DEF Init, PauseInit, GatesOrdered, Registered
<1>3. HoldsSlot = {} /\ InLane({"control"}) = {} /\ InLane({"read", "write"}) = {}
  BY <1>1 DEF HoldsSlot, InLane, InPool, HoldsLane
<1>4. SlotsHeld
  <2>1. /\ Cardinality(HoldsSlot) = 0 /\ Cardinality(InLane({"control"})) = 0
        /\ Cardinality(InLane({"read", "write"})) = 0
        /\ IsFiniteSet(HoldsSlot) /\ IsFiniteSet(InLane({"control"}))
        /\ IsFiniteSet(InLane({"read", "write"}))
    BY <1>3, FS_EmptySet
  <2> QED BY <2>1, ListenerAssumption DEF Init, SlotsHeld, SlotsAccounted
<1> QED BY InitShape, <1>2, <1>4 DEF IInv

\* IInv holds in every reachable state: whatever path a connection takes, its
\* slots, its token and its deadline go with it.
THEOREM InductiveInvariant == Spec => []IInv
<1>1. IInv /\ [Next]_vars => IInv'
  BY ShapeKept, GatesKept, RegisteredKept, SlotsKept DEF IInv
<1> QED BY InitInvariant, <1>1, PTL DEF Spec

\* Every slot of the pool and of the lanes that is taken has a holder.
THEOREM SlotsAccountedHolds == Spec => []SlotsAccounted
<1>1. IInv => SlotsAccounted
  BY DEF IInv, SlotsHeld
<1> QED BY InductiveInvariant, <1>1, PTL

\* The type invariant; no slot is given back that was not taken.
THEOREM TypeCorrect == Spec => []TypeOK
<1>1. IInv => TypeOK
  <2> SUFFICES ASSUME IInv PROVE TypeOK
    OBVIOUS
  <2>1. /\ handlerSlots \in 0..HandlerSlots /\ generalSlots \in 0..GeneralSlots
        /\ controlSlots \in 0..ControlSlots
    <3>1. /\ Cardinality(HoldsSlot) \in Nat /\ Cardinality(InLane({"control"})) \in Nat
          /\ Cardinality(InLane({"read", "write"})) \in Nat
      BY FS_CardinalityType DEF IInv, SlotsHeld
    <3> QED BY <3>1, ListenerAssumption DEF IInv, Shape, SlotsHeld, SlotsAccounted
  <2>2. \A c \in Conns : done[c] \in 0..Len(callsOf[c])
    BY ListenerAssumption, LenProperties DEF IInv, Shape
  <2> QED BY <2>1, <2>2 DEF IInv, Shape, TypeOK
<1> QED BY InductiveInvariant, <1>1, PTL

\* When server_close has returned, nothing of a request is left.
THEOREM NothingAfterCloseHolds == Spec => []NothingAfterClose
<1>1. IInv => NothingAfterClose
  <2> SUFFICES ASSUME IInv, close = "closed" PROVE NothingAfterClose
    BY DEF NothingAfterClose
  <2>1. \A c \in Conns : conn[c] \notin InPool /\ conn[c] # "handover"
    BY ListenerAssumption DEF IInv, GatesOrdered, Drained
  <2>2. \A c \in Conns : conn[c] \in Outside
    BY <2>1 DEF IInv, Shape
  <2>3. active = {} /\ deadlines = {}
    BY <2>1 DEF IInv, Shape, Registered, InPool
  <2> QED BY <2>2, <2>3 DEF NothingAfterClose
<1> QED BY InductiveInvariant, <1>1, PTL

\* While the user is shown a pause with nothing to wait for, no handler is
\* inside a remote write.
THEOREM PauseIsHonestHolds == Spec => []PauseIsHonest
<1>1. IInv => PauseIsHonest
  BY DEF IInv, Registered, PauseIsHonest, PauseAfterCurrent
<1> QED BY InductiveInvariant, <1>1, PTL
=============================================================================
