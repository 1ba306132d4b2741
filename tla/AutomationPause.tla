--------------------------- MODULE AutomationPause ---------------------------
(* The local user's pause of remote writes (automation_pause.py).  Every    *)
(* operation is one critical section; `active` holds the admission tokens.  *)
VARIABLES
    paused,   \* _paused
    active    \* _active

pauseVars == <<paused, active>>

PauseInit == paused = FALSE /\ active = {}

\* Mutation: the write begins without being recorded.
AdmitUnrecorded(w) == ~paused /\ UNCHANGED pauseVars

AdmitWrite(w) == ~paused /\ active' = active \union {w} /\ UNCHANGED paused
RefuseWrite(w) == paused /\ UNCHANGED pauseVars
FinishWrite(w) == active' = active \ {w} /\ UNCHANGED paused

Pause == ~paused /\ paused' = TRUE /\ UNCHANGED active
Resume == paused /\ paused' = FALSE /\ UNCHANGED active

\* status: what the user is shown of a pause that waits for current writes.
PauseAfterCurrent == paused /\ active # {}
=============================================================================
