------------------------- MODULE MCRequestLifecycle -------------------------
(* Instances of RequestLifecycle: the first call and a retry, over one      *)
(* session or over a session and its refreshed successor.                   *)
EXTENDS RequestLifecycle

CONSTANTS s1, s2, first, retry, c1, c2, p1

SameSession == [h \in Handlers |-> s1]
RetryRefreshed == [h \in Handlers |-> IF h = retry THEN s2 ELSE s1]
CancelFirst == [c \in Cancellers |-> s1]
PollFirst == [p \in Pollers |-> s1]
OnePhase == [h \in Handlers |-> 1]
TwoThenOne == [h \in Handlers |-> IF h = first THEN 2 ELSE 1]
PollRefreshed == [p \in Pollers |-> s2]
=============================================================================
