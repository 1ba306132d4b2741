------------------------- MODULE MCTransportListener -------------------------
(* Three clients on two handler slots, one for each lane.                   *)
EXTENDS TransportListener

CONSTANTS c1, c2, c3

Batches == [c \in Conns |->
    CASE c = c1 -> <<"write">>
      [] c = c2 -> <<"read">>
      [] c = c3 -> <<"control", "write">>]
=============================================================================
