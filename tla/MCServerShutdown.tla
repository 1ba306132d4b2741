-------------------------- MODULE MCServerShutdown --------------------------
(* Instances of ServerShutdown.                                             *)
EXTENDS ServerShutdown

CONSTANTS n1, n2, t1, g1
=============================================================================
