--------------------------- MODULE MCGuiDispatch ---------------------------
(* Small instances of GuiDispatch.  The requests are model values; which    *)
(* documents and owner key each one carries is fixed here.                  *)
EXTENDS GuiDispatch, TLC

CONSTANTS r1, r2, r3, r4, d1, k1, k2

\* Every request mutates one document.
SameDocument == [r \in Requests |-> {d1}]

\* One client session; r2 reuses the request id of r1.
SharedOwner == [r \in Requests |-> IF r \in {r1, r2} THEN k1 ELSE NULL]

\* Two mutations of d1 around a request that names no document.
Around == (r1 :> {d1} @@ r2 :> {} @@ r3 :> {d1})
SwapMutations == Permutations({r1, r3})

\* Three mutations of d1 and a request that names no document.
Interleaved == (r1 :> {d1} @@ r2 :> {d1} @@ r3 :> {} @@ r4 :> {d1})

NoOwners == [r \in Requests |-> NULL]

\* Each request of its own session.
OwnOwner == (r1 :> k1 @@ r2 :> k2)

\* The four requests arrive in this order before the GUI thread takes the first.
Burst == <<r1, r2, r3, r4>>
InBurst ==
    /\ arrived = SubSeq(Burst, 1, Len(arrived))
    /\ arrived # Burst => gui = "idle"
BurstSpec == Init /\ [][Next /\ InBurst']_vars
=============================================================================
