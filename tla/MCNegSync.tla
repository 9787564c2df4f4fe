------------------------------- MODULE MCNegSync ------------------------------
(* Two zones with a node each; two endpoints in one zone, one in the other. *)
EXTENDS NegSync, TLC

CONSTANTS z1, z2, n1, n2, e1, e2, e3

MCZoneOf == n1 :> z1 @@ n2 :> z2
MCNodeOf == [e \in Endpoints |-> IF e = e3 THEN n2 ELSE n1]
=============================================================================
