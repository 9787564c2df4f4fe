----------------------------- MODULE MCNegManager -----------------------------
(***************************************************************************)
(* Instances of NegManager for TLC.                                        *)
(***************************************************************************)
EXTENDS NegManager, TLC

\* Ports, services and object identities are interchangeable (safety only).
Symmetry ==
    Permutations(Services) \cup Permutations(Ports) \cup Permutations(Generations)
=============================================================================
