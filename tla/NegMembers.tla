------------------------------ MODULE NegMembers ------------------------------
(***************************************************************************)
(* What a syncer promises about the endpoints of its NEG, one per zone.    *)
(* It works for a plan, the endpoints it read from the Endpoints object,   *)
(* and moves the NEGs towards it and never away from it: it attaches only  *)
(* endpoints of the plan, in the zone they live in, and detaches only      *)
(* others.  A NEG that is deleted loses its endpoints.                     *)
(***************************************************************************)
CONSTANTS Zones, Endpoints, Home

VARIABLES plan, members

\* The endpoints of the plan that live in a zone.
Local(z) == {e \in plan : Home[e] = z}

Init ==
    /\ plan = {}
    /\ members \in [Zones -> SUBSET Endpoints]

Plan ==
    /\ plan' \in SUBSET Endpoints
    /\ UNCHANGED members

Attach(z) ==
    /\ \E batch \in SUBSET Local(z) :
           members' = [members EXCEPT ![z] = @ \cup batch]
    /\ UNCHANGED plan

Detach(z) ==
    /\ \E batch \in SUBSET (Endpoints \ Local(z)) :
           members' = [members EXCEPT ![z] = @ \ batch]
    /\ UNCHANGED plan

Lose(z) ==
    /\ members' = [members EXCEPT ![z] = {}]
    /\ UNCHANGED plan

Next == Plan \/ \E z \in Zones : Attach(z) \/ Detach(z) \/ Lose(z)

Spec == Init /\ [][Next]_<<plan, members>>
=============================================================================
