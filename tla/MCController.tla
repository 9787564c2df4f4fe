---------------------------- MODULE MCController ----------------------------
\* Instances of Controller for TLC.
EXTENDS Controller, TLC

CONSTANTS p1, p2

MCIngress ==
    ("i1" :> {[class |-> "gce", ports |-> {p1}], [class |-> "gce", ports |-> {p2}],
              [class |-> "other", ports |-> {p1}]})
    @@ ("i2" :> {[class |-> "gce", ports |-> {p1}], [class |-> "multi", ports |-> {p2}]})
MCInitials ==
    {("i1" :> [class |-> "gce", ports |-> {p1}]) @@ ("i2" :> i2) :
        i2 \in {None, [class |-> "multi", ports |-> {p2}]}}
MCSituations == {[xpn |-> FALSE, broken |-> {"i2"}], [xpn |-> TRUE, broken |-> {}]}
=============================================================================
