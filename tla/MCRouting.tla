------------------------------ MODULE MCRouting ------------------------------
\* Instances of Routing, and with it of L7, for TLC.
EXTENDS Routing, MCL7, SequencesExt

\* Inputs of the translator: two services by number and by name, two hosts and
\* two paths, up to two rules of up to two paths.

MCReferences == {[svc |-> "a", by |-> "port", port |-> 80], [svc |-> "b", by |-> "name", port |-> "web"]}
MCTargets == [by : {"port"}, port : {8080, 8081}] \cup [by : {"name"}, port : {"http"}]

MCRules == [host : {"", "h"},
            paths : {NoHTTP} \cup BoundedSeq([path : {"", "/a"}, be : MCReferences], 2)]
MCIngresses == [class : {"gce"}, backend : MCReferences \cup {Missing}, rules : BoundedSeq(MCRules, 2)]

Port(name, port, nodePort) ==
    [name |-> name, port |-> port, nodePort |-> nodePort, target |-> [by |-> "port", port |-> 8080]]
MCServices ==
    ("a" :> {Missing, [ports |-> <<Port("web", 80, 30001)>>, protos |-> TRUE, neg |-> FALSE],
             [ports |-> <<Port("web", 80, 30001)>>, protos |-> FALSE, neg |-> FALSE]})
    @@ ("b" :> {Missing, [ports |-> <<Port("web", 80, 30002)>>, protos |-> TRUE, neg |-> TRUE],
                [ports |-> <<Port("old", 81, 30003), Port("web", 82, 30004)>>, protos |-> TRUE,
                 neg |-> FALSE]})
MCEndpoints == BoundedSeq(BoundedSeq([name : {"http", "x"}, port : {8080, 8081}, tcp : BOOLEAN], 2), 2)
=============================================================================
