--------------------------- MODULE MCInstanceGroups ---------------------------
EXTENDS InstanceGroups, TLC
CONSTANTS n1, n2, z1, z2

\* A node in each of two zones.
TwoNodes == n1 :> z1 @@ n2 :> z2

\* The nodes are interchangeable: it does not matter which one is there first.
OneOrBoth == {{n1}, {n1, n2}}
===============================================================================
