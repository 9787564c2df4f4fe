--------------------------------- MODULE MCL7 ---------------------------------
\* Instances of L7 for TLC.
EXTENDS L7, TLC

CONSTANTS c1, c2, u, i1, i2, i3

MCContents == {c1, c2, u}
MCEphemeralIPs == {i1, i2, i3}
Symmetry == Permutations({i1, i2, i3}) \cup Permutations({c1, c2})

\* Every ingress with one set of rules.
AnyInfos == [http : BOOLEAN, tls : {"none", "preshared", c1, c2},
             static : BOOLEAN, rules : {"r1"}]

\* For liveness as well: every address and protocol with one certificate, the other
\* kinds of certificate with one address, and other rules with one of them.
PlainInfos == {i \in [http : BOOLEAN, tls : {"none", c1}, static : BOOLEAN, rules : {"r1"}] :
                  i.http \/ i.tls # "none"}
CertInfos == [http : {TRUE}, tls : {"preshared", c2}, static : {FALSE}, rules : {"r1"}]
RulesInfos == [http : {TRUE}, tls : {c1}, static : {FALSE}, rules : {"r2"}]
LiveInfos == PlainInfos \cup CertInfos \cup RulesInfos
===============================================================================
