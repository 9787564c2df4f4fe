------------------------------- MODULE L7Proofs -------------------------------
(***************************************************************************)
(* What a sync of a load balancer has achieved when it reports success,    *)
(* for any certificates, addresses, rules and faults; and that the url map *)
(* it is given is right, for any services, ingresses and requests.         *)
(***************************************************************************)
EXTENDS Routing, WellFoundedInduction, TLAPS

Memories == [um : {"map", None}, tp : {"proxy", None}, tps : {"proxy", None},
             fw : IPs \cup {None}, fws : IPs \cup {None}, ip : EphemeralIPs \cup {None},
             cert : CertNames \cup {None}, old : CertNames \cup {None}]

Clouds == [um : Rules \cup {DefaultRules, None}, tp : {"proxy", None},
           tps : CertNames \cup {None}, fw : IPs \cup {None},
           fws : IPs \cup {None}, ip : EphemeralIPs \cup {None},
           certs : [CertNames -> Contents \cup {None}]]

Locations == {"idle", "urlmap", "proxy", "fw", "ip", "cert", "https", "fws", "old", "rules",
              "cleanup"}

\* The types, with names for those of the memory and of the cloud.
Types ==
    /\ ing \in Infos \cup {None} /\ ri \in Infos \cup {None}
    /\ l7 \in Memories /\ gce \in Clouds
    /\ pooled \in BOOLEAN /\ failed \in BOOLEAN /\ pc \in Locations
    /\ changes \in 0..MaxChanges /\ faults \in 0..MaxFaults /\ crashes \in 0..MaxCrashes

\* That says the same.
LEMMA TypesAre == TypeOK <=> Types
BY DEF TypeOK, Types, Memories, Clouds, Locations

\* Of the next state.
LEMMA TypesWillBe == TypeOK' <=> Types'
BY DEF TypeOK, Types, Memories, Clouds, Locations

\* The steps after which a check is known to have been made.
AfterFws == {"old"}
AfterHttps == {"fws", "old"}
AfterCert == {"https", "fws", "old"}
AfterFw == {"ip", "cert", "https", "fws", "old", "rules"}
AfterProxy == AfterFw \cup {"fw"}
AfterUrlMap == AfterProxy \cup {"proxy"}
AfterSync == AfterUrlMap \cup {"urlmap"}

\* What the HTTPS proxy is to serve.
Content(info) == IF info.tls = "preshared" THEN UserContent ELSE info.tls

\* The step tells which protocol the ingress asks for, and that nothing has failed.
ControlInv ==
    /\ pc \in AfterSync => ri \in Infos
    /\ pc # "rules" => failed = FALSE
    /\ pc \in {"proxy", "fw", "ip"} => ri.http
    /\ pc \in {"ip", "cert"} \cup AfterCert => ri.tls # "none"

\* The checks that are behind have left a chain of resources.
Chain(p, info, memory, cloud) ==
    LET https == p = "rules" /\ info.tls # "none"
    IN /\ p \in AfterUrlMap => cloud.um # None
       /\ p \in AfterProxy /\ info.http => cloud.tp # None
       /\ p \in AfterFw /\ info.http => cloud.fw # None
       /\ p = "ip" => memory.fw # None
       /\ p \in AfterCert \/ https =>
             memory.cert # None /\ cloud.certs[memory.cert] = Content(info)
       /\ p \in AfterHttps \/ https => cloud.tps = memory.cert
       /\ p \in AfterFws \/ https => cloud.fws # None

\* The following checks do not disturb it; the user's certificate is never replaced
\* by another.
ChainInv ==
    /\ gce.certs["user"] \in {UserContent, None}
    /\ failed = FALSE => Chain(pc, ri, l7, gce)

IInv == TypeOK /\ ControlInv /\ ChainInv

-----------------------------------------------------------------------------
\* What the ingress may ask for.
LEMMA InfoType ==
    ASSUME NEW info \in Infos
    PROVE  info # None /\ info.http \in BOOLEAN /\ info.static \in BOOLEAN /\ info.rules \in Rules
             /\ info.tls \in Contents \cup {"none", "preshared"}
BY ConstantsAssumption DEF RuntimeInfo

\* The initial states satisfy the invariant.
LEMMA InitInv == Init => IInv
<1>. SUFFICES ASSUME Init PROVE IInv
  OBVIOUS
<1>1. l7 \in Memories
  BY DEF Init, NoL7, Memories
<1>2. gce \in Clouds
  <2>. DEFINE certs == [n \in CertNames |-> IF n = "user" THEN UserContent ELSE None]
  <2>1. certs \in [CertNames -> Contents \cup {None}]
    BY ConstantsAssumption
  <2>2. gce = [um |-> None, tp |-> None, tps |-> None, fw |-> None, fws |-> None,
               ip |-> None, certs |-> certs]
    BY DEF Init
  <2>. HIDE DEF certs
  <2>. QED
    BY <2>1, <2>2 DEF Clouds
<1>3. TypeOK
  <2>1. /\ ing \in Infos \cup {None} /\ ri = None /\ pooled = FALSE /\ pc = "idle"
        /\ failed = FALSE /\ changes = 0 /\ faults = 0 /\ crashes = 0
    BY DEF Init
  <2>2. changes \in 0..MaxChanges /\ faults \in 0..MaxFaults /\ crashes \in 0..MaxCrashes
    BY <2>1, ConstantsAssumption
  <2>. QED
    BY <1>1, <1>2, <2>1, <2>2, Zenon DEF TypeOK, Memories, Clouds
<1>4. ControlInv
  BY DEF Init, ControlInv, AfterSync, AfterUrlMap, AfterProxy, AfterFw, AfterCert
<1>5. ChainInv
  <2>1. gce.certs = [n \in CertNames |-> IF n = "user" THEN UserContent ELSE None]
    BY DEF Init
  <2>2. gce.certs["user"] = UserContent
    BY <2>1 DEF CertNames
  <2>3. Chain("idle", ri, l7, gce)
    BY DEF Chain, AfterUrlMap, AfterProxy, AfterFw, AfterCert, AfterHttps, AfterFws
  <2>. QED
    BY <2>2, <2>3 DEF Init, ChainInv
<1>. QED
  BY <1>3, <1>4, <1>5 DEF IInv

\* A failed call is counted, up to the bound.
LEMMA CallFailsType == ASSUME TypeOK, CallFails PROVE faults' \in 0..MaxFaults
BY ConstantsAssumption DEF TypeOK, CallFails

\* A check that fails goes on with the url map.
LEMMA FailInv ==
    ASSUME IInv, NEW memory \in Memories, NEW cloud \in Clouds, Fail(memory, cloud),
           pc \in AfterSync, cloud.certs["user"] \in {UserContent, None},
           faults' \in 0..MaxFaults, UNCHANGED <<ing, ri, pooled, changes, crashes>>
    PROVE  IInv'
<1>1. TypeOK'
  BY DEF IInv, Fail, TypeOK, Memories, Clouds
<1>2. ControlInv'
  BY DEF IInv, Fail, ControlInv, AfterCert, AfterSync
<1>3. ChainInv'
  BY DEF Fail, ChainInv
<1>. QED
  BY <1>1, <1>2, <1>3 DEF IInv

\* The order of the checks, and what their order says about the ingress.
LEMMA FollowingType ==
    ASSUME IInv, pc \in AfterSync \ {"rules"}
    PROVE  /\ Following \in AfterUrlMap
           /\ Following \in {"proxy", "fw", "ip"} => ri.http
           /\ Following \in {"ip", "cert"} \cup AfterCert => ri.tls # "none"
           /\ Following \in Locations
BY DEF IInv, ControlInv, Following, WantsHttps, AfterSync, AfterUrlMap, AfterProxy, AfterFw, AfterCert,
       Locations

\* A check that succeeds goes on with the next one.
LEMMA DoneInv ==
    ASSUME IInv, NEW memory \in Memories, NEW cloud \in Clouds, Done(memory, cloud),
           pc \in AfterSync \ {"rules"}, cloud.certs["user"] \in {UserContent, None},
           Chain(Following, ri, memory, cloud),
           faults' \in 0..MaxFaults, UNCHANGED <<ing, ri, pooled, changes, crashes>>
    PROVE  IInv'
<1>1. TypeOK'
  BY FollowingType DEF IInv, Done, TypeOK, Memories, Clouds, Locations
<1>2. ControlInv'
  <2>1. failed = FALSE /\ ri \in Infos
    BY DEF IInv, ControlInv, AfterSync
  <2>2. failed' = FALSE /\ pc' = Following /\ ri' = ri
    BY <2>1 DEF Done
  <2>. QED
    BY <2>1, <2>2, FollowingType DEF ControlInv
<1>3. ChainInv'
  BY DEF Done, ChainInv
<1>. QED
  BY <1>1, <1>2, <1>3 DEF IInv

\* Both outcomes of a check.
LEMMA FaultInv ==
    ASSUME IInv, NEW memory \in Memories, NEW clouds \in SUBSET Clouds, Fault(memory, clouds),
           pc \in AfterSync, \A c \in clouds : c.certs["user"] \in {UserContent, None},
           UNCHANGED <<ing, ri, pooled, changes, crashes>>
    PROVE  IInv'
<1>1. PICK cloud \in clouds : Fail(memory, cloud)
  BY DEF Fault
<1>2. faults' \in 0..MaxFaults
  BY CallFailsType DEF Fault, IInv
<1>. QED
  BY <1>1, <1>2, FailInv

\* What every check starts from.
LEMMA CheckBegins ==
    ASSUME IInv, pc \in AfterSync \ {"rules"}
    PROVE  /\ l7 \in Memories /\ gce \in Clouds /\ ri \in Infos /\ faults \in 0..MaxFaults
           /\ Chain(pc, ri, l7, gce) /\ gce.certs["user"] \in {UserContent, None}
BY DEF IInv, TypeOK, Memories, Clouds, ControlInv, ChainInv

-----------------------------------------------------------------------------
\* checkUrlMap and checkProxy.
LEMMA CheckUrlMapInv == ASSUME IInv, CheckUrlMap \/ CheckProxy PROVE IInv'
<1>. USE DEF AfterSync, AfterUrlMap, AfterProxy, AfterFw
<1>1. CASE CheckUrlMap
  <2>. DEFINE made == IF gce.um = None THEN [gce EXCEPT !.um = DefaultRules] ELSE gce
              memory == [l7 EXCEPT !.um = "map"]
  <2>1. pc = "urlmap" /\ UNCHANGED <<ing, ri, pooled, changes, crashes>>
    BY <1>1 DEF CheckUrlMap
  <2>2. /\ l7 \in Memories /\ gce \in Clouds /\ ri \in Infos /\ faults \in 0..MaxFaults
        /\ gce.certs["user"] \in {UserContent, None}
    BY <2>1, CheckBegins
  <2>3. /\ made \in Clouds /\ made.um # None /\ made.certs = gce.certs
        /\ memory \in Memories
    BY <2>2, ConstantsAssumption DEF Clouds, Memories
  <2>4. \/ Done(memory, made) /\ UNCHANGED faults
        \/ Fault(l7, {gce, made})
    BY <1>1, Zenon DEF CheckUrlMap
  <2>. HIDE DEF made, memory
  <2>5. CASE Done(memory, made) /\ UNCHANGED faults
    <3>1. Chain(Following, ri, memory, made)
      BY <2>1, <2>3 DEF Chain, Following, WantsHttps, AfterCert, AfterHttps, AfterFws
    <3>. QED
      BY <2>1, <2>2, <2>3, <2>5, <3>1, DoneInv
  <2>6. CASE Fault(l7, {gce, made})
    BY <2>1, <2>2, <2>3, <2>6, FaultInv
  <2>. QED
    BY <2>4, <2>5, <2>6
<1>2. CASE CheckProxy
  <2>. DEFINE made == [gce EXCEPT !.tp = "proxy"]
              memory == [l7 EXCEPT !.tp = "proxy"]
  <2>1. pc = "proxy" /\ UNCHANGED <<ing, ri, pooled, changes, crashes>>
    BY <1>2 DEF CheckProxy
  <2>2. /\ l7 \in Memories /\ gce \in Clouds /\ ri \in Infos /\ faults \in 0..MaxFaults
        /\ gce.certs["user"] \in {UserContent, None} /\ gce.um # None
    BY <2>1, CheckBegins DEF Chain
  <2>3. /\ made \in Clouds /\ made.um = gce.um /\ made.tp # None /\ made.certs = gce.certs
        /\ memory \in Memories
    BY <2>2, ConstantsAssumption DEF Clouds, Memories
  <2>4. \/ Done(memory, made) /\ UNCHANGED faults
        \/ Fault(l7, {gce, made})
    BY <1>2, Zenon DEF CheckProxy
  <2>. HIDE DEF made, memory
  <2>5. CASE Done(memory, made) /\ UNCHANGED faults
    <3>1. Chain(Following, ri, memory, made)
      BY <2>1, <2>2, <2>3 DEF Chain, Following, AfterCert, AfterHttps, AfterFws
    <3>. QED
      BY <2>1, <2>2, <2>3, <2>5, <3>1, DoneInv
  <2>6. CASE Fault(l7, {gce, made})
    BY <2>1, <2>2, <2>3, <2>6, FaultInv
  <2>. QED
    BY <2>4, <2>5, <2>6
<1>. QED
  BY <1>1, <1>2

\* A forwarding rule gets an address.
LEMMA RuleAddressType ==
    ASSUME gce \in Clouds, NEW r \in {"fw", "fws"}, NEW address \in IPs \cup {None},
           NEW ip \in RuleAddresses(r, address)
    PROVE  ip \in IPs /\ ip # None
<1>1. gce[r] \in IPs \cup {None}
  BY DEF Clouds
<1>. QED
  BY <1>1, ConstantsAssumption DEF RuleAddresses, IPs

\* checkForwardingRule succeeds with some address.
LEMMA RuleDoneInv ==
    ASSUME IInv, NEW r \in {"fw", "fws"}, pc = r, NEW ip \in IPs, ip # None,
           Done([l7 EXCEPT ![r] = ip], [gce EXCEPT ![r] = ip]),
           faults' \in 0..MaxFaults, UNCHANGED <<ing, ri, pooled, changes, crashes>>
    PROVE  IInv'
<1>. USE DEF AfterSync, AfterUrlMap, AfterProxy, AfterFw
<1>. DEFINE made == [gce EXCEPT ![r] = ip]
            memory == [l7 EXCEPT ![r] = ip]
<1>1. /\ l7 \in Memories /\ gce \in Clouds /\ ri \in Infos
      /\ gce.certs["user"] \in {UserContent, None} /\ Chain(pc, ri, l7, gce)
  BY CheckBegins
<1>2. pc = "fw" => ri.http
  BY DEF IInv, ControlInv
<1>3. CASE r = "fw"
  <2>1. /\ made \in Clouds /\ memory \in Memories
        /\ made.um = gce.um /\ made.tp = gce.tp /\ made.certs = gce.certs
        /\ made.fw = ip /\ memory.fw = ip
    BY <1>1, <1>3 DEF Clouds, Memories
  <2>. HIDE DEF made, memory
  <2>2. Chain(Following, ri, memory, made)
    BY <1>1, <1>2, <1>3, <2>1 DEF Chain, Following, WantsHttps, AfterCert, AfterHttps, AfterFws
  <2>3. Done(memory, made)
    BY DEF memory, made
  <2>. QED
    BY <1>1, <1>3, <2>1, <2>2, <2>3, DoneInv
<1>4. CASE r = "fws"
  <2>1. /\ made \in Clouds /\ memory \in Memories
        /\ made.um = gce.um /\ made.tp = gce.tp /\ made.certs = gce.certs
        /\ made.fw = gce.fw /\ made.tps = gce.tps /\ memory.cert = l7.cert /\ made.fws = ip
    BY <1>1, <1>4 DEF Clouds, Memories
  <2>. HIDE DEF made, memory
  <2>2. Chain(Following, ri, memory, made)
    BY <1>1, <1>4, <2>1 DEF Chain, Following, AfterCert, AfterHttps, AfterFws
  <2>3. Done(memory, made)
    BY DEF memory, made
  <2>. QED
    BY <1>1, <1>4, <2>1, <2>2, <2>3, DoneInv
<1>. QED
  BY <1>3, <1>4

\* checkHttpForwardingRule and checkHttpsForwardingRule.
LEMMA CheckForwardingRuleInv ==
    ASSUME IInv, NEW r \in {"fw", "fws"}, CheckForwardingRule(r)
    PROVE  IInv'
<1>. USE DEF AfterSync, AfterUrlMap, AfterProxy, AfterFw
<1>1. pc = r /\ UNCHANGED <<ing, ri, pooled, changes, crashes>>
  BY DEF CheckForwardingRule
<1>2. /\ l7 \in Memories /\ gce \in Clouds /\ faults \in 0..MaxFaults
      /\ gce.certs["user"] \in {UserContent, None}
  BY <1>1, CheckBegins
<1>3. l7.ip \in IPs \cup {None} /\ UserIP \in IPs
  BY <1>2 DEF Memories, IPs
<1>. DEFINE With(ip) == [gce EXCEPT ![r] = ip]
            Gone(ip) == IF ip = gce[r] THEN gce ELSE With(None)
<1>4. PICK address \in IPs \cup {None} : \E ip \in RuleAddresses(r, address) :
          \/ Done([l7 EXCEPT ![r] = ip], With(ip)) /\ (UNCHANGED faults \/ CallFails)
          \/ Fault(l7, {gce, Gone(ip), With(ip)})
  <2>1. (IF ri.static THEN UserIP ELSE l7.ip) \in IPs \cup {None}
    BY <1>3
  <2>. QED
    BY <1>3, <2>1, Zenon DEF CheckForwardingRule
<1>5. PICK ip \in RuleAddresses(r, address) :
          \/ Done([l7 EXCEPT ![r] = ip], With(ip)) /\ (UNCHANGED faults \/ CallFails)
          \/ Fault(l7, {gce, Gone(ip), With(ip)})
  BY <1>4, Zenon
<1>6. ip \in IPs /\ ip # None
  BY <1>2, RuleAddressType
<1>7. CASE Done([l7 EXCEPT ![r] = ip], With(ip)) /\ (UNCHANGED faults \/ CallFails)
  <2>1. faults' \in 0..MaxFaults
    BY <1>2, <1>7, CallFailsType DEF IInv
  <2>. QED
    BY <1>1, <1>6, <1>7, <2>1, RuleDoneInv
<1>8. CASE Fault(l7, {gce, Gone(ip), With(ip)})
  <2>1. ASSUME NEW a \in IPs \cup {None} PROVE With(a) \in Clouds /\ With(a).certs = gce.certs
    BY <1>2 DEF Clouds
  <2>2. /\ With(ip) \in Clouds /\ With(ip).certs = gce.certs
        /\ Gone(ip) \in Clouds /\ Gone(ip).certs = gce.certs
    BY <1>2, <1>6, <2>1, Zenon
  <2>. HIDE DEF With, Gone
  <2>. QED
    BY <1>1, <1>2, <1>8, <2>2, FaultInv
<1>. QED
  BY <1>5, <1>7, <1>8

\* checkStaticIP: the address that is recorded is never the user's.
LEMMA CheckStaticIPInv == ASSUME IInv, CheckStaticIP PROVE IInv'
<1>. USE DEF AfterSync, AfterUrlMap, AfterProxy, AfterFw
<1>. DEFINE made == IF gce.ip = None THEN [gce EXCEPT !.ip = l7.fw] ELSE gce
            memory == [l7 EXCEPT !.ip = made.ip]
<1>1. pc = "ip" /\ UNCHANGED <<ing, ri, pooled, changes, crashes>>
  BY DEF CheckStaticIP
<1>2. /\ l7 \in Memories /\ gce \in Clouds /\ faults \in 0..MaxFaults
      /\ gce.certs["user"] \in {UserContent, None} /\ Chain("ip", ri, l7, gce)
  BY <1>1, CheckBegins
<1>3. faults' \in 0..MaxFaults
  BY <1>2, CallFailsType DEF CheckStaticIP, Fault, IInv
<1>4. \/ Done(l7, gce)
      \/ ~(gce.ip = None /\ l7.fw = UserIP) /\ Done(memory, made)
      \/ gce.ip = None /\ l7.fw # UserIP /\ Fault(l7, {gce, made})
  BY Zenon DEF CheckStaticIP
<1>5. CASE Done(l7, gce)
  <2>1. Chain(Following, ri, l7, gce)
    BY <1>1, <1>2 DEF Chain, Following, AfterCert, AfterHttps, AfterFws
  <2>. QED
    BY <1>1, <1>2, <1>3, <1>5, <2>1, DoneInv
<1>6. ASSUME ~(gce.ip = None /\ l7.fw = UserIP)
      PROVE  /\ made \in Clouds /\ memory \in Memories
             /\ made.um = gce.um /\ made.tp = gce.tp /\ made.fw = gce.fw /\ made.certs = gce.certs
  <2>1. l7.fw # None
    BY <1>2 DEF Chain
  <2>2. l7.fw \in EphemeralIPs \/ l7.fw = UserIP
    BY <1>2, <2>1 DEF Memories, IPs
  <2>3. made \in Clouds /\ made.ip \in EphemeralIPs
          /\ made.um = gce.um /\ made.tp = gce.tp /\ made.fw = gce.fw /\ made.certs = gce.certs
    BY <1>2, <1>6, <2>2 DEF Clouds
  <2>. HIDE DEF made
  <2>. QED
    BY <1>2, <2>3 DEF Memories
<1>. HIDE DEF made, memory
<1>7. CASE ~(gce.ip = None /\ l7.fw = UserIP) /\ Done(memory, made)
  <2>1. Chain(Following, ri, memory, made)
    BY <1>1, <1>2, <1>6, <1>7 DEF Chain, Following, AfterCert, AfterHttps, AfterFws
  <2>. QED
    BY <1>1, <1>2, <1>3, <1>6, <1>7, <2>1, DoneInv
<1>8. CASE gce.ip = None /\ l7.fw # UserIP /\ Fault(l7, {gce, made})
  BY <1>1, <1>2, <1>6, <1>8, FaultInv
<1>. QED
  BY <1>4, <1>5, <1>7, <1>8

\* The rest of checkSSLCert succeeds only with the certificate of the secret.
LEMMA UpdateCertInv ==
    ASSUME IInv, pc = "cert", ri.tls # "preshared", NEW cert \in CertNames \cup {None},
           UpdateCert(cert), faults' \in 0..MaxFaults,
           UNCHANGED <<ing, ri, pooled, changes, crashes>>
    PROVE  IInv'
<1>. USE DEF AfterSync, AfterUrlMap, AfterProxy, AfterFw
<1>. DEFINE new == NextCertificateName(cert)
            certs == [gce.certs EXCEPT ![new] = ri.tls]
            kept == [l7 EXCEPT !.cert = cert]
            memory == [l7 EXCEPT !.cert = new, !.old = cert]
            made == [gce EXCEPT !.certs[new] = ri.tls]
<1>1. /\ l7 \in Memories /\ gce \in Clouds /\ ri \in Infos
      /\ gce.certs["user"] \in {UserContent, None} /\ Chain("cert", ri, l7, gce)
  BY CheckBegins
<1>2. ri.tls \in Contents
  BY <1>1, InfoType DEF IInv, ControlInv
<1>3. Following = "https"
  BY DEF Following
<1>4. new \in {"primary", "secondary"} /\ new \in CertNames
  BY DEF NextCertificateName, CertNames
<1>5. kept \in Memories /\ kept.cert = cert
  BY <1>1 DEF Memories
<1>6. memory \in Memories /\ memory.cert = new
  BY <1>1, <1>4, Zenon DEF Memories
<1>7. /\ made \in Clouds /\ made.um = gce.um /\ made.tp = gce.tp /\ made.fw = gce.fw
      /\ made.certs[new] = ri.tls /\ made.certs["user"] = gce.certs["user"]
  <2>1. /\ certs \in [CertNames -> Contents \cup {None}] /\ certs[new] = ri.tls
        /\ certs["user"] = gce.certs["user"]
    BY <1>1, <1>2, <1>4 DEF Clouds, CertNames
  <2>2. made = [gce EXCEPT !.certs = certs]
    BY <1>1 DEF Clouds
  <2>. HIDE DEF certs, made
  <2>. QED
    BY <1>1, <2>1, <2>2 DEF Clouds
<1>8. \/ UpToDate(cert) /\ Done(kept, gce)
      \/ Fail(kept, gce)
      \/ Done(memory, made)
  BY Zenon DEF UpdateCert
<1>. HIDE DEF new, kept, memory, made
<1>9. CASE UpToDate(cert) /\ Done(kept, gce)
  <2>1. Chain(Following, ri, kept, gce)
    BY <1>1, <1>3, <1>5, <1>9 DEF Chain, UpToDate, Content, AfterCert, AfterHttps, AfterFws
  <2>. QED
    BY <1>1, <1>5, <1>9, <2>1, DoneInv
<1>10. CASE Fail(kept, gce)
  BY <1>1, <1>5, <1>10, FailInv
<1>11. CASE Done(memory, made)
  <2>1. new # None
    BY <1>4, ConstantsAssumption
  <2>2. Chain(Following, ri, memory, made)
    BY <1>1, <1>3, <1>6, <1>7, <2>1 DEF Chain, Content, AfterCert, AfterHttps, AfterFws
  <2>. QED
    BY <1>1, <1>6, <1>7, <1>11, <2>2, DoneInv
<1>. QED
  BY <1>8, <1>9, <1>10, <1>11

\* populateSSLCert finds a certificate or none.
LEMMA PopulatedType ==
    ASSUME l7 \in Memories, NEW inUse \in CertNames \cup {None}
    PROVE  PopulatedCert(inUse) \in CertNames \cup {None}
BY DEF PopulatedCert, Memories

\* checkSSLCert.
LEMMA CheckSSLCertInv == ASSUME IInv, CheckSSLCert PROVE IInv'
<1>. USE DEF AfterSync, AfterUrlMap, AfterProxy, AfterFw
<1>1. pc = "cert" /\ UNCHANGED <<ing, ri, pooled, changes, crashes>>
  BY DEF CheckSSLCert
<1>2. /\ l7 \in Memories /\ gce \in Clouds /\ ri \in Infos /\ faults \in 0..MaxFaults
      /\ gce.certs["user"] \in {UserContent, None} /\ Chain("cert", ri, l7, gce)
  BY <1>1, CheckBegins
<1>3. CASE ri.tls = "preshared"
  <2>. DEFINE memory == [l7 EXCEPT !.cert = "user"]
  <2>1. \/ gce.certs["user"] # None /\ Done(memory, gce) /\ UNCHANGED faults
        \/ Fail(l7, gce) /\ UNCHANGED faults
        \/ Fault(l7, {gce})
    BY <1>3, Zenon DEF CheckSSLCert
  <2>2. memory \in Memories /\ memory.cert = "user"
    BY <1>2 DEF Memories, CertNames
  <2>. HIDE DEF memory
  <2>3. CASE gce.certs["user"] # None /\ Done(memory, gce) /\ UNCHANGED faults
    <3>1. Chain(Following, ri, memory, gce)
      BY <1>1, <1>2, <1>3, <2>2, <2>3, ConstantsAssumption
         DEF Chain, Following, Content, AfterCert, AfterHttps, AfterFws
    <3>. QED
      BY <1>1, <1>2, <2>2, <2>3, <3>1, DoneInv
  <2>4. CASE Fail(l7, gce) /\ UNCHANGED faults
    BY <1>1, <1>2, <2>4, FailInv
  <2>5. CASE Fault(l7, {gce})
    BY <1>1, <1>2, <2>5, FaultInv
  <2>. QED
    BY <2>1, <2>3, <2>4, <2>5
<1>4. CASE ri.tls # "preshared"
  <2>. DEFINE cert == PopulatedCert(gce.tps)
              new == NextCertificateName(cert)
              With(c) == [gce EXCEPT !.certs[new] = c]
              clouds == {With(c) : c \in {gce.certs[new], None, ri.tls}}
  <2>1. \/ UpdateCert(cert) /\ UNCHANGED faults
        \/ CallFails /\ UpdateCert(PopulatedCert(None))
        \/ Fault([l7 EXCEPT !.cert = None], {gce})
        \/ Fault([l7 EXCEPT !.cert = cert], clouds)
    BY <1>4, Zenon DEF CheckSSLCert
  <2>2. cert \in CertNames \cup {None} /\ PopulatedCert(None) \in CertNames \cup {None}
    <3>1. gce.tps \in CertNames \cup {None}
      BY <1>2 DEF Clouds
    <3>. QED
      BY <1>2, <3>1, PopulatedType
  <2>3. new \in {"primary", "secondary"} /\ new \in CertNames
    BY DEF NextCertificateName, CertNames
  <2>4. ri.tls \in Contents
    BY <1>1, <1>2, <1>4, InfoType DEF IInv, ControlInv
  <2>. HIDE DEF cert, new
  <2>5. CASE UpdateCert(cert) /\ UNCHANGED faults
    BY <1>1, <1>2, <1>4, <2>2, <2>5, UpdateCertInv
  <2>6. CASE CallFails /\ UpdateCert(PopulatedCert(None))
    <3>1. faults' \in 0..MaxFaults
      BY <2>6, CallFailsType DEF IInv
    <3>. QED
      BY <1>1, <1>4, <2>2, <2>6, <3>1, UpdateCertInv
  <2>7. CASE Fault([l7 EXCEPT !.cert = None], {gce})
    <3>1. [l7 EXCEPT !.cert = None] \in Memories
      BY <1>2 DEF Memories
    <3>. QED
      BY <1>1, <1>2, <2>7, <3>1, FaultInv
  <2>8. CASE Fault([l7 EXCEPT !.cert = cert], clouds)
    <3>1. [l7 EXCEPT !.cert = cert] \in Memories
      BY <1>2, <2>2 DEF Memories
    <3>2. ASSUME NEW c \in {gce.certs[new], None, ri.tls}
          PROVE  With(c) \in Clouds /\ With(c).certs["user"] = gce.certs["user"]
      <4>. DEFINE certs == [gce.certs EXCEPT ![new] = c]
      <4>1. c \in Contents \cup {None}
        BY <1>2, <2>3, <2>4 DEF Clouds
      <4>2. /\ certs \in [CertNames -> Contents \cup {None}]
            /\ certs["user"] = gce.certs["user"]
        BY <1>2, <2>3, <4>1 DEF Clouds, CertNames
      <4>3. With(c) = [gce EXCEPT !.certs = certs]
        BY <1>2 DEF Clouds
      <4>. HIDE DEF certs, With
      <4>. QED
        BY <1>2, <4>2, <4>3 DEF Clouds
    <3>3. clouds \in SUBSET Clouds /\ \A d \in clouds : d.certs["user"] \in {UserContent, None}
      BY <1>2, <3>2, Zenon
    <3>. HIDE DEF clouds
    <3>. QED
      BY <1>1, <2>8, <3>1, <3>3, FaultInv
  <2>. QED
    BY <2>1, <2>5, <2>6, <2>7, <2>8
<1>. QED
  BY <1>3, <1>4

\* checkHttpsProxy: the proxy gets the certificate on record.
LEMMA CheckHttpsProxyInv == ASSUME IInv, CheckHttpsProxy PROVE IInv'
<1>. USE DEF AfterSync, AfterUrlMap, AfterProxy, AfterFw
<1>. DEFINE made == [gce EXCEPT !.tps = l7.cert]
            memory == [l7 EXCEPT !.tps = "proxy"]
<1>1. pc = "https" /\ UNCHANGED <<ing, ri, pooled, changes, crashes>>
  BY DEF CheckHttpsProxy
<1>2. /\ l7 \in Memories /\ gce \in Clouds /\ faults \in 0..MaxFaults
      /\ gce.certs["user"] \in {UserContent, None} /\ Chain("https", ri, l7, gce)
  BY <1>1, CheckBegins
<1>3. /\ made \in Clouds /\ made.um = gce.um /\ made.tp = gce.tp /\ made.fw = gce.fw
      /\ made.certs = gce.certs /\ made.tps = l7.cert
      /\ memory \in Memories /\ memory.cert = l7.cert
  BY <1>2 DEF Clouds, Memories
<1>4. \/ Done(memory, made) /\ UNCHANGED faults
      \/ Fault(l7, {gce, made})
  BY Zenon DEF CheckHttpsProxy
<1>. HIDE DEF made, memory
<1>5. CASE Done(memory, made) /\ UNCHANGED faults
  <2>1. Chain(Following, ri, memory, made)
    BY <1>1, <1>2, <1>3 DEF Chain, Following, AfterCert, AfterHttps, AfterFws
  <2>. QED
    BY <1>1, <1>2, <1>3, <1>5, <2>1, DoneInv
<1>6. CASE Fault(l7, {gce, made})
  BY <1>1, <1>2, <1>3, <1>6, FaultInv
<1>. QED
  BY <1>4, <1>5, <1>6

\* deleteOldSSLCert does not delete the certificate in use, nor the user's.
LEMMA DeleteOldSSLCertInv == ASSUME IInv, DeleteOldSSLCert PROVE IInv'
<1>. USE DEF AfterSync, AfterUrlMap, AfterProxy, AfterFw
<1>. DEFINE certs == [gce.certs EXCEPT ![l7.old] = None]
            gone == [gce EXCEPT !.certs[l7.old] = None]
            memory == [l7 EXCEPT !.old = None]
<1>1. pc = "old" /\ UNCHANGED <<ing, ri, pooled, changes, crashes>>
  BY DEF DeleteOldSSLCert
<1>2. /\ l7 \in Memories /\ gce \in Clouds /\ ri \in Infos /\ faults \in 0..MaxFaults
      /\ gce.certs["user"] \in {UserContent, None} /\ Chain("old", ri, l7, gce)
  BY <1>1, CheckBegins
<1>3. \/ Done(l7, gce) /\ UNCHANGED faults
      \/ l7.old \notin {None, l7.cert, "user"} /\ Done(memory, gone) /\ UNCHANGED faults
      \/ l7.old \notin {None, l7.cert, "user"} /\ Fault(l7, {gce, gone})
  BY Zenon DEF DeleteOldSSLCert
<1>4. memory \in Memories /\ memory.cert = l7.cert
  BY <1>2 DEF Memories
<1>5. ASSUME l7.old \notin {None, l7.cert, "user"}
      PROVE  /\ gone \in Clouds /\ gone.um = gce.um /\ gone.tp = gce.tp /\ gone.fw = gce.fw
             /\ gone.tps = gce.tps /\ gone.fws = gce.fws
             /\ gone.certs["user"] = gce.certs["user"]
             /\ gone.certs[l7.cert] = gce.certs[l7.cert]
  <2>1. l7.old \in CertNames /\ l7.cert \in CertNames
    BY <1>2, <1>5 DEF Memories, Chain, AfterCert
  <2>2. /\ certs \in [CertNames -> Contents \cup {None}]
        /\ certs["user"] = gce.certs["user"] /\ certs[l7.cert] = gce.certs[l7.cert]
    BY <1>2, <1>5, <2>1 DEF Clouds, CertNames
  <2>3. gone = [gce EXCEPT !.certs = certs]
    BY <1>2 DEF Clouds
  <2>. HIDE DEF certs, gone
  <2>. QED
    BY <1>2, <2>2, <2>3 DEF Clouds
<1>. HIDE DEF gone, memory
<1>6. CASE Done(l7, gce) /\ UNCHANGED faults
  <2>1. Chain(Following, ri, l7, gce)
    BY <1>1, <1>2 DEF Chain, Following, AfterCert, AfterHttps, AfterFws
  <2>. QED
    BY <1>1, <1>2, <1>6, <2>1, DoneInv
<1>7. CASE l7.old \notin {None, l7.cert, "user"} /\ Done(memory, gone) /\ UNCHANGED faults
  <2>1. Chain(Following, ri, memory, gone)
    BY <1>1, <1>2, <1>4, <1>5, <1>7 DEF Chain, Following, AfterCert, AfterHttps, AfterFws
  <2>. QED
    BY <1>1, <1>2, <1>4, <1>5, <1>7, <2>1, DoneInv
<1>8. CASE l7.old \notin {None, l7.cert, "user"} /\ Fault(l7, {gce, gone})
  BY <1>1, <1>2, <1>5, <1>8, FaultInv
<1>. QED
  BY <1>3, <1>6, <1>7, <1>8

-----------------------------------------------------------------------------
\* Between syncs, at the beginning of one and in Cleanup, nothing is claimed.
LEMMA NothingYet ==
    ASSUME NEW p \in {"idle", "urlmap", "cleanup"}, NEW info, NEW memory, NEW cloud
    PROVE  Chain(p, info, memory, cloud)
BY DEF Chain, AfterUrlMap, AfterProxy, AfterFw, AfterCert, AfterHttps, AfterFws

\* The steps between which nothing is claimed keep the invariant with the types.
LEMMA RestInv ==
    ASSUME TypeOK', pc' \in {"idle", "urlmap", "cleanup"}, failed' = FALSE,
           pc' = "urlmap" => ri' \in Infos, gce'.certs["user"] \in {UserContent, None}
    PROVE  IInv'
<1>1. ControlInv'
  BY DEF ControlInv, AfterSync, AfterUrlMap, AfterProxy, AfterFw, AfterCert
<1>2. ChainInv'
  BY NothingYet DEF ChainInv
<1>. QED
  BY <1>1, <1>2 DEF IInv

\* Changes of the ingress, restarts, and the beginning of a sync.
LEMMA SyncBeginInv == ASSUME IInv, SyncBegin \/ IngressChange \/ Crash PROVE IInv'
<1>1. TypeOK /\ gce.certs["user"] \in {UserContent, None}
  BY DEF IInv, ChainInv
<1>2. CASE SyncBegin
  <2>1. failed = FALSE
    BY <1>2 DEF SyncBegin, IInv, ControlInv
  <2>2. TypeOK'
    BY <1>1, <1>2, TypesAre, TypesWillBe, Zenon DEF SyncBegin, Types, Locations, budgetVars
  <2>3. pc' \in {"idle", "urlmap", "cleanup"} /\ (pc' = "urlmap" => ri' \in Infos)
    BY <1>1, <1>2 DEF SyncBegin, TypeOK
  <2>4. failed' = FALSE /\ gce' = gce
    BY <1>2, <2>1 DEF SyncBegin
  <2>. QED
    BY <1>1, <2>2, <2>3, <2>4, RestInv, Zenon
<1>3. CASE IngressChange
  <2>1. TypeOK' /\ UNCHANGED <<ri, l7, gce, pc, failed>>
    BY <1>1, <1>3, ConstantsAssumption DEF IngressChange, TypeOK
  <2>. QED
    BY <2>1 DEF IInv, ControlInv, ChainInv
<1>4. CASE Crash
  <2>1. NoL7 \in Memories
    BY DEF NoL7, Memories
  <2>2. TypeOK'
    <3>1. crashes' \in 0..MaxCrashes
      BY <1>1, <1>4, ConstantsAssumption DEF Crash, TypeOK
    <3>2. /\ ri' = None /\ l7' = NoL7 /\ pooled' = FALSE /\ pc' = "idle" /\ failed' = FALSE
          /\ UNCHANGED <<ing, gce, changes, faults>>
      BY <1>4 DEF Crash
    <3>. QED
      BY <1>1, <2>1, <3>1, <3>2, TypesAre, TypesWillBe, Zenon DEF Types, Locations
  <2>. QED
    BY <1>1, <1>4, <2>2, RestInv, Zenon DEF Crash
<1>. QED
  BY <1>2, <1>3, <1>4

\* UpdateUrlMap, the end of a sync.
LEMMA UpdateUrlMapInv == ASSUME IInv, UpdateUrlMap PROVE IInv'
<1>. DEFINE new == [gce EXCEPT !.um = ri.rules]
<1>1. TypeOK /\ ri \in Infos /\ gce.certs["user"] \in {UserContent, None} /\ gce \in Clouds
  BY DEF UpdateUrlMap, IInv, ControlInv, ChainInv, AfterSync, AfterUrlMap, AfterProxy, AfterFw,
         TypeOK, Clouds
<1>2. new \in Clouds /\ new.certs = gce.certs
  BY <1>1, InfoType DEF Clouds
<1>3. gce' \in {gce, new}
  BY DEF UpdateUrlMap
<1>. HIDE DEF new
<1>4. /\ faults' \in 0..MaxFaults /\ pc' = "idle" /\ failed' = FALSE
      /\ UNCHANGED <<ing, ri, l7, pooled, changes, crashes>>
  BY <1>1, CallFailsType DEF UpdateUrlMap, TypeOK
<1>5. TypeOK'
  BY <1>1, <1>2, <1>3, <1>4, TypesAre, TypesWillBe, Zenon DEF Types, Locations
<1>. QED
  BY <1>1, <1>2, <1>3, <1>4, <1>5, RestInv, Zenon

\* Cleanup.
LEMMA CleanupInv == ASSUME IInv, CleanupResource \/ CleanupEnd PROVE IInv'
<1>1. /\ TypeOK /\ gce.certs["user"] \in {UserContent, None} /\ gce \in Clouds /\ l7 \in Memories
      /\ failed = FALSE /\ pc = "cleanup"
  BY DEF CleanupResource, CleanupEnd, IInv, ControlInv, ChainInv, TypeOK, Clouds, Memories
<1>2. CASE CleanupResource
  <2>1. PICK i \in DOMAIN CleanupOrder :
          /\ Held(CleanupOrder[i])
          /\ gce' \in {gce, Deleted(CleanupOrder[i])}
          /\ l7' \in {l7, [l7 EXCEPT ![CleanupOrder[i]] = None]}
          /\ pc' \in {pc, "idle"}
          /\ UNCHANGED faults \/ CallFails
    BY <1>2, Zenon DEF CleanupResource
  <2>2. PICK r \in {"fw", "fws", "ip", "tps", "cert", "tp", "um"} : r = CleanupOrder[i]
    BY DEF CleanupOrder
  <2>3. [l7 EXCEPT ![r] = None] \in Memories
    BY <1>1 DEF Memories
  <2>4. Deleted(r) \in Clouds /\ Deleted(r).certs["user"] \in {gce.certs["user"], None}
    <3>1. CASE r = "cert"
      <4>. DEFINE certs == [gce.certs EXCEPT ![l7.cert] = None]
      <4>1. /\ certs \in [CertNames -> Contents \cup {None}]
            /\ certs["user"] \in {gce.certs["user"], None}
        BY <1>1, Zenon DEF Clouds, CertNames
      <4>2. Deleted(r) = [gce EXCEPT !.certs = certs]
        BY <1>1, <3>1 DEF Deleted, Clouds
      <4>. HIDE DEF certs
      <4>. QED
        BY <1>1, <4>1, <4>2 DEF Clouds
    <3>2. CASE r # "cert"
      BY <1>1, <3>2 DEF Deleted, Clouds
    <3>. QED
      BY <3>1, <3>2
  <2>5. /\ gce' \in Clouds /\ gce'.certs["user"] \in {UserContent, None} /\ l7' \in Memories
        /\ pc' \in {"cleanup", "idle"} /\ faults' \in 0..MaxFaults
    <3>1. faults' \in 0..MaxFaults
      BY <1>1, <2>1, CallFailsType DEF TypeOK
    <3>. QED
      BY <1>1, <2>1, <2>2, <2>3, <2>4, <3>1
  <2>6. UNCHANGED <<ing, ri, pooled, failed, changes, crashes>>
    BY <1>2 DEF CleanupResource
  <2>7. TypeOK'
    BY <1>1, <2>5, <2>6 DEF TypeOK, Clouds, Memories
  <2>. QED
    BY <1>1, <2>5, <2>6, <2>7, RestInv, Zenon
<1>3. CASE CleanupEnd
  <2>1. NoL7 \in Memories
    BY DEF NoL7, Memories
  <2>2. TypeOK'
    BY <1>1, <1>3, <2>1, TypesAre, TypesWillBe, Zenon DEF CleanupEnd, Types, Locations, budgetVars
  <2>3. gce' = gce /\ failed' = failed /\ pc' = "idle"
    BY <1>3 DEF CleanupEnd
  <2>. QED
    BY <1>1, <2>2, <2>3, RestInv, Zenon
<1>. QED
  BY <1>2, <1>3

\* Every step keeps the invariant.
LEMMA NextInv == IInv /\ [Next]_vars => IInv'
<1>. SUFFICES ASSUME IInv, [Next]_vars PROVE IInv'
  OBVIOUS
<1>1. CASE UNCHANGED vars
  BY <1>1 DEF IInv, TypeOK, ControlInv, ChainInv, vars
<1>. QED
  BY <1>1, SyncBeginInv, CheckUrlMapInv, CheckForwardingRuleInv, CheckStaticIPInv, CheckSSLCertInv,
     CheckHttpsProxyInv, DeleteOldSSLCertInv, UpdateUrlMapInv, CleanupInv
     DEF Next, Sync

\* The invariant holds in all behaviours.
LEMMA Invariance == Spec => []IInv
BY InitInv, NextInv, PTL DEF Spec

\* The types of the L7 object and of the cloud's resources; in particular checkStaticIP
\* never records the address the user has reserved, which Cleanup would delete.
THEOREM TypeCorrect == Spec => []TypeOK
BY Invariance, PTL DEF IInv

\* When edgeHop returns without an error, the cloud serves what the ingress has asked
\* for, whatever earlier syncs, failures and restarts have left behind.
THEOREM SuccessIsServed == Spec => []SuccessMeansServed
<1>1. ASSUME IInv PROVE SuccessMeansServed
  <2>. SUFFICES ASSUME pc = "rules", ~failed
                PROVE  (ri.http => HttpServed) /\ (WantsHttps => HttpsServed(ri))
    BY DEF SuccessMeansServed
  <2>1. failed = FALSE /\ gce \in Clouds /\ l7 \in Memories
    BY <1>1 DEF IInv, TypeOK, Clouds, Memories
  <2>2. Chain("rules", ri, l7, gce)
    BY <1>1, <2>1 DEF IInv, ChainInv
  <2>. QED
    BY <2>2 DEF Chain, Content, HttpServed, HttpsServed, WantsHttps, AfterUrlMap, AfterProxy, AfterFw
<1>. QED
  BY <1>1, Invariance, PTL

-----------------------------------------------------------------------------
\* Routing.  The loops of toURLMap are recursive functions; what they leave is shown
\* by induction over their turns.

\* A set of numbers has a least one.
LEMMA Least ==
  ASSUME NEW T \in SUBSET Nat, T # {}
  PROVE  \E x \in T : \A y \in T : x <= y
<1> DEFINE R == OpToRel(<, Nat)
<1>1. IsWellFoundedOn(R, Nat)
  BY NatLessThanWellFounded
<1>2. \A x, y \in Nat : <<x, y>> \in R <=> x < y
  BY DEF OpToRel
<1> HIDE DEF R
<1>3. PICK x \in T : \A y \in T : ~(<<y, x>> \in R)
  BY <1>1, WFMin, Zenon
<1>4. \A y \in T : ~(y < x)
  BY <1>2, <1>3, Zenon
<1> QED
  BY <1>4

\* A bounded set of numbers has a largest one, which Max is.
LEMMA Largest ==
  ASSUME NEW n \in Nat, NEW S \in SUBSET (0..n), S # {}
  PROVE  Max(S) \in S /\ \A x \in S : x <= Max(S)
<1> DEFINE T == {k \in 0..n : n - k \in S}
<1>1. PICK z \in S : TRUE
  OBVIOUS
<1>2. n - z \in T /\ \A k \in T : k \in Nat
  OBVIOUS
<1>3. \A k \in T : k \in 0..n /\ n - k \in S
  OBVIOUS
<1>4. \A y \in S : y \in 0..n /\ n - y \in T
  OBVIOUS
<1> HIDE DEF T
<1>5. PICK m \in T : \A y \in T : m <= y
  <2>1. T \in SUBSET Nat /\ T # {}
    BY <1>2
  <2> QED
    BY <2>1, Least
<1>7. \A y \in S : n - m >= y
  BY <1>3, <1>4, <1>5
<1>8. n - m \in S
  BY <1>3
<1>9. PICK x \in S : \A y \in S : x >= y
  BY <1>7, <1>8, Zenon
<1>10. Max(S) \in S /\ \A y \in S : Max(S) >= y
  BY <1>9, Zenon DEF Max
<1> QED
  BY <1>10, <1>4

\* A set of numbers with 0 and with every successor is that of all numbers.
LEMMA Induct ==
  ASSUME NEW T \in SUBSET Nat, 0 \in T, \A n \in T : n + 1 \in T
  PROVE  T = Nat
<1>1. SUFFICES ASSUME Nat \ T # {} PROVE FALSE
  OBVIOUS
<1>2. PICK x \in Nat \ T : \A y \in Nat \ T : x <= y
  BY <1>1, Least, Zenon
<1>3. x - 1 \in Nat /\ x - 1 \notin Nat \ T
  BY <1>2
<1> QED
  BY <1>3


\* g is what the map of a Loop holds after each of the first n turns.
Turns(n, good, key, value, g) ==
    g = [i \in 0..n |-> IF i = 0 THEN <<>>
                        ELSE IF i \notin good THEN g[i - 1]
                        ELSE Put(g[i - 1], key[i], value[i])]

\* Every loop has its turns.
LEMMA TurnsExist ==
    ASSUME NEW good, NEW key, NEW value
    PROVE  \A n \in Nat : \E g : Turns(n, good, key, value, g)
<1>. DEFINE T == {n \in Nat : \E g : Turns(n, good, key, value, g)}
<1>1. 0 \in T
  <2>. DEFINE g == [i \in 0..0 |-> <<>>]
  <2>1. Turns(0, good, key, value, g)
    BY DEF Turns
  <2>. QED
    BY <2>1
<1>2. ASSUME NEW n \in T PROVE n + 1 \in T
  <2>1. PICK g : Turns(n, good, key, value, g)
    OBVIOUS
  <2>. DEFINE last == IF n + 1 \notin good THEN g[n] ELSE Put(g[n], key[n + 1], value[n + 1])
              h == [i \in 0..(n + 1) |-> IF i = n + 1 THEN last ELSE g[i]]
  <2>2. n \in Nat
    OBVIOUS
  <2>3. \A i \in 0..n : g[i] = IF i = 0 THEN <<>>
                               ELSE IF i \notin good THEN g[i - 1]
                               ELSE Put(g[i - 1], key[i], value[i])
    BY <2>1, Zenon DEF Turns
  <2>4. (n + 1) - 1 = n
    BY <2>2
  <2>5. h[n + 1] = last /\ \A i \in 0..n : h[i] = g[i]
    BY <2>2
  <2>6. ASSUME NEW i \in 0..(n + 1)
        PROVE  h[i] = IF i = 0 THEN <<>>
                      ELSE IF i \notin good THEN h[i - 1]
                      ELSE Put(h[i - 1], key[i], value[i])
    <3>1. CASE i = n + 1
      <4>1. i # 0 /\ h[i - 1] = g[n] /\ h[i] = last
        BY <2>2, <2>5, <3>1
      <4>. HIDE DEF h
      <4>. QED
        BY <3>1, <4>1
    <3>2. CASE i # n + 1
      <4>1. i \in 0..n
        BY <2>2, <3>2
      <4>2. h[i] = g[i] /\ (i # 0 => h[i - 1] = g[i - 1])
        BY <2>2, <2>5, <4>1
      <4>. HIDE DEF h
      <4>. QED
        BY <2>3, <4>1, <4>2
    <3>. QED
      BY <3>1, <3>2
  <2>7. h = [i \in 0..(n + 1) |-> h[i]]
    OBVIOUS
  <2>. HIDE DEF h
  <2>8. Turns(n + 1, good, key, value, h)
    BY <2>6, <2>7, Zenon DEF Turns
  <2>. QED
    BY <2>2, <2>8
<1>. HIDE DEF T
<1>3. T = Nat
  BY <1>1, <1>2, Induct, Zenon DEF T
<1>. QED
  BY <1>3 DEF T

\* The recursive function of a Loop is that of its turns.
LEMMA LoopTurns ==
    ASSUME NEW n \in Nat, NEW good, NEW key, NEW value
    PROVE  Turns(n, good, key, value, Loop(n, good, key, value))
<1>1. PICK g : Turns(n, good, key, value, g)
  BY TurnsExist
<1>. QED
  BY <1>1, Zenon DEF Loop, Turns

\* The map has a key for every turn in good, and holds its last value.
Last(n, good, key, value, map) ==
    /\ DOMAIN map = {key[i] : i \in {j \in good : j <= n}}
    /\ \A i \in {j \in good : j <= n} :
          (\A j \in {l \in good : l <= n} : i < j => key[j] # key[i])
          => map[key[i]] = value[i]

\* That is what a loop leaves.
LEMMA LoopGives ==
    ASSUME NEW n \in Nat, NEW good \in SUBSET (1..n), NEW key, NEW value
    PROVE  Last(n, good, key, value, Loop(n, good, key, value)[n])
<1>. DEFINE g == Loop(n, good, key, value)
            T == {m \in Nat : m <= n => Last(m, good, key, value, g[m])}
<1>0. \A j \in good : j \in 1..n
  OBVIOUS
<1>1. Turns(n, good, key, value, g)
  BY LoopTurns
<1>. HIDE DEF g
<1>2. \A i \in 0..n : g[i] = IF i = 0 THEN <<>>
                             ELSE IF i \notin good THEN g[i - 1]
                             ELSE Put(g[i - 1], key[i], value[i])
  BY <1>1, Zenon DEF Turns
<1>3. 0 \in T
  <2>1. g[0] = <<>>
    BY <1>2
  <2>2. \A j \in good : ~(j <= 0)
    BY <1>0
  <2>3. {j \in good : j <= 0} = {}
    BY <2>2, Zenon
  <2>. QED
    BY <2>1, <2>3 DEF Last
<1>4. ASSUME NEW m \in T PROVE m + 1 \in T
  <2>1. m \in Nat
    OBVIOUS
  <2>2. SUFFICES ASSUME m + 1 <= n PROVE Last(m + 1, good, key, value, g[m + 1])
    BY <2>1
  <2>3. Last(m, good, key, value, g[m])
    BY <2>1, <2>2
  <2>4. \A j \in good : j \in Nat /\ (j <= m + 1 <=> j <= m \/ j = m + 1) /\ (j <= m => j < m + 1)
    BY <2>1
  <2>. DEFINE k == m + 1
  <2>5. k \in 0..n /\ k # 0 /\ k - 1 = m /\ ~(k <= m)
    BY <2>1, <2>2
  <2>6. g[k] = IF k \notin good THEN g[m] ELSE Put(g[m], key[k], value[k])
    BY <1>2, <2>5
  <2>. HIDE DEF k
  <2>7. CASE k \notin good
    <3>1. {j \in good : j <= k} = {j \in good : j <= m}
      BY <2>4, <2>7, Zenon DEF k
    <3>. QED
      BY <2>3, <2>6, <2>7, <3>1 DEF Last, k
  <2>8. CASE k \in good
    <3>1. {j \in good : j <= k} = {j \in good : j <= m} \cup {k}
      BY <2>4, <2>5, <2>8, Zenon DEF k
    <3>2. g[k] = [x \in DOMAIN g[m] \cup {key[k]} |-> IF x = key[k] THEN value[k] ELSE g[m][x]]
      BY <2>6, <2>8 DEF Put
    <3>3. DOMAIN g[k] = {key[i] : i \in {j \in good : j <= k}}
      <4>1. DOMAIN g[k] = DOMAIN g[m] \cup {key[k]}
        BY <3>2
      <4>2. DOMAIN g[m] = {key[i] : i \in {j \in good : j <= m}}
        BY <2>3 DEF Last
      <4>. QED
        BY <3>1, <4>1, <4>2, Zenon
    <3>4. ASSUME NEW i \in {j \in good : j <= k},
                 \A j \in {l \in good : l <= k} : i < j => key[j] # key[i]
          PROVE  g[k][key[i]] = value[i]
      <4>1. CASE i = k
        BY <3>2, <4>1
      <4>2. CASE i # k
        <5>1. i \in {j \in good : j <= m} /\ i < k
          BY <2>4, <4>2 DEF k
        <5>2. key[k] # key[i]
          BY <2>8, <3>1, <3>4, <5>1
        <5>3. key[i] \in DOMAIN g[m]
          BY <2>3, <5>1 DEF Last
        <5>4. g[k][key[i]] = g[m][key[i]]
          BY <3>2, <5>2, <5>3
        <5>5. \A j \in {l \in good : l <= m} : i < j => key[j] # key[i]
          BY <3>1, <3>4
        <5>. QED
          BY <2>3, <5>1, <5>4, <5>5 DEF Last
      <4>. QED
        BY <4>1, <4>2
    <3>. QED
      BY <3>3, <3>4 DEF Last, k
  <2>. QED
    BY <2>7, <2>8
<1>. HIDE DEF T
<1>5. T = Nat
  <2>1. T \in SUBSET Nat
    BY DEF T
  <2>. QED
    BY <1>3, <1>4, <2>1, Induct
<1>. QED
  BY <1>5 DEF T, g
\* The map has a key for every turn in good, and at each the value of the last turn
\* with that key.
MapIs(good, key, value, map) ==
    /\ DOMAIN map = {key[i] : i \in good}
    /\ \A k \in DOMAIN map :
          LET last == Max({i \in good : key[i] = k})
          IN last \in good /\ key[last] = k /\ map[k] = value[last]

\* That is the map a loop of toURLMap leaves.
LEMMA LoopMap ==
    ASSUME NEW n \in Nat, NEW good \in SUBSET (1..n), NEW key, NEW value
    PROVE  MapIs(good, key, value, Loop(n, good, key, value)[n])
<1>. DEFINE map == Loop(n, good, key, value)[n]
<1>1. Last(n, good, key, value, map)
  BY LoopGives
<1>. HIDE DEF map
<1>2. \A i \in good : i \in 0..n /\ i <= n
  OBVIOUS
<1>3. {j \in good : j <= n} = good
  BY <1>2, Zenon
<1>4. DOMAIN map = {key[i] : i \in good}
  BY <1>1, <1>3, Zenon DEF Last
<1>5. ASSUME NEW k \in DOMAIN map
      PROVE  LET last == Max({i \in good : key[i] = k})
             IN last \in good /\ key[last] = k /\ map[k] = value[last]
  <2>. DEFINE S == {i \in good : key[i] = k}
              last == Max(S)
  <2>1. S \in SUBSET (0..n) /\ S # {}
    BY <1>2, <1>4, <1>5, Zenon
  <2>. HIDE DEF S
  <2>2. last \in S /\ \A x \in S : x <= last
    BY <2>1, Largest
  <2>. HIDE DEF last
  <2>3. last \in good /\ key[last] = k
    BY <2>2 DEF S
  <2>4. ASSUME NEW j \in good, last < j PROVE key[j] # key[last]
    <3>1. j \notin S
      BY <1>2, <2>2, <2>3, <2>4
    <3>. QED
      BY <2>3, <3>1 DEF S
  <2>5. map[key[last]] = value[last]
    BY <1>1, <1>3, <2>3, <2>4, Zenon DEF Last
  <2>. QED
    BY <2>3, <2>5, Zenon DEF last, S
<1>. QED
  BY <1>4, <1>5, Zenon DEF MapIs, map

\* gatherFirewallPorts opens the ports that toZoneNetworkEndpointMap attaches.
LEMMA AlwaysOpen ==
    ASSUME NEW subsets, NEW target, target.by \in {"port", "name"}
    PROVE  PortsOpen(subsets, target)
<1>. DEFINE Tcp == \A i \in DOMAIN subsets : \A j \in DOMAIN subsets[i] : subsets[i][j].tcp
            ports == NegFirewall(subsets, target)
<1>0. (Tcp => \A i \in DOMAIN subsets : MatchPort(subsets[i], target) \subseteq ports)
      => PortsOpen(subsets, target)
  BY Zenon DEF PortsOpen
<1>. HIDE DEF Tcp, ports
<1>1. SUFFICES ASSUME Tcp, NEW i \in DOMAIN subsets, NEW port \in MatchPort(subsets[i], target)
               PROVE  port \in ports
  BY <1>0
<1>2. PICK j \in DOMAIN subsets[i] :
              subsets[i][j][target.by] = target.port /\ port = subsets[i][j].port
  BY DEF MatchPort
<1>. DEFINE open == ListEndpointTargetPorts(subsets, target)
<1>3. port \in open
  <2>1. CASE target.by = "port"
    BY <1>2, <2>1 DEF ListEndpointTargetPorts
  <2>2. CASE target.by = "name"
    <3>1. subsets[i][j] \in PortsIn(subsets[i]) /\ subsets[i][j].tcp
            /\ subsets[i][j].name = target.port
      BY <1>1, <1>2, <2>2 DEF PortsIn, Tcp
    <3>. QED
      BY <1>2, <2>2, <3>1 DEF ListEndpointTargetPorts
  <2>. QED
    BY <2>1, <2>2
<1>. HIDE DEF open
<1>4. \E sp \in {[port |-> 30000, svc |-> "a", target |-> target, neg |-> TRUE]} :
         sp.neg /\ [s \in {"a"} |-> subsets][sp.svc] = subsets /\ sp.target = target
  OBVIOUS
<1>. QED
  BY <1>3, <1>4 DEF GatherFirewallPorts, NegFirewall, open, ports

\* getServiceNodePort gives a port or one of two errors.
LEMMA PortOrError ==
    ASSUME NEW services, NEW be
    PROVE  GetServiceNodePort(services, be).err \in {"none", "notFound", "protos"}
BY DEF GetServiceNodePort

\* The backends in the paths of a rule are among those that the ingress names.
LEMMA InPath ==
    ASSUME NEW ingress, NEW r \in HTTPRules(ingress), NEW p \in DOMAIN ingress.rules[r].paths
    PROVE  ingress.rules[r].paths[p].be \in PathBackends(ingress)
<1>. DEFINE of(q) == {ingress.rules[q].paths[x].be : x \in DOMAIN ingress.rules[q].paths}
<1>1. ingress.rules[r].paths[p].be \in of(r)
  OBVIOUS
<1>2. PathBackends(ingress) = UNION {of(q) : q \in HTTPRules(ingress)}
  BY DEF PathBackends
<1>. HIDE DEF of
<1>3. of(r) \subseteq PathBackends(ingress)
  BY <1>2
<1>. QED
  BY <1>1, <1>3

\* What an ingress says: the backend that stands in a path is one of a service of
\* the namespace.
LEMMA Refers ==
    ASSUME NEW ingress \in Ingresses
    PROVE  /\ ingress.backend = Missing \/ ingress.backend \in References
           /\ PathBackends(ingress) \subseteq References
           /\ \A be \in References : be.svc \in Names
           /\ Len(ingress.rules) \in Nat /\ DOMAIN ingress.rules = 1..Len(ingress.rules)
           /\ \A r \in HTTPRules(ingress) :
                 ingress.rules[r].paths \in Seq([path : Paths \cup {"", "/*"}, be : References])
<1>. DEFINE P == [path : Paths \cup {"", "/*"}, be : References]
            R == [host : Hosts \cup {"", "*"}, paths : Seq(P) \cup {NoHTTP}]
<1>1. ingress \in [class : {"gce", "multi"}, backend : References \cup {Missing}, rules : Seq(R)]
  BY RoutingAssumption, Zenon
<1>. HIDE DEF R
<1>2. (ingress.backend = Missing \/ ingress.backend \in References) /\ ingress.rules \in Seq(R)
  BY <1>1
<1>3. /\ Len(ingress.rules) \in Nat /\ DOMAIN ingress.rules = 1..Len(ingress.rules)
      /\ \A r \in DOMAIN ingress.rules : ingress.rules[r] \in R
  BY <1>2
<1>4. \A be \in References : be.svc \in Names
  BY RoutingAssumption, Zenon
<1>5. \A r \in DOMAIN ingress.rules : ingress.rules[r].paths \in Seq(P) \cup {NoHTTP}
  <2>. HIDE DEF P
  <2>. QED
    BY <1>3 DEF R
<1>6. ASSUME NEW r \in HTTPRules(ingress)
      PROVE  ingress.rules[r].paths \in Seq(P)
  BY <1>5, Zenon DEF HTTPRules
<1>7. PathBackends(ingress) \subseteq References
  <2>1. SUFFICES ASSUME NEW be \in PathBackends(ingress) PROVE be \in References
    OBVIOUS
  <2>2. PICK r \in HTTPRules(ingress) : \E p \in DOMAIN ingress.rules[r].paths : be = ingress.rules[r].paths[p].be
    BY <2>1, Zenon DEF PathBackends
  <2>3. PICK p \in DOMAIN ingress.rules[r].paths : be = ingress.rules[r].paths[p].be
    BY <2>2
  <2>. DEFINE paths == ingress.rules[r].paths
  <2>4. paths \in Seq(P)
    BY <1>6
  <2>. HIDE DEF paths, P
  <2>5. paths[p] \in P
    BY <2>3, <2>4 DEF paths
  <2>6. paths[p].be \in References
    BY <2>5 DEF P
  <2>. QED
    BY <2>3, <2>6 DEF paths
<1>. QED
  BY <1>2, <1>3, <1>4, <1>6, <1>7, Zenon
-----------------------------------------------------------------------------
\* getServiceNodePort looks at the service that the backend names, and at no other.
LEMMA SameService ==
    ASSUME NEW s1, NEW s2, NEW be, s1[be.svc] = s2[be.svc]
    PROVE  GetServiceNodePort(s1, be) = GetServiceNodePort(s2, be)
BY Zenon DEF GetServiceNodePort

\* The backends an ingress names.
Named(ingress) == PathBackends(ingress) \cup IF ingress.backend = Missing THEN {} ELSE {ingress.backend}

\* The same node ports for all of them give the same result of ingressToNodePorts.
LEMMA SamePorts ==
    ASSUME NEW s1, NEW s2, NEW ingress,
           \A be \in Named(ingress) : GetServiceNodePort(s1, be) = GetServiceNodePort(s2, be)
    PROVE  IngressToNodePorts(s1, ingress) = IngressToNodePorts(s2, ingress)
<1>1. {GetServiceNodePort(s1, be) : be \in Named(ingress)} = {GetServiceNodePort(s2, be) : be \in Named(ingress)}
  OBVIOUS
<1>2. \A s : IngressToNodePorts(s, ingress) =
               {sp \in {GetServiceNodePort(s, be) : be \in Named(ingress)} : sp.err = "none"}
  BY Zenon DEF IngressToNodePorts, Named
<1>. QED
  BY <1>1, <1>2, Zenon

\* So they do in the inner loop of toURLMap.
LEMMA SamePaths ==
    ASSUME NEW s1, NEW s2, NEW pool, NEW paths,
           \A p \in DOMAIN paths : ToGCEBackend(s1, pool, paths[p].be) = ToGCEBackend(s2, pool, paths[p].be)
    PROVE  PathToBackend(s1, pool, paths) = PathToBackend(s2, pool, paths)
<1>1. [p \in DOMAIN paths |-> ToGCEBackend(s1, pool, paths[p].be)]
        = [p \in DOMAIN paths |-> ToGCEBackend(s2, pool, paths[p].be)]
  OBVIOUS
<1>. QED
  BY <1>1, Zenon DEF PathToBackend

\* And in all of toURLMap.
LEMMA SameMap ==
    ASSUME NEW s1, NEW s2, NEW ingress \in Ingresses, NEW pool,
           \A be \in Named(ingress) : GetServiceNodePort(s1, be) = GetServiceNodePort(s2, be)
    PROVE  ToURLMap(s1, pool, ingress) = ToURLMap(s2, pool, ingress)
<1>1. \A be \in Named(ingress) : ToGCEBackend(s1, pool, be) = ToGCEBackend(s2, pool, be)
  BY Zenon DEF ToGCEBackend
<1>2. /\ \A be \in PathBackends(ingress) : be \in Named(ingress)
      /\ ingress.backend # Missing => ingress.backend \in Named(ingress)
  BY DEF Named
<1>3. ASSUME NEW r \in HTTPRules(ingress)
      PROVE  PathToBackend(s1, pool, ingress.rules[r].paths) = PathToBackend(s2, pool, ingress.rules[r].paths)
  <2>1. \A p \in DOMAIN ingress.rules[r].paths : ingress.rules[r].paths[p].be \in PathBackends(ingress)
    BY InPath, Zenon
  <2>2. \A p \in DOMAIN ingress.rules[r].paths : ToGCEBackend(s1, pool, ingress.rules[r].paths[p].be)
                                              = ToGCEBackend(s2, pool, ingress.rules[r].paths[p].be)
    BY <1>1, <1>2, <2>1, Zenon
  <2>. DEFINE paths == ingress.rules[r].paths
  <2>3. \A p \in DOMAIN paths : ToGCEBackend(s1, pool, paths[p].be) = ToGCEBackend(s2, pool, paths[p].be)
    BY <2>2
  <2>. HIDE DEF paths
  <2>4. PathToBackend(s1, pool, paths) = PathToBackend(s2, pool, paths)
    BY <2>3, SamePaths
  <2>. QED
    BY <2>4 DEF paths
<1>4. [r \in HTTPRules(ingress) |-> PathToBackend(s1, pool, ingress.rules[r].paths)]
        = [r \in HTTPRules(ingress) |-> PathToBackend(s2, pool, ingress.rules[r].paths)]
  BY <1>3
<1>5. HostPathBackend(s1, pool, ingress) = HostPathBackend(s2, pool, ingress)
  BY <1>4, Zenon DEF HostPathBackend
<1>6. (\E be \in PathBackends(ingress) : ToGCEBackend(s1, pool, be).err \notin {"none", "notFound"})
        <=> (\E be \in PathBackends(ingress) : ToGCEBackend(s2, pool, be).err \notin {"none", "notFound"})
  BY <1>1, <1>2, Zenon
<1>. DEFINE default(s) == IF ingress.backend = Missing THEN [err |-> "notFound"]
                          ELSE ToGCEBackend(s, pool, ingress.backend)
<1>7. default(s1) = default(s2)
  BY <1>1, <1>2, Zenon
<1>8. \A s : ToURLMap(s, pool, ingress) =
        IF \E be \in PathBackends(ingress) : ToGCEBackend(s, pool, be).err \notin {"none", "notFound"}
        THEN [err |-> TRUE]
        ELSE [err |-> FALSE, hosts |-> HostPathBackend(s, pool, ingress),
              default |-> IF default(s).err = "none" THEN default(s).port ELSE DefaultNodePort]
  BY Zenon DEF ToURLMap
<1>. HIDE DEF default
<1>. QED
  BY <1>5, <1>6, <1>7, <1>8, Zenon

\* enqueueIngressForService queues every ingress of class gce that a new or changed
\* service makes a difference to.
LEMMA AlwaysReaches ==
    ASSUME NEW services \in Stores, NEW name \in Names, NEW new, NEW ingress \in Ingresses
    PROVE  EventReaches(services, name, new, ingress)
<1>. DEFINE after == [services EXCEPT ![name] = new]
            queued == ingress \in EnqueueIngressForService({ingress}, name)
<1>1. \A x \in Names : x # name => after[x] = services[x]
  BY DEF Stores
<1>. HIDE DEF after
<1>2. ASSUME ingress.class = "gce", ~queued, NEW be \in Named(ingress)
      PROVE  GetServiceNodePort(after, be) = GetServiceNodePort(services, be)
  <2>1. be.svc # name
    <3>1. ingress \notin GetServiceIngress({ingress}, name)
      BY <1>2 DEF EnqueueIngressForService
    <3>2. /\ ingress.backend # Missing => ingress.backend.svc # name
          /\ \A b \in PathBackends(ingress) : b.svc # name
      BY <3>1 DEF GetServiceIngress
    <3>. QED
      BY <1>2, <3>2, Zenon DEF Named
  <2>2. be.svc \in Names
    <3>1. be \in References
      BY <1>2, Refers DEF Named
    <3>. QED
      BY <3>1, Refers
  <2>3. after[be.svc] = services[be.svc]
    BY <1>1, <2>1, <2>2
  <2>. QED
    BY <2>3, SameService
<1>3. ASSUME ingress.class = "gce", ~queued
      PROVE  /\ IngressToNodePorts(after, ingress) = IngressToNodePorts(services, ingress)
             /\ \A pool : ToURLMap(after, pool, ingress) = ToURLMap(services, pool, ingress)
  <2>1. \A be \in Named(ingress) : GetServiceNodePort(after, be) = GetServiceNodePort(services, be)
    BY <1>2, <1>3, Zenon
  <2>2. IngressToNodePorts(after, ingress) = IngressToNodePorts(services, ingress)
    BY <2>1, SamePorts, Zenon
  <2>3. \A pool : ToURLMap(after, pool, ingress) = ToURLMap(services, pool, ingress)
    BY <2>1, SameMap, Zenon
  <2>. QED
    BY <2>2, <2>3
<1>. HIDE DEF queued
<1>. QED
  BY <1>3, Zenon DEF EventReaches, after, queued
-----------------------------------------------------------------------------
\* The outer loop of toURLMap: every host has the paths of its last rule.
LEMMA HostMap ==
    ASSUME NEW services, NEW pool, NEW ingress \in Ingresses
    PROVE  MapIs(HTTPRules(ingress), [r \in HTTPRules(ingress) |-> HostOf(ingress.rules[r])],
                 [r \in HTTPRules(ingress) |-> PathToBackend(services, pool, ingress.rules[r].paths)],
                 HostPathBackend(services, pool, ingress))
<1>. DEFINE n == Len(ingress.rules)
            good == HTTPRules(ingress)
            key == [r \in good |-> HostOf(ingress.rules[r])]
            value == [r \in good |-> PathToBackend(services, pool, ingress.rules[r].paths)]
<1>1. n \in Nat /\ good \in SUBSET (1..n)
  BY Refers DEF HTTPRules
<1>2. HostPathBackend(services, pool, ingress) = Loop(n, good, key, value)[n]
  BY Zenon DEF HostPathBackend
<1>. HIDE DEF n, good, key, value
<1>3. MapIs(good, key, value, Loop(n, good, key, value)[n])
  BY <1>1, LoopMap
<1>. QED
  BY <1>2, <1>3, Zenon DEF good, key, value

\* The places in a list of paths whose backend has a node port.
WithPort(services, paths) ==
    {p \in DOMAIN paths : GetServiceNodePort(services, paths[p].be).err = "none"}

\* The inner loop: every path has the last backend with a node port.
LEMMA PathMap ==
    ASSUME NEW services, NEW pool, NEW P, NEW paths \in Seq(P),
           \A p \in DOMAIN paths : ToGCEBackend(services, pool, paths[p].be)
                                     = GetServiceNodePort(services, paths[p].be)
    PROVE  MapIs(WithPort(services, paths), [p \in WithPort(services, paths) |-> PathOf(paths[p])],
                 [p \in WithPort(services, paths) |-> GetServiceNodePort(services, paths[p].be).port],
                 PathToBackend(services, pool, paths))
<1>. DEFINE n == Len(paths)
            be == [p \in DOMAIN paths |-> ToGCEBackend(services, pool, paths[p].be)]
            good == {p \in DOMAIN paths : be[p].err = "none"}
            key == [p \in good |-> PathOf(paths[p])]
            value == [p \in good |-> be[p].port]
<1>1. n \in Nat /\ DOMAIN paths = 1..n
  OBVIOUS
<1>2. \A p \in DOMAIN paths : be[p] = GetServiceNodePort(services, paths[p].be)
  OBVIOUS
<1>3. PathToBackend(services, pool, paths) = Loop(n, good, key, value)[n]
  BY Zenon DEF PathToBackend
<1>. HIDE DEF n, be
<1>4. good = WithPort(services, paths) /\ good \in SUBSET (1..n)
  BY <1>1, <1>2 DEF WithPort
<1>5. \A p \in good : be[p].port = GetServiceNodePort(services, paths[p].be).port
  BY <1>2
<1>. HIDE DEF good
<1>6. /\ key = [p \in WithPort(services, paths) |-> PathOf(paths[p])]
      /\ value = [p \in WithPort(services, paths) |-> GetServiceNodePort(services, paths[p].be).port]
  BY <1>4, <1>5
<1>. HIDE DEF key, value
<1>7. MapIs(good, key, value, Loop(n, good, key, value)[n])
  BY <1>1, <1>4, LoopMap
<1>. QED
  BY <1>3, <1>4, <1>6, <1>7, Zenon

\* A host of a request is none of the two that stand for all hosts, a path neither.
LEMMA Own ==
    /\ \A host \in Hosts : host # "" /\ host # "*"
    /\ \A path \in Paths : path # "" /\ path # "/*"
BY RoutingAssumption

\* toURLMap finds the paths for a host that the rules give for it.
LEMMA HostPaths ==
    ASSUME NEW services, NEW pool, NEW ingress \in Ingresses, NEW host \in Hosts, NEW map,
           map.hosts = HostPathBackend(services, pool, ingress)
    PROVE  /\ PathsOf(map, host) = PathToBackend(services, pool, PathsFor(ingress, host))
           /\ PathsFor(ingress, host) \in Seq([path : Paths \cup {"", "/*"}, be : References])
           /\ \A p \in DOMAIN PathsFor(ingress, host) : PathsFor(ingress, host)[p].be \in PathBackends(ingress)
<1>. DEFINE good == HTTPRules(ingress)
            At(h) == {r \in good : HostOf(ingress.rules[r]) = h}
            hosts == map.hosts
            key == [r \in good |-> HostOf(ingress.rules[r])]
            value == [r \in good |-> PathToBackend(services, pool, ingress.rules[r].paths)]
<1>1. MapIs(good, key, value, hosts)
  BY HostMap, Zenon
<1>2. \A h : {i \in good : key[i] = h} = At(h)
  OBVIOUS
<1>3. \A h : h \in DOMAIN hosts <=> At(h) # {}
  BY <1>1 DEF MapIs
<1>4. \A h \in DOMAIN hosts : /\ Max(At(h)) \in good
                              /\ hosts[h] = PathToBackend(services, pool, ingress.rules[Max(At(h))].paths)
  <2>. HIDE DEF At, good
  <2>1. ASSUME NEW h \in DOMAIN hosts
        PROVE  Max(At(h)) \in good /\ hosts[h] = value[Max(At(h))]
    BY <1>1, <1>2, Zenon DEF MapIs
  <2>. QED
    BY <2>1, Zenon
<1>5. /\ {r \in good : ingress.rules[r].host \in {host, host}} = At(host)
      /\ {r \in good : ingress.rules[r].host \in {"", "*"}} = At("*")
  BY Own DEF HostOf
<1>. DEFINE rules == IF At(host) # {} THEN At(host) ELSE At("*")
            h == IF host \in DOMAIN hosts THEN host ELSE "*"
            for == PathsFor(ingress, host)
<1>6. for = IF rules = {} THEN <<>> ELSE ingress.rules[Max(rules)].paths
  BY <1>5, Zenon DEF PathsFor
<1>7. PathsOf(map, host) = IF h \in DOMAIN hosts THEN hosts[h] ELSE <<>>
  BY Zenon DEF PathsOf
<1>8. rules = At(h) /\ (rules = {} <=> h \notin DOMAIN hosts)
  BY <1>3, Zenon
<1>. HIDE DEF rules, h, for, hosts, At, good
<1>9. CASE h \in DOMAIN hosts
  <2>1. Max(rules) \in good /\ for = ingress.rules[Max(rules)].paths
    BY <1>4, <1>6, <1>8, <1>9
  <2>2. PathsOf(map, host) = PathToBackend(services, pool, for)
    BY <1>4, <1>7, <1>8, <1>9, <2>1
  <2>3. for \in Seq([path : Paths \cup {"", "/*"}, be : References])
    BY <2>1, Refers DEF good
  <2>4. \A p \in DOMAIN for : for[p].be \in PathBackends(ingress)
    BY <2>1, InPath, Zenon DEF good
  <2>. QED
    BY <2>2, <2>3, <2>4 DEF for
<1>10. CASE h \notin DOMAIN hosts
  <2>1. for = <<>> /\ PathsOf(map, host) = <<>>
    BY <1>6, <1>7, <1>8, <1>10
  <2>2. PathToBackend(services, pool, <<>>) = <<>>
    <3>1. \A good_, key_, value_ : Loop(0, good_, key_, value_)[0] = <<>>
      <4>1. SUFFICES ASSUME NEW good_, NEW key_, NEW value_ PROVE Loop(0, good_, key_, value_)[0] = <<>>
        OBVIOUS
      <4>2. Turns(0, good_, key_, value_, Loop(0, good_, key_, value_))
        BY LoopTurns
      <4>. QED
        BY <4>2 DEF Turns
    <3>2. Len(<<>>) = 0
      OBVIOUS
    <3>3. \E good_, key_, value_ : PathToBackend(services, pool, <<>>)
                                     = Loop(Len(<<>>), good_, key_, value_)[Len(<<>>)]
      BY Zenon DEF PathToBackend
    <3>. QED
      BY <3>1, <3>2, <3>3
  <2>3. <<>> \in Seq([path : Paths \cup {"", "/*"}, be : References]) /\ DOMAIN <<>> = {}
    OBVIOUS
  <2>. QED
    BY <2>1, <2>2, <2>3 DEF for
<1>. QED
  BY <1>9, <1>10

\* A map sends a path to the last backend with a node port that the rules give for it.
Goes(services, paths, path, map) ==
    LET p == IF path \in DOMAIN map THEN path ELSE "/*"
        found == Found(services, paths, path)
    IN /\ p \in DOMAIN map <=> found # {}
       /\ found # {} => map[p] = GetServiceNodePort(services, paths[Max(found)].be).port

\* With the node ports of its backends in the pool, toURLMap sends a path to the
\* last backend with a node port that the rules give for it.
LEMMA Routed ==
    ASSUME NEW services, NEW pool, NEW P, NEW paths \in Seq(P), NEW path \in Paths,
           \A p \in DOMAIN paths : ToGCEBackend(services, pool, paths[p].be)
                                     = GetServiceNodePort(services, paths[p].be)
    PROVE  Goes(services, paths, path, PathToBackend(services, pool, paths))
<1>. DEFINE map == PathToBackend(services, pool, paths)
            good == WithPort(services, paths)
            At(x) == {p \in good : PathOf(paths[p]) = x}
            key == [p \in good |-> PathOf(paths[p])]
            value == [p \in good |-> GetServiceNodePort(services, paths[p].be).port]
            p == IF path \in DOMAIN map THEN path ELSE "/*"
            found == Found(services, paths, path)
<1>1. MapIs(good, key, value, map)
  BY PathMap, Zenon
<1>2. \A x : {i \in good : key[i] = x} = At(x)
  OBVIOUS
<1>3. \A x : x \in DOMAIN map <=> At(x) # {}
  BY <1>1 DEF MapIs
<1>. HIDE DEF map
<1>4. \A x \in DOMAIN map : /\ Max(At(x)) \in good
                            /\ map[x] = GetServiceNodePort(services, paths[Max(At(x))].be).port
  <2>. HIDE DEF At, good
  <2>1. ASSUME NEW x \in DOMAIN map
        PROVE  Max(At(x)) \in good /\ map[x] = value[Max(At(x))]
    BY <1>1, <1>2, Zenon DEF MapIs
  <2>. QED
    BY <2>1, Zenon
<1>. DEFINE Good(x, y) == {q \in DOMAIN paths : /\ paths[q].path \in {x, y}
                                                /\ GetServiceNodePort(services, paths[q].be).err = "none"}
<1>5. Good(path, path) = At(path) /\ Good("", "/*") = At("/*")
  BY Own DEF PathOf, WithPort
<1>6. found = IF Good(path, path) # {} THEN Good(path, path) ELSE Good("", "/*")
  BY Zenon DEF Found
<1>. HIDE DEF At, good, Good, found
<1>7. found = At(p) /\ (p \in DOMAIN map <=> found # {})
  BY <1>3, <1>5, <1>6
<1>8. found # {} => map[p] = GetServiceNodePort(services, paths[Max(found)].be).port
  BY <1>4, <1>7, Zenon
<1>. QED
  BY <1>7, <1>8, Zenon DEF Goes, map, found

\* Every value of a map is the node port of one of the backends.
OnlyPorts(services, paths, map) ==
    \A x \in DOMAIN map : \E p \in WithPort(services, paths) :
       map[x] = GetServiceNodePort(services, paths[p].be).port

\* So it is in toURLMap.
LEMMA Values ==
    ASSUME NEW services, NEW pool, NEW P, NEW paths \in Seq(P),
           \A p \in DOMAIN paths : ToGCEBackend(services, pool, paths[p].be)
                                     = GetServiceNodePort(services, paths[p].be)
    PROVE  OnlyPorts(services, paths, PathToBackend(services, pool, paths))
<1>. DEFINE map == PathToBackend(services, pool, paths)
            good == WithPort(services, paths)
            key == [p \in good |-> PathOf(paths[p])]
            value == [p \in good |-> GetServiceNodePort(services, paths[p].be).port]
<1>1. MapIs(good, key, value, map)
  BY PathMap, Zenon
<1>. HIDE DEF map, good
<1>2. ASSUME NEW x \in DOMAIN map
      PROVE  \E p \in good : map[x] = GetServiceNodePort(services, paths[p].be).port
  <2>. DEFINE last == Max({i \in good : key[i] = x})
  <2>1. last \in good /\ map[x] = value[last]
    BY <1>1, Zenon DEF MapIs
  <2>. HIDE DEF last
  <2>. QED
    BY <2>1
<1>. QED
  BY <1>2, Zenon DEF OnlyPorts, map, good

\* Once the ports that ingressToNodePorts gives have a backend, toURLMap fails only
\* for application protocols that cannot be parsed, refers to no other backend, and
\* sends every request where the rules say.
LEMMA AlwaysBacked ==
    ASSUME NEW services, NEW ingress \in Ingresses
    PROVE  Backed(services, ingress)
<1>. DEFINE N(be) == GetServiceNodePort(services, be)
            all == IngressToNodePorts(services, ingress)
            ports == PortsOf(all)
            map == ToURLMap(services, ports, ingress)
            default == IF ingress.backend = Missing THEN {}
                       ELSE {be \in {ingress.backend} : N(be).err = "none"}
<1>1. \A be \in Named(ingress) : N(be).err = "none" => N(be) \in all
  BY DEF IngressToNodePorts, Named
<1>2. \A be \in Named(ingress) : N(be).err = "none" => N(be).port \in ports
  <2>. HIDE DEF all, N
  <2>. QED
    BY <1>1 DEF PortsOf
<1>3. \A be \in Named(ingress) : ToGCEBackend(services, ports, be) = N(be)
  <2>. HIDE DEF all, ports
  <2>. QED
    BY <1>2, Zenon DEF ToGCEBackend
<1>4. \A be \in PathBackends(ingress) : be \in Named(ingress)
  BY DEF Named
<1>5. ingress.backend # Missing => ingress.backend \in Named(ingress)
  BY DEF Named
<1>. DEFINE bad == \E be \in PathBackends(ingress) : ToGCEBackend(services, ports, be).err \notin {"none", "notFound"}
            own == IF ingress.backend = Missing THEN [err |-> "notFound"]
                   ELSE ToGCEBackend(services, ports, ingress.backend)
            full == [err |-> FALSE, hosts |-> HostPathBackend(services, ports, ingress),
                     default |-> IF own.err = "none" THEN own.port ELSE DefaultNodePort]
<1>6. map = IF bad THEN [err |-> TRUE] ELSE full
  BY Zenon DEF ToURLMap
<1>7. bad <=> \E be \in PathBackends(ingress) : N(be).err = "protos"
  <2>. HIDE DEF all, ports
  <2>1. \A be \in PathBackends(ingress) : /\ ToGCEBackend(services, ports, be) = N(be)
                                      /\ N(be).err \in {"none", "notFound", "protos"}
    BY <1>3, <1>4, PortOrError
  <2>. HIDE DEF N
  <2>. QED
    BY <2>1
<1>8. full.err = FALSE /\ full.hosts = HostPathBackend(services, ports, ingress)
        /\ full.default = IF own.err = "none" THEN own.port ELSE DefaultNodePort
  <2>. HIDE DEF own, ports
  <2>. QED
    OBVIOUS
<1>9. full.default = IF default = {} THEN DefaultNodePort ELSE N(ingress.backend).port
  <2>. HIDE DEF full, all, ports, N
  <2>1. CASE ingress.backend = Missing
    BY <1>8, <2>1
  <2>2. CASE ingress.backend # Missing
    <3>1. own = N(ingress.backend)
      BY <1>3, <1>5, <2>2
    <3>2. default = {} <=> N(ingress.backend).err # "none"
      BY <2>2
    <3>. QED
      BY <1>8, <3>1, <3>2
  <2>. QED
    BY <2>1, <2>2
<1>10. default # {} => default = {ingress.backend} /\ N(ingress.backend).port \in ports
  <2>. HIDE DEF full, all, ports, N
  <2>. QED
    BY <1>2, <1>5
<1>. HIDE DEF bad, own, full, all, ports, N, default
<1>11. BackendsOf(full) \subseteq ports \cup {DefaultNodePort}
  <2>1. full.default \in ports \cup {DefaultNodePort}
    BY <1>9, <1>10
  <2>2. ASSUME NEW h \in DOMAIN full.hosts, NEW x \in DOMAIN full.hosts[h]
        PROVE  full.hosts[h][x] \in ports
    <3>. DEFINE good == HTTPRules(ingress)
                key == [r \in good |-> HostOf(ingress.rules[r])]
                value == [r \in good |-> PathToBackend(services, ports, ingress.rules[r].paths)]
                r == Max({i \in good : key[i] = h})
                paths == ingress.rules[r].paths
    <3>1. MapIs(good, key, value, full.hosts)
      BY <1>8, HostMap, Zenon
    <3>. HIDE DEF good
    <3>2. r \in good /\ full.hosts[h] = value[r]
      BY <3>1, Zenon DEF MapIs
    <3>. HIDE DEF r
    <3>3. full.hosts[h] = PathToBackend(services, ports, paths)
      BY <3>2
    <3>4. paths \in Seq([path : Paths \cup {"", "/*"}, be : References])
      BY <3>2, Refers DEF good
    <3>5. \A p \in DOMAIN paths : paths[p].be \in Named(ingress)
      BY <1>4, <3>2, InPath, Zenon DEF good
    <3>. HIDE DEF paths
    <3>6. \A p \in DOMAIN paths : ToGCEBackend(services, ports, paths[p].be) = GetServiceNodePort(services, paths[p].be)
      BY <1>3, <3>5, Zenon DEF N
    <3>7. x \in DOMAIN PathToBackend(services, ports, paths)
      BY <3>3
    <3>8. PICK p \in WithPort(services, paths) :
                 full.hosts[h][x] = GetServiceNodePort(services, paths[p].be).port
      <4>. DEFINE P == [path : Paths \cup {"", "/*"}, be : References]
      <4>1. paths \in Seq(P)
        BY <3>4
      <4>. HIDE DEF P
      <4>2. OnlyPorts(services, paths, PathToBackend(services, ports, paths))
        BY <3>6, <4>1, Values, Zenon
      <4>. QED
        BY <3>3, <3>7, <4>2, Zenon DEF OnlyPorts
    <3>9. p \in DOMAIN paths /\ N(paths[p].be).err = "none"
      BY <3>8 DEF WithPort, N
    <3>. QED
      BY <1>2, <3>5, <3>8, <3>9 DEF N
  <2>. QED
    BY <2>1, <2>2 DEF BackendsOf
<1>12. ASSUME NEW host \in Hosts, NEW path \in Paths
       PROVE  LET asked == Asked(services, ingress, host, path)
                  bes == IF asked # {} THEN asked ELSE default
              IN Route(full, host, path) =
                    IF bes = {} THEN DefaultNodePort
                    ELSE N(CHOOSE be \in bes : TRUE).port
  <2>. DEFINE paths == PathsFor(ingress, host)
              found == Found(services, paths, path)
              asked == Asked(services, ingress, host, path)
              pmap == PathToBackend(services, ports, paths)
              p == IF path \in DOMAIN pmap THEN path ELSE "/*"
  <2>1. /\ PathsOf(full, host) = pmap
        /\ paths \in Seq([path : Paths \cup {"", "/*"}, be : References])
        /\ \A q \in DOMAIN paths : paths[q].be \in PathBackends(ingress)
    BY <1>8, HostPaths, Zenon
  <2>2. Route(full, host, path) = IF p \in DOMAIN pmap THEN pmap[p] ELSE full.default
    BY <2>1, Zenon DEF Route
  <2>3. asked = IF found = {} THEN {} ELSE {paths[Max(found)].be}
    BY Zenon DEF Asked
  <2>. HIDE DEF paths
  <2>4. \A q \in DOMAIN paths : ToGCEBackend(services, ports, paths[q].be) = GetServiceNodePort(services, paths[q].be)
    BY <1>3, <1>4, <2>1, Zenon DEF N
  <2>5. /\ p \in DOMAIN pmap <=> found # {}
        /\ found # {} => pmap[p] = N(paths[Max(found)].be).port
    <3>. DEFINE P == [path : Paths \cup {"", "/*"}, be : References]
    <3>1. paths \in Seq(P)
      BY <2>1
    <3>. HIDE DEF P
    <3>2. Goes(services, paths, path, pmap)
      BY <2>4, <3>1, Routed, Zenon
    <3>. QED
      BY <3>2, Zenon DEF Goes, N
  <2>. HIDE DEF found, asked, pmap, p
  <2>6. CASE found # {}
    <3>1. asked = {paths[Max(found)].be} /\ asked # {}
      BY <2>3, <2>6
    <3>2. (CHOOSE be \in asked : TRUE) = paths[Max(found)].be
      BY <3>1
    <3>3. Route(full, host, path) = N(paths[Max(found)].be).port
      BY <2>2, <2>5, <2>6
    <3>. QED
      BY <3>1, <3>2, <3>3, Zenon DEF asked
  <2>7. CASE found = {}
    <3>1. asked = {} /\ Route(full, host, path) = full.default
      BY <2>2, <2>3, <2>5, <2>7
    <3>2. CASE default = {}
      BY <1>9, <3>1, <3>2, Zenon DEF asked
    <3>3. CASE default # {}
      <4>1. (CHOOSE be \in default : TRUE) = ingress.backend
        BY <1>10, <3>3
      <4>. QED
        BY <1>9, <3>1, <3>3, <4>1, Zenon DEF asked
    <3>. QED
      BY <3>2, <3>3
  <2>. QED
    BY <2>6, <2>7
<1>13. /\ map.err <=> \E be \in PathBackends(ingress) : N(be).err = "protos"
       /\ ~map.err => map = full
  <2>1. CASE bad
    BY <1>6, <1>7, <2>1
  <2>2. CASE ~bad
    BY <1>6, <1>7, <1>8, <2>2
  <2>. QED
    BY <2>1, <2>2
<1>. QED
  BY <1>11, <1>12, <1>13, Zenon DEF Backed, map, ports, all, N, default

-----------------------------------------------------------------------------
\* The url map is made of backends that sync has asked for, and sends requests where
\* the rules say: for all services, ingresses, hosts and paths.
THEOREM UrlMapAlwaysBacked == Spec => []UrlMapIsBacked
<1>1. UrlMapIsBacked
  BY AlwaysBacked, Zenon DEF UrlMapIsBacked
<1>. QED
  BY <1>1, PTL

\* A new or changed service queues every ingress of class gce that it makes a
\* difference to.
THEOREM ServiceEventsAlwaysReach == Spec => []ServiceEventsReach
<1>1. ASSUME NEW services \in Stores, NEW name \in Names, NEW ingress \in Ingresses,
             NEW new \in Services[name] \ {Missing, services[name]}
      PROVE  EventReaches(services, name, new, ingress)
  BY AlwaysReaches, Zenon
<1>2. ServiceEventsReach
  BY <1>1, Zenon DEF ServiceEventsReach
<1>. QED
  BY <1>2, PTL

\* The firewall is open for every endpoint of a NEG, if all ports are TCP.
THEOREM NegPortsAlwaysOpen == Spec => []NegPortsOpen
<1>1. \A target \in Targets : target.by \in {"port", "name"}
  BY RoutingAssumption, Zenon
<1>2. ASSUME NEW subsets \in Endpoints, NEW target \in Targets
      PROVE  PortsOpen(subsets, target)
  BY <1>1, AlwaysOpen
<1>3. NegPortsOpen
  BY <1>2, Zenon DEF NegPortsOpen
<1>. QED
  BY <1>3, PTL
=============================================================================
