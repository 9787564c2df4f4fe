---------------------------------- MODULE L7 ----------------------------------
(***************************************************************************)
(* One load balancer (pkg/loadbalancers/loadbalancers.go): the resources   *)
(* its L7 object creates, checks and cleans up, one cloud call after the   *)
(* other, as the syncs of its ingress ask for it.  A check is one action:  *)
(* nothing but this goroutine works on resources of these names.  A call   *)
(* may fail before or after its effect, and the process may die between    *)
(* any two checks; the L7 object is in memory only.                        *)
(* Links between resources are not state: every resource of a load         *)
(* balancer has its fixed name, so a link is right when its target exists. *)
(***************************************************************************)
EXTENDS Naturals

CONSTANTS
    Contents,      \* certificates: what a TLS secret may hold
    UserContent,   \* the certificate the user has created in the cloud
    Infos,         \* what the ingress may ask for
    Rules,         \* contents of url maps
    DefaultRules,  \* the content of a new url map: the default backend only
    EphemeralIPs,
    UserIP,        \* the static IP the user has reserved
    None,
    MaxChanges,    \* bound: changes of the ingress
    MaxFaults,     \* bound: calls that fail
    MaxCrashes     \* bound: restarts of the process

\* L7RuntimeInfo, with the rules of the ingress; tls is "preshared" for an
\* ingress that names the user's certificate, else the content of its secret.
RuntimeInfo == [http : BOOLEAN, tls : Contents \cup {"none", "preshared"},
                static : BOOLEAN, rules : Rules]

ASSUME ConstantsAssumption ==
    /\ Contents \cap {"none", "preshared"} = {}
    /\ UserContent \in Contents
    /\ Infos \subseteq RuntimeInfo
    /\ DefaultRules \notin Rules
    /\ UserIP \notin EphemeralIPs
    /\ None \notin Contents \cup Rules \cup EphemeralIPs \cup {UserIP, DefaultRules}
    /\ None \notin RuntimeInfo \cup {"map", "proxy", "primary", "secondary", "user"}
    /\ MaxChanges \in Nat /\ MaxFaults \in Nat /\ MaxCrashes \in Nat

IPs == EphemeralIPs \cup {UserIP}

\* The two names the controller alternates between, and the user's own.
CertNames == {"primary", "secondary", "user"}

VARIABLES
    ing,      \* the ingress: what it asks for, or None
    ri,       \* runtimeInfo of the L7 object
    l7,       \* what the L7 object has recorded
    pooled,   \* it is in the pool
    gce,      \* the resources in the cloud
    pc,       \* the check that comes next
    failed,   \* the sync under way has met an error (FALSE between syncs)
    changes, faults, crashes

vars == <<ing, ri, l7, pooled, gce, pc, failed, changes, faults, crashes>>
budgetVars == <<changes, faults, crashes>>

NoL7 == [um |-> None, tp |-> None, tps |-> None, fw |-> None, fws |-> None,
         ip |-> None, cert |-> None, old |-> None]

\* The variables have their types.  The address on record as the ingress's own is
\* never the user's: checkStaticIP must not adopt it, or Cleanup would delete it.
TypeOK ==
    /\ ing \in Infos \cup {None}
    /\ ri \in Infos \cup {None}
    /\ l7 \in [um : {"map", None}, tp : {"proxy", None}, tps : {"proxy", None},
               fw : IPs \cup {None}, fws : IPs \cup {None}, ip : EphemeralIPs \cup {None},
               cert : CertNames \cup {None}, old : CertNames \cup {None}]
    /\ pooled \in BOOLEAN
    /\ gce \in [um : Rules \cup {DefaultRules, None}, tp : {"proxy", None},
                tps : CertNames \cup {None}, fw : IPs \cup {None},
                fws : IPs \cup {None}, ip : EphemeralIPs \cup {None},
                certs : [CertNames -> Contents \cup {None}]]
    /\ pc \in {"idle", "urlmap", "proxy", "fw", "ip", "cert", "https", "fws",
               "old", "rules", "cleanup"}
    /\ failed \in BOOLEAN
    /\ changes \in 0..MaxChanges
    /\ faults \in 0..MaxFaults
    /\ crashes \in 0..MaxCrashes

\* An ingress that has just been created, or none.
Init ==
    /\ ing \in Infos \cup {None}
    /\ ri = None
    /\ l7 = NoL7
    /\ pooled = FALSE
    /\ gce = [um |-> None, tp |-> None, tps |-> None, fw |-> None, fws |-> None,
              ip |-> None, certs |-> [n \in CertNames |->
                                         IF n = "user" THEN UserContent ELSE None]]
    /\ pc = "idle"
    /\ failed = FALSE
    /\ changes = 0 /\ faults = 0 /\ crashes = 0

-----------------------------------------------------------------------------
IngressChange ==
    /\ changes < MaxChanges
    /\ changes' = changes + 1
    /\ ing' \in (Infos \cup {None}) \ {ing}
    /\ UNCHANGED <<ri, l7, pooled, gce, pc, failed, faults, crashes>>

\* The process dies; its pool of load balancers is in memory only.
Crash ==
    /\ crashes < MaxCrashes
    /\ crashes' = crashes + 1
    /\ ri' = None
    /\ l7' = NoL7
    /\ pooled' = FALSE
    /\ pc' = "idle"
    /\ failed' = FALSE
    /\ UNCHANGED <<ing, gce, changes, faults>>

-----------------------------------------------------------------------------
\* The control of a sync.

CallFails == faults < MaxFaults /\ faults' = faults + 1

\* The sync of an ingress that exists makes or updates the L7 object (Add);
\* that of one that is gone garbage collects it, if the pool has it (GC).
SyncBegin ==
    /\ pc = "idle"
    /\ UNCHANGED failed
    /\ \/ /\ ing # None
          /\ ri' = ing
          /\ pooled' = TRUE
          /\ pc' = "urlmap"
       \/ /\ ing = None
          /\ pc' = IF pooled THEN "cleanup" ELSE "idle"
          /\ UNCHANGED <<ri, pooled>>
    /\ UNCHANGED <<ing, l7, gce, budgetVars>>

WantsHttps == ri.tls # "none"

\* edgeHop, edgeHopHttp, edgeHopHttps: which check follows which.
Following ==
    CASE pc = "urlmap" -> IF ri.http THEN "proxy"
                          ELSE IF WantsHttps THEN "cert" ELSE "rules"
      [] pc = "proxy"  -> "fw"
      [] pc = "fw"     -> IF WantsHttps THEN "ip" ELSE "rules"
      [] pc = "ip"     -> "cert"
      [] pc = "cert"   -> "https"
      [] pc = "https"  -> "fws"
      [] pc = "fws"    -> "old"
      [] pc = "old"    -> "rules"

\* A check has succeeded and left the given memory and cloud.
Done(memory, cloud) ==
    /\ l7' = memory
    /\ gce' = cloud
    /\ pc' = Following
    /\ UNCHANGED failed

\* A mutant: the sync ends with the checkpoint.
FailEndsSync(memory, cloud) ==
    /\ l7' = memory
    /\ gce' = cloud
    /\ pc' = "idle"
    /\ failed' = FALSE

\* A check has returned an error: the rest of the checkpoint is skipped, but
\* the sync goes on with the url map.
Fail(memory, cloud) ==
    /\ l7' = memory
    /\ gce' = cloud
    /\ pc' = "rules"
    /\ failed' = TRUE

\* A call has failed, after its effect or without one.
Fault(memory, clouds) ==
    /\ CallFails
    /\ \E cloud \in clouds : Fail(memory, cloud)

-----------------------------------------------------------------------------
\* The checks.  An error of Get counts as a resource that does not exist;
\* its creation then fails, which is the same as a failed call.

CheckUrlMap ==
    /\ pc = "urlmap"
    /\ LET made == IF gce.um = None THEN [gce EXCEPT !.um = DefaultRules] ELSE gce
       IN \/ Done([l7 EXCEPT !.um = "map"], made) /\ UNCHANGED faults
          \/ Fault(l7, {gce, made})
    /\ UNCHANGED <<ing, ri, pooled, changes, crashes>>

CheckProxy ==
    /\ pc = "proxy"
    /\ LET made == [gce EXCEPT !.tp = "proxy"]
       IN \/ Done([l7 EXCEPT !.tp = "proxy"], made) /\ UNCHANGED faults
          \/ Fault(l7, {gce, made})
    /\ UNCHANGED <<ing, ri, pooled, changes, crashes>>

\* checkForwardingRule: the addresses the rule r may have when it is asked to
\* have this one.  A rule with another address is made again; a new rule
\* without an address ("" is None) gets one from the cloud that nobody has.
RuleAddresses(r, address) ==
    IF gce[r] # None /\ address \in {None, gce[r]} THEN {gce[r]}
    ELSE IF address # None THEN {address}
    ELSE EphemeralIPs \ {gce.fw, gce.fws, gce.ip}

\* checkHttpForwardingRule and checkHttpsForwardingRule, with getEffectiveIP:
\* a failed lookup of the user's address is no error, the address the
\* controller has reserved is taken instead.  When the rule has to be made
\* again it may be left deleted.
CheckForwardingRule(r) ==
    /\ pc = r
    /\ \/ \E ip \in RuleAddresses(r, IF ri.static THEN UserIP ELSE l7.ip) :
             LET made == [gce EXCEPT ![r] = ip]
                 gone == IF ip = gce[r] THEN gce ELSE [gce EXCEPT ![r] = None]
             IN \/ Done([l7 EXCEPT ![r] = ip], made) /\ UNCHANGED faults
                \/ Fault(l7, {gce, gone, made})
       \/ /\ ri.static
          /\ CallFails
          /\ \E ip \in RuleAddresses(r, l7.ip) :
                Done([l7 EXCEPT ![r] = ip], [gce EXCEPT ![r] = ip])
    /\ UNCHANGED <<ing, ri, pooled, changes, crashes>>

\* A mutant: the address in conflict is adopted.
CheckStaticIPAdopts ==
    /\ pc = "ip"
    /\ Done([l7 EXCEPT !.ip = l7.fw],
            IF gce.ip = None /\ l7.fw # UserIP THEN [gce EXCEPT !.ip = l7.fw] ELSE gce)
    /\ UNCHANGED <<ing, ri, pooled, changes, faults, crashes>>

\* A mutant: an address reserved before is not read.
CheckStaticIPOnce ==
    /\ pc = "ip"
    /\ IF ri.static \/ gce.ip # None \/ l7.fw = UserIP THEN Done(l7, gce)
       ELSE Done([l7 EXCEPT !.ip = l7.fw], [gce EXCEPT !.ip = l7.fw])
    /\ UNCHANGED <<ing, ri, pooled, changes, faults, crashes>>

\* checkStaticIP: reserves the address of the HTTP rule, unless the user has
\* given one.  An address the user has reserved is refused, which is no error;
\* nor is the conflict when the address exists and its lookup has failed.
CheckStaticIP ==
    /\ pc = "ip"
    /\ LET made    == IF gce.ip = None THEN [gce EXCEPT !.ip = l7.fw] ELSE gce
           reserve == IF gce.ip = None /\ l7.fw = UserIP
                      THEN Done(l7, gce)
                      ELSE Done([l7 EXCEPT !.ip = made.ip], made)
       IN \/ ri.static /\ Done(l7, gce) /\ UNCHANGED faults
          \/ ri.static /\ CallFails /\ reserve
          \/ ~ri.static /\ reserve /\ UNCHANGED faults
          \/ ~ri.static /\ gce.ip # None /\ CallFails /\ Done(l7, gce)
          \/ ~ri.static /\ l7.fw # UserIP /\ gce.ip = None /\ Fault(l7, {gce, made})
    /\ UNCHANGED <<ing, ri, pooled, changes, crashes>>

NextCertificateName(cert) == IF cert = "primary" THEN "secondary" ELSE "primary"

\* A mutant: the proxy is not asked.
PopulatedCertFromMemory(inUse) ==
    IF l7.cert # None /\ gce.certs[l7.cert] # None THEN l7.cert ELSE None

\* populateSSLCert: the certificate on record, or else the one the proxy uses
\* (None if it cannot be looked up), provided that it exists.
PopulatedCert(inUse) ==
    LET name == IF l7.cert # None THEN l7.cert ELSE inUse
    IN IF name # None /\ gce.certs[name] # None THEN name ELSE None

\* The rest of checkSSLCert, for a certificate from a secret: cert is what
\* populateSSLCert has found.  The name to use next is freed first; the cloud
\* refuses if the proxy uses it.
UpToDate(cert) == cert # None /\ gce.certs[cert] = ri.tls

UpdateCert(cert) ==
    LET new == NextCertificateName(cert)
    IN IF UpToDate(cert) THEN Done([l7 EXCEPT !.cert = cert], gce)
       ELSE IF gce.tps = new THEN Fail([l7 EXCEPT !.cert = cert], gce)
       ELSE Done([l7 EXCEPT !.cert = new, !.old = cert],
                 [gce EXCEPT !.certs[new] = ri.tls])

CheckSSLCert ==
    /\ pc = "cert"
    /\ \/ /\ ri.tls = "preshared"                             \* usePreSharedCert
          /\ \/ /\ IF gce.certs["user"] # None
                   THEN Done([l7 EXCEPT !.cert = "user"], gce) ELSE Fail(l7, gce)
                /\ UNCHANGED faults
             \/ Fault(l7, {gce})
       \/ /\ ri.tls # "preshared"
          /\ LET cert == PopulatedCert(gce.tps)
                 new  == NextCertificateName(cert)
             IN \/ UpdateCert(cert) /\ UNCHANGED faults
                \* The proxy cannot be looked up, which is no error.
                \/ CallFails /\ UpdateCert(PopulatedCert(None))
                \* The certificate cannot be looked up.
                \/ Fault([l7 EXCEPT !.cert = None], {gce})
                \* The deletion or the creation fails.
                \/ /\ ~UpToDate(cert) /\ gce.tps # new
                   /\ Fault([l7 EXCEPT !.cert = cert],
                            {[gce EXCEPT !.certs[new] = c] :
                                c \in {gce.certs[new], None, ri.tls}})
    /\ UNCHANGED <<ing, ri, pooled, changes, crashes>>

\* A mutant: a proxy that exists keeps its certificate.
CheckHttpsProxyKeepsCert ==
    /\ pc = "https"
    /\ LET made == IF gce.tps = None THEN [gce EXCEPT !.tps = l7.cert] ELSE gce
       IN \/ Done([l7 EXCEPT !.tps = "proxy"], made) /\ UNCHANGED faults
          \/ Fault(l7, {gce, made})
    /\ UNCHANGED <<ing, ri, pooled, changes, crashes>>

CheckHttpsProxy ==
    /\ pc = "https"
    /\ LET made == [gce EXCEPT !.tps = l7.cert]
       IN \/ Done([l7 EXCEPT !.tps = "proxy"], made) /\ UNCHANGED faults
          \/ Fault(l7, {gce, made})
    /\ UNCHANGED <<ing, ri, pooled, changes, crashes>>

\* Only a certificate with one of the controller's names is deleted.
DeleteOldSSLCert ==
    /\ pc = "old"
    /\ IF l7.old \in {None, l7.cert, "user"}
       THEN Done(l7, gce) /\ UNCHANGED faults
       ELSE LET gone == [gce EXCEPT !.certs[l7.old] = None]
            IN \/ Done([l7 EXCEPT !.old = None], gone) /\ UNCHANGED faults
               \/ Fault(l7, {gce, gone})
    /\ UNCHANGED <<ing, ri, pooled, changes, crashes>>

\* UpdateUrlMap, the last part of a sync; then the garbage collection, which
\* finds that the load balancer is wanted.  Failed or not, the key is synced
\* again: by the queue, or when the informers resynchronise.
UpdateUrlMap ==
    /\ pc = "rules"
    /\ pc' = "idle"
    /\ failed' = FALSE
    /\ LET new == [gce EXCEPT !.um = ri.rules]
       IN \/ l7.um = None /\ UNCHANGED <<gce, faults>>
          \/ l7.um # None /\ gce' = new /\ UNCHANGED faults
          \/ l7.um # None /\ CallFails /\ gce' \in {gce, new}
    /\ UNCHANGED <<ing, ri, l7, pooled, changes, crashes>>

-----------------------------------------------------------------------------
\* Cleanup: the records in the order in which their resources are deleted.
CleanupOrder == <<"fw", "fws", "ip", "tps", "cert", "tp", "um">>

\* A mutant: no address is deleted when the ingress has named the user's.
HeldUnlessUserIP(r) ==
    /\ l7[r] # None
    /\ r = "ip" => ~ri.static
    /\ r = "cert" => ri.tls # "preshared"

\* A certificate is kept when the ingress named it.
Held(r) == l7[r] # None /\ (r = "cert" => ri.tls # "preshared")

\* The cloud refuses to delete what another resource refers to.
InUse(r) ==
    CASE r \in {"fw", "fws"} -> FALSE
      [] r = "ip"   -> gce.ip # None /\ gce.ip \in {gce.fw, gce.fws}
      [] r = "tps"  -> gce.fws # None
      [] r = "cert" -> gce.tps = l7.cert
      [] r = "tp"   -> gce.fw # None
      [] r = "um"   -> gce.tp # None \/ gce.tps # None

Deleted(r) == IF r = "cert" THEN [gce EXCEPT !.certs[l7.cert] = None]
              ELSE [gce EXCEPT ![r] = None]

\* Cleanup deletes one resource after the other and stops at the first error;
\* a later sync takes it up again.
CleanupResource ==
    /\ pc = "cleanup"
    /\ \E i \in DOMAIN CleanupOrder :
          LET r == CleanupOrder[i]
          IN /\ Held(r)
             /\ \A j \in 1..(i - 1) : ~Held(CleanupOrder[j])
             /\ \/ /\ ~InUse(r)
                   /\ gce' = Deleted(r)
                   /\ l7' = [l7 EXCEPT ![r] = None]
                   /\ UNCHANGED <<pc, faults>>
                \/ /\ InUse(r)
                   /\ pc' = "idle"
                   /\ UNCHANGED <<l7, gce, faults>>
                \/ /\ ~InUse(r)
                   /\ CallFails
                   /\ gce' \in {gce, Deleted(r)}
                   /\ pc' = "idle"
                   /\ UNCHANGED l7
    /\ UNCHANGED <<ing, ri, pooled, failed, changes, crashes>>

\* Nothing is left on record: the L7 object leaves the pool.
CleanupEnd ==
    /\ pc = "cleanup"
    /\ \A i \in DOMAIN CleanupOrder : ~Held(CleanupOrder[i])
    /\ pooled' = FALSE
    /\ l7' = NoL7
    /\ ri' = None
    /\ pc' = "idle"
    /\ UNCHANGED <<ing, gce, failed, budgetVars>>

-----------------------------------------------------------------------------
Sync ==
    \/ SyncBegin
    \/ CheckUrlMap
    \/ CheckProxy
    \/ \E r \in {"fw", "fws"} : CheckForwardingRule(r)
    \/ CheckStaticIP
    \/ CheckSSLCert
    \/ CheckHttpsProxy
    \/ DeleteOldSSLCert
    \/ UpdateUrlMap
    \/ CleanupResource
    \/ CleanupEnd

Next == Sync \/ IngressChange \/ Crash

Spec == Init /\ [][Next]_vars

\* The queue retries a failed sync, and the informers resynchronise every
\* ingress periodically: the goroutine always goes on.
FairSpec == Spec /\ WF_vars(Sync)

-----------------------------------------------------------------------------
\* Properties.

HttpServed == gce.um # None /\ gce.tp # None /\ gce.fw # None
HttpsServed(info) ==
    /\ gce.um # None /\ gce.tps # None /\ gce.fws # None
    /\ gce.certs[gce.tps] =
          IF info.tls = "preshared" THEN UserContent ELSE info.tls

\* When edgeHop returns without an error, the cloud serves what the ingress
\* has asked for: a chain of existing resources for each protocol, with the
\* certificate of the secret (or the user's) on the HTTPS proxy.
SuccessMeansServed ==
    (pc = "rules" /\ ~failed) =>
        /\ ri.http => HttpServed
        /\ WantsHttps => HttpsServed(ri)

\* The resources that have one name each: all but the certificates.
Shared == {"um", "tp", "tps", "fw", "fws", "ip"}

\* A certificate update cannot proceed: the proxy still uses the certificate
\* that checkSSLCert has to delete first.
CertStuck ==
    /\ l7.cert # None
    /\ gce.certs[l7.cert] # ing.tls
    /\ gce.tps = NextCertificateName(l7.cert)

\* The HTTP side of an ingress that is not changed any more comes up and
\* stays up, with the user's address if one is given, whatever fails on the
\* way; and its rules reach the url map even while HTTPS cannot be set up.
HttpConverges ==
    <>[](ing # None =>
            /\ gce.um = ing.rules
            /\ ing.http => HttpServed
            /\ ing.http /\ ing.static => gce.fw = UserIP)

\* HTTPS cannot be set up: the update is stuck on a certificate in use, or the
\* user's certificate is gone.
HttpsBlocked == IF ing.tls = "preshared" THEN gce.certs["user"] = None ELSE CertStuck

\* The HTTPS side comes up too, except in those two cases.
HttpsConverges ==
    <>[](ing # None /\ ing.tls # "none" => HttpsServed(ing) \/ HttpsBlocked)

\* The two rules get the same address, except when the ingress has stopped
\* asking for the user's address and the HTTP rule still has it.
AddressesAgree ==
    <>[](ing # None /\ ing.http /\ ing.tls # "none" =>
            \/ gce.fw = gce.fws
            \/ ~ing.static /\ gce.fw = UserIP
            \/ HttpsBlocked)

\* Without failures, and as long as no pre-shared certificate takes the place
\* of one from a secret, nothing of a deleted ingress stays in the cloud.
DeletedLeavesNothing ==
    [](faults = 0 /\ crashes = 0 /\ (ing # None => ing.tls # "preshared")) =>
        <>[](ing = None =>
                /\ \A r \in Shared : gce[r] = None
                /\ \A n \in {"primary", "secondary"} : gce.certs[n] = None)

-----------------------------------------------------------------------------
\* What comments of the code say, and the code does not do.

\* loadbalancers.go, checkSSLCert: the certificate that is deleted to free its
\* name "should be unused since we check the target proxy's certificate".
ReplacedCertIsUnused ==
    (pc = "cert" /\ ri.tls # "preshared") =>
        LET cert == PopulatedCert(gce.tps)
        IN UpToDate(cert) \/ gce.tps # NextCertificateName(cert)

\* annotations.go, PreSharedCertKey: the controller "does not manage this
\* certificate, it is the users responsibility to create/delete it".
UserCertKept == gce.certs["user"] # None

===============================================================================
