------------------------------ MODULE ClusterUID ------------------------------
(***************************************************************************)
(* The UID of the cluster: how a process decides on it when it starts      *)
(* (newNamer, getClusterUID, getFirewallName of cmd/glbc/main.go), the     *)
(* config map that records it (pkg/storage/configmaps.go), the goroutine   *)
(* that polls the map, and the resources that are made and collected under *)
(* the names of the moment.  There is one process at a time (rc.yaml has   *)
(* one replica), which may die at any point and is started again, with     *)
(* another --cluster-uid flag if the user has changed it.                  *)
(***************************************************************************)
EXTENDS Namer

CONSTANTS
    Flags,       \* values of --cluster-uid; <<>> is no flag
    NewUids,     \* what /dev/urandom may give
    Edits,       \* UIDs the user may write into the config map
    Key,         \* the ingress, namespace/name
    None,
    NameStrings, IngressKeys, FieldLengths, \* inputs of the statements about names
    MaxChanges,  \* bound: the ingress is created or deleted
    MaxEdits,    \* bound: edits of the config map
    MaxFaults    \* bound: deaths of the process

\* Names have no "/", which the cloud refuses; new UIDs are hexadecimal.
Names == Seq(Plain)
Uids == {n \in Names : Cuts(n) = {}}
IsMap(map) == \E K \in SUBSET {"uid", "provider"} : map \in [K -> Names]

ASSUME UIDAssumption ==
    /\ <<>> \in Flags /\ <<>> \notin NewUids
    /\ Flags \subseteq Names /\ NewUids \subseteq Uids /\ Edits \subseteq Names
    /\ None \notin Seq(Symbols) /\ ~IsMap(None)
    /\ MaxChanges \in Nat /\ MaxEdits \in Nat /\ MaxFaults \in Nat

ASSUME InputsAssumption ==
    /\ {"ns", "svc"} \subseteq Symbols
    /\ NameStrings \subseteq Names
    /\ \A key \in IngressKeys \cup {Key} : IsIngressKey(key)
    /\ FieldLengths \subseteq Nat \ {0}

VARIABLES
    cm,         \* the config map: keys "uid", "provider"; None if there is none
    pc,         \* the step of the start-up, "up", or "down"
    flag,       \* --cluster-uid of the process
    name,       \* the UID the start-up has chosen
    fwName,     \* the firewall name it has chosen
    read,       \* the map as Put has read it
    namer,      \* the Namer: [uid, fw]
    ann,        \* annotation of the ingress: its forwarding rule; <<>> if it has
                \* an address but no annotation yet, None if it has no address
    want,       \* the ingress exists
    backends, rules, negs,      \* resources in the cloud, by name
    disturbed,  \* history: "legacy" if the cluster had a working ingress before
                \* there were UIDs, and what the user has done since
    edited,     \* the map was edited since the process started
    changes, edits, faults

vars == <<cm, pc, flag, name, fwName, read, namer, ann, want, backends, rules, negs,
          disturbed, edited, changes, edits, faults>>
localVars == <<name, fwName, read, namer>>
cloudVars == <<backends, rules, negs>>
budgetVars == <<changes, edits, faults>>

OwnNEG(uid) == NEG(uid, <<"ns">>, <<"svc">>, <<"80">>)

NoNamer == [uid |-> None, fw |-> None]

TypeOK ==
    /\ cm = None \/ IsMap(cm)
    /\ pc \in {"down", "uid", "list", "readUid", "writeUid", "fw", "readFw", "writeFw", "up"}
    /\ flag \in Flags
    /\ name \in Names \cup {None}
    /\ fwName \in Names \cup {None}
    /\ read = None \/ IsMap(read)
    /\ namer \in [uid : Uids, fw : Names] \cup {NoNamer}
    /\ ann \in Names \cup {None}
    /\ want \in BOOLEAN
    /\ backends \subseteq Names
    /\ rules \subseteq Names
    /\ negs \subseteq [text : Names, hash : Names]
    /\ disturbed \subseteq {"legacy", "flag", "edit", "remove"}
    /\ edited \in BOOLEAN
    /\ changes \in 0..MaxChanges /\ edits \in 0..MaxEdits /\ faults \in 0..MaxFaults

\* A new cluster, or one with a load balancer from before there were UIDs.
Init ==
    /\ disturbed \in {{}, {"legacy"}}
    /\ cm = None
    /\ pc = "down"
    /\ flag = <<>>
    /\ name = None /\ fwName = None /\ read = None
    /\ namer = NoNamer
    /\ IF disturbed = {}
       THEN want = FALSE /\ ann = None /\ backends = {} /\ rules = {}
       ELSE /\ want = TRUE
            /\ ann = ForwardingRule(LoadBalancer(<<>>, Key))
            /\ backends = {Backend(<<>>, "80")}
            /\ rules = {FirewallRule(<<>>)}
    /\ negs = {}
    /\ edited = FALSE
    /\ changes = 0 /\ edits = 0 /\ faults = 0

-----------------------------------------------------------------------------
\* ConfigMapVault.

Has(key) == cm # None /\ key \in DOMAIN cm

\* Get, with "" for a key that is not found.
Get(key) == IF Has(key) THEN cm[key] ELSE <<>>

\* A mutant: only the new pair is written.
WrittenAlone(map, key, val) == [k \in {key} |-> val]

\* What is written over a map: the new pair, with the other keys as they are in it.
Written(map, key, val) ==
    [k \in {key} \cup (IF map = None THEN {} ELSE DOMAIN map) |->
        IF k = key THEN val ELSE map[k]]

\* A map without data: Put assigns to a nil map, which is a panic.
NilData == cm # None /\ DOMAIN cm = {}

\* Put reads the map; nothing is written if the pair is there.
PutRead(at, key, val, write, next) ==
    /\ pc = at
    /\ ~NilData
    /\ pc' = IF Has(key) /\ cm[key] = val THEN next ELSE write
    /\ read' = IF pc' = write THEN cm ELSE None

\* It then creates the map or replaces the whole of it, without asking for the
\* version it has read.
PutWrite(at, key, val, next) ==
    /\ pc = at
    /\ read = None <=> cm = None
    /\ cm' = Written(read, key, val)
    /\ read' = None
    /\ pc' = next

-----------------------------------------------------------------------------
\* The start-up.

Start ==
    /\ pc = "down"
    /\ pc' = "uid"
    /\ flag' \in Flags
    /\ disturbed' = IF flag' = <<>> THEN disturbed ELSE disturbed \cup {"flag"}
    /\ edited' = FALSE
    /\ UNCHANGED <<cm, localVars, ann, want, cloudVars, budgetVars>>

\* A mutant: a recorded UID is looked at only if no ingress works.
GetClusterUIDIngressFirst ==
    /\ pc = "uid"
    /\ name' = flag
    /\ pc' = IF flag # <<>> THEN "fw" ELSE "list"

\* getClusterUID and useDefaultOrLookupVault: the flag, else what is recorded.
\* The flag is not saved.  "" counts as not recorded.
GetClusterUID ==
    /\ pc = "uid"
    /\ name' = IF flag # <<>> THEN flag ELSE Get("uid")
    /\ pc' = IF name' # <<>> THEN "fw" ELSE "list"

LookupUID ==
    /\ GetClusterUID
    /\ UNCHANGED <<cm, flag, fwName, read, namer, ann, want, cloudVars, disturbed,
                   edited, budgetVars>>

\* A mutant: only the empty UID is taken from a working ingress.
WorkingUidNew(annotation) ==
    IF annotation # None /\ ParsedUid(annotation) = <<>> THEN {<<>>} ELSE NewUids

\* The UID of a working ingress, if there is one, else a new one.
WorkingUid(annotation) == IF annotation # None THEN {ParsedUid(annotation)} ELSE NewUids

\* getClusterUID, continued: nothing is recorded.
ListIngresses ==
    /\ pc = "list"
    /\ pc' = "readUid"
    /\ name' \in WorkingUid(ann)
    /\ UNCHANGED <<cm, flag, fwName, read, namer, ann, want, cloudVars, disturbed,
                   edited, budgetVars>>

PutUID ==
    /\ \/ PutRead("readUid", "uid", name, "writeUid", "fw") /\ UNCHANGED cm
       \/ PutWrite("writeUid", "uid", name, "fw")
    /\ UNCHANGED <<flag, name, fwName, namer, ann, want, cloudVars, disturbed,
                   edited, budgetVars>>

\* getFirewallName: what is recorded, else the UID; it is always saved.
GetFirewallName ==
    /\ pc = "fw"
    /\ pc' = "readFw"
    /\ fwName' = IF Get("provider") # <<>> THEN Get("provider") ELSE name
    /\ UNCHANGED <<cm, flag, name, read, namer, ann, want, cloudVars, disturbed,
                   edited, budgetVars>>

NewNamer(clusterName, firewallName) == [uid |-> UidOf(clusterName), fw |-> firewallName]

\* The Put of getFirewallName, and NewNamer: the process is up.
PutFirewallName ==
    /\ \/ PutRead("readFw", "provider", fwName, "writeFw", "up") /\ UNCHANGED cm
       \/ PutWrite("writeFw", "provider", fwName, "up")
    /\ IF pc' = "up"
       THEN /\ namer' = NewNamer(name, fwName)
            /\ name' = None /\ fwName' = None
       ELSE UNCHANGED <<name, fwName, namer>>
    /\ UNCHANGED <<flag, ann, want, cloudVars, disturbed, edited, budgetVars>>

Dead ==
    /\ pc' = "down"
    /\ flag' = <<>>
    /\ name' = None /\ fwName' = None /\ read' = None
    /\ namer' = NoNamer

\* The process dies: a call to the API server fails during the start-up, a
\* write after it has taken effect, or it just crashes.  A map that has come
\* into being since Put has looked makes Put fail, too.
Die ==
    /\ pc # "down"
    /\ \/ faults < MaxFaults /\ faults' = faults + 1
       \/ /\ \/ pc \in {"writeUid", "writeFw"} /\ ~(read = None <=> cm = None)
             \/ pc \in {"readUid", "readFw"} /\ NilData
          /\ UNCHANGED faults
    /\ \/ UNCHANGED cm
       \/ PutWrite("writeUid", "uid", name, "down")
       \/ PutWrite("writeFw", "provider", fwName, "down")
    /\ Dead
    /\ UNCHANGED <<ann, want, cloudVars, disturbed, edited, changes, edits>>

-----------------------------------------------------------------------------
\* The process is up.

\* Namer.Firewall
Firewall == IF namer.fw = <<>> THEN namer.uid ELSE namer.fw

\* A mutant: only the firewall name is polled.
PollFirewallOnly ==
    /\ pc = "up"
    /\ Has("provider") /\ Firewall # cm["provider"]
    /\ namer' = [namer EXCEPT !.fw = cm["provider"]]
    /\ UNCHANGED <<cm, pc, flag, name, fwName, read, ann, want, cloudVars, disturbed,
                   edited, budgetVars>>

\* The polling goroutine, for one key that has another value: it wins over
\* the flag.
Poll ==
    /\ pc = "up"
    /\ \/ /\ Has("uid") /\ namer.uid # UidOf(cm["uid"])
          /\ namer' = [namer EXCEPT !.uid = UidOf(cm["uid"])]
       \/ /\ Has("provider") /\ Firewall # cm["provider"]
          /\ namer' = [namer EXCEPT !.fw = cm["provider"]]
    /\ UNCHANGED <<cm, pc, flag, name, fwName, read, ann, want, cloudVars, disturbed,
                   edited, budgetVars>>

\* A sync of the controllers: what is wanted is made under the names of now,
\* and what is not wanted is collected by those names.  The address of the
\* ingress is recorded before its annotation; the process may die in between.
Sync ==
    /\ pc = "up"
    /\ LET uid == namer.uid
           own == {n \in negs : IsNEG(uid, n)}
       IN IF want
          THEN /\ backends' = backends \cup {Backend(uid, "80")}
               /\ rules' = rules \cup {FirewallRule(Firewall)}
               /\ negs' = (negs \ own) \cup {OwnNEG(uid)}
               /\ \/ /\ ann' = ForwardingRule(LoadBalancer(uid, Key))
                     /\ UNCHANGED <<pc, flag, localVars, faults>>
                  \/ /\ faults < MaxFaults /\ faults' = faults + 1
                     /\ ann' = IF ann = None THEN <<>> ELSE ann
                     /\ Dead
          ELSE /\ backends' = {n \in backends : ~NameBelongsToCluster(uid, n)}
               /\ rules' = rules \ {FirewallRule(Firewall)}
               /\ negs' = negs \ own
               /\ UNCHANGED <<pc, flag, localVars, ann, faults>>
    /\ UNCHANGED <<cm, want, disturbed, edited, changes, edits>>

-----------------------------------------------------------------------------
\* The user.

IngressChange ==
    /\ changes < MaxChanges
    /\ changes' = changes + 1
    /\ want' = ~want
    /\ ann' = None
    /\ UNCHANGED <<cm, pc, flag, localVars, cloudVars, disturbed, edited, edits, faults>>

\* The user records another UID, or takes it out.
EditUID ==
    /\ edits < MaxEdits
    /\ edits' = edits + 1
    /\ edited' = TRUE
    /\ \/ /\ \E uid \in Edits : cm' = Written(cm, "uid", uid)
          /\ disturbed' = disturbed \cup {"edit"}
       \/ /\ Has("uid")
          /\ cm' = Restrict(cm, DOMAIN cm \ {"uid"})
          /\ disturbed' = disturbed \cup {"remove"}
    /\ UNCHANGED <<pc, flag, localVars, ann, want, cloudVars, changes, faults>>

-----------------------------------------------------------------------------
StartUp == Start \/ LookupUID \/ ListIngresses \/ PutUID \/ GetFirewallName \/ PutFirewallName

Next == StartUp \/ Die \/ Poll \/ Sync \/ IngressChange \/ EditUID

Spec == Init /\ [][Next]_vars

\* The container is restarted, and the polling goroutine and the workers of
\* the controllers run for ever.
FairSpec == Spec /\ WF_vars(StartUp) /\ WF_vars(Die /\ faults' = faults)
                 /\ WF_vars(Poll) /\ WF_vars(Sync /\ pc' = "up")

-----------------------------------------------------------------------------
\* Properties.

\* Across crashes at every point of the start-up and of Put, all resources of
\* a new cluster carry one UID, that of the process and of the config map,
\* unless the user interferes: otherwise garbage collection, which goes by the
\* UID, would leave some for ever.
OneUid ==
    disturbed = {} /\ pc = "up" =>
        /\ Get("uid") = namer.uid
        /\ backends \subseteq {Backend(namer.uid, "80")}
        /\ rules \subseteq {FirewallRule(namer.uid)}

\* As long as an ingress works, its UID stays that of the process, even if it
\* is the empty one or is taken out of the config map: getClusterUID finds it
\* in the annotation.
WorkingIngressKeepsUid ==
    /\ pc = "up" /\ disturbed \subseteq {"legacy", "remove"}
    /\ ann \notin {None, <<>>} /\ Readable(ann, Key)
    => ann = ForwardingRule(LoadBalancer(namer.uid, Key))

\* A UID that is recorded is never replaced by the process, although Put
\* rewrites the whole map: only the user changes it, if no edit overlaps with
\* the start-up (Put takes no notice of an edit since it has read the map).
RecordedUidKept ==
    [][Get("uid") # <<>> /\ edits' = edits /\ ~edited => Get("uid")' = Get("uid")]_vars

\* The statements about names alone are evaluated at the start, for all inputs.

\* Names lead back to what they were made for: backend services to their cluster,
\* load balancers to their entry in the pool, forwarding rules to the UID.
NamesLeadBack ==
    Init => \A uid \in {UidOf(s) : s \in NameStrings} :
                /\ \A s \in NameStrings : TellsCluster(uid, UidOf(s))
                /\ \A key \in IngressKeys : LeadsBack(uid, key)

\* trimFieldsEvenly makes the label of a NEG fit, and uses the whole limit.
NegLabelFits ==
    Init => \A len \in [1..3 -> FieldLengths] : LabelFits(MaxNEGLabel, len)

\* The process comes up, and follows the config map from then on: an edit
\* reaches the namer without a restart, and wins over the flag.  The exception
\* is a map without data, which no start-up survives.
UidConverges ==
    \/ <>[]NilData
    \/ <>[](/\ pc = "up"
            /\ Has("uid") => namer.uid = UidOf(cm["uid"])
            /\ Has("provider") => Firewall \in {cm["provider"], namer.uid})
=============================================================================
