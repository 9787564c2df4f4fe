--------------------------- MODULE ClusterUIDProofs ---------------------------
(***************************************************************************)
(* The UID of a cluster, for any flags, UIDs, edits and bounds: the state  *)
(* keeps its types, a recorded UID is not replaced by the process, a new   *)
(* cluster has one UID, and a working ingress keeps its own.               *)
(***************************************************************************)
EXTENDS ClusterUID, NamerProofs

\* The steps of the process.
PCs == {"down", "uid", "list", "readUid", "writeUid", "fw", "readFw", "writeFw", "up"}

\* Where the start-up has a UID, a firewall name, and a Namer.
HasName == {"readUid", "writeUid", "fw", "readFw", "writeFw"}
HasFw == {"readFw", "writeFw"}

Held ==
    /\ pc \in HasName => name \in Names
    /\ pc \in HasFw => fwName \in Names
    /\ pc = "up" => namer \in [uid : Uids, fw : Names]

\* A UID is looked for elsewhere, and recorded, only if none is recorded; and
\* Put writes over what it has read.  An edit since the start may break both.
Unedited ==
    ~edited =>
        /\ pc \in {"list", "readUid", "writeUid"} => Get("uid") = <<>>
        /\ pc \in {"writeUid", "writeFw"} => read = cm

\* A new cluster without a recorded UID: nothing was made under any.
Fresh ==
    /\ cm = None
    /\ ann = None
    /\ backends = {} /\ rules = {}
    /\ pc \in {"down", "uid", "list", "readUid", "writeUid"}
    /\ pc \in {"readUid", "writeUid"} => name \in NewUids

\* A new cluster that has recorded its UID: whatever has a name has this one.
Settled(u) ==
    /\ cm # None
    /\ "uid" \in DOMAIN cm /\ cm["uid"] = u
    /\ "provider" \in DOMAIN cm => cm["provider"] = u
    /\ backends \subseteq {Backend(u, "80")}
    /\ rules \subseteq {FirewallRule(u)}
    /\ pc \in {"down", "uid", "fw", "readFw", "writeFw", "up"}
    /\ pc \in {"fw", "readFw", "writeFw"} => name = u
    /\ pc \in {"readFw", "writeFw"} => fwName = u
    /\ pc = "up" => namer = [uid |-> u, fw |-> u]

NewCluster ==
    disturbed = {} =>
        /\ ~edited
        /\ flag = <<>>
        /\ Fresh \/ \E u \in NewUids : Settled(u)

IInv == TypeOK /\ Held /\ Unedited /\ NewCluster

\* The forwarding rule of the ingress under a UID; an ingress that works, whose rule
\* can be read, has that of this UID.
Rule(uid) == ForwardingRule(LoadBalancer(uid, Key))
Working == ann \notin {None, <<>>} /\ Readable(ann, Key)
Own(uid) == Working => ann = Rule(uid)

Named == ann \notin {None, <<>>} => \E uid \in Uids : ann = Rule(uid)

\* Without a flag and an edit, whatever holds a UID holds that of the working ingress:
\* the config map, the start-up and the Namer.  The map may have lost it, but has no
\* other than the start-up has chosen, and neither has the map that Put writes back.
Kept ==
    disturbed \subseteq {"legacy", "remove"} =>
        /\ flag = <<>>
        /\ Has("uid") => Own(UidOf(cm["uid"]))
        /\ pc \in HasName => Own(UidOf(name))
        /\ pc = "up" => Own(namer.uid)
        /\ pc \in {"fw", "readFw", "writeFw"} /\ Has("uid") => cm["uid"] = name
        /\ pc = "writeFw" /\ read # None => ("uid" \in DOMAIN read => read["uid"] = name)
        /\ pc = "up" /\ Has("uid") => UidOf(cm["uid"]) = namer.uid

KInv == IInv /\ Named /\ Kept

-----------------------------------------------------------------------------
\* A map from keys to names.
LEMMA MapType ==
    ASSUME NEW map, IsMap(map)
    PROVE  /\ DOMAIN map \in SUBSET {"uid", "provider"}
           /\ \A k \in DOMAIN map : map[k] \in Names
<1>1. PICK D \in SUBSET {"uid", "provider"} : map \in [D -> Names]
  BY Zenon DEF IsMap
<1> QED
  BY <1>1

\* A map that has a new pair, and the other keys of an old one.
Puts(new, old, key, val) ==
    /\ IsMap(new) /\ new # None
    /\ DOMAIN new = {key} \cup (IF old = None THEN {} ELSE DOMAIN old)
    /\ new[key] = val
    /\ \A k \in DOMAIN new \ {key} : new[k] = old[k]

\* What is written over a map is one.
LEMMA WrittenMap ==
    ASSUME NEW map, map = None \/ IsMap(map), NEW key \in {"uid", "provider"}, NEW val \in Names
    PROVE  Puts(Written(map, key, val), map, key, val)
<1> DEFINE K == {key} \cup (IF map = None THEN {} ELSE DOMAIN map)
           W == Written(map, key, val)
<1>1. map # None => /\ DOMAIN map \in SUBSET {"uid", "provider"}
                    /\ \A k \in DOMAIN map : map[k] \in Names
  BY MapType
<1>2. K \in SUBSET {"uid", "provider"}
  BY <1>1
<1>3. /\ W \in [K -> Names]
      /\ DOMAIN W = K
      /\ W[key] = val
      /\ \A k \in K \ {key} : W[k] = map[k]
  BY <1>1 DEF Written
<1>4. IsMap(W)
  BY <1>2, <1>3, Zenon DEF IsMap
<1>5. W # None
  BY <1>4, UIDAssumption, Zenon
<1> QED
  BY <1>3, <1>4, <1>5, Zenon DEF Puts

\* What Get returns.
LEMMA GetType == ASSUME cm = None \/ IsMap(cm), NEW key PROVE Get(key) \in Names
<1>1. Has(key) => cm[key] \in Names
  BY MapType DEF Has
<1>2. <<>> \in Names
  BY PlainFacts DEF Names
<1> QED
  BY <1>1, <1>2, Zenon DEF Get

\* A UID given anywhere is a name, and what SetUID makes of a name is a UID.
LEMMA GivenNames ==
    /\ <<>> \in Names /\ None \notin Names
    /\ Flags \subseteq Names /\ NewUids \subseteq Names /\ Edits \subseteq Names
    /\ Uids \subseteq Names
    /\ \A n \in Names : UidOf(n) \in Uids /\ ParsedUid(n) \in Names
    /\ \A uid \in Uids : UidOf(uid) = uid
<1>1. None \notin Names
  BY UIDAssumption, PlainSeq DEF Names
<1>2. \A n \in Names : UidOf(n) \in Uids /\ ParsedUid(n) \in Names
  BY UidUncut, ParsedSeq DEF Names, Uids
<1>3. \A uid \in Uids : UidOf(uid) = uid
  BY Uncut DEF Uids, Names, UidOf
<1> QED
  BY <1>1, <1>2, <1>3, UIDAssumption, PlainFacts DEF Names, Uids

\* The empty UID.
LEMMA NoUid == <<>> \in Uids
<1>1. Cuts(<<>>) = {}
  BY DEF Cuts
<1> QED
  BY <1>1, PlainFacts DEF Uids, Names

\* The names of resources.
LEMMA ResourceNames ==
    /\ \A n \in Names : /\ Backend(n, "80") \in Names
                        /\ FirewallRule(n) \in Names
                        /\ ForwardingRule(LoadBalancer(n, Key)) \in Names
                        /\ OwnNEG(n) \in [text : Names, hash : Names]
<1> SUFFICES ASSUME NEW n \in Seq(Plain)
             PROVE  /\ Backend(n, "80") \in Seq(Plain)
                    /\ FirewallRule(n) \in Seq(Plain)
                    /\ ForwardingRule(LoadBalancer(n, Key)) \in Seq(Plain)
                    /\ OwnNEG(n) \in [text : Seq(Plain), hash : Seq(Plain)]
  BY DEF Names
<1>1. ForwardingRule(LoadBalancer(n, Key)) \in Seq(Plain)
  BY InputsAssumption, RuleSeq DEF IsIngressKey
<1> DEFINE a == <<"ns">>
           b == <<"svc">>
           c == <<"80">>
<1>2. a \in Seq(Plain) /\ b \in Seq(Plain) /\ c \in Seq(Plain) /\ a # <<>> /\ b # <<>> /\ c # <<>>
  BY InputsAssumption, SymbolsAssumption DEF Plain
<1>3. OwnNEG(n) = NEG(n, a, b, c)
  BY DEF OwnNEG
<1> HIDE DEF a, b, c
<1>4. OwnNEG(n) \in [text : Seq(Plain), hash : Seq(Plain)]
  BY <1>2, <1>3, NegSeq, Zenon
<1> QED
  BY <1>1, <1>4, DecoratedSeq

\* The initial states satisfy the invariant.
LEMMA InitInv == Init => IInv
<1> SUFFICES ASSUME Init PROVE IInv
  OBVIOUS
<1>1. \/ ann = None /\ backends = {} /\ rules = {}
      \/ /\ ann = ForwardingRule(LoadBalancer(<<>>, Key))
         /\ backends = {Backend(<<>>, "80")}
         /\ rules = {FirewallRule(<<>>)}
  BY DEF Init
<1>2. backends \subseteq Names /\ rules \subseteq Names
  BY <1>1, NoUid, GivenNames, ResourceNames
<1>3. ann \in Names \cup {None}
  BY <1>1, GivenNames, ResourceNames
<1>4. want \in BOOLEAN
  BY Zenon DEF Init
<1>5. /\ changes \in 0..MaxChanges /\ edits \in 0..MaxEdits /\ faults \in 0..MaxFaults
  BY UIDAssumption DEF Init
<1>6. TypeOK
  BY <1>2, <1>3, <1>4, <1>5, UIDAssumption, Zenon DEF Init, TypeOK
<1>7. Held /\ Unedited
  BY DEF Init, Held, Unedited, HasName, HasFw
<1>8. NewCluster
  BY DEF Init, NewCluster, Fresh
<1> QED
  BY <1>6, <1>7, <1>8 DEF IInv

-----------------------------------------------------------------------------
\* The start of a process.
LEMMA StartInv == ASSUME IInv, Start PROVE IInv'
<1>1. TypeOK'
  BY Zenon DEF IInv, TypeOK, Start, localVars, cloudVars, budgetVars
<1>2. Held' /\ Unedited'
  BY DEF Start, Held, Unedited, HasName, HasFw
<1>3. NewCluster'
  BY DEF IInv, NewCluster, Start, Fresh, Settled, localVars, cloudVars
<1> QED
  BY <1>1, <1>2, <1>3 DEF IInv

\* getClusterUID looks up the UID: that of a new cluster once it is recorded.
LEMMA LookupUIDInv == ASSUME IInv, LookupUID PROVE IInv'
<1> USE DEF LookupUID, GetClusterUID, cloudVars, budgetVars
<1>1. name' \in Names
  BY GetType, GivenNames DEF IInv, TypeOK
<1>2. TypeOK'
  BY <1>1 DEF IInv, TypeOK
<1>3. Held'
  BY <1>1 DEF Held, HasName, HasFw
<1>4. Unedited'
  BY DEF Unedited, Get, Has
<1>5. ASSUME disturbed = {} PROVE Fresh' \/ \E u \in NewUids : Settled(u)'
  <2>1. flag = <<>> /\ (Fresh \/ \E u \in NewUids : Settled(u))
    BY <1>5 DEF IInv, NewCluster
  <2>2. CASE Fresh
    BY <2>1, <2>2 DEF Fresh, Get, Has
  <2>3. ASSUME NEW u \in NewUids, Settled(u) PROVE Settled(u)'
    <3>1. u # <<>>
      BY UIDAssumption
    <3>2. name' = u /\ pc' = "fw"
      BY <2>1, <2>3, <3>1 DEF Settled, Get, Has
    <3> QED
      BY <2>3, <3>2 DEF Settled
  <2> QED
    BY <2>1, <2>2, <2>3
<1>6. NewCluster'
  BY <1>5 DEF IInv, NewCluster
<1> QED
  BY <1>2, <1>3, <1>4, <1>6 DEF IInv

\* getClusterUID takes the UID of a working ingress, or a new one.
LEMMA ListIngressesInv == ASSUME IInv, ListIngresses PROVE IInv'
<1> USE DEF ListIngresses, cloudVars, budgetVars
<1>1. name' \in Names
  <2>1. ann # None => ParsedUid(ann) \in Names
    BY GivenNames DEF IInv, TypeOK
  <2> QED
    BY <2>1, GivenNames DEF WorkingUid
<1>2. TypeOK'
  BY <1>1 DEF IInv, TypeOK
<1>3. Held'
  BY <1>1 DEF Held, HasName, HasFw
<1>4. Unedited'
  BY DEF IInv, Unedited, Get, Has
<1>5. NewCluster'
  BY DEF IInv, NewCluster, Fresh, Settled, WorkingUid
<1> QED
  BY <1>2, <1>3, <1>4, <1>5 DEF IInv

\* Put reads the map.
LEMMA PutReadType ==
    ASSUME IInv, NEW at, NEW key, NEW val, NEW write \in PCs, NEW next \in PCs,
           PutRead(at, key, val, write, next)
    PROVE  pc' \in PCs /\ (read' = None \/ IsMap(read)')
BY DEF IInv, TypeOK, PutRead

\* Put writes the map.
LEMMA PutWriteType ==
    ASSUME IInv, NEW at, NEW key \in {"uid", "provider"}, NEW val \in Names, NEW next \in PCs,
           PutWrite(at, key, val, next)
    PROVE  /\ pc' = next /\ read' = None
           /\ Puts(cm', read, key, val)
<1>1. (read = None \/ IsMap(read))
  BY DEF IInv, TypeOK
<1>2. cm' = Written(read, key, val) /\ read' = None /\ pc' = next
  BY DEF PutWrite
<1>3. Puts(Written(read, key, val), read, key, val)
  BY <1>1, WrittenMap, Zenon
<1> QED
  BY <1>2, <1>3, Zenon

\* The UID of a new cluster is recorded.
LEMMA UidSettled ==
    ASSUME IInv, disturbed = {}, NEW next \in {"fw", "down"},
           PutWrite("writeUid", "uid", name, next),
           next = "fw" => name' = name,
           UNCHANGED cloudVars
    PROVE  \E u \in NewUids : Settled(u)'
<1>1. pc = "writeUid" /\ ~edited
  BY DEF PutWrite, IInv, NewCluster
<1>2. Fresh /\ read = None
  BY <1>1 DEF IInv, NewCluster, Fresh, Settled, Unedited
<1>3. name \in NewUids /\ name \in Names
  BY <1>1, <1>2, GivenNames DEF Fresh
<1>4. Puts(cm', read, "uid", name) /\ pc' = next
  BY <1>3, PutWriteType DEF PCs
<1>5. PICK u \in NewUids : u = name
  BY <1>3
<1>6. Settled(u)'
  BY <1>2, <1>4, <1>5 DEF Puts, Settled, Fresh, cloudVars
<1> QED
  BY <1>6

\* The Put of getClusterUID.
LEMMA PutUIDInv == ASSUME IInv, PutUID PROVE IInv'
<1> USE DEF cloudVars, budgetVars
<1>1. CASE PutRead("readUid", "uid", name, "writeUid", "fw") /\ UNCHANGED cm
  <2>1. pc = "readUid" /\ pc' \in {"fw", "writeUid"}
        /\ (read' = None \/ IsMap(read)') /\ name \in Names
    BY <1>1 DEF PutRead, IInv, TypeOK, Held, HasName
  <2>2. TypeOK'
    BY <1>1, <2>1 DEF IInv, TypeOK, PutUID
  <2>3. Held' /\ Unedited'
    BY <1>1, <2>1 DEF IInv, Held, Unedited, HasName, HasFw, PutUID, PutRead, Get, Has
  <2>4. NewCluster'
    BY <1>1, <2>1 DEF IInv, NewCluster, Fresh, Settled, PutUID, PutRead, Has
  <2> QED
    BY <2>2, <2>3, <2>4 DEF IInv
<1>2. CASE PutWrite("writeUid", "uid", name, "fw")
  <2>1. pc = "writeUid" /\ name \in Names
    BY <1>2 DEF PutWrite, IInv, Held, HasName
  <2>2. pc' = "fw" /\ read' = None /\ Puts(cm', read, "uid", name)
    BY <1>2, <2>1, PutWriteType, "fw" \in PCs DEF PCs
  <2>3. TypeOK'
    BY <2>2 DEF IInv, TypeOK, PutUID, Puts
  <2>4. Held' /\ Unedited'
    BY <2>1, <2>2 DEF IInv, Held, Unedited, HasName, HasFw, PutUID
  <2>5. NewCluster'
    <3>1. disturbed = {} => \E u \in NewUids : Settled(u)'
      BY <1>2, UidSettled DEF PutUID
    <3> QED
      BY <3>1 DEF IInv, NewCluster, PutUID
  <2> QED
    BY <2>3, <2>4, <2>5 DEF IInv
<1> QED
  BY <1>1, <1>2 DEF PutUID

\* getFirewallName.
LEMMA GetFirewallNameInv == ASSUME IInv, GetFirewallName PROVE IInv'
<1> USE DEF GetFirewallName, cloudVars, budgetVars
<1>1. fwName' \in Names /\ name \in Names
  BY GetType DEF IInv, TypeOK, Held, HasName
<1>2. TypeOK'
  BY <1>1 DEF IInv, TypeOK
<1>3. Held' /\ Unedited'
  BY <1>1 DEF Held, Unedited, HasName, HasFw
<1>4. NewCluster'
  BY DEF IInv, NewCluster, Fresh, Settled, Get, Has
<1> QED
  BY <1>2, <1>3, <1>4 DEF IInv

\* The Namer of a new cluster has its UID.
LEMMA NewNamerIs == \A u \in NewUids : NewNamer(u, u) = [uid |-> u, fw |-> u]
BY GivenNames, UIDAssumption DEF NewNamer

\* The firewall name of a new cluster is recorded.
LEMMA FwSettled ==
    ASSUME IInv, disturbed = {}, NEW u \in NewUids, Settled(u), NEW next \in {"up", "down"},
           PutWrite("writeFw", "provider", fwName, next),
           next = "up" => namer' = NewNamer(name, fwName),
           UNCHANGED cloudVars
    PROVE  Settled(u)'
<1>1. pc = "writeFw" /\ ~edited
  BY DEF PutWrite, IInv, NewCluster
<1>2. read = cm /\ name = u /\ fwName = u
  BY <1>1 DEF IInv, Unedited, Settled
<1>3. fwName \in Names
  BY <1>2, GivenNames
<1>4. Puts(cm', read, "provider", fwName) /\ pc' = next
  BY <1>3, PutWriteType DEF PCs
<1>5. next = "up" => namer' = [uid |-> u, fw |-> u]
  BY <1>2, NewNamerIs
<1> QED
  BY <1>2, <1>4, <1>5 DEF Puts, Settled, cloudVars

\* The Put of getFirewallName, and NewNamer.
LEMMA PutFirewallNameInv == ASSUME IInv, PutFirewallName PROVE IInv'
<1> USE DEF cloudVars, budgetVars
<1>1. pc \in {"readFw", "writeFw"} /\ name \in Names /\ fwName \in Names
  BY DEF PutFirewallName, PutRead, PutWrite, IInv, Held, HasName, HasFw
<1>2. /\ pc' \in {"up", "writeFw"}
      /\ (cm' = None \/ IsMap(cm)') /\ (read' = None \/ IsMap(read)')
      /\ pc' = "writeFw" => read' = cm' /\ cm' = cm
  <2>1. CASE PutRead("readFw", "provider", fwName, "writeFw", "up") /\ UNCHANGED cm
    BY <2>1 DEF PutRead, IInv, TypeOK
  <2>2. CASE PutWrite("writeFw", "provider", fwName, "up")
    BY <2>2, <1>1, PutWriteType, "up" \in PCs DEF PCs, Puts
  <2> QED
    BY <2>1, <2>2 DEF PutFirewallName
<1>3. NewNamer(name, fwName) \in [uid : Uids, fw : Names]
  BY <1>1, GivenNames DEF NewNamer
<1>4. /\ name' \in Names \cup {None} /\ fwName' \in Names \cup {None}
      /\ namer' \in [uid : Uids, fw : Names] \cup {NoNamer}
  <2>1. CASE pc' = "up"
    BY <2>1, <1>3 DEF PutFirewallName
  <2>2. CASE pc' # "up"
    BY <2>2, <1>1 DEF PutFirewallName, IInv, TypeOK
  <2> QED
    BY <2>1, <2>2
<1>5. TypeOK'
  BY <1>2, <1>4 DEF IInv, TypeOK, PutFirewallName
<1>6. Held' /\ Unedited'
  BY <1>1, <1>2, <1>3 DEF Held, Unedited, HasName, HasFw, PutFirewallName
<1>7. ASSUME disturbed = {}, NEW u \in NewUids, Settled(u) PROVE Settled(u)'
  <2>1. CASE PutRead("readFw", "provider", fwName, "writeFw", "up") /\ UNCHANGED cm
    <3>1. name = u /\ fwName = u
      BY <1>1, <1>7 DEF Settled
    <3>2. pc' = "up" => namer' = [uid |-> u, fw |-> u]
      BY <3>1, NewNamerIs DEF PutFirewallName
    <3>3. pc' # "up" => name' = name /\ fwName' = fwName
      BY DEF PutFirewallName
    <3>4. UNCHANGED <<cm, backends, rules>>
      BY <2>1 DEF PutFirewallName
    <3> QED
      BY <1>2, <1>7, <3>1, <3>2, <3>3, <3>4 DEF Settled
  <2>2. CASE PutWrite("writeFw", "provider", fwName, "up")
    <3>1. namer' = NewNamer(name, fwName) /\ UNCHANGED cloudVars
      BY <2>2 DEF PutFirewallName, PutWrite
    <3> QED
      BY <1>7, <2>2, <3>1, FwSettled
  <2> QED
    BY <2>1, <2>2 DEF PutFirewallName
<1>8. NewCluster'
  BY <1>1, <1>7 DEF IInv, NewCluster, Fresh, PutFirewallName
<1> QED
  BY <1>5, <1>6, <1>8 DEF IInv

\* A process that is gone has no state.
LEMMA DeadType ==
    ASSUME Dead
    PROVE  /\ pc' = "down" /\ flag' \in Flags /\ flag' = <<>>
           /\ name' \in Names \cup {None} /\ fwName' \in Names \cup {None}
           /\ (read' = None \/ IsMap(read)')
           /\ namer' \in [uid : Uids, fw : Names] \cup {NoNamer}
BY UIDAssumption DEF Dead

\* The process dies, perhaps in a Put that has taken effect.
LEMMA DieInv == ASSUME IInv, Die PROVE IInv'
<1> USE DEF cloudVars
<1>1. faults' \in 0..MaxFaults
  BY UIDAssumption DEF IInv, TypeOK, Die
<1>2. (cm' = None \/ IsMap(cm)')
  <2>1. CASE UNCHANGED cm
    BY <2>1 DEF IInv, TypeOK
  <2>2. CASE PutWrite("writeUid", "uid", name, "down")
    <3>1. name \in Names
      BY <2>2 DEF PutWrite, IInv, Held, HasName
    <3> QED
      BY <2>2, <3>1, PutWriteType, "down" \in PCs DEF PCs, Puts
  <2>3. CASE PutWrite("writeFw", "provider", fwName, "down")
    <3>1. fwName \in Names
      BY <2>3 DEF PutWrite, IInv, Held, HasFw
    <3> QED
      BY <2>3, <3>1, PutWriteType, "down" \in PCs DEF PCs, Puts
  <2> QED
    BY <2>1, <2>2, <2>3 DEF Die
<1>3. TypeOK'
  BY <1>1, <1>2, DeadType DEF IInv, TypeOK, Die
<1>4. Held' /\ Unedited'
  BY DeadType DEF Held, Unedited, HasName, HasFw, Die
<1>5. ASSUME disturbed = {} PROVE Fresh' \/ \E u \in NewUids : Settled(u)'
  <2>1. CASE UNCHANGED cm
    BY <1>5, <2>1, DeadType DEF IInv, NewCluster, Fresh, Settled, Die
  <2>2. CASE PutWrite("writeUid", "uid", name, "down")
    BY <1>5, <2>2, UidSettled DEF Die
  <2>3. CASE PutWrite("writeFw", "provider", fwName, "down")
    <3>1. PICK u \in NewUids : Settled(u)
      BY <1>5, <2>3 DEF IInv, NewCluster, Fresh, PutWrite
    <3>2. Settled(u)'
      BY <1>5, <2>3, <3>1, FwSettled DEF Die
    <3> QED
      BY <3>2
  <2> QED
    BY <2>1, <2>2, <2>3 DEF Die
<1>6. NewCluster'
  BY <1>5, DeadType DEF IInv, NewCluster, Die
<1> QED
  BY <1>3, <1>4, <1>6 DEF IInv

\* Firewall is a name.
LEMMA FirewallType == ASSUME IInv, pc = "up" PROVE Firewall \in Names
BY GivenNames DEF IInv, Held, Firewall

\* The polling goroutine: a new cluster's Namer has nothing to follow.
LEMMA PollInv == ASSUME IInv, Poll PROVE IInv'
<1> USE DEF cloudVars, budgetVars
<1>1. namer \in [uid : Uids, fw : Names]
  BY DEF IInv, Held, Poll
<1>2. \A key \in {"uid", "provider"} : Has(key) => cm[key] \in Names
  BY MapType DEF IInv, TypeOK, Has
<1>3. namer' \in [uid : Uids, fw : Names]
  BY <1>1, <1>2, GivenNames DEF Poll
<1>4. TypeOK'
  BY <1>3 DEF IInv, TypeOK, Poll
<1>5. Held' /\ Unedited'
  BY <1>3 DEF IInv, Held, Unedited, HasName, HasFw, Poll, Get, Has
<1>6. ASSUME NEW u \in NewUids, Settled(u) PROVE FALSE
  <2>1. namer.uid = u /\ Firewall = u /\ UidOf(u) = u
    BY <1>6, GivenNames, UIDAssumption DEF Poll, Settled, Firewall
  <2> QED
    BY <1>6, <2>1 DEF Poll, Settled, Has
<1>7. NewCluster'
  BY <1>6 DEF IInv, NewCluster, Fresh, Poll
<1> QED
  BY <1>4, <1>5, <1>7 DEF IInv

\* A sync of the controllers.
LEMMA SyncInv == ASSUME IInv, Sync PROVE IInv'
<1>1. /\ pc = "up" /\ namer.uid \in Uids /\ Firewall \in Names
      /\ namer \in [uid : Uids, fw : Names]
  BY FirewallType DEF IInv, Held, Sync
<1>2. /\ backends' \subseteq Names /\ rules' \subseteq Names
      /\ negs' \subseteq [text : Names, hash : Names]
  BY <1>1, ResourceNames, GivenNames DEF IInv, TypeOK, Sync
<1>3. ann' \in Names \cup {None}
  BY <1>1, ResourceNames, GivenNames DEF IInv, TypeOK, Sync
<1>4. faults' \in 0..MaxFaults
  BY UIDAssumption DEF IInv, TypeOK, Sync
<1>5. \/ UNCHANGED <<pc, flag, localVars>>
      \/ Dead
  BY DEF Sync
<1>6. UNCHANGED <<cm, want, disturbed, edited, changes, edits>>
  BY DEF Sync
<1>7. TypeOK'
  <2>1. CASE UNCHANGED <<pc, flag, localVars>>
    BY <2>1, <1>2, <1>3, <1>4, <1>6 DEF IInv, TypeOK, localVars
  <2>2. CASE Dead
    BY <2>2, <1>2, <1>3, <1>4, <1>6, DeadType DEF IInv, TypeOK
  <2> QED
    BY <1>5, <2>1, <2>2
<1>8. Held' /\ Unedited'
  BY <1>1, <1>5, DeadType DEF Held, Unedited, HasName, HasFw, localVars
<1>9. ASSUME NEW u \in NewUids, Settled(u) PROVE Settled(u)'
  <2>1. namer.uid = u /\ Firewall = u
    BY <1>1, <1>9, UIDAssumption DEF Settled, Firewall
  <2>2. backends' \subseteq {Backend(u, "80")} /\ rules' \subseteq {FirewallRule(u)}
    BY <1>9, <2>1 DEF Settled, Sync
  <2> QED
    BY <1>1, <1>5, <1>6, <1>9, <2>2, DeadType DEF Settled, localVars
<1>10. NewCluster'
  BY <1>1, <1>5, <1>6, <1>9, DeadType DEF IInv, NewCluster, Fresh
<1> QED
  BY <1>7, <1>8, <1>10 DEF IInv

\* The user creates or deletes the ingress.
LEMMA IngressChangeInv == ASSUME IInv, IngressChange PROVE IInv'
<1> USE DEF IngressChange, localVars, cloudVars
<1>1. changes' \in 0..MaxChanges
  BY UIDAssumption DEF IInv, TypeOK
<1>2. want' \in BOOLEAN
  BY Zenon DEF IngressChange
<1>3. TypeOK'
  BY <1>1, <1>2 DEF IInv, TypeOK
<1>4. Held' /\ Unedited'
  BY DEF IInv, Held, Unedited, HasName, HasFw, Get, Has
<1>5. NewCluster'
  BY DEF IInv, NewCluster, Fresh, Settled
<1> QED
  BY <1>3, <1>4, <1>5 DEF IInv

\* The user edits the config map.
LEMMA EditUIDInv == ASSUME IInv, EditUID PROVE IInv'
<1>1. edits' \in 0..MaxEdits /\ edited' = TRUE
  BY UIDAssumption DEF IInv, TypeOK, EditUID
<1>2. IsMap(cm)'
  <2>1. ASSUME NEW uid \in Edits PROVE IsMap(Written(cm, "uid", uid))
    <3>1. (cm = None \/ IsMap(cm)) /\ uid \in Names /\ "uid" \in {"uid", "provider"}
      BY GivenNames DEF IInv, TypeOK
    <3>2. Puts(Written(cm, "uid", uid), cm, "uid", uid)
      BY <3>1, WrittenMap, Zenon
    <3> QED
      BY <3>2 DEF Puts
  <2>2. ASSUME Has("uid") PROVE IsMap(Restrict(cm, DOMAIN cm \ {"uid"}))
    <3> DEFINE K == DOMAIN cm \ {"uid"}
    <3>1. DOMAIN cm \subseteq {"uid", "provider"} /\ \A k \in DOMAIN cm : cm[k] \in Names
      BY <2>2, MapType DEF IInv, TypeOK, Has
    <3>2. Restrict(cm, K) \in [K -> Names]
      <4>1. \A k \in K : cm[k] \in Names
        BY <3>1
      <4>2. Restrict(cm, K) = [k \in K |-> cm[k]]
        BY Zenon DEF Restrict
      <4> HIDE DEF K
      <4> QED
        BY <4>1, <4>2
    <3>3. K \in SUBSET {"uid", "provider"}
      BY <3>1
    <3> QED
      BY <3>2, <3>3, Zenon DEF IsMap
  <2> QED
    BY <2>1, <2>2 DEF EditUID
<1>3. /\ disturbed' # {} /\ disturbed' \subseteq {"legacy", "flag", "edit", "remove"}
  BY Zenon DEF IInv, TypeOK, EditUID
<1>4. UNCHANGED <<pc, flag, localVars, ann, want, cloudVars, changes, faults>>
  BY DEF EditUID
<1>5. TypeOK'
  BY <1>1, <1>2, <1>3, <1>4 DEF IInv, TypeOK, localVars, cloudVars
<1>6. Held' /\ Unedited' /\ NewCluster'
  BY <1>1, <1>3, <1>4, Zenon DEF IInv, Held, Unedited, NewCluster, HasName, HasFw, localVars
<1> QED
  BY <1>5, <1>6 DEF IInv

-----------------------------------------------------------------------------
\* Every step keeps the invariant.
LEMMA NextInv == IInv /\ [Next]_vars => IInv'
<1> SUFFICES ASSUME IInv, [Next]_vars PROVE IInv'
  OBVIOUS
<1>1. CASE UNCHANGED vars
  BY <1>1 DEF vars, IInv, TypeOK, Held, Unedited, NewCluster, Fresh, Settled, Get, Has
<1> QED
  BY <1>1, StartInv, LookupUIDInv, ListIngressesInv, PutUIDInv, GetFirewallNameInv,
     PutFirewallNameInv, DieInv, PollInv, SyncInv, IngressChangeInv, EditUIDInv
     DEF Next, StartUp

\* The invariant holds in all behaviours.
LEMMA Invariance == Spec => []IInv
BY InitInv, NextInv, PTL DEF Spec

\* The annotation is the forwarding rule of some UID: the status updates of a sync
\* write no other.
LEMMA NamedNext == ASSUME IInv, Named, Next PROVE Named'
<1>1. \/ ann' \in {None, <<>>, ann}
      \/ pc = "up" /\ ann' = Rule(namer.uid)
  BY DEF Next, StartUp, Start, LookupUID, ListIngresses, PutUID, GetFirewallName,
     PutFirewallName, Die, Poll, Sync, IngressChange, EditUID, Rule
<1>2. pc = "up" => namer.uid \in Uids
  BY DEF IInv, Held
<1> QED
  BY <1>1, <1>2 DEF Named, Rule

\* The UID that getClusterUID recovers from the annotation of a working ingress gives
\* the ingress its forwarding rule.
LEMMA Recovered ==
    ASSUME Named, Working
    PROVE  ann = Rule(UidOf(ParsedUid(ann)))
<1>1. PICK uid \in Uids : ann = Rule(uid)
  BY DEF Named, Working
<1>2. uid \in Seq(Plain) /\ Cuts(uid) = {} /\ IsIngressKey(Key)
  BY InputsAssumption DEF Uids, Names
<1>3. Readable(ForwardingRule(LoadBalancer(uid, Key)), Key)
  BY <1>1 DEF Working, Rule
<1> QED
  BY <1>1, <1>2, <1>3, RuleKept DEF Rule

\* The start-up: up to the names it chooses, and the reads of Put.
LEMMA StartUpKept ==
    ASSUME KInv,
           Start \/ LookupUID \/ ListIngresses \/ GetFirewallName
    PROVE  Kept'
<1> SUFFICES ASSUME (disturbed \subseteq {"legacy", "remove"})' PROVE Kept'
  BY DEF Kept
<1> USE DEF localVars, cloudVars, budgetVars
<1>1. CASE Start
  <2>1. flag' = <<>> /\ disturbed' = disturbed /\ pc' = "uid"
    BY <1>1 DEF Start
  <2> QED
    BY <1>1, <2>1 DEF Start, KInv, Kept, Own, Working, Has, HasName
<1>2. CASE LookupUID
  <2>1. flag = <<>> /\ disturbed' = disturbed /\ pc' \in {"fw", "list"}
    BY <1>2 DEF LookupUID, GetClusterUID, KInv, Kept
  <2>2. pc' = "fw" => Has("uid") /\ name' = cm["uid"]
    BY <1>2, <2>1 DEF LookupUID, GetClusterUID, Get
  <2> QED
    BY <1>2, <2>1, <2>2 DEF LookupUID, KInv, Kept, Own, Working, Has, HasName
<1>3. CASE ListIngresses
  <2>1. Working => name' = ParsedUid(ann)
    BY <1>3 DEF ListIngresses, WorkingUid, Working
  <2>2. Own(UidOf(name))'
    BY <1>3, <2>1, Recovered DEF KInv, ListIngresses, Own, Working
  <2> QED
    BY <1>3, <2>2 DEF ListIngresses, KInv, Kept, Own, Working, Has, HasName
<1>4. CASE GetFirewallName
  BY <1>4 DEF GetFirewallName, KInv, Kept, Own, Working, Has, HasName
<1> QED
  BY <1>1, <1>2, <1>3, <1>4

\* A map that Put has written has the UID it was to write, or the UID of the map it
\* has read.
LEMMA WrittenUid ==
    ASSUME KInv, disturbed \subseteq {"legacy", "remove"}, NEW next \in PCs,
           \/ PutWrite("writeUid", "uid", name, next)
           \/ PutWrite("writeFw", "provider", fwName, next)
    PROVE  /\ cm' # None /\ pc' = next
           /\ "uid" \in DOMAIN cm' => cm'["uid"] = name
           /\ Own(UidOf(name))
<1>1. CASE PutWrite("writeUid", "uid", name, next)
  <2>1. pc = "writeUid" /\ name \in Names
    BY <1>1 DEF PutWrite, KInv, IInv, Held, HasName
  <2>2. Puts(cm', read, "uid", name) /\ pc' = next
    BY <1>1, <2>1, PutWriteType DEF KInv
  <2> QED
    BY <2>1, <2>2 DEF Puts, KInv, Kept, HasName
<1>2. CASE PutWrite("writeFw", "provider", fwName, next)
  <2>1. pc = "writeFw" /\ fwName \in Names
    BY <1>2 DEF PutWrite, KInv, IInv, Held, HasFw
  <2>2. Puts(cm', read, "provider", fwName) /\ pc' = next
    BY <1>2, <2>1, PutWriteType DEF KInv
  <2> QED
    BY <2>1, <2>2 DEF Puts, KInv, Kept, HasName
<1> QED
  BY <1>1, <1>2

\* The writes of the start-up.
LEMMA PutKept == ASSUME KInv, PutUID \/ PutFirewallName PROVE Kept'
<1> SUFFICES ASSUME (disturbed \subseteq {"legacy", "remove"})' PROVE Kept'
  BY DEF Kept
<1> USE DEF cloudVars, budgetVars
<1>1. /\ disturbed' = disturbed /\ flag' = flag /\ ann' = ann
      /\ flag = <<>>
      /\ Has("uid") => Own(UidOf(cm["uid"]))
  BY Zenon DEF PutUID, PutFirewallName, KInv, Kept
<1>2. CASE PutUID
  <2>1. CASE PutRead("readUid", "uid", name, "writeUid", "fw") /\ UNCHANGED cm
    <3>1. /\ pc' \in {"writeUid", "fw"} /\ pc = "readUid" /\ name' = name
          /\ pc' = "fw" => Has("uid") /\ cm["uid"] = name
      BY <1>2, <2>1 DEF PutUID, PutRead
    <3> QED
      BY <1>1, <2>1, <3>1 DEF KInv, Kept, Own, Working, Has, HasName
  <2>2. CASE PutWrite("writeUid", "uid", name, "fw")
    <3>1. /\ cm' # None /\ pc' = "fw" /\ name' = name
          /\ "uid" \in DOMAIN cm' => cm'["uid"] = name
          /\ Own(UidOf(name))
      BY <1>1, <1>2, <2>2, WrittenUid, "fw" \in PCs DEF PCs, PutUID
    <3> QED
      BY <1>1, <3>1 DEF Kept, Own, Working, Has, HasName
  <2> QED
    BY <1>2, <2>1, <2>2 DEF PutUID
<1>3. CASE PutFirewallName
  <2>1. CASE PutRead("readFw", "provider", fwName, "writeFw", "up") /\ UNCHANGED cm
    <3>1. /\ pc' \in {"writeFw", "up"} /\ pc = "readFw"
          /\ pc' = "writeFw" => name' = name /\ read' = cm
          /\ pc' = "up" => namer' = NewNamer(name, fwName)
      BY <1>3, <2>1 DEF PutFirewallName, PutRead
    <3>2. pc' = "up" => namer'.uid = UidOf(name)
      BY <3>1 DEF NewNamer
    <3>3. Own(UidOf(name)) /\ (Has("uid") => cm["uid"] = name)
      BY <1>1, <3>1 DEF KInv, Kept, HasName
    <3> QED
      BY <1>1, <2>1, <3>1, <3>2, <3>3 DEF Kept, Own, Working, Has, HasName
  <2>2. CASE PutWrite("writeFw", "provider", fwName, "up")
    <3>1. /\ cm' # None /\ pc' = "up"
          /\ "uid" \in DOMAIN cm' => cm'["uid"] = name
          /\ Own(UidOf(name))
      BY <1>1, <2>2, WrittenUid, "up" \in PCs DEF PCs
    <3>2. namer'.uid = UidOf(name)
      BY <1>3, <3>1 DEF PutFirewallName, NewNamer
    <3> QED
      BY <1>1, <3>1, <3>2 DEF Kept, Own, Working, Has, HasName
  <2> QED
    BY <1>3, <2>1, <2>2 DEF PutFirewallName
<1> QED
  BY <1>2, <1>3

\* The process dies: what it may have written is the UID of the working ingress.
LEMMA DieKept == ASSUME KInv, Die PROVE Kept'
<1> SUFFICES ASSUME (disturbed \subseteq {"legacy", "remove"})' PROVE Kept'
  BY DEF Kept
<1>1. disturbed' = disturbed /\ ann' = ann /\ pc' = "down" /\ flag' = <<>>
  BY DEF Die, Dead
<1>2. Has("uid")' => Own(UidOf(cm["uid"]))'
  <2>1. CASE UNCHANGED cm
    BY <1>1, <2>1 DEF KInv, Kept, Own, Working, Has
  <2>2. CASE \/ PutWrite("writeUid", "uid", name, "down")
             \/ PutWrite("writeFw", "provider", fwName, "down")
    <3>1. /\ cm' # None
          /\ "uid" \in DOMAIN cm' => cm'["uid"] = name
          /\ Own(UidOf(name))
      BY <1>1, <2>2, WrittenUid, "down" \in PCs DEF PCs
    <3> QED
      BY <1>1, <3>1 DEF Own, Working, Has
  <2> QED
    BY <2>1, <2>2 DEF Die
<1> QED
  BY <1>1, <1>2 DEF Kept, HasName

\* The process that is up, and the user.
LEMMA UpKept == ASSUME KInv, Poll \/ Sync \/ IngressChange \/ EditUID PROVE Kept'
<1> SUFFICES ASSUME (disturbed \subseteq {"legacy", "remove"})' PROVE Kept'
  BY DEF Kept
<1> USE DEF localVars, cloudVars, budgetVars
<1>1. CASE Poll
  <2>1. Has("uid") => namer'.uid = namer.uid
    <3>1. namer \in [uid : Uids, fw : Names]
      BY <1>1 DEF Poll, KInv, IInv, Held
    <3>2. Has("uid") => UidOf(cm["uid"]) = namer.uid
      BY <1>1 DEF Poll, KInv, Kept
    <3> QED
      BY <1>1, <3>1, <3>2 DEF Poll
  <2>2. ~Has("uid") => namer'.uid = namer.uid
    BY <1>1 DEF Poll, KInv, IInv, Held
  <2> QED
    BY <1>1, <2>1, <2>2 DEF Poll, KInv, Kept, Own, Working, Has, HasName
<1>2. CASE Sync
  <2>1. /\ pc = "up" /\ disturbed' = disturbed /\ cm' = cm
        /\ flag = <<>>
        /\ Has("uid") => UidOf(cm["uid"]) = namer.uid
    BY <1>2 DEF Sync, KInv, Kept
  <2>2. \/ ann' = Rule(namer.uid) /\ UNCHANGED <<pc, flag, localVars>>
        \/ ann' = ann /\ UNCHANGED <<pc, flag, localVars>>
        \/ ann' \in {<<>>, ann} /\ Dead
    BY <1>2 DEF Sync, Rule
  <2>3. CASE ann' = Rule(namer.uid) /\ UNCHANGED <<pc, flag, localVars>>
    BY <2>1, <2>3 DEF Kept, Own, Working, Has, HasName, Rule
  <2>4. CASE ann' = ann /\ UNCHANGED <<pc, flag, localVars>>
    BY <2>1, <2>4 DEF KInv, Kept, Own, Working, Has, HasName, Rule
  <2>5. CASE ann' \in {<<>>, ann} /\ Dead
    BY <2>1, <2>5 DEF KInv, Kept, Own, Working, Has, HasName, Rule, Dead
  <2> QED
    BY <2>2, <2>3, <2>4, <2>5
<1>3. CASE IngressChange
  BY <1>3 DEF IngressChange, KInv, Kept, Own, Working, Has, HasName
<1>4. CASE EditUID
  <2>1. /\ disturbed \subseteq {"legacy", "remove"}
        /\ cm' = Restrict(cm, DOMAIN cm \ {"uid"})
        /\ UNCHANGED <<pc, flag, localVars, ann>>
    <3>1. "edit" \notin disturbed'
      OBVIOUS
    <3>2. disturbed' = disturbed \cup {"remove"} /\ cm' = Restrict(cm, DOMAIN cm \ {"uid"})
      BY <1>4, <3>1 DEF EditUID
    <3> QED
      BY <1>4, <3>2 DEF EditUID
  <2>2. ~Has("uid")'
    BY <2>1 DEF Has, Restrict
  <2> QED
    BY <2>1, <2>2 DEF KInv, Kept, Own, Working, Has, HasName
<1> QED
  BY <1>1, <1>2, <1>3, <1>4

\* The initial states satisfy the invariant: of a cluster from before there were UIDs,
\* the forwarding rule has none.
LEMMA InitKept == Init => KInv
<1> SUFFICES ASSUME Init PROVE Named /\ Kept
  BY InitInv DEF KInv
<1>1. Named
  BY NoUid DEF Init, Named, Rule
<1>2. Kept
  BY DEF Init, Kept, Has, HasName
<1> QED
  BY <1>1, <1>2

\* Every step keeps the invariant.
LEMMA NextKept == KInv /\ [Next]_vars => KInv'
<1> SUFFICES ASSUME KInv, [Next]_vars PROVE KInv'
  OBVIOUS
<1>1. IInv'
  BY NextInv DEF KInv
<1>2. CASE UNCHANGED vars
  BY <1>1, <1>2 DEF vars, KInv, Named, Kept, Own, Working, Has
<1>3. CASE Next
  <2>1. Named'
    BY <1>3, NamedNext DEF KInv
  <2>2. Kept'
    BY <1>3, StartUpKept, PutKept, DieKept, UpKept DEF Next, StartUp
  <2> QED
    BY <1>1, <2>1, <2>2 DEF KInv
<1> QED
  BY <1>2, <1>3

\* Every UID that the start-up, the config map, the polling goroutine and the
\* controllers pass on is a name without "/" and, in the Namer, without a delimiter;
\* the names of resources are well-formed.
THEOREM TypeCorrect == Spec => []TypeOK
<1>1. IInv => TypeOK
  BY DEF IInv
<1> QED
  BY <1>1, Invariance, PTL

\* All resources of a new cluster carry one UID, that of the process and of the config
\* map: for any UIDs, and however often and wherever the process dies.
THEOREM OneUidForAll == Spec => []OneUid
<1>1. ASSUME IInv, disturbed = {}, pc = "up"
      PROVE  /\ Get("uid") = namer.uid
             /\ backends \subseteq {Backend(namer.uid, "80")}
             /\ rules \subseteq {FirewallRule(namer.uid)}
  <2>1. PICK u \in NewUids : Settled(u)
    BY <1>1 DEF IInv, NewCluster, Fresh
  <2>2. namer.uid = u
    BY <1>1, <2>1 DEF Settled
  <2>3. Get("uid") = u
    BY <2>1 DEF Settled, Get, Has
  <2> QED
    BY <2>1, <2>2, <2>3 DEF Settled
<1>2. IInv => OneUid
  BY <1>1, Zenon DEF OneUid
<1> QED
  BY <1>2, Invariance, PTL

\* The process never replaces a UID that is recorded, unless Put overlaps with an edit.
THEOREM RecordedKept == Spec => RecordedUidKept
<1> DEFINE Same == Get("uid") # <<>> /\ edits' = edits /\ ~edited => Get("uid")' = Get("uid")
<1>1. IInv /\ [Next]_vars => [Same]_vars
  <2> SUFFICES ASSUME IInv, Next, Get("uid") # <<>>, edits' = edits, ~edited
               PROVE  Get("uid")' = Get("uid")
    BY DEF vars, Get, Has
  <2>1. CASE UNCHANGED cm
    BY <2>1 DEF Get, Has
  <2>2. pc # "writeUid" /\ (pc = "writeFw" => read = cm)
    BY DEF IInv, Unedited
  <2>3. ASSUME NEW next \in PCs, PutWrite("writeFw", "provider", fwName, next)
        PROVE  Get("uid")' = Get("uid")
    <3>1. pc = "writeFw" /\ fwName \in Names
      BY <2>3 DEF PutWrite, IInv, Held, HasFw
    <3>2. Puts(cm', cm, "provider", fwName)
      BY <2>2, <2>3, <3>1, PutWriteType
    <3> QED
      BY <3>2 DEF Puts, Get, Has
  <2>4. ~EditUID
    BY DEF EditUID, IInv, TypeOK
  <2>5. CASE PutUID
    BY <2>1, <2>2, <2>5 DEF PutUID, PutWrite
  <2>6. CASE PutFirewallName
    BY <2>1, <2>3, <2>6, "up" \in PCs DEF PutFirewallName, PCs
  <2>7. CASE Die
    BY <2>1, <2>2, <2>3, <2>7, "down" \in PCs DEF Die, PutWrite, PCs
  <2> QED
    BY <2>1, <2>4, <2>5, <2>6, <2>7 DEF Next, StartUp, Start, LookupUID, ListIngresses,
       GetFirewallName, Poll, Sync, IngressChange
<1> QED
  BY <1>1, Invariance, PTL DEF Spec, RecordedUidKept

\* As long as an ingress works, its UID stays that of the process: whatever the UIDs,
\* wherever the process dies, and even if the UID is taken out of the config map, as
\* long as the forwarding rule can be read.
THEOREM WorkingUidKept == Spec => []WorkingIngressKeepsUid
<1>1. KInv => WorkingIngressKeepsUid
  BY DEF KInv, Kept, Own, Working, Rule, WorkingIngressKeepsUid
<1> QED
  BY <1>1, InitKept, NextKept, PTL DEF Spec

\* Names lead back to what they were made for: for all UIDs that SetUID can store and
\* the keys of all ingresses.
THEOREM NamesAlwaysLeadBack == Spec => []NamesLeadBack
<1>1. NamesLeadBack
  <2>1. ASSUME NEW s \in NameStrings
        PROVE  UidOf(s) \in Seq(Plain) /\ UidOf(s) \in Seq(Symbols) /\ Cuts(UidOf(s)) = {}
    BY InputsAssumption, UidUncut, PlainSeq DEF Names
  <2>2. ASSUME NEW s \in NameStrings, NEW t \in NameStrings
        PROVE  TellsCluster(UidOf(s), UidOf(t))
    BY <2>1, BackendTells
  <2>3. ASSUME NEW s \in NameStrings, NEW key \in IngressKeys
        PROVE  LeadsBack(UidOf(s), key)
    BY <2>1, InputsAssumption, AlwaysLeadsBack
  <2> QED
    BY <2>2, <2>3 DEF NamesLeadBack
<1> QED
  BY <1>1, PTL

\* The label of a NEG fits, for every limit and all lengths of its fields.
THEOREM NegLabelAlwaysFits == Spec => []NegLabelFits
<1>1. NegLabelFits
  <2>1. ASSUME NEW len \in [1..3 -> FieldLengths] PROVE LabelFits(MaxNEGLabel, len)
    BY InputsAssumption, LimitsAssumption, LabelAlwaysFits, Zenon
  <2> QED
    BY <2>1 DEF NegLabelFits
<1> QED
  BY <1>1, PTL
=============================================================================
