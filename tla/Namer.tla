-------------------------------- MODULE Namer --------------------------------
(***************************************************************************)
(* The names of cloud resources (pkg/utils/namer.go, trimFieldsEvenly of   *)
(* pkg/utils/utils.go).  A string is a sequence of symbols: "-", "/", and  *)
(* words without either of them; a word such as "k8s" or a port is one     *)
(* symbol, so lengths count symbols.                                       *)
(***************************************************************************)
EXTENDS Integers, Sequences, FiniteSetsExt

CONSTANTS
    Symbols,        \* of the names
    NameLenLimit,   \* nameLenLimit, 62 in the code
    MaxNEGLabel     \* maxNEGDescriptiveLabel, 30 in the code

ASSUME LimitsAssumption == NameLenLimit \in Nat /\ MaxNEGLabel \in Nat \ {0}
ASSUME SymbolsAssumption ==
    {"-", "/", "0", "80", "k8s", "k8s1", "be", "fw", "l7"} \subseteq Symbols

clusterNameDelimiter == <<"-", "-">>

Truncate(key) ==
    IF Len(key) > NameLenLimit
    THEN Append(SubSeq(key, 1, NameLenLimit), "0")
    ELSE key

-----------------------------------------------------------------------------
\* strings.Split(s, "--") goes by the leftmost delimiters that do not overlap:
\* where they end, and the part after the last one.
Scan(s) ==
    LET cut[i \in 0..Len(s)] == i > 1 /\ s[i] = "-" /\ s[i-1] = "-" /\ ~cut[i-1]
    IN cut

Cuts(s) == {i \in 1..Len(s) : Scan(s)[i]}

LastCut(s) == Max(Cuts(s) \cup {0})

LastPart(s) == SubSeq(s, LastCut(s) + 1, Len(s))

\* SetUID: of a name with delimiters, only the last part.
UidOf(name) == LastPart(name)

DecorateName(uid, name) ==
    IF uid = <<>> THEN name ELSE Truncate(name \o clusterNameDelimiter \o uid)

Backend(uid, port) == DecorateName(uid, <<"k8s", "-", "be", "-", port>>)

FirewallRule(fw) ==
    <<"k8s", "-", "fw", "-">> \o
        (IF fw = <<>> THEN <<"l7">> ELSE Truncate(<<"l7">> \o clusterNameDelimiter \o fw))

Scrubbed(key) == [i \in 1..Len(key) |-> IF key[i] = "/" THEN "-" ELSE key[i]]

\* A mutant: the UID is appended whenever there is one.
LoadBalancerAlways(uid, key) ==
    LET scrubbedName == Scrubbed(key)
    IN IF uid = <<>> THEN scrubbedName
       ELSE Truncate(scrubbedName \o clusterNameDelimiter \o uid)

LoadBalancer(uid, key) ==
    LET scrubbedName == Scrubbed(key)
    IN IF uid = <<>> \/ LastPart(key) = uid THEN scrubbedName
       ELSE Truncate(scrubbedName \o clusterNameDelimiter \o uid)

ForwardingRule(lbName) == Truncate(<<"k8s", "-", "fw", "-">> \o lbName)

\* ParseName, the part that is used: the UID in a name.
ParsedUid(name) == IF Cuts(name) = {} THEN <<>> ELSE LastPart(name)

HasPrefix(s, prefix) == Len(prefix) <= Len(s) /\ SubSeq(s, 1, Len(prefix)) = prefix

NameBelongsToCluster(uid, name) ==
    /\ HasPrefix(name, <<"k8s", "-">>)
    /\ \/ Cuts(name) = {} /\ uid = <<>>
       \/ Cardinality(Cuts(name)) = 1 /\ LastPart(name) = uid

-----------------------------------------------------------------------------
\* A mutant: the space that rounding has left over is not given back, and
\* rounding is up.
TrimmedLengthsRoundedUp(max, len) ==
    LET total  == len[1] + len[2] + len[3]
        excess == total - max
    IN IF max <= 0 \/ total <= max THEN len
       ELSE [i \in 1..3 |-> len[i] - (len[i] * excess) \div total]

\* trimFieldsEvenly, for three fields: the lengths the fields are cut to.
TrimmedLengths(max, len) ==
    LET total     == len[1] + len[2] + len[3]
        excess    == total - max
        short     == [i \in 1..3 |-> len[i] - (len[i] * excess) \div total - 1]
        remaining == max - (short[1] + short[2] + short[3])
    IN IF max <= 0 \/ total <= max THEN len
       ELSE [i \in 1..3 |-> IF i <= remaining THEN short[i] + 1 ELSE short[i]]

NegPrefix(uid) == <<"k8s1", "-">> \o uid

\* NEG: the readable part, and the fields that negSuffix hashes; different
\* strings are taken to have different hashes.
NEG(uid, namespace, name, port) ==
    LET length == TrimmedLengths(MaxNEGLabel, <<Len(namespace), Len(name), Len(port)>>)
    IN [text |-> NegPrefix(uid) \o <<"-">> \o SubSeq(namespace, 1, length[1])
                   \o <<"-">> \o SubSeq(name, 1, length[2])
                   \o <<"-">> \o SubSeq(port, 1, length[3]),
        hash |-> namespace \o name \o port]

IsNEG(uid, neg) == HasPrefix(neg.text, NegPrefix(uid))

-----------------------------------------------------------------------------
\* Properties of the names, of one input each.

\* What a UID may have, and the keys of ingresses: a namespace and a name, neither
\* of which begins or ends with a dash (the API server sees to it).
Plain == Symbols \ {"/"}

IsIngressKey(key) ==
    /\ key \in Seq(Symbols)
    /\ \E slash \in 2..(Len(key) - 1) :
          /\ \A i \in 1..Len(key) : key[i] = "/" <=> i = slash
          /\ \A i \in {1, slash - 1, slash + 1, Len(key)} : key[i] # "-"

\* As long as it is not truncated, the name of a backend service belongs to the
\* cluster that has made it and to no other: the pool of backends collects by
\* NameBelongsToCluster.
TellsCluster(uid, other) ==
    LET name == Backend(uid, "80")
    IN Len(name) <= NameLenLimit => (NameBelongsToCluster(other, name) <=> uid = other)

\* The pool of load balancers is keyed by LoadBalancer(key), and its methods apply
\* LoadBalancer to a name again (L7s.Add and Delete call Get): this finds the same
\* entry, even if the name was truncated.  The name of a forwarding rule gives back
\* the UID (getClusterUID recovers it from an annotation), unless it is truncated,
\* or the UID is empty and the name of the ingress has a delimiter.
LeadsBack(uid, key) ==
    LET lb == LoadBalancer(uid, key)
        rule == ForwardingRule(lb)
    IN /\ LoadBalancer(uid, lb) = lb
       /\ \/ ParsedUid(rule) = uid
          \/ Len(rule) > NameLenLimit
          \/ uid = <<>> /\ Cuts(key) # {}

\* A forwarding rule of an ingress that leads back to itself: its name is not
\* truncated, and if it has no UID, no delimiter in the namespace is taken for that
\* of one (LoadBalancer would append what follows it, with the "/" replaced).
Readable(rule, key) ==
    /\ Len(rule) <= NameLenLimit
    /\ rule = ForwardingRule(LoadBalancer(<<>>, key)) /\ Cuts(key) # {} =>
           "/" \notin Range(LastPart(key))

\* The readable part of the name of a NEG has the fields' lengths where they
\* fit into the limit, and exactly the limit where they do not; no field gets
\* longer, and none is cut below nothing (which would be a panic).
LabelFits(max, len) ==
    LET cut == TrimmedLengths(max, len)
        total == len[1] + len[2] + len[3]
    IN /\ \A i \in 1..3 : cut[i] \in 0..len[i]
       /\ cut[1] + cut[2] + cut[3] = IF total <= max THEN total ELSE max
=============================================================================
