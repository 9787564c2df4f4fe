---------------------------- MODULE MCClusterUID ----------------------------
\* Instances of ClusterUID for TLC.
EXTENDS ClusterUID, SequencesExt

MCKey == <<"ns", "/", "ing">>
MCFlags == {<<>>, <<"f">>}
MCNewUids == {<<"a">>, <<"b">>}
MCEdits == {<<"e">>, <<"x", "-", "-", "e", "f">>}

\* UIDs with dashes and delimiters in every place, up to one that is truncated.
MCNameStrings == BoundedSeq({"a", "-"}, 4) \cup {<<"a", "a", "b", "b", "a", "b", "a", "a", "b">>}
MCIngressKeys ==
    {<<"n", "/">> \o i : i \in {<<"a">>, <<"b", "-", "a">>, <<"b", "-", "-", "a">>,
                                <<"a", "a", "a", "a", "a", "a", "a">>}}
MCFieldLengths == 1..10
MCSymbols == {"-", "/", "0", "80", "k8s", "k8s1", "be", "fw", "l7", "ns", "svc", "ing", "n",
              "a", "b", "e", "f", "x"}
=============================================================================
