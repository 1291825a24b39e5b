---------------------------- MODULE MCForensicData ----------------------------
\* Artifacts and their names as src/artifact.rs has them; a text is the sequence
\* of its segments; integers are 4 bits wide.  Each reading of Drifting takes a
\* segment off its name (ArtifactNames!NamesSettle).
EXTENDS ForensicData, TLC

CONSTANTS ip, mapped   \* the text of the second is not read as an address

Names == INSTANCE ArtifactNames WITH Given <- {}, MaxHops <- 0,
           origin <- 0, artifact <- 0, name <- 0, hops <- 0

MCEmpty == <<"">>
MCIp == {ip, mapped}
MCUnknown == Names!Unknown
ShimCache == Names!Plain(<<"Windows", "Registry", "ShimCache">>)
ShellBags == Names!Plain(<<"Windows", "Registry", "ShellBags">>)
Written == {MCUnknown, ShimCache, ShellBags}

Drifting == <<"Windows", "Amcache", "Files">>
Drifts == {Drifting, <<"Windows", "Files">>, <<"Windows", "">>}

Number(i) == <<ToString(i)>>
Day(i) == <<"day", ToString(i)>>
Dotted == <<"127.0.0.1">>
Mapped == <<"", "ffff:127.0.0.1">>
MCText == {<<"">>, <<"pc">>, Dotted, Mapped} \cup Drifts \cup {Names!Display(a) : a \in Written}
          \cup {Number(i) : i \in F64} \cup {Day(i) : i \in U64}
MCArtifact == Written \cup {Names!artifact_from_str(t) : t \in MCText}

MCArtifactName == [a \in MCArtifact |-> Names!Display(a)]
MCArtifactIn == [t \in MCText |-> Names!artifact_from_str(t)]
MCIpText == [i \in MCIp |-> IF i = ip THEN Dotted ELSE Mapped]
MCIpIn == [t \in MCText |-> IF t = Dotted THEN ip ELSE NoIp]
MCNumberText == [i \in F64 |-> Number(i)]
MCDateText == [i \in U64 |-> Day(i)]

Plainly(kind, v) == [is |-> kind, val |-> v]
MCInputs ==
  {<<"field", f>> : f \in {Plainly("I64", -3), Plainly("U64", 9), Plainly("F64", -16), Plainly("F64", NaN),
                          Plainly("Date", 12), Plainly("Ip", ip), Plainly("Ip", mapped),
                          Plainly("Text", Dotted),
                          Plainly("Path", <<"pc">>), [is |-> "Null"],
                          Plainly("Array", <<<<"pc">>, <<"">>>>)}}
  \cup {<<"artifact.name", f>> : f \in {Plainly("Text", Drifting),
                                        Plainly("Domain", Names!Display(ShellBags))}}
MCAsked == {"field"} \X {"i64", "text"}
Symmetric == Permutations(Object)
MCContexts == {[host |-> <<"pc">>, artifact |-> ShimCache, tenant |-> <<"">>]}
=============================================================================
