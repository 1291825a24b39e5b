---------------------------- MODULE MCArtifactNames ---------------------------
\* Every variant of src/artifact.rs, with texts of one and of two segments.
EXTENDS ArtifactNames

Units ==
  {Unknown} \cup {Plain(<<"Windows", "Registry", r>>) : r \in RegistryUnits}
            \cup {Plain(<<"Windows", "WinEvt", e>>) : e \in EventUnits}
            \cup {Plain(<<"Windows", w>>) : w \in WindowsUnits}
            \cup {Plain(<<"Linux", "Service", s>>) : s \in ServiceUnits}
            \cup {Plain(<<"Common", "WebBrowsing", b>>) : b \in BrowsingUnits}
            \cup {Plain(<<s, "Unknown">>) : s \in Systems}

Words == {"", "a", "Unknown", "ShellBags", "MFT", "Service", "WebBrowsing"}
MCTexts == {<<w>> : w \in Words} \cup {<<v, w>> : v, w \in Words}
OSes == {"BeOS", "Mac", "MacOs", "Windows"}

MCGiven ==
  Units \cup {Is(Append(p, "Other"), t) : p \in Others, t \in MCTexts}
        \cup {Is(<<"Linux", l>>, t) : l \in LogKinds, t \in MCTexts}
        \cup {Is(<<"Other">>, <<o>> \o t) : o \in OSes, t \in MCTexts}
=============================================================================
