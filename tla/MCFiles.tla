-------------------------------- MODULE MCFiles --------------------------------
\* A machine with a user u, whose drive C: is shown below the directory m of a disk
\* of another system; names that separate or end what they are on Windows.
EXTENDS Files, TLC

MCPart ==
  DOMAIN VarOf \cup {Open, "C:", "u", "d", "f", "Desktop", "History", "Common Files", "Fonts",
                   "Users", "Videos", "OEM Links"}
Home == <<"C:", "u">>
User(v) == "USERPROFILE" :> Home @@ "APPDATA" :> v
MCEnvironments ==
  {User(<<"%USERPROFILE%", "d">>), User(<<"%LOCALAPPDATA%", "d">>) @@ "LOCALAPPDATA" :> <<"%APPDATA%">>,
   User(<<>>), User(<<Open>>)}
MCPaths == {<<"%APPDATA%", "f">>, <<"%APPDATA%", "%USERPROFILE%">>, <<"f">>, <<Open, "f">>}
MCCsidls == {"DESKTOP", "ROAMINGAPPDATA", "PUBLIC", "{"} \X {<<"f">>}

One(name) == <<<<name>>>>
Times(a, b) == [created |-> a, accessed |-> <<5>>, modified |-> <<b>>]
Dir == [is |-> "dir", bytes |-> <<>>, times |-> Times(<<>>, 7)]
File(bytes, t) == [is |-> "file", bytes |-> bytes, times |-> Times(<<3>>, t)]
Link(p) == [is |-> "link", to |-> p]

M == One("m")
U == M \o One("C") \o One("u")
D == U \o One("d")
Mounted ==
  <<>> :> Dir @@ M :> Dir @@ M \o One("C") :> Dir @@ U :> Dir @@ D :> Dir
  @@ D \o One("f") :> File(<<1, 2, 3>>, 7) @@ U \o One("f") :> File(<<4, NotText>>, 7)
  @@ U \o One("l") :> Link(D \o One("f")) @@ M \o <<<<"a", "b">>>> :> File(<<6>>, 7)
Later == [p \in DOMAIN Mounted \ {U \o One("f"), U \o One("l"), D \o One("f")} |-> Mounted[p]]
         @@ U \o One("f") :> File(<<>>, -1) @@ U \o One("l") :> Link(D \o One("f"))
         @@ D \o One("f") :> Dir
Drive == <<>> :> Dir @@ One("C") :> Dir @@ One("C") \o One("u") :> Dir
         @@ One("C") \o One("u") \o One("f") :> File(<<8>>, 7)
         @@ M :> Dir @@ M \o One("u") :> Link(One("C") \o One("u"))
MCDisks == {[os |-> Mounted, image |-> Drive], [os |-> Later, image |-> Drive]}

MCMounts == {M, One("C:"), <<<<"m", "C:", "">>>>}
MCCalls == [call : {"read_to_string", "read_all", "metadata", "read_dir", "open"}]
           \cup {[call |-> "read", pos |-> 1, len |-> n] : n \in {1, 5}}
MCAsked == {<<>>, <<<<"", "C:", "u">>>>, One("m"), <<<<" ", "u">>, <<"f">>>>, One("u") \o One("l")}
=============================================================================
