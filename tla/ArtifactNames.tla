---------------------------- MODULE ArtifactNames -----------------------------
(***************************************************************************)
(* src/artifact.rs: how an artifact is named and how a name is read back.  *)
(* An artifact is the path of its variants with the text its last variant  *)
(* carries, if any.  A text is the sequence of its segments: those between *)
(* its "::", one at least, none of which holds a colon.                    *)
(***************************************************************************)
EXTENDS Integers, Sequences, SequencesExt

CONSTANTS
  Given,      \* artifacts tools set
  MaxHops     \* bound of the model: how often a name is read

Is(path, text) == [path |-> path, text |-> text]
Plain(path) == Is(path, <<>>)
Unknown == Plain(<<"Unknown">>)

Systems == {"Windows", "Linux", "MacOs", "Common"}
RegistryUnits == {"Unknown", "ShimCache", "ShellBags", "AutoRuns"}
EventUnits == {"Unknown", "Sysmon", "System", "Security", "Setup", "Application"}
WindowsUnits == {"Unknown", "MFT", "Prefetch", "UAL", "Clipboard", "ScheduledTasks",
                 "GPO", "SRU", "Startup", "RecycleBin"}
LogKinds == {"Log", "ShellHistory", "Cron"}
ServiceUnits == {"Unknown", "SysV", "InitD", "SystemD"}
BrowsingUnits == {"Unknown", "BrowserHistory", "BrowserStorage", "BrowserCache",
                  "Cookie", "Extension", "ExtensionActivity", "FileSystem",
                  "LocalStorage", "Preferences", "SessionStorage", "Download",
                  "AutoFill", "RSSFeed"}

Others == {<<"Windows", "Registry">>, <<"Windows", "WinEvt">>, <<"Windows">>,
           <<"Linux", "Service">>, <<"Linux">>, <<"MacOs">>,
           <<"Common", "WebBrowsing">>, <<"Common">>}
IsArtifact(a) ==
  \/ a.text = <<>> /\ \/ a.path = <<"Unknown">>
                      \/ \E r \in RegistryUnits : a.path = <<"Windows", "Registry", r>>
                      \/ \E e \in EventUnits : a.path = <<"Windows", "WinEvt", e>>
                      \/ \E w \in WindowsUnits : a.path = <<"Windows", w>>
                      \/ \E s \in ServiceUnits : a.path = <<"Linux", "Service", s>>
                      \/ \E b \in BrowsingUnits : a.path = <<"Common", "WebBrowsing", b>>
                      \/ \E s \in Systems : a.path = <<s, "Unknown">>
  \/ a.text # <<>> /\ \/ \E p \in Others : a.path = Append(p, "Other")
                      \/ \E l \in LogKinds : a.path = <<"Linux", l>>
                      \/ a.path = <<"Other">> /\ Len(a.text) > 1  \* os, artifact

ASSUME NamesAssumption ==
  /\ MaxHops \in Nat
  /\ \A a \in Given : a = Is(a.path, a.text) /\ a.text \in Seq(STRING) /\ IsArtifact(a)
-----------------------------------------------------------------------------
\* Display: the name of the path, then the text; an Other is not named.
Shown(path) == CASE path = <<"Windows", "Registry", "ShimCache">> ->
                      <<"Windows", "Registry", "InitD">>
                 [] path = <<"Linux", "Unknown">> -> <<"Linux", "Log", "Unknown">>
                 [] Len(path) > 1 /\ path[1] = "MacOs" -> <<"Mac", path[2]>>
                 [] OTHER -> path
Display(a) == LET shown == Shown(a.path)
              IN  (IF Last(shown) = "Other" THEN Front(shown) ELSE shown) \o a.text

\* The text after the first "::", empty if there is none.
Rest(txt) == IF Len(txt) > 1 THEN Tail(txt) ELSE <<"">>

UnitOr(prefix, units, txt) ==
  IF Len(txt) = 1 /\ txt[1] \in units THEN Plain(prefix \o txt)
  ELSE Is(Append(prefix, "Other"), txt)

windows_artifacts_from_str_NoStartup(txt) ==
  CASE txt[1] = "Registry" -> UnitOr(<<"Windows", "Registry">>, RegistryUnits, Rest(txt))
    [] txt[1] = "WinEvt" -> UnitOr(<<"Windows", "WinEvt">>,
                                   EventUnits \ {"Setup", "Application"}, Rest(txt))
    [] txt[1] \in WindowsUnits \ {"Startup"} -> Plain(<<"Windows", txt[1]>>)
    [] OTHER -> Is(<<"Windows", "Other">>, Rest(txt))
windows_artifacts_from_str(txt) ==
  CASE txt[1] = "Registry" -> UnitOr(<<"Windows", "Registry">>, RegistryUnits, Rest(txt))
    [] txt[1] = "WinEvt" -> UnitOr(<<"Windows", "WinEvt">>,
                                   EventUnits \ {"Setup", "Application"}, Rest(txt))
    [] txt[1] \in WindowsUnits -> Plain(<<"Windows", txt[1]>>)
    [] OTHER -> Is(<<"Windows", "Other">>, Rest(txt))

\* linux_service_from_str is given the text with its "Service::".
linux_artifacts_from_str_WholeLog(txt) ==
  CASE Len(txt) = 1 -> Plain(<<"Linux", "Unknown">>)
    [] Len(txt) > 1 /\ txt[1] \in LogKinds -> Is(<<"Linux", txt[1]>>, txt)
    [] Len(txt) > 1 /\ txt[1] = "Service" -> UnitOr(<<"Linux", "Service">>, ServiceUnits, txt)
    [] OTHER -> Is(<<"Linux", "Other">>, Rest(txt))
linux_artifacts_from_str(txt) ==
  CASE Len(txt) = 1 -> Plain(<<"Linux", "Unknown">>)
    [] Len(txt) > 1 /\ txt[1] \in LogKinds -> Is(<<"Linux", txt[1]>>, Rest(txt))
    [] Len(txt) > 1 /\ txt[1] = "Service" -> UnitOr(<<"Linux", "Service">>, ServiceUnits, txt)
    [] OTHER -> Is(<<"Linux", "Other">>, Rest(txt))

common_artifact_from_str(txt) ==
  CASE Len(txt) = 1 \/ txt[1] = "Unknown" -> Plain(<<"Common", "Unknown">>)
    [] Len(txt) > 1 /\ txt[1] = "WebBrowsing" ->
         UnitOr(<<"Common", "WebBrowsing">>, BrowsingUnits, Rest(txt))
    [] OTHER -> Is(<<"Common", "Other">>, txt)

artifact_from_str(txt) ==
  CASE Len(txt) = 1 \/ txt[1] = "Unknown" -> Unknown
    [] Len(txt) > 1 /\ txt[1] = "Windows" -> windows_artifacts_from_str(Rest(txt))
    [] Len(txt) > 1 /\ txt[1] = "Linux" -> linux_artifacts_from_str(Rest(txt))
    [] Len(txt) > 1 /\ txt[1] = "MacOs" -> UnitOr(<<"MacOs">>, {"Unknown"}, Rest(txt))
    [] Len(txt) > 1 /\ txt[1] = "Common" -> common_artifact_from_str(Rest(txt))
    [] OTHER -> Is(<<"Other">>, txt)
-----------------------------------------------------------------------------
VARIABLES
  origin,    \* what the first tool set
  artifact,  \* what the tool that has the record now takes it for
  name,      \* the name it wrote
  hops       \* how often the name was read

namesVars == <<origin, artifact, name, hops>>

\* A tool makes a record: ForensicData names it at once.
NamesInit ==
  /\ origin \in Given
  /\ artifact = origin
  /\ name = Display(origin)
  /\ hops = 0

\* The next tool reads the name and makes a record of the artifact it read.
NextTool ==
  /\ hops < MaxHops
  /\ artifact' = artifact_from_str(name)
  /\ name' = Display(artifact')
  /\ hops' = hops + 1
  /\ UNCHANGED origin

NamesNext == NextTool
NamesSpec == NamesInit /\ [][NamesNext]_namesVars
-----------------------------------------------------------------------------
Service == <<"Linux", "Service">>

\* Artifacts whose own name is read as another: artifact.rs:198 (ShimCache shown
\* as InitD), 648-656 (two events not read), 667 (services), 188 and 25 against
\* 611; and a text that says the name of a unit, or stands for what is not read.
Misread(a) ==
  \/ a.path \in {<<"Windows", "Registry", "ShimCache">>, <<"Windows", "WinEvt", "Setup">>,
                <<"Windows", "WinEvt", "Application">>, <<"Linux", "Unknown">>,
                <<"Windows", "Other">>, <<"Linux", "Other">>}
  \/ a.path[1] = "MacOs" \/ IsPrefix(Service, a.path)
  \/ a.path = <<"Common", "Other">> /\ (Len(a.text) = 1 \/ a.text[1] \in {"Unknown", "WebBrowsing"})
  \/ a.path = <<"Other">> /\ a.text[1] \in Systems \cup {"Unknown"}
  \/ Len(a.path) = 3 /\ Len(a.text) = 1
     /\ a.text[1] \in RegistryUnits \cup EventUnits \cup BrowsingUnits

\* Every other artifact is, however many tools pass it on, what it was: the
\* variants artifact_from_str (artifact.rs:602-723) reads are those Display
\* (16-28, 170-285) writes.
ReadAsWritten == Misread(origin) \/ artifact = origin

\* The name of a record stops changing: an Other of Windows or Linux loses a
\* segment per tool (artifact.rs:634, 668) until none is left.
NamesSettle == [][IsPrefix(Service, artifact.path) \/ hops <= Len(origin.text)
                  \/ name' = name]_namesVars
=============================================================================
