----------------------------- MODULE EnvVarsProps -----------------------------
(***************************************************************************)
(* What is claimed of the registry's handles and of                        *)
(* get_env_vars_of_users, over EnvVars.                                    *)
(***************************************************************************)
EXTENDS EnvVars, KnownFolders

ElementsOf(s) == {s[i] : i \in DOMAIN s}

Owned == ElementsOf(frames) \cup ElementsOf(held) \cup lost

(* A handle that is open will be closed once, by the one auto_close_key or *)
(* the one function that opened it, whichever of its calls fail; but for   *)
(* those get_system_root, windows_build and a panic leave open.            *)
HandlesAccounted ==
  /\ Closes => DOMAIN cached = Hives \cup Owned
  /\ Owned \cap Hives = {}
  /\ \A i, j \in DOMAIN frames : frames[i] = frames[j] => i = j
  /\ \A i, j \in DOMAIN held : held[i] = held[j] => i = j
  /\ ElementsOf(frames) \cap ElementsOf(held) = {}
  /\ lost \cap (ElementsOf(frames) \cup ElementsOf(held)) = {}
-----------------------------------------------------------------------------
\* What the registry says, read without handles.  Of a user without a hive, or
\* without shell folders in it, the program asks nothing, and so is nothing told.
Loaded(u) == /\ <<"HKU", u>> \in DOMAIN reg
             /\ <<"HKU", u, "UserShellFolders">> \in DOMAIN reg

Value(path, n, default) ==
  IF path \in DOMAIN reg /\ n \in DOMAIN reg[path] THEN text_or(reg[path][n], default)
  ELSE default

KeyOf(n) == CASE n = "SystemRoot" -> "NT" [] n = "CommonAppData" -> "ShellFolders"
              [] OTHER -> "Windows"
Everybody == [n \in DOMAIN Usual |-> Value(<<"HKLM", KeyOf(n)>>, n, Usual[n])]

HomeOfUser(u) == Replace(RootPart, Image(reg, IF u = Nobody THEN System ELSE u),
                         Everybody["SystemRoot"])
Profiled == {u \in User : HomeOfUser(u) # <<>>}

OwnValue(u, key, n) ==
  Replace(HomePart, Value(<<"HKU", u, key>>, n, HomeOfUser(u) \o Below[n]), HomeOfUser(u))
OwnValues(u) ==
  IF Loaded(u)
  THEN [v \in {VariableOf[n] : n \in DOMAIN VariableOf} |->
          LET n == CHOOSE n \in DOMAIN VariableOf : VariableOf[n] = v
          IN  OwnValue(u, IF v \in {"TMP", "TEMP"} THEN "Environment" ELSE "UserShellFolders", n)]
  ELSE None
Expected(u) == Variables(HomeOfUser(u), Everybody, OwnValues(u))

Done == at = "idle" /\ result = "Ok"

\* The variables env_vars.rs:8-24 lists.
Fifteen == {"USERPROFILE", "SystemRoot", "windir", "SystemDrive", "ProgramFiles",
            "ProgramData", "ProgramFiles_x86", "ProgramW6432", "LOCALAPPDATA", "APPDATA",
            "TMP", "TEMP", "HOMEPATH", "HOMEDRIVE", "USERNAME"}

(* If nobody changed the registry, the map has the users with a profile, the *)
(* system's twice, and for each the variables the registry says, all       *)
(* fifteen of them if the hive and the User Shell Folders of the user are  *)
(* there.  Other users are only claimed the eight that all have in common, *)
(* although line 8 promises fifteen to each who has a profile.  The values *)
(* of three are another matter: TMP and TEMP (TempFromEnvironment), and    *)
(* ProgramFiles, asked for by a misspelt name (140).                       *)
EnvironmentTold ==
  rested /\ Done =>
    /\ DOMAIN env = Profiled \cup (IF System \in Profiled THEN {Nobody} ELSE {})
    /\ \A u \in DOMAIN env :
         /\ \A n \in DOMAIN Expected(u) \ {"TMP", "TEMP", "ProgramFiles"} :
              n \in DOMAIN env[u] /\ env[u][n] = Expected(u)[n]
         /\ Loaded(u) => DOMAIN env[u] = Fifteen

(* On a live system, where keys come and go between the calls of the       *)
(* reader, a user is in the map who had one and the same profile all along,*)
(* with that home, unless it is an empty one: %SystemRoot% alone, if that  *)
(* is empty.                                                               *)
SteadyHome(u) == Replace(RootPart, steady[u], found["SystemRoot"])
SteadyProfilesFound ==
  Done => \A u \in DOMAIN steady :
            SteadyHome(u) # <<>> => u \in DOMAIN env /\ env[u]["USERPROFILE"] = SteadyHome(u)

(* The known folders (utils/win/csidl.rs:103) of a user whose hive and shell *)
(* folders are there begin with variables the user gets here, so that a    *)
(* path with one of them is left without an answer only where values of    *)
(* the registry go round, are empty, or name a variable nobody gets; nobody*)
(* gets PUBLIC and ALLUSERSPROFILE.                                        *)
KnownFoldersFound ==
  rested /\ Done =>
    \A u \in DOMAIN env :
      Loaded(u) =>
        \A f \in FolderId \ {"PUBLIC", "COMMONOEMLINKS"} :
          LET p == Rewritten(csidl_value[f], env[u])
          IN  Leads(p) =>
                \/ Circular(csidl_value[f], env[u]) \/ Hidden(env[u])
                \/ /\ VarOf[p[1]] \notin DOMAIN env[u]
                   /\ \E v \in DOMAIN env[u] : Leads(env[u][v]) /\ env[u][v][1] = p[1]

(* get_env_vars_of_users returns, although the registry may never rest.    *)
EnvVarsReturn == at # "idle" ~> at = "idle"
FairSpec == Spec /\ WF_vars(Step)

(* env_vars.rs:8-24 "Extract the principal environment variables for all   *)
(* users which have a profile", TMP and TEMP among them: those of the key  *)
(* Environment that is opened for them, if it has them.                    *)
TempFromEnvironment ==
  rested /\ Done => \A u \in DOMAIN env :
                     \A n \in DOMAIN env[u] \cap {"TMP", "TEMP"} : env[u][n] = Expected(u)[n]

=============================================================================
