------------------------------- MODULE EnvVars --------------------------------
(***************************************************************************)
(* src/traits/registry/extra/env_vars.rs: get_env_vars_of_users and the    *)
(* functions it is made of, one action per call of the reader (a close     *)
(* with what precedes it), so that a live registry changes between them.   *)
(* A path on disk is the sequence of its parts; keys are called by the     *)
(* last part of their path, names are without their blanks and brackets.   *)
(***************************************************************************)
EXTENDS Registry

CONSTANTS
  User,    \* names of the keys of profiles: security identifiers
  System,  \* S-1-5-18
  Nobody   \* the empty name

ASSUME EnvVarsAssumption == Nobody \notin User

VARIABLES
  at,        \* the function being executed, or the loop it is in
  held,      \* the handles that function will close, the outermost first
  folders,   \* the local shell_folders of user_specific_env_vars
  left,      \* names of values to be read from the key opened last
  todo,      \* users the loop has not come to
  user,      \* the one it is at
  profiles,  \* what list_all_profiles returns: the home of each user
  found,     \* values read for everybody
  mine,      \* values read for the user
  env,       \* what get_env_vars_of_users returns
  result,    \* "none", "Ok" or "Err"
  steady,    \* users with one and the same profile since the call began: its home
  rested     \* nobody has changed the registry since

callVars == <<at, held, folders, left, todo, user, profiles, found, mine, env, result>>
history == <<steady, rested>>
vars == <<regVars, callVars, history>>
kept == <<reg, frames, lost, history>>

None == <<>>      \* an empty map
Set(f, n, v) == [m \in DOMAIN f \cup {n} |-> IF m = n THEN v ELSE f[m]]
Without(f, ns) == [m \in DOMAIN f \ ns |-> f[m]]

Drive == "C:"
ProfileList == <<"ProfileList">>

\* system_root, program_files and program_data: the key each opens, the values
\* it reads, spelt as it spells them, and what is called next.
Lookup ==
  [root |-> [key |-> <<"NT">>, names |-> <<"SystemRoot">>, next |-> "files"],
   files |-> [key |-> <<"Windows">>, next |-> "data",
              names |-> <<"ProgrammFilesDir", "ProgramFilesDir_x86", "ProgramW6432Dir">>],
   data |-> [key |-> <<"ShellFolders">>, names |-> <<"CommonAppData">>,
             next |-> "profiles"]]

Usual == [n \in {"SystemRoot", "ProgrammFilesDir", "ProgramFilesDir_x86",
                 "ProgramW6432Dir", "CommonAppData"} |->
            <<Drive, CASE n = "SystemRoot" -> "Windows"
                       [] n \in {"ProgrammFilesDir", "ProgramW6432Dir"} -> "Program Files"
                       [] n = "ProgramFilesDir_x86" -> "Program Files (x86)"
                       [] n = "CommonAppData" -> "ProgramData">>]

\* What user_specific_env_vars reads from User Shell Folders and Environment,
\* as the variable it becomes, and its default below a home.
FolderValues == <<"AppData", "LocalAppData">>
TempValues == <<"TMP", "TEMP">>
VariableOf == [n \in {"AppData", "LocalAppData", "TMP", "TEMP"} |->
                 CASE n = "AppData" -> "APPDATA" [] n = "LocalAppData" -> "LOCALAPPDATA"
                   [] OTHER -> n]
Below == [n \in DOMAIN VariableOf |->
            CASE n = "AppData" -> <<"AppData", "Roaming">>
              [] n = "LocalAppData" -> <<"AppData", "Local">>
              [] OTHER -> <<"AppData", "Local", "Temp">>]

\* replace_user_profile, and the like of the root in list_all_profiles.
HomePart == "%USERPROFILE%"
RootPart == "%SystemRoot%"
Replace(variable, txt, by) ==
  IF txt # <<>> /\ txt[1] = variable THEN by \o Tail(txt) ELSE txt

\* HOMEPATH, HOMEDRIVE and USERNAME, cut from the home of the user.
HomeOf(home) ==
  IF Len(home) > 1
  THEN [HOMEDRIVE |-> <<home[1]>>, HOMEPATH |-> Tail(home), USERNAME |-> <<home[Len(home)]>>]
  ELSE [HOMEDRIVE |-> <<Drive>>, HOMEPATH |-> <<"Users">>, USERNAME |-> <<>>]

\* The map of a user: what all have, and what was read for this one; nothing
\* was read if the hive or the folders of the user are not there.
Variables(home, all, own) ==
  LET root == all["SystemRoot"]
      common == [USERPROFILE |-> home, SystemRoot |-> root, windir |-> root,
                 SystemDrive |-> <<IF root = <<>> THEN Drive ELSE root[1]>>,
                 ProgramFiles |-> all["ProgrammFilesDir"],
                 ProgramData |-> all["CommonAppData"],
                 ProgramW6432 |-> all["ProgramW6432Dir"]]
      both == Set(common, "ProgramFiles_x86", all["ProgramFilesDir_x86"])
      more == IF own = None THEN None
              ELSE [n \in DOMAIN own \cup {"HOMEDRIVE", "HOMEPATH", "USERNAME"} |->
                      IF n \in DOMAIN own THEN own[n] ELSE HomeOf(home)[n]]
  IN  [n \in DOMAIN both \cup DOMAIN more |-> IF n \in DOMAIN more THEN more[n] ELSE both[n]]
-----------------------------------------------------------------------------
\* The home the profile of u names in the contents r, if it has one.
Image(r, u) ==
  LET key == <<"HKLM">> \o ProfileList \o <<u>>
  IN  IF key \in DOMAIN r /\ "ProfileImagePath" \in DOMAIN r[key]
      THEN text_or(r[key]["ProfileImagePath"], <<>>) ELSE <<>>

Init ==
  /\ RegInit
  /\ at = "idle" /\ held = <<>> /\ folders = HKLM /\ left = <<>>
  /\ todo = {} /\ user = Nobody
  /\ profiles = None /\ found = None /\ mine = None /\ env = None
  /\ result = "none"
  /\ steady = None /\ rested = TRUE

\* get_env_vars_of_users is called; it holds two handles at most at a time, and
\* the bound of the model leaves it as many.
Call ==
  /\ at = "idle"
  /\ Closes => Cardinality({k \in 0 .. MaxHandles - 1 : Free(k)}) > 1
  /\ at' = "root" /\ result' = "none"
  /\ profiles' = None /\ found' = None /\ mine' = None /\ env' = None
  /\ steady' = [u \in {v \in User : Image(reg, v) # <<>>} |-> Image(reg, u)]
  /\ rested' = TRUE
  /\ UNCHANGED <<regVars, held, folders, left, todo, user>>

\* The functions of Lookup: open the key, or take the usual values.
OpenLookup(k) ==
  /\ at \in DOMAIN Lookup /\ held = <<>>
  /\ Opens(HKLM, Lookup[at].key, k)
  /\ held' = <<k>> /\ left' = Lookup[at].names
  /\ UNCHANGED <<kept, at, folders, todo, user, profiles, found, mine, env, result>>

LookupRefused ==
  /\ at \in DOMAIN Lookup /\ held = <<>>
  /\ ~Found(HKLM, Lookup[at].key)
  /\ LET names == Lookup[at].names
     IN  found' = [n \in DOMAIN found \cup {names[i] : i \in DOMAIN names} |->
                     IF n \in DOMAIN found THEN found[n] ELSE Usual[n]]
  /\ at' = Lookup[at].next
  /\ UNCHANGED <<kept, handles, held, folders, left, todo, user, profiles, mine, env,
                 result>>

\* Read its next value; close the key after the last.
ReadLookup ==
  /\ at \in DOMAIN Lookup /\ held # <<>>
  /\ LET n == left[1] IN found' = Set(found, n, text_or(read_value(held[1], n), Usual[n]))
  /\ left' = Tail(left)
  /\ IF left' # <<>> THEN UNCHANGED <<handles, held, at>>
     ELSE CloseKeys({held[1]}) /\ held' = <<>> /\ at' = Lookup[at].next
  /\ UNCHANGED <<kept, folders, todo, user, profiles, mine, env, result>>
-----------------------------------------------------------------------------
\* list_all_profiles
OpenProfiles(k) ==
  /\ at = "profiles"
  /\ Opens(HKLM, ProfileList, k)
  /\ held' = <<k>> /\ at' = "list"
  /\ UNCHANGED <<kept, folders, left, todo, user, profiles, found, mine, env, result>>

ProfilesRefused ==
  /\ at = "profiles" /\ ~Found(HKLM, ProfileList)
  /\ at' = "idle" /\ result' = "Err"
  /\ UNCHANGED <<kept, handles, held, folders, left, todo, user, profiles, found, mine,
                 env>>

ListProfiles ==
  /\ at = "list"
  /\ todo' = enumerate_keys(held[1], User) /\ at' = "each"
  /\ UNCHANGED <<kept, handles, held, folders, left, user, profiles, found, mine, env,
                 result>>

OpenProfile(u, k) ==
  /\ at = "each" /\ u \in todo
  /\ Opens(held[1], <<u>>, k)
  /\ held' = <<held[1], k>> /\ user' = u /\ todo' = todo \ {u} /\ at' = "image"
  /\ UNCHANGED <<kept, folders, left, profiles, found, mine, env, result>>

ProfileRefused_Breaks(u) ==
  /\ at = "each" /\ u \in todo /\ ~Found(held[1], <<u>>)
  /\ todo' = {}
  /\ UNCHANGED <<kept, handles, at, held, folders, left, user, profiles, found, mine,
                 env, result>>
ProfileRefused(u) ==
  /\ at = "each" /\ u \in todo /\ ~Found(held[1], <<u>>)
  /\ todo' = todo \ {u}
  /\ UNCHANGED <<kept, handles, at, held, folders, left, user, profiles, found, mine,
                 env, result>>

ReadImage_Inserted ==
  /\ at = "image"
  /\ LET path == text_or(read_value(held[2], "ProfileImagePath"), <<>>)
         home == Replace(RootPart, path, found["SystemRoot"])
     IN  profiles' = IF user = System THEN Set(Set(profiles, Nobody, home), user, home)
                     ELSE Set(profiles, user, home)
  /\ CloseKeys({held[2]}) /\ held' = <<held[1]>> /\ at' = "each"
  /\ UNCHANGED <<kept, folders, left, todo, user, found, mine, env, result>>

\* A value that cannot be read, or is no text or an empty one, is no profile.
ReadImage ==
  /\ at = "image"
  /\ LET path == text_or(read_value(held[2], "ProfileImagePath"), <<>>)
         home == Replace(RootPart, path, found["SystemRoot"])
     IN  profiles' = IF home = <<>> THEN profiles
                     ELSE IF user = System THEN Set(Set(profiles, Nobody, home), user, home)
                     ELSE Set(profiles, user, home)
  /\ CloseKeys({held[2]}) /\ held' = <<held[1]>> /\ at' = "each"
  /\ UNCHANGED <<kept, folders, left, todo, user, found, mine, env, result>>

ProfilesRead ==
  /\ at = "each" /\ todo = {}
  /\ CloseKeys({held[1]}) /\ held' = <<>>
  /\ at' = "users" /\ todo' = DOMAIN profiles
  /\ UNCHANGED <<kept, folders, left, user, profiles, found, mine, env, result>>
-----------------------------------------------------------------------------
\* The user's map is complete: back to the loop of get_env_vars_of_users.
Insert(u, own) ==
  /\ env' = Set(env, u, Variables(profiles[u], found, own))
  /\ mine' = None /\ held' = <<>> /\ at' = "users"

\* user_specific_env_vars
OpenUser(u, k) ==
  /\ at = "users" /\ u \in todo
  /\ Opens(HKU, <<u>>, k)
  /\ held' = <<k>> /\ user' = u /\ todo' = todo \ {u} /\ at' = "folders"
  /\ UNCHANGED <<kept, folders, left, profiles, found, mine, env, result>>

UserRefused_Again(u) ==
  /\ at = "users" /\ u \in todo /\ ~Found(HKU, <<u>>)
  /\ Insert(u, None) /\ UNCHANGED todo
  /\ UNCHANGED <<kept, handles, folders, left, user, profiles, found, result>>
UserRefused(u) ==
  /\ at = "users" /\ u \in todo /\ ~Found(HKU, <<u>>)
  /\ Insert(u, None) /\ todo' = todo \ {u}
  /\ UNCHANGED <<kept, handles, folders, left, user, profiles, found, result>>

OpenFolders(k) ==
  /\ at = "folders" /\ left = <<>>
  /\ Opens(held[1], <<"UserShellFolders">>, k)
  /\ held' = <<held[1], k>> /\ folders' = k /\ left' = FolderValues
  /\ UNCHANGED <<kept, at, todo, user, profiles, found, mine, env, result>>

FoldersRefused_Unclosed ==
  /\ at = "folders" /\ left = <<>> /\ ~Found(held[1], <<"UserShellFolders">>)
  /\ Insert(user, None)
  /\ UNCHANGED <<kept, handles, folders, left, todo, user, profiles, found, result>>
FoldersRefused ==
  /\ at = "folders" /\ left = <<>> /\ ~Found(held[1], <<"UserShellFolders">>)
  /\ CloseKeys({held[1]}) /\ Insert(user, None)
  /\ UNCHANGED <<kept, folders, left, todo, user, profiles, found, result>>

\* What is read for the user, with one more value: the one the handle h has, or
\* its default below the home.
Own(h) ==
  LET n == left[1]
      home == profiles[user]
  IN  Set(mine, VariableOf[n],
          Replace(HomePart, text_or(read_value(h, n), home \o Below[n]), home))

ReadFolder ==
  /\ at = "folders" /\ left # <<>>
  /\ mine' = Own(folders)
  /\ left' = Tail(left)
  /\ IF left' # <<>> THEN UNCHANGED <<handles, held, at>>
     ELSE CloseKeys({folders}) /\ held' = <<held[1]>> /\ at' = "environment"
  /\ UNCHANGED <<kept, folders, todo, user, profiles, found, env, result>>

OpenEnvironment(k) ==
  /\ at = "environment" /\ left = <<>>
  /\ Opens(held[1], <<"Environment">>, k)
  /\ held' = <<held[1], k>> /\ left' = TempValues
  /\ UNCHANGED <<kept, at, folders, todo, user, profiles, found, mine, env, result>>

EnvironmentRefused ==
  /\ at = "environment" /\ left = <<>> /\ ~Found(held[1], <<"Environment">>)
  /\ LET temp == profiles[user] \o Below["TMP"]
     IN  Insert(user, Set(Set(mine, "TMP", temp), "TEMP", temp))
  /\ CloseKeys({held[1]})
  /\ UNCHANGED <<kept, folders, left, todo, user, profiles, found, result>>

\* The values are asked of shell_folders, which is closed by now.
ReadTemp ==
  /\ at = "environment" /\ left # <<>>
  /\ left' = Tail(left)
  /\ IF left' # <<>> THEN mine' = Own(folders) /\ UNCHANGED <<handles, held, at, env>>
     ELSE CloseKeys({held[1], held[2]}) /\ Insert(user, Own(folders))
  /\ UNCHANGED <<kept, folders, todo, user, profiles, found, result>>

Return ==
  /\ at = "users" /\ todo = {}
  /\ at' = "idle" /\ result' = "Ok"
  /\ UNCHANGED <<kept, handles, held, folders, left, todo, user, profiles, found, mine,
                 env>>
-----------------------------------------------------------------------------
\* A step of the functions that get the environment.
Step ==
  \/ LookupRefused \/ ReadLookup
  \/ ProfilesRefused \/ ListProfiles \/ ReadImage \/ ProfilesRead
  \/ FoldersRefused \/ ReadFolder \/ EnvironmentRefused \/ ReadTemp \/ Return
  \/ \E u \in todo : ProfileRefused(u) \/ UserRefused(u)
  \/ \E k \in 0 .. MaxHandles - 1 :
       \/ OpenLookup(k) \/ OpenProfiles(k) \/ OpenFolders(k) \/ OpenEnvironment(k)
       \/ \E u \in todo : OpenProfile(u, k) \/ OpenUser(u, k)

\* What else the caller does with the reader, before and after.
Caller ==
  /\ at = "idle"
  /\ \/ \E k \in 0 .. MaxHandles - 1 :
          \/ \E u \in User : Enter(HKU, <<u>>, k)
          \/ frames # <<>> /\ Enter(frames[Len(frames)], <<"Environment">>, k)
          \/ ReadVersion(k)
     \/ Leave
     \/ Unwind
  /\ UNCHANGED <<callVars, history>>

Written ==
  /\ Change
  /\ steady' = IF at = "idle" THEN steady
               ELSE Without(steady, {u \in User : Image(reg', u) # Image(reg, u)})
  /\ rested' = FALSE
  /\ UNCHANGED callVars

Next == Call \/ Step \/ Caller \/ Written

Spec == Init /\ [][Next]_vars
=============================================================================
