----------------------------- MODULE KnownFolders ------------------------------
(***************************************************************************)
(* The tables of src/utils/win/csidl.rs, and what a path that begins with  *)
(* a variable stands for.  A path is the sequence of its parts; the part   *)
(* "%A%" names the variable A, "%" is one nobody closes.  The hundred      *)
(* folders differ in their variable and in whether anything follows it, and*)
(* there is one here of each.                                              *)
(* A definition X_<bug> before a definition X is X with a plausible bug.   *)
(***************************************************************************)
EXTENDS Integers, Sequences, FiniteSets

VarOf_Upper == [p \in {"%USERPROFILE%", "%APPDATA%", "%LOCALAPPDATA%", "%ProgramFiles%", "%windir%",
                 "%SystemDrive%", "%PUBLIC%", "%ALLUSERSPROFILE%"} |->
            CASE p = "%USERPROFILE%" -> "USERPROFILE" [] p = "%APPDATA%" -> "APPDATA"
              [] p = "%LOCALAPPDATA%" -> "LOCALAPPDATA" [] p = "%ProgramFiles%" -> "ProgramFiles"
              [] p = "%windir%" -> "WINDIR" [] p = "%SystemDrive%" -> "SystemDrive"
              [] p = "%PUBLIC%" -> "PUBLIC" [] p = "%ALLUSERSPROFILE%" -> "ALLUSERSPROFILE"]
VarOf == [p \in {"%USERPROFILE%", "%APPDATA%", "%LOCALAPPDATA%", "%ProgramFiles%", "%windir%",
                 "%SystemDrive%", "%PUBLIC%", "%ALLUSERSPROFILE%"} |->
            CASE p = "%USERPROFILE%" -> "USERPROFILE" [] p = "%APPDATA%" -> "APPDATA"
              [] p = "%LOCALAPPDATA%" -> "LOCALAPPDATA" [] p = "%ProgramFiles%" -> "ProgramFiles"
              [] p = "%windir%" -> "windir" [] p = "%SystemDrive%" -> "SystemDrive"
              [] p = "%PUBLIC%" -> "PUBLIC" [] p = "%ALLUSERSPROFILE%" -> "ALLUSERSPROFILE"]
Open == "%"

FolderId == {"PROFILE", "DESKTOP", "ROAMINGAPPDATA", "HISTORY", "PROGRAMFILESCOMMON", "WINDOWS",
             "FONTS", "USERPROFILES", "PUBLIC", "VIDEOS", "COMMONOEMLINKS"}
csidl_value ==
  [f \in FolderId |->
     CASE f = "PROFILE" -> <<"%USERPROFILE%">> [] f = "DESKTOP" -> <<"%USERPROFILE%", "Desktop">>
       [] f = "ROAMINGAPPDATA" -> <<"%APPDATA%">> [] f = "HISTORY" -> <<"%LOCALAPPDATA%", "History">>
       [] f = "PROGRAMFILESCOMMON" -> <<"%ProgramFiles%", "Common Files">>
       [] f = "WINDOWS" -> <<"%windir%">> [] f = "FONTS" -> <<"%windir%", "Fonts">>
       [] f = "USERPROFILES" -> <<"%SystemDrive%", "Users">>
       [] f = "PUBLIC" -> <<"%PUBLIC%">> [] f = "VIDEOS" -> <<"%USERPROFILE%", "Videos">>
       [] f = "COMMONOEMLINKS" -> <<"%ALLUSERSPROFILE%", "OEM Links">>]
-----------------------------------------------------------------------------
Leads(txt) == txt # <<>> /\ txt[1] \in DOMAIN VarOf

\* The variable in front is replaced by its value until there is none, or
\* none that has a value.
Rewritten(txt, env) ==
  LET last == Cardinality(DOMAIN env) + 1
      r[n \in 0 .. last] ==
        IF n = 0 THEN txt
        ELSE LET t == r[n - 1]
             IN  IF Leads(t) /\ VarOf[t[1]] \in DOMAIN env THEN env[VarOf[t[1]]] \o Tail(t) ELSE t
  IN  r[last]

\* A variable that has an empty value, which hides what follows it.
Hidden(env) == \E part \in DOMAIN VarOf : VarOf[part] \in DOMAIN env /\ env[VarOf[part]] = <<>>

\* Variables whose values begin with one another.
Circular(txt, env) ==
  \E vs \in SUBSET DOMAIN env :
    /\ Leads(txt) /\ VarOf[txt[1]] \in vs
    /\ \A v \in vs : Leads(env[v]) /\ VarOf[env[v][1]] \in vs
=============================================================================
