------------------------------ MODULE MCEnvVars -------------------------------
\* Registries of two users, one of them the system, that lack this or that.
EXTENDS EnvVarsProps, TLC

Txt(v) == [is |-> "text", val |-> v]
Number == [is |-> "number"]
Home == <<Drive, "Users", "pc">>

Whole ==
  <<"HKLM", "NT">> :> [SystemRoot |-> Txt(<<"D:", "Windows">>)]
  @@ <<"HKLM", "Windows">> :> ("ProgramFilesDir" :> Txt(<<"D:", "x64">>)
                               @@ "ProgramFilesDir_x86" :> Txt(<<"D:", "x86">>)
                               @@ "ProgramW6432Dir" :> Number)
  @@ <<"HKLM", "ShellFolders">> :> ("CommonAppData" :> Txt(<<"D:", "Data">>))
  @@ <<"HKLM", "ProfileList">> :> None
  @@ <<"HKLM", "ProfileList", "u">> :> [ProfileImagePath |-> Txt(Home)]
  @@ <<"HKLM", "ProfileList", "s">> :> [ProfileImagePath |-> Txt(<<"%SystemRoot%", "system">>)]
  @@ <<"HKU", "u">> :> None
  @@ <<"HKU", "u", "UserShellFolders">> :>
       ("AppData" :> Txt(<<"%USERPROFILE%", "Mine">>) @@ "TMP" :> Txt(<<"E:", "other">>))
  @@ <<"HKU", "u", "Environment">> :> [TMP |-> Txt(<<"E:", "tmp">>), TEMP |-> Number]
  @@ <<"HKU", "s">> :> None

Is(path, first) == Len(first) <= Len(path) /\ SubSeq(path, 1, Len(first)) = first
Less(r, first) == Without(r, {p \in DOMAIN r : Is(p, first)})
With(r, p, n, v) == Set(r, p, Set(r[p], n, v))
AppData(v) == With(Whole, <<"HKU", "u", "UserShellFolders">>, "AppData", Txt(v))

UserKey == <<"HKLM", "ProfileList", "u">>
MCContents ==
  {Whole, Less(Whole, UserKey), Less(Whole, <<"HKU", "u">>),
   Less(Whole, <<"HKU", "u", "Environment">>), Less(Whole, <<"HKU", "u", "UserShellFolders">>),
   With(Whole, UserKey, "ProfileImagePath", Number),
   With(Whole, UserKey, "ProfileImagePath", Txt(<<Drive>>)),
   Less(Less(Whole, <<"HKLM", "NT">>), <<"HKLM", "ShellFolders">>),
   With(Whole, <<"HKLM", "NT">>, "SystemRoot", Txt(<<>>)),
   With(With(Whole, <<"HKLM", "NT">>, "SystemRoot", Txt(<<>>)),
        UserKey, "ProfileImagePath", Txt(<<"%SystemRoot%">>)),
   Less(Whole, <<"HKLM", "ProfileList">>),
   AppData(<<"%LOCALAPPDATA%", "Mine">>), AppData(<<"%APPDATA%", "Mine">>),
   AppData(<<"%PUBLIC%", "Mine">>)}
MCUpdates == {Whole, Less(Whole, UserKey), Less(Whole, <<"HKU", "u">>)}
=============================================================================
