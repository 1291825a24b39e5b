---------------------------- MODULE MCRegistryTree -----------------------------
\* Keys of a user, of the machine and below a name that is empty; the hive of the
\* users may be missing, as it is in an empty registry.
EXTENDS RegistryTreeProps

Text(v) == [is |-> "text", val |-> v]
MCSorted == <<"", "S-u", "S-u_Classes", "V", "k", "v">>
MCSid == {"S-u"}
Value(path, v) == [path |-> path, name |-> "v", data |-> Text(v)]
MCValues ==
  {Value(<<"HKLM">>, "1"), Value(<<"HKLM", "k", "V">>, "2"), Value(<<"HKLM", "k", "", "V", "">>, "1"),
   Value(<<"HKU", "S-u", "V">>, "1")}
MCKeyPaths == {<<"">>, <<"k", "V", "">>, <<"S-u_Classes">>}
MCOpened == {<<"k">>, <<"">>, <<"S-u", "V">>}
=============================================================================
