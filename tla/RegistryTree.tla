----------------------------- MODULE RegistryTree ------------------------------
(***************************************************************************)
(* src/utils/testing.rs: TestingRegistry, a tree of MountedCells in which  *)
(* keys are looked up by the path of the handle, on each call anew.  A path*)
(* is the sequence of the pieces between its separators: <<"">> is empty,  *)
(* <<"a", "">> is "a\".  add_key, which calls itself, takes a step a call. *)
(* A definition X_<bug> before a definition X is X with a plausible bug.   *)
(***************************************************************************)
EXTENDS Integers, Sequences, SequencesExt

CONSTANTS
  Sorted,      \* all names there are, in their order, each once
  Sid,         \* those of users: they begin with "S-", and do not end in "_Classes"
  Values,      \* [path, name, data]: arguments of add_value
  KeyPaths,    \* of add_key
  Opened,      \* of open_key
  MaxFrames,   \* calls of add_key or add_value inside of each other there is stack for
  MaxCounter   \* bound of the model: handles given out

VARIABLES
  cell,      \* the MountedCell of each hive
  cached,    \* the path of each handle
  counter,   \* the handle to give out next
  adding,    \* the innermost add_key: the cell it is called on, the path; or none
  op, reply  \* the last call, what it answered

vars == <<cell, cached, counter, adding, op, reply>>

Empty == <<"">>
None == <<>>             \* an empty map
Idle == [into |-> <<>>, path |-> Empty]
Aborted == [into |-> <<"aborted">>, path |-> Empty]
Err == [is |-> "Err"]
NoMoreData == [is |-> "NoMoreData"]
Panic == [is |-> "panic"]
Ok(v) == [is |-> "Ok", val |-> v]

Put(f, n, v) == [m \in DOMAIN f \cup {n} |-> IF m = n THEN v ELSE f[m]]
NewCell == [keys |-> None, values |-> None]
Entry(cells, n) == IF n \in DOMAIN cells THEN cells[n] ELSE NewCell   \* or_insert

\* The key a path leads to: what is left is empty behind a last separator, but
\* the name of a hive is always there.
KeyOf(path) == IF Len(path) > 1 /\ Last(path) = "" THEN Front(path) ELSE path

\* A RegValue is some kind of value, and there is stack for add_value.
ASSUME TreeAssumption ==
  /\ MaxFrames \in Nat /\ MaxFrames > 2 /\ MaxCounter \in Nat
  /\ Sorted \in Seq(STRING) /\ \A i, j \in DOMAIN Sorted : Sorted[i] = Sorted[j] => i = j
  /\ Sid \subseteq Range(Sorted)
  /\ \A v \in Values : v.path \in Seq(STRING) \ {<<>>} /\ Len(KeyOf(v.path)) <= MaxFrames
                       /\ v.data # [is |-> "missing"]
  /\ KeyPaths \cup Opened \subseteq Seq(STRING) \ {<<>>}
-----------------------------------------------------------------------------
\* MountedCell.  The cell a path leads to; a new one has as little to say as one
\* that is not there.
Down(c, path) ==
  LET d[n \in 0 .. Len(path)] == IF n = 0 THEN c ELSE Entry(d[n - 1].keys, path[n])
  IN  d[Len(path)]

\* The cell b where a path leads to, and new ones above it where there are none.
Grown(c, path, b) ==
  LET up[n \in 0 .. Len(path)] ==
        IF n = 0 THEN b
        ELSE LET i == Len(path) - n
             IN  [Down(c, SubSeq(path, 1, i)) EXCEPT !.keys = Put(@, path[i + 1], up[n - 1])]
  IN  up[Len(path)]

add_value(c, path, n, data) == Grown(c, path, [Down(c, path) EXCEPT !.values = Put(@, n, data)])
WithKey(c, path) == Grown(c, path, Down(c, path))
contains_key(c, path) == Last(path) \in DOMAIN Down(c, Front(path)).keys

\* TestingRegistry: another such cell, its keys the hives.
Tree(cells) == [keys |-> cells, values |-> None]
contains(path) == contains_key(Tree(cell), path)

get_value(path, n) ==
  LET values == Down(Tree(cell), KeyOf(path)).values
  IN  IF n \in DOMAIN values THEN values[n] ELSE Err

\* The names that are in a set, in their order.
Only(names, set) ==
  LET o[n \in 0 .. Len(names)] ==
        IF n = 0 THEN <<>> ELSE IF names[n] \in set THEN Append(o[n - 1], names[n]) ELSE o[n - 1]
  IN  o[Len(names)]
In(map) == Only(Sorted, DOMAIN map)
get_values(path) ==
  IF path[1] \in DOMAIN cell THEN Ok(In(Down(Tree(cell), KeyOf(path)).values)) ELSE Err
get_keys_Whole(path) ==
  IF path[1] \in DOMAIN cell THEN Ok(In(cell[path[1]].keys)) ELSE Err
get_keys(path) ==
  IF path[1] \in DOMAIN cell THEN Ok(In(Down(Tree(cell), KeyOf(path)).keys)) ELSE Err

\* basic_registry, or what empty starts from; basic_cache.
Basic == add_value(Tree([h \in {"HKLM", "HKU"} |-> NewCell]),
                   <<"HKU", "S-u", "V">>, "v", [is |-> "text", val |-> "home"]).keys
HKLM == -1
HKU == -2
HKCC == -3       \* a hive without a path

Init ==
  /\ cell \in {Basic, None}
  /\ cached = [h \in {HKLM, HKU} |-> IF h = HKLM THEN <<"HKLM">> ELSE <<"HKU">>]
  /\ counter = 0 /\ adding = Idle
  /\ op = [call |-> "none"] /\ reply = Err
-----------------------------------------------------------------------------
AddValue_Replaces(v) ==
  /\ adding = Idle
  /\ cell' = Put(cell, v.path[1],
                 add_value(Tree(None), KeyOf(v.path), v.name, v.data).keys[v.path[1]])
  /\ op' = [call |-> "add_value", arg |-> v] /\ reply' = Ok("()")
  /\ UNCHANGED <<cached, counter, adding>>
AddValue(v) ==
  /\ adding = Idle
  /\ cell' = add_value(Tree(cell), KeyOf(v.path), v.name, v.data).keys
  /\ op' = [call |-> "add_value", arg |-> v] /\ reply' = Ok("()")
  /\ UNCHANGED <<cached, counter, adding>>

\* add_key of the MountedCell of a hive.
AddKey(hive, path) ==
  /\ adding = Idle /\ hive \in DOMAIN cell
  /\ adding' = [into |-> <<hive>>, path |-> path]
  /\ op' = [call |-> "add_key", arg |-> path] /\ reply' = Err
  /\ UNCHANGED <<cell, cached, counter>>

\* A piece with nothing behind it is added again, to the key it has become.
Deeper_Always ==
  /\ adding.path # Empty /\ Len(adding.into) < MaxFrames
  /\ cell' = WithKey(Tree(cell), Append(adding.into, adding.path[1])).keys
  /\ adding' = [adding EXCEPT !.into = Append(@, adding.path[1])]
  /\ UNCHANGED <<cached, counter, op, reply>>
Deeper ==
  /\ adding.path # Empty /\ Len(adding.into) < MaxFrames
  /\ cell' = WithKey(Tree(cell), Append(adding.into, adding.path[1])).keys
  /\ adding' = [into |-> Append(adding.into, adding.path[1]),
                path |-> IF Len(adding.path) = 1 THEN adding.path ELSE Tail(adding.path)]
  /\ UNCHANGED <<cached, counter, op, reply>>

Overflow ==
  /\ adding.path # Empty /\ Len(adding.into) = MaxFrames
  /\ adding' = Aborted
  /\ UNCHANGED <<cell, cached, counter, op, reply>>

AddKeyReturns ==
  /\ adding \notin {Idle, Aborted} /\ adding.path = Empty
  /\ adding' = Idle /\ reply' = Ok("()")
  /\ UNCHANGED <<cell, cached, counter, op>>

open_key(h, name) ==
  /\ adding = Idle /\ counter < MaxCounter
  /\ op' = [call |-> "open_key", h |-> h, arg |-> name] /\ UNCHANGED <<cell, adding>>
  /\ IF h \in DOMAIN cached /\ contains(cached[h] \o name)
     THEN /\ cached' = Put(cached, counter, cached[h] \o name)
          /\ counter' = counter + 1 /\ reply' = Ok(counter)
     ELSE reply' = Err /\ UNCHANGED <<cached, counter>>

\* A call that changes nothing.
Asks(c, r) == adding = Idle /\ op' = c /\ reply' = r /\ UNCHANGED <<cell, cached, counter, adding>>
Path(h) == cached[h]
If(h, r) == IF h \in DOMAIN cached THEN r ELSE Err

read_value(h, n) ==
  Asks([call |-> "read_value", h |-> h, arg |-> n], If(h, get_value(Path(h), n)))
enumerate_values(h) == Asks([call |-> "enumerate_values", h |-> h], If(h, get_values(Path(h))))
enumerate_keys(h) == Asks([call |-> "enumerate_keys", h |-> h], If(h, get_keys(Path(h))))

list_users ==
  Asks([call |-> "list_users", h |-> HKU],
       LET keys == get_keys(Path(HKU))
       IN  IF keys = Err THEN Err ELSE Ok(Only(keys.val, Sid)))

\* Vec::remove panics behind the last.
Nth(names, pos) ==
  IF names = Err THEN Err
  ELSE IF pos > Len(names.val) THEN NoMoreData
  ELSE IF pos = Len(names.val) THEN Panic ELSE Ok(names.val[pos + 1])
key_at(h, pos) ==
  Asks([call |-> "key_at", h |-> h, arg |-> pos], If(h, Nth(get_keys(Path(h)), pos)))
value_at(h, pos) ==
  Asks([call |-> "value_at", h |-> h, arg |-> pos], If(h, Nth(get_values(Path(h)), pos)))

Longest(names) == FoldLeft(LAMBDA most, n : IF Len(n) > most THEN Len(n) ELSE most, 0, names)
Info(keys, values) ==
  IF keys = Err THEN Err
  ELSE Ok([subkeys |-> Len(keys.val), max_subkey |-> Longest(keys.val),
           values |-> Len(values.val), max_value |-> Longest(values.val)])
key_info(h) ==
  Asks([call |-> "key_info", h |-> h], If(h, Info(get_keys(Path(h)), get_values(Path(h)))))

\* from_file and from_fs return another one, as it is when new.
From == Asks([call |-> "from"], Ok(Basic))

AddKeyStep == Deeper \/ Overflow \/ AddKeyReturns
Next ==
  \/ \E v \in Values : AddValue(v)
  \/ \E hive \in {"HKLM", "HKU"}, p \in KeyPaths : AddKey(hive, p)
  \/ AddKeyStep \/ list_users \/ From
  \/ \E h \in HKCC .. MaxCounter :
       \/ \E name \in Opened : open_key(h, name)
       \/ \E n \in Range(Sorted) : read_value(h, n)
       \/ enumerate_values(h) \/ enumerate_keys(h) \/ key_info(h)
       \/ \E pos \in 0 .. Len(Sorted) : key_at(h, pos) \/ value_at(h, pos)

Spec == Init /\ [][Next]_vars
FairSpec == Spec /\ WF_vars(AddKeyStep)
=============================================================================
