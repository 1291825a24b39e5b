--------------------------- MODULE RegistryTreeProps ---------------------------
(***************************************************************************)
(* What is claimed of TestingRegistry: it is a Registry, as EnvVars and its*)
(* callers take any reader for one.                                        *)
(***************************************************************************)
EXTENDS RegistryTree, FiniteSets

\* What is at each key, by its path, found a key at a time.
PathsIn(cells) ==
  LET long[n \in 0 .. MaxFrames] ==
        IF n = 0 THEN {<<>>}
        ELSE UNION {{Append(p, m) : m \in DOMAIN Down(Tree(cells), p).keys} : p \in long[n - 1]}
  IN  UNION {long[n] : n \in 1 .. MaxFrames}
Flat(cells) == [p \in PathsIn(cells) |-> Down(Tree(cells), p).values]

\* A path, and those of the keys above it.
Above(path) == {SubSeq(path, 1, n) : n \in 1 .. Len(path)}
ValuesOf(r, p) == IF p \in DOMAIN r THEN r[p] ELSE None
Added(r, path, n, data) ==
  [p \in DOMAIN r \cup Above(path) |->
     IF p = path THEN Put(ValuesOf(r, p), n, data) ELSE ValuesOf(r, p)]

TestingRegistry == INSTANCE Registry WITH
  reg <- Flat(cell), frames <- <<>>, lost <- {},
  Contents <- {}, Updates <- {}, Closes <- FALSE,
  MaxHandles <- MaxCounter, MaxDepth <- 0, MaxLost <- 0

(* A caller that counts on from 0 is given each name that is enumerated,   *)
(* once; testing.rs:320 it panics where it would be told to stop.          *)
ListedByPosition ==
  LET c == Down(Tree(cell), KeyOf(cached[op.h]))
      names == In(IF op.call = "key_at" THEN c.keys ELSE c.values)
  IN  /\ (reply.is = "Ok") = (op.arg < Len(names))
      /\ reply.is = "Ok" => reply.val = names[op.arg + 1]
      /\ reply = NoMoreData => op.arg > Len(names)

(* A handle is good for as long as there is the registry, and reads what is*)
(* there now, by name, list or position: what Registry says of any reader  *)
(* is true of this one, but of a key without a name, which a path that ends*)
(* in "\" is not the path of.                                              *)
Named(h) == h \in DOMAIN cached => Last(cached[h]) # ""
ReadLikeRegistry ==
  /\ op.call \in {"key_at", "value_at"} /\ op.h \in DOMAIN cached => ListedByPosition
  /\ "h" \in DOMAIN op /\ Named(op.h) =>
       LET Keys(names) == TestingRegistry!enumerate_keys(op.h, names)
           all == Range(Sorted)
       IN  /\ op.call = "read_value" =>
                LET v == TestingRegistry!read_value(op.h, op.arg)
                IN  reply = IF v = TestingRegistry!Missing THEN Err ELSE v
           /\ op.call \in {"enumerate_keys", "enumerate_values", "key_info", "list_users"} =>
                (reply = Err) = (op.h \notin DOMAIN cached \/ cached[op.h] \notin DOMAIN Flat(cell))
           /\ op.call = "enumerate_keys" /\ reply # Err => Range(reply.val) = Keys(all)
           /\ op.call = "list_users" /\ reply # Err => Range(reply.val) = Keys(Sid)
           /\ op.call = "key_info" /\ reply # Err => reply.val.subkeys = Cardinality(Keys(all))

(* A step writes one value or makes one key and loses nothing that was     *)
(* there, or gives out a handle nobody has, of a key that is there.        *)
StepLike ==
  /\ \/ UNCHANGED cell
     \/ op'.call = "add_value" /\ Flat(cell') = Added(Flat(cell), KeyOf(op'.arg.path), op'.arg.name, op'.arg.data)
     \/ adding # Idle /\ Flat(cell') = [p \in DOMAIN Flat(cell') |-> ValuesOf(Flat(cell), p)]
          /\ DOMAIN Flat(cell') = DOMAIN Flat(cell) \cup {adding'.into}
  /\ \/ UNCHANGED <<cached, counter>>
     \/ op'.call = "open_key" /\ TestingRegistry!Opens(op'.h, op'.arg, reply'.val)
StepsLikeRegistry == [][StepLike]_vars

(* testing.rs:127: add_key returns if its path ends with a separator, and  *)
(* else calls itself until there is no stack left.                         *)
AddKeyEnds == adding \notin {Idle, Aborted} /\ Last(op.arg) = "" ~> adding = Idle
=============================================================================
