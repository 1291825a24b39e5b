------------------------------- MODULE Registry -------------------------------
(***************************************************************************)
(* src/traits/registry/mod.rs: what a RegistryReader keeps, its handles,   *)
(* and what opens and closes them whatever is read: auto_close_key,        *)
(* get_system_root and windows_build.  TestingRegistry (utils/testing.rs)  *)
(* counts its handles and inherits the close_key that does nothing; any    *)
(* other reader is external and may give a closed handle out again.        *)
(* A definition X_<bug> before a definition X is X with a plausible bug.   *)
(* A path is the sequence of its keys; EnvVars uses these operators.       *)
(***************************************************************************)
EXTENDS Integers, Sequences, FiniteSets

CONSTANTS
  Contents,    \* what the registry may hold: the values of each key, by path
  Updates,     \* what the running system it belongs to may change it to; {}: it rests
  Closes,      \* the reader has a close_key of its own
  MaxHandles,  \* bound of the model: handles open at a time; all, if ~Closes
  MaxDepth,    \* bound of the model: auto_close_key inside of each other
  MaxLost      \* bound of the model: handles nobody will close

HKLM == -1
HKU == -2
Hives == {HKLM, HKU}

ASSUME RegistryAssumption ==
  /\ Closes \in BOOLEAN
  /\ MaxHandles \in Nat /\ MaxDepth \in Nat /\ MaxLost \in Nat
  /\ \A r \in Contents \cup Updates : \A p \in DOMAIN r : \A n \in DOMAIN r[p] :
       r[p][n].is = "text" => r[p][n].val \in Seq(STRING)

VARIABLES
  reg,      \* its contents now
  cached,   \* the path of each handle that is open
  counter,  \* the handle TestingRegistry gives out next
  frames,   \* handles auto_close_key will close, the outermost first
  lost      \* handles nobody will close

handles == <<cached, counter>>
regVars == <<reg, handles, frames, lost>>

\* basic_cache: the hives are open from the start.
RegInit ==
  /\ reg \in Contents
  /\ cached = [h \in Hives |-> IF h = HKLM THEN <<"HKLM">> ELSE <<"HKU">>]
  /\ counter = 0
  /\ frames = <<>>
  /\ lost = {}
-----------------------------------------------------------------------------
\* open_key finds the key `name` under the handle h.
Found(h, name) == h \in DOMAIN cached /\ cached[h] \o name \in DOMAIN reg

Free(k) == k \in 0 .. MaxHandles - 1 /\ IF Closes THEN k \notin DOMAIN cached
                                                  ELSE k = counter

\* open_key returns k.
Opens(h, name, k) ==
  /\ Found(h, name) /\ Free(k)
  /\ cached' = [j \in DOMAIN cached \cup {k} |->
                  IF j = k THEN cached[h] \o name ELSE cached[j]]
  /\ counter' = IF Closes THEN counter ELSE counter + 1

\* close_key, of one handle or of several in a row.
CloseKeys(ks) ==
  /\ cached' = IF Closes THEN [j \in DOMAIN cached \ ks |-> cached[j]] ELSE cached
  /\ UNCHANGED counter

\* read_value; a closed handle, a key that is gone and a value that is not there
\* are all errors.
Missing == [is |-> "missing"]
read_value(h, n) ==
  IF h \in DOMAIN cached /\ cached[h] \in DOMAIN reg /\ n \in DOMAIN reg[cached[h]]
  THEN reg[cached[h]][n] ELSE Missing

\* enumerate_keys(..).unwrap_or_default(), of the candidates for names.
enumerate_keys(h, names) == {n \in names : Found(h, <<n>>)}

\* TryFrom<RegValue> for String, with what the caller takes for an error.
text_or(v, default) == IF v.is = "text" THEN v.val ELSE default
-----------------------------------------------------------------------------
\* A caller opens a key and hands it to auto_close_key, whose operation may do
\* the same under the new handle.
Enter(h, name, k) ==
  /\ Len(frames) < MaxDepth
  /\ h \in Hives \/ (frames # <<>> /\ h = frames[Len(frames)])
  /\ Opens(h, name, k)
  /\ frames' = Append(frames, k)
  /\ UNCHANGED <<reg, lost>>

\* The operation returns, Ok or Err.
Leave ==
  /\ frames # <<>>
  /\ CloseKeys({frames[Len(frames)]})
  /\ frames' = SubSeq(frames, 1, Len(frames) - 1)
  /\ UNCHANGED <<reg, lost>>

\* The operation panics: no frame gets to its close_key.
Unwind ==
  /\ frames # <<>> /\ Cardinality(lost) + Len(frames) <= MaxLost
  /\ lost' = lost \cup {frames[i] : i \in DOMAIN frames}
  /\ frames' = <<>>
  /\ UNCHANGED <<reg, handles>>

\* get_system_root and windows_build: open, read, return.
ReadVersion(k) ==
  /\ Cardinality(lost) < MaxLost
  /\ Opens(HKLM, <<"NT">>, k)
  /\ lost' = lost \cup {k}
  /\ UNCHANGED <<reg, frames>>

\* The running system writes its registry.
Change == reg' \in Updates /\ UNCHANGED <<handles, frames, lost>>
=============================================================================
