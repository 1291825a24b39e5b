----------------------------- MODULE Interpolation -----------------------------
(***************************************************************************)
(* interpolate_env_vars (src/core/mod.rs), which calls itself with the     *)
(* value of the variable in front and appends what follows it on its way   *)
(* back, and interpolate_csidl_path (src/utils/win/csidl.rs), which has the*)
(* path of a known folder interpolated.  One action per call and return.   *)
(***************************************************************************)
EXTENDS KnownFolders, SequencesExt

CONSTANTS
  Part,          \* what paths are made of
  Environments,  \* variables of the users
  Paths,         \* paths to interpolate: none has a "%" behind an unclosed one
  Csidls,        \* what begins a path with a brace, a folder or not, and the rest
  MaxFrames,     \* calls inside of each other there is stack for
  MaxRet         \* bound of the model: parts in a String callers append to

ASSUME InterpolationAssumption ==
  /\ MaxRet \in Nat /\ MaxFrames \in Nat
  /\ Paths \cup {c[2] : c \in Csidls} \subseteq Seq(Part)
  /\ csidl_value \in [FolderId -> Seq(Part) \ {<<>>}]
  /\ \A e \in Environments :
       /\ IsFiniteSet(DOMAIN e) /\ Cardinality(DOMAIN e) < MaxFrames
       /\ \A v \in DOMAIN e : e[v] \in Seq(Part)
  /\ \A t \in Paths \cup UNION {{e[v] : v \in DOMAIN e} : e \in Environments} :
       \A i \in DOMAIN t : t[i] = Open => \A j \in i + 1 .. Len(t) : t[j] \notin DOMAIN VarOf \cup {Open}

VARIABLES
  variables,  \* env_vars
  asked,      \* the path to interpolate
  pth,        \* the argument of the innermost call
  rests,      \* the rest of each call that waits for another
  ret,        \* the String they append to
  had,        \* what it held before
  doing,      \* "idle", "down", "up", or "aborted" when the stack overflows
  answer      \* "Some" or "None"

calls == <<pth, rests>>
interVars == <<variables, asked, calls, ret, had, doing, answer>>

InterInit ==
  /\ variables \in Environments
  /\ asked = <<>> /\ pth = <<>> /\ rests = <<>> /\ ret = <<>> /\ had = <<>>
  /\ doing = "idle" /\ answer = "None"

Enter(t, p, rest, s) ==
  /\ asked' = t /\ pth' = p /\ rests' = rest /\ ret' = s /\ had' = s
  /\ doing' = "down" /\ UNCHANGED <<variables, answer>>

\* interpolate_env_vars, with a String that may hold something.
Interpolate(t) ==
  /\ doing = "idle"
  /\ \E s \in {<<>>, ret} : Len(s) <= MaxRet /\ Enter(t, t, <<>>, s)

Answers(s, a) ==
  /\ asked' = <<>> /\ ret' = s /\ had' = s /\ answer' = a
  /\ UNCHANGED <<variables, calls, doing>>

\* interpolate_csidl_path, of a path with a brace in front and of any other.
Csidl(id, rest) ==
  /\ doing = "idle"
  /\ IF id \in FolderId
     THEN Enter(csidl_value[id] \o rest, csidl_value[id], <<rest>>, <<>>)
     ELSE Answers(<<>>, "None")
NoCsidl(t) == doing = "idle" /\ Answers(t, "Some")
-----------------------------------------------------------------------------
Known(v) == v \in DOMAIN variables

Descend ==
  /\ doing = "down" /\ Leads(pth) /\ Known(VarOf[pth[1]]) /\ Len(rests) < MaxFrames
  /\ pth' = variables[VarOf[pth[1]]] /\ rests' = Append(rests, Tail(pth))
  /\ UNCHANGED <<variables, asked, ret, had, doing, answer>>

Overflow_Early ==
  /\ doing = "down" /\ Leads(pth) /\ Known(VarOf[pth[1]]) /\ rests # <<>>
  /\ doing' = "aborted"
  /\ UNCHANGED <<variables, asked, calls, ret, had, answer>>
Overflow ==
  /\ doing = "down" /\ Leads(pth) /\ Known(VarOf[pth[1]]) /\ Len(rests) = MaxFrames
  /\ doing' = "aborted"
  /\ UNCHANGED <<variables, asked, calls, ret, had, answer>>

\* `?` in every call.
Fail_Pushes ==
  /\ doing = "down" /\ pth # <<>>
  /\ pth[1] = Open \/ (Leads(pth) /\ ~Known(VarOf[pth[1]]))
  /\ doing' = "idle" /\ answer' = "None" /\ pth' = <<>> /\ rests' = <<>>
  /\ ret' = ret \o Tail(pth)
  /\ UNCHANGED <<variables, asked, had>>
Fail ==
  /\ doing = "down" /\ pth # <<>>
  /\ pth[1] = Open \/ (Leads(pth) /\ ~Known(VarOf[pth[1]]))
  /\ doing' = "idle" /\ answer' = "None" /\ pth' = <<>> /\ rests' = <<>>
  /\ UNCHANGED <<variables, asked, ret, had>>

Bottom ==
  /\ doing = "down" /\ ~(pth # <<>> /\ pth[1] = Open) /\ ~Leads(pth)
  /\ ret' = ret \o pth /\ pth' = <<>> /\ doing' = "up"
  /\ UNCHANGED <<variables, asked, rests, had, answer>>

Ascend ==
  /\ doing = "up" /\ rests # <<>>
  /\ ret' = ret \o Last(rests) /\ rests' = Front(rests)
  /\ UNCHANGED <<variables, asked, pth, had, doing, answer>>

Return ==
  /\ doing = "up" /\ rests = <<>>
  /\ doing' = "idle" /\ answer' = "Some"
  /\ UNCHANGED <<variables, asked, calls, ret, had>>

InterStep == Descend \/ Overflow \/ Fail \/ Bottom \/ Ascend \/ Return
InterCall == \/ \E t \in Paths : Interpolate(t) \/ NoCsidl(t)
             \/ \E c \in Csidls : Csidl(c[1], c[2])

InterSpec == InterInit /\ [][InterCall \/ InterStep]_interVars /\ WF_interVars(InterStep)
-----------------------------------------------------------------------------
(* No path overflows the stack but one whose variables name each other, and *)
(* of those none is answered (core/mod.rs:12).                             *)
StackSuffices ==
  /\ doing = "aborted" => Circular(asked, variables)
  /\ doing = "up" => ~Circular(asked, variables)

(* None: a caller that goes on with its String finds in it what it left.   *)
NothingOnNone == doing = "idle" /\ answer = "None" => ret = had
=============================================================================
