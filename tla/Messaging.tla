------------------------------ MODULE Messaging ------------------------------
(***************************************************************************)
(* src/logging and src/notifications over src/channel.rs.  Every worker    *)
(* thread has two thread-local RefCells, COMPONENT_LOGGER and NOTIFIER,    *)
(* whose channel it sends to; log! and notify! borrow the cell, format     *)
(* their arguments under that borrow and send.  The arguments may log,     *)
(* notify or install a logger themselves, so a thread has a stack of       *)
(* calls.  Every step here is a step of Channel, or leaves it alone.       *)
(***************************************************************************)
EXTENDS Channel

CONSTANTS
  App,       \* the thread that created the channels; it hands out clones
  KindOf,    \* KindOf[c]: "log" or "note", the messages c carries
  Default,   \* Logger::default, Notifier::default: no receiver
  Level,     \* levels log! is called with, Off = 0 .. Trace = 5
  Limit,     \* levels set_max_level is called with
  Priority,  \* priorities notify! is called with, up to Critical = 4
  MaxCalls,  \* bound of the model: calls of log!, notify! by a worker
  MaxDepth   \* bound of the model: calls inside of each other

Worker == Thread \ {App}
Kind == {"log", "note"}
Trace == 5

\* A call of log! or notify! being expanded: when it began (ticket), which
\* calls it is an argument of (outer) and the channel of the Logger or Notifier
\* it borrowed (via).
Call == [kind : Kind, level : Level \cup Priority, ticket : 1 .. MaxCalls,
         outer : SUBSET (1 .. MaxCalls), via : Chan \cup {Default}]

ASSUME MessagingAssumption ==
  /\ App \in Thread /\ Default \notin Chan
  /\ Level \subseteq 0 .. Trace /\ Limit \subseteq 0 .. Trace
  /\ Priority \subseteq 0 .. 4
  /\ KindOf \in [Chan -> Kind]
  /\ MaxCalls \in Nat /\ MaxDepth \in Nat
  /\ Call \subseteq Data   \* a message is the call it comes from

VARIABLES
  limit,     \* MAX_NOTIFY_LEVEL_FILTER
  cell,      \* cell[t][k]: channel of the Logger or Notifier in t's RefCell
  calls,     \* calls[t]: calls of log!, notify! that t is inside of
  begun,     \* begun[t]: number of log!, notify! calls of t
  alive      \* alive[t]: thread t has neither returned nor panicked

msgVars == <<limit, cell, calls, begun, alive>>
vars == <<chanVars, msgVars>>

\* max_level() transmutes the filter into a Level: outside of 0 .. Trace it
\* would be no Level at all.
MsgTypeOK ==
  /\ ChanTypeOK
  /\ limit \in 0 .. Trace
  /\ cell \in [Worker -> [Kind -> Chan \cup {Default}]]
  /\ calls \in [Worker -> Seq(Call)]
  /\ begun \in [Worker -> 0 .. MaxCalls]
  /\ alive \in [Worker -> BOOLEAN]

Init ==
  /\ ChanInit /\ hold = [c \in Chan |-> {App}]
  /\ limit = Trace
  /\ cell = [t \in Worker |-> [k \in Kind |-> Default]]
  /\ calls = [t \in Worker |-> <<>>]
  /\ begun = [t \in Worker |-> 0]
  /\ alive = [t \in Worker |-> TRUE]
-----------------------------------------------------------------------------
max_level == limit
Top(t) == calls[t][Len(calls[t])]
Runs(t) == alive[t] /\ op[t] = Idle     \* t is not blocked in a send

\* The RefCell of kind k is borrowed: by each call until it returns.
Borrowed(t, k) == \E i \in DOMAIN calls[t] : calls[t][i].kind = k

\* The borrow ends when the call returns.
Pop(t) == calls' = [calls EXCEPT ![t] = SubSeq(@, 1, Len(@) - 1)]

\* Entering the closure of log! or notify!, the arguments not formatted yet.
Push(t, k, l) ==
  calls' = [calls EXCEPT ![t] = Append(@,
     [kind |-> k, level |-> l, ticket |-> begun[t] + 1,
      outer |-> {@[i].ticket : i \in DOMAIN @},
      via |-> cell[t][k]])]

Begin(t) ==
  /\ Runs(t) /\ begun[t] < MaxCalls /\ Len(calls[t]) < MaxDepth
  /\ begun' = [begun EXCEPT ![t] = @ + 1]
  /\ UNCHANGED <<chanVars, limit, cell, alive>>

\* log!: the arguments are evaluated only if the filter lets the level pass.
Log(t, l) ==
  /\ Begin(t)
  /\ \/ l <= Trace /\ l <= max_level /\ Push(t, "log", l)
     \/ ~(l <= Trace /\ l <= max_level) /\ UNCHANGED calls

\* notify!: no filter; a priority has no effect on what happens.
Notify(t, p) == Begin(t) /\ Push(t, "note", p)

\* The arguments are formatted: the message is sent with the borrowed logger.
Emit(t) ==
  /\ Runs(t) /\ calls[t] # <<>>
  /\ LET c == cell[t][Top(t).kind]
     IN  \/ c \in Chan /\ CallSend(t, c, Top(t)) /\ UNCHANGED calls
         \/ c = Default /\ Pop(t) /\ UNCHANGED chanVars
  /\ UNCHANGED <<limit, cell, begun, alive>>

\* Sent again until it fails, not until it does not.
Return_Again(t) ==
  /\ \/ SendOk(t) /\ UNCHANGED calls
     \/ SendError(t) /\ Pop(t)
     \/ op[t] # Idle /\ HandOver(t, op[t].to, op[t].data) /\ UNCHANGED calls
  /\ UNCHANGED <<limit, cell, begun, alive>>

\* The send of Logger::log or Notifier::notify returns; its error is ignored.
Return(t) ==
  /\ \/ SendOk(t)
     \/ SendError(t)
     \/ op[t] # Idle /\ HandOver(t, op[t].to, op[t].data)
  /\ Pop(t)
  /\ UNCHANGED <<limit, cell, begun, alive>>

\* The clone of a Logger or Notifier that the application moves to a worker.
Give(t, c) == alive[t] /\ CloneSender(App, t, c) /\ UNCHANGED msgVars

\* initialize_logger, initialize_notifier: the old value is dropped.
Replace(t, k, c) ==
  /\ cell[t][k] # c /\ (c = Default \/ (c \in Chan /\ t \in hold[c] /\ KindOf[c] = k))
  /\ IF cell[t][k] = Default THEN UNCHANGED chanVars ELSE DropSender(t, cell[t][k])
  /\ cell' = [cell EXCEPT ![t][k] = c]

Initialize_Unchecked(t, k, c) ==
  Runs(t) /\ Replace(t, k, c) /\ UNCHANGED <<limit, calls, begun, alive>>

Initialize(t, k, c) ==
  /\ Runs(t) /\ ~Borrowed(t, k)
  /\ Replace(t, k, c)
  /\ UNCHANGED <<limit, calls, begun, alive>>

\* A thread ends: its calls are unwound, its thread-locals destroyed.
End(t) ==
  /\ alive' = [alive EXCEPT ![t] = FALSE]
  /\ calls' = [calls EXCEPT ![t] = <<>>]
  /\ cell' = [cell EXCEPT ![t] = [k \in Kind |-> Default]]
  /\ UNCHANGED <<chanVars, limit, begun>>

Exit(t) == Runs(t) /\ calls[t] = <<>> /\ End(t)

\* initialize_* in an argument of the same kind of call: borrow_mut panics.
Panic(t, k) == Runs(t) /\ Borrowed(t, k) /\ End(t)

\* A Sender that is in no cell goes out of scope.
Release_OnReturn(t, c) ==
  alive[t] /\ cell[t][KindOf[c]] # c /\ DropSender(t, c) /\ UNCHANGED msgVars
Release(t, c) == cell[t][KindOf[c]] # c /\ DropSender(t, c) /\ UNCHANGED msgVars
AppRelease(c) == DropSender(App, c) /\ UNCHANGED msgVars

set_max_level_Exclusive(l) ==
  /\ limit' = l + 1
  /\ UNCHANGED <<chanVars, cell, calls, begun, alive>>

set_max_level(l) ==
  /\ limit' = l
  /\ UNCHANGED <<chanVars, cell, calls, begun, alive>>

Drain_Once(c) ==
  /\ outcome[c] = "none" /\ CallRecv(c, "recv") /\ UNCHANGED msgVars

\* init_testing_logger: a thread per receiver loops on recv until it fails.
Drain(c) ==
  /\ outcome[c] # "RecvError" /\ CallRecv(c, "recv") /\ UNCHANGED msgVars
Receive(c) == Recv(c) /\ UNCHANGED msgVars
DrainReturns(c) ==
  /\ outcome[c] = "RecvError" /\ DropReceiver(c) /\ UNCHANGED msgVars
\* A receiver kept by a test goes out of scope at any moment instead.
Abandon(c) == DropReceiver(c) /\ UNCHANGED msgVars

Next ==
  \/ \E t \in Worker, l \in Level : Log(t, l)
  \/ \E t \in Worker, p \in Priority : Notify(t, p)
  \/ \E t \in Worker : Emit(t) \/ Return(t) \/ Exit(t)
  \/ \E t \in Worker, k \in Kind : Panic(t, k)
  \/ \E t \in Worker, k \in Kind, c \in Chan \cup {Default} : Initialize(t, k, c)
  \/ \E t \in Worker, c \in Chan : Give(t, c) \/ Release(t, c)
  \/ \E c \in Chan : AppRelease(c) \/ Abandon(c)
  \/ \E c \in Chan : Drain(c) \/ Receive(c) \/ DrainReturns(c)
  \/ \E l \in Limit : set_max_level(l)

Spec == Init /\ [][Next]_vars
=============================================================================
