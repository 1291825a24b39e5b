------------------------------- MODULE Channel -------------------------------
(***************************************************************************)
(* src/channel.rs: Sender, Receiver, channel() and sync_channel(), the     *)
(* crate's wrapper of std::sync::mpsc, as a set of channels used by        *)
(* threads.  A thread owns at most one Sender clone of a channel; the      *)
(* Receiver is not Clone, so each channel has one receiving caller at a    *)
(* time.  A blocking call is two steps, the call and its return, so that   *)
(* the other side can act, or disappear, between them.  The queue itself   *)
(* is the standard library's: it is modelled by the answers the wrapper's  *)
(* branches tell apart.  A definition X_<bug> before a definition X is X    *)
(* with a plausible bug, for the mutant runs.                              *)
(***************************************************************************)
EXTENDS Integers, Sequences

CONSTANTS
  Thread,    \* owners of Sender clones
  Chan,      \* channels
  Caps,      \* capacities channels are created with; Unbounded is channel()
  Data,      \* payloads
  MaxSent    \* bound of the model: messages a thread gets into one channel

Unbounded == -1   \* InnerSender::Sender; any other capacity is a SyncSender

ASSUME ChannelAssumption == /\ Caps \subseteq Nat \cup {Unbounded}
                            /\ MaxSent \in Nat

VARIABLES
  cap,      \* cap[c]: what the channel was created with, never changed
  open,     \* open[c]: the Receiver of c is alive
  hold,     \* hold[c]: threads owning a Sender clone of c
  buf,      \* buf[c]: accepted messages nobody received yet, oldest first
  sent,     \* sent[c][t]: number of messages of t that c accepted
  op,       \* op[t]: the send() call t is inside of, or Idle
  reply,    \* reply[c][t]: what the last send/try_send of t on c returned
  rop,      \* rop[c]: the receive call the Receiver of c is inside of
  outcome,  \* outcome[c]: what the last receive call on c returned
  got       \* got[c]: the messages received from c, in order

chanVars == <<cap, open, hold, buf, sent, op, reply, rop, outcome, got>>

Message == [from : Thread, n : Nat, data : Data]
Idle == [at |-> "idle"]
Sending(c, d) == [at |-> "send", to |-> c, data |-> d]
Calls == {Idle} \cup [at : {"send"}, to : Chan, data : Data]
Gone == {"SendError", "Disconnected"}         \* answers that say: closed
Ended == {"RecvError", "Disconnected"}

ChanTypeOK ==
  /\ cap \in [Chan -> Caps]
  /\ open \in [Chan -> BOOLEAN]
  /\ hold \in [Chan -> SUBSET Thread]
  /\ buf \in [Chan -> Seq(Message)]
  /\ sent \in [Chan -> [Thread -> Nat]]
  /\ op \in [Thread -> Calls]
  /\ reply \in [Chan -> [Thread -> {"none", "Ok", "Full"} \cup Gone]]
  /\ rop \in [Chan -> {"idle", "recv", "recv_timeout"}]
  /\ outcome \in [Chan -> {"none", "Ok", "Empty", "Timeout"} \cup Ended]
  /\ got \in [Chan -> Seq(Message)]

ChanInit ==
  /\ cap \in [Chan -> Caps]
  /\ open = [c \in Chan |-> TRUE]
  /\ hold \in [Chan -> {{t} : t \in Thread}]
  /\ buf = [c \in Chan |-> <<>>]
  /\ sent = [c \in Chan |-> [t \in Thread |-> 0]]
  /\ op = [t \in Thread |-> Idle]
  /\ reply = [c \in Chan |-> [t \in Thread |-> "none"]]
  /\ rop = [c \in Chan |-> "idle"]
  /\ outcome = [c \in Chan |-> "none"]
  /\ got = [c \in Chan |-> <<>>]
-----------------------------------------------------------------------------
HasRoom(c) == cap[c] = Unbounded \/ Len(buf[c]) < cap[c]

\* The next message t gets into c: its number orders the messages of t.
Numbered(t, c, d) == [from |-> t, n |-> sent[c][t] + 1, data |-> d]

Answer(t, c, r) == reply' = [reply EXCEPT ![c][t] = r]

Enqueue(t, c, d) ==
  /\ open[c] /\ HasRoom(c)
  /\ buf' = [buf EXCEPT ![c] = Append(@, Numbered(t, c, d))]
  /\ sent' = [sent EXCEPT ![c][t] = @ + 1]
  /\ Answer(t, c, "Ok")
  /\ UNCHANGED <<cap, open, hold, rop, outcome, got>>

\* Sender::clone, the clone moved to thread u.
CloneSender(t, u, c) ==
  /\ t \in hold[c] /\ u \notin hold[c]
  /\ hold' = [hold EXCEPT ![c] = @ \cup {u}]
  /\ UNCHANGED <<cap, open, buf, sent, op, reply, rop, outcome, got>>

\* The Sender of t goes out of scope; a Sender borrowed by a send() cannot.
DropSender(t, c) ==
  /\ t \in hold[c] /\ op[t] = Idle
  /\ hold' = [hold EXCEPT ![c] = @ \ {t}]
  /\ UNCHANGED <<cap, open, buf, sent, op, reply, rop, outcome, got>>

CallSend(t, c, d) ==
  /\ op[t] = Idle /\ t \in hold[c] /\ sent[c][t] < MaxSent
  /\ op' = [op EXCEPT ![t] = Sending(c, d)]
  /\ UNCHANGED <<cap, open, hold, buf, sent, reply, rop, outcome, got>>

\* send() returns Ok: at once if unbounded, else as soon as there is room.
SendOk(t) ==
  /\ op[t] # Idle
  /\ Enqueue(t, op[t].to, op[t].data)
  /\ op' = [op EXCEPT ![t] = Idle]

SendError_NotIfSync(t) ==
  /\ op[t] # Idle /\ ~open[op[t].to] /\ cap[op[t].to] = Unbounded
  /\ Answer(t, op[t].to, "SendError")
  /\ op' = [op EXCEPT ![t] = Idle]
  /\ UNCHANGED <<cap, open, hold, buf, sent, rop, outcome, got>>

\* send() returns SendError(msg), also to a sender that was blocked.
SendError(t) ==
  /\ op[t] # Idle /\ ~open[op[t].to]
  /\ Answer(t, op[t].to, "SendError")
  /\ op' = [op EXCEPT ![t] = Idle]
  /\ UNCHANGED <<cap, open, hold, buf, sent, rop, outcome, got>>

TrySendRefused_NeverFull(t, c) ==
  /\ ~open[c] \/ ~HasRoom(c)
  /\ Answer(t, c, "Disconnected")
  /\ UNCHANGED <<cap, open, hold, buf, sent, rop, outcome, got>>

\* try_send() refused: a closed channel is Disconnected even when full, and
\* only a SyncSender can be Full.
TrySendRefused(t, c) ==
  /\ ~open[c] \/ ~HasRoom(c)
  /\ Answer(t, c, IF open[c] THEN "Full" ELSE "Disconnected")
  /\ UNCHANGED <<cap, open, hold, buf, sent, rop, outcome, got>>

TrySend(t, c, d) ==
  /\ op[t] = Idle /\ t \in hold[c] /\ sent[c][t] < MaxSent
  /\ Enqueue(t, c, d) \/ TrySendRefused(t, c)
  /\ UNCHANGED op
-----------------------------------------------------------------------------
Returns(c, r) == outcome' = [outcome EXCEPT ![c] = r]

\* How a receive call of the given kind returns once its condition holds.
TakeOldest(c) ==
  /\ buf[c] # <<>>
  /\ got' = [got EXCEPT ![c] = Append(@, Head(buf[c]))]
  /\ buf' = [buf EXCEPT ![c] = Tail(@)]
  /\ Returns(c, "Ok")

FindsEnd(c, error) ==
  /\ buf[c] = <<>> /\ hold[c] = {}
  /\ Returns(c, error)
  /\ UNCHANGED <<buf, got>>

FindsNothing(c, error) ==
  /\ buf[c] = <<>> /\ hold[c] # {}
  /\ Returns(c, error)
  /\ UNCHANGED <<buf, got>>

CallRecv(c, kind) ==
  /\ open[c] /\ rop[c] = "idle"
  /\ rop' = [rop EXCEPT ![c] = kind]
  /\ UNCHANGED <<cap, open, hold, buf, sent, op, reply, outcome, got>>

Recv_IgnoresEnd(c) ==
  /\ rop[c] = "recv"
  /\ TakeOldest(c)
  /\ rop' = [rop EXCEPT ![c] = "idle"]
  /\ UNCHANGED <<cap, open, hold, sent, op, reply>>

Recv(c) ==
  /\ rop[c] = "recv"
  /\ TakeOldest(c) \/ FindsEnd(c, "RecvError")
  /\ rop' = [rop EXCEPT ![c] = "idle"]
  /\ UNCHANGED <<cap, open, hold, sent, op, reply>>

RecvTimeout_DropsLate(c) ==
  /\ rop[c] = "recv_timeout"
  /\ \/ TakeOldest(c) \/ FindsEnd(c, "Disconnected") \/ FindsNothing(c, "Timeout")
     \/ /\ buf[c] # <<>> /\ buf' = [buf EXCEPT ![c] = Tail(@)]
        /\ Returns(c, "Timeout") /\ UNCHANGED got
  /\ rop' = [rop EXCEPT ![c] = "idle"]
  /\ UNCHANGED <<cap, open, hold, sent, op, reply>>

RecvTimeout_SwappedArms(c) ==
  /\ rop[c] = "recv_timeout"
  /\ TakeOldest(c) \/ FindsEnd(c, "Timeout") \/ FindsNothing(c, "Disconnected")
  /\ rop' = [rop EXCEPT ![c] = "idle"]
  /\ UNCHANGED <<cap, open, hold, sent, op, reply>>

RecvTimeout(c) ==
  /\ rop[c] = "recv_timeout"
  /\ TakeOldest(c) \/ FindsEnd(c, "Disconnected") \/ FindsNothing(c, "Timeout")
  /\ rop' = [rop EXCEPT ![c] = "idle"]
  /\ UNCHANGED <<cap, open, hold, sent, op, reply>>

TryRecv_SwappedArms(c) ==
  /\ open[c] /\ rop[c] = "idle"
  /\ TakeOldest(c) \/ FindsEnd(c, "Empty") \/ FindsNothing(c, "Disconnected")
  /\ UNCHANGED <<cap, open, hold, sent, op, reply, rop>>

TryRecv(c) ==
  /\ open[c] /\ rop[c] = "idle"
  /\ TakeOldest(c) \/ FindsEnd(c, "Disconnected") \/ FindsNothing(c, "Empty")
  /\ UNCHANGED <<cap, open, hold, sent, op, reply, rop>>

\* sync_channel(0): a send and a receive complete together, whether the send
\* was waiting (for any receive call) or the receive was (for any send).
HandOver(t, c, d) ==
  /\ cap[c] = 0 /\ open[c]
  /\ \/ op[t] = Sending(c, d)
     \/ op[t] = Idle /\ t \in hold[c] /\ sent[c][t] < MaxSent /\ rop[c] # "idle"
  /\ got' = [got EXCEPT ![c] = Append(@, Numbered(t, c, d))]
  /\ sent' = [sent EXCEPT ![c][t] = @ + 1]
  /\ op' = [op EXCEPT ![t] = Idle]
  /\ rop' = [rop EXCEPT ![c] = "idle"]
  /\ Answer(t, c, "Ok") /\ Returns(c, "Ok")
  /\ UNCHANGED <<cap, open, hold, buf>>

\* The Receiver goes out of scope: what it had not received is destroyed.
DropReceiver(c) ==
  /\ open[c] /\ rop[c] = "idle"
  /\ open' = [open EXCEPT ![c] = FALSE]
  /\ buf' = [buf EXCEPT ![c] = <<>>]
  /\ UNCHANGED <<cap, hold, sent, op, reply, rop, outcome, got>>

ChanNext ==
  \/ \E t \in Thread : SendOk(t) \/ SendError(t)
  \/ \E t \in Thread, c \in Chan : DropSender(t, c)
  \/ \E t, u \in Thread, c \in Chan : CloneSender(t, u, c)
  \/ \E t \in Thread, c \in Chan, d \in Data :
       CallSend(t, c, d) \/ TrySend(t, c, d) \/ HandOver(t, c, d)
  \/ \E c \in Chan, kind \in {"recv", "recv_timeout"} : CallRecv(c, kind)
  \/ \E c \in Chan : Recv(c) \/ RecvTimeout(c) \/ TryRecv(c) \/ DropReceiver(c)

ChanSpec == ChanInit /\ [][ChanNext]_chanVars
=============================================================================
