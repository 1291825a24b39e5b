---------------------------- MODULE MessagingProps ----------------------------
(***************************************************************************)
(* What is claimed of src/logging and src/notifications, over Messaging.   *)
(***************************************************************************)
EXTENDS Messaging, ChannelProps

(* A call puts at most one message into a channel, and a message overtakes *)
(* an earlier call of its thread only if it was logged by an argument of   *)
(* that call: there, format! runs before the send.                         *)
CallOrder ==
  \A c \in Chan : \A i, j \in DOMAIN Stream(c) :
    LET m == Stream(c)[i]
        k == Stream(c)[j]
    IN  i < j /\ m.from = k.from
          => /\ m.data.ticket # k.data.ticket
             /\ m.data.ticket > k.data.ticket => k.data.ticket \in m.data.outer

(* A message reaches the channel of the logger, or notifier, that its      *)
(* thread had installed when the call began, although the arguments run    *)
(* arbitrary code before the send.                                         *)
NoMisrouting ==
  \A c \in Chan : \A i \in DOMAIN Stream(c) :
    LET d == Stream(c)[i].data IN d.via = c /\ d.kind = KindOf[c]
-----------------------------------------------------------------------------
\* A thread that can run does: arguments get formatted, sends return (those of a
\* rendezvous if somebody receives), the destructors of a thread that ended run.
Met(t) == op[t] # Idle /\ cap[op[t].to] = 0 /\ open[op[t].to] => rop[op[t].to] # "idle"
WorkerFairness ==
  /\ \A t \in Worker : WF_vars(Emit(t)) /\ WF_vars(Met(t) /\ Return(t))
  /\ \A t \in Worker, c \in Chan : WF_vars(~alive[t] /\ Release(t, c))

\* Somebody receives: from a bounded channel always, as the threads of
\* init_testing_logger do; from an unbounded one only after the calls, as the
\* tests do that log first.
Listening(c) == cap[c] # Unbounded \/ \A t \in Worker : ~alive[t]
DrainFairness ==
  \A c \in Chan : /\ WF_vars(Listening(c) /\ Drain(c))
                  /\ WF_vars(Listening(c) /\ Receive(c))
                  /\ WF_vars(Listening(c) /\ DrainReturns(c))

DrainedSpec == Spec /\ WorkerFairness /\ DrainFairness

(* Every log! and notify! returns: with a drain thread also on a bounded   *)
(* channel, and on an unbounded one with nobody receiving yet.             *)
EveryCallReturns == \A t \in Worker : (calls[t] # <<>>) ~> (calls[t] = <<>>)

(* A drain thread ends once the application and all workers let go of      *)
(* their loggers, by returning or by a panic inside of an argument.        *)
DrainThreadEnds ==
  \A c \in Chan :
    (\A t \in Worker : ~alive[t]) /\ App \notin hold[c] ~> ~open[c]
=============================================================================
