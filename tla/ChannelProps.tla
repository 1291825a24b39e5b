----------------------------- MODULE ChannelProps -----------------------------
(***************************************************************************)
(* What is claimed of src/channel.rs, over the model in Channel.           *)
(***************************************************************************)
EXTENDS Channel

\* Everything c accepted and did not destroy, in the order it left or will
\* leave the channel.
Stream(c) == got[c] \o buf[c]

NumbersOf(s, t) == {s[i].n : i \in {j \in DOMAIN s : s[j].from = t}}

(* Messages of one sender leave the channel in the order they were sent,   *)
(* none twice, and none is missing: all accepted ones are received or      *)
(* still queued while the receiver lives, and what was received never has  *)
(* a hole.  (Sender::send/try_send against Receiver::recv, try_recv and    *)
(* recv_timeout, in any interleaving, timeouts included.)                  *)
InOrder ==
  \A c \in Chan : \A i, j \in DOMAIN Stream(c) :
     i < j /\ Stream(c)[i].from = Stream(c)[j].from
       => Stream(c)[i].n < Stream(c)[j].n

NothingLost ==
  \A c \in Chan, t \in Thread :
     /\ open[c] => NumbersOf(Stream(c), t) = 1 .. sent[c][t]
     /\ \A n \in NumbersOf(got[c], t) : 1 .. n \subseteq NumbersOf(got[c], t)

ExactlyOncePerSender == InOrder /\ NothingLost

(* channel.rs:27-28 and 36-37 of an answer Disconnected: "there will never *)
(* be any more data received on it".  Once any receive call has said so    *)
(* (recv says RecvError), nothing is ever received from that channel.      *)
NothingAfterEnd ==
  [][\A c \in Chan : outcome[c] \in Ended => got'[c] = got[c]]_chanVars

(* The answers to senders are final too: once a send or try_send was told  *)
(* that the receiver is gone, no message of anybody is accepted any more.  *)
NothingAcceptedAfterGone ==
  [][\A c \in Chan : (\E t \in Thread : reply[c][t] \in Gone)
                       => sent'[c] = sent[c]]_chanVars

\* The channel c as its users may think of it.
Contract(c) == INSTANCE ChannelContract WITH
  cap <- cap[c], open <- open[c], hold <- hold[c], sent <- sent[c],
  got <- got[c], outcome <- outcome[c],
  pending <- {buf[c][i] : i \in DOMAIN buf[c]}

(* Every channel implements ChannelContract: FIFO per sender, capacity     *)
(* never exceeded, answers to the receiver truthful.                       *)
ContractHolds ==
  /\ \A c \in Chan : Contract(c)!Init
  /\ [][\A c \in Chan : [Contract(c)!Next]_(Contract(c)!contractVars)]_chanVars
-----------------------------------------------------------------------------
\* The standard library wakes a blocked call whose condition holds.
Wakeups ==
  /\ \A t \in Thread : WF_chanVars(SendOk(t)) /\ WF_chanVars(SendError(t))
  /\ \A c \in Chan : /\ WF_chanVars(Recv(c)) /\ WF_chanVars(RecvTimeout(c))
                     /\ WF_chanVars(\E t \in Thread, d \in Data :
                                      op[t] # Idle /\ HandOver(t, c, d))

FairChanSpec == ChanSpec /\ Wakeups

(* A send blocked on a full bounded channel does not outlive the receiver, *)
(* a recv blocked on an empty one does not outlive the senders, and a      *)
(* recv_timeout always returns.                                            *)
BlockedCallsReleased ==
  \A c \in Chan :
     /\ \A t \in Thread : (op[t] # Idle /\ op[t].to = c /\ ~open[c]) ~> (op[t] = Idle)
     /\ (rop[c] = "recv" /\ hold[c] = {}) ~> (rop[c] = "idle")
     /\ (rop[c] = "recv_timeout") ~> (rop[c] = "idle")
=============================================================================
