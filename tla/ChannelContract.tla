--------------------------- MODULE ChannelContract ---------------------------
(***************************************************************************)
(* What a channel promises to its users, said without a queue: accepted    *)
(* messages form a set, a receive yields some sender's oldest one, and     *)
(* each answer of a receive call tells the truth about that set and about  *)
(* the senders left.  The module Channel is shown to implement this.       *)
(***************************************************************************)
EXTENDS Integers, Sequences

CONSTANTS Thread, Data, Unbounded

VARIABLES cap, open, hold, pending, sent, got, outcome

contractVars == <<cap, open, hold, pending, sent, got, outcome>>

Init ==
  /\ open = TRUE
  /\ hold \in {{t} : t \in Thread}
  /\ pending = {}
  /\ sent = [t \in Thread |-> 0]
  /\ got = <<>>
  /\ outcome = "none"

Join(t, u) ==
  /\ t \in hold /\ hold' = hold \cup {u}
  /\ UNCHANGED <<cap, open, pending, sent, got, outcome>>

Leave(t) ==
  /\ hold' = hold \ {t}
  /\ UNCHANGED <<cap, open, pending, sent, got, outcome>>

\* The messages of set have a place each in a buffer of cap places.
Fits(set) ==
  \/ cap = Unbounded
  \/ \E place \in [1 .. cap -> set] :
        \A m \in set : \E i \in 1 .. cap : place[i] = m

\* A message enters only an open channel of which its thread owns a sender,
\* and never beyond the capacity.
Accept(t, d) ==
  /\ open /\ t \in hold
  /\ sent' = [sent EXCEPT ![t] = @ + 1]
  /\ pending' = pending \cup {[from |-> t, n |-> sent'[t], data |-> d]}
  /\ Fits(pending')
  /\ UNCHANGED <<cap, open, hold, got, outcome>>

\* No message overtakes an older one of its own thread.
Deliver(m) ==
  /\ open /\ m \in pending
  /\ \A k \in pending : k.from = m.from => m.n <= k.n
  /\ pending' = pending \ {m}
  /\ got' = Append(got, m)
  /\ outcome' = "Ok"
  /\ UNCHANGED <<cap, open, hold, sent>>

\* A channel without room for any message passes them from hand to hand.
Pass(t, d) ==
  /\ open /\ t \in hold /\ cap = 0
  /\ sent' = [sent EXCEPT ![t] = @ + 1]
  /\ got' = Append(got, [from |-> t, n |-> sent'[t], data |-> d])
  /\ outcome' = "Ok"
  /\ UNCHANGED <<cap, open, hold, pending>>

\* "Nothing for now" and "never again" are both told of a drained channel,
\* the second only when no sender is left to change it.
ReportNothing ==
  /\ open /\ pending = {}
  /\ \/ hold # {} /\ outcome' \in {"Empty", "Timeout"}
     \/ hold = {} /\ outcome' \in {"RecvError", "Disconnected"}
  /\ UNCHANGED <<cap, open, hold, pending, sent, got>>

Close ==
  /\ open /\ open' = FALSE /\ pending' = {}
  /\ UNCHANGED <<cap, hold, sent, got, outcome>>

Next ==
  \/ \E t \in Thread : Leave(t) \/ (\E u \in Thread : Join(t, u))
  \/ \E t \in Thread, d \in Data : Accept(t, d) \/ Pass(t, d)
  \/ \E m \in pending : Deliver(m)
  \/ ReportNothing
  \/ Close

Spec == Init /\ [][Next]_contractVars
=============================================================================
