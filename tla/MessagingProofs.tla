--------------------------- MODULE MessagingProofs ---------------------------
(***************************************************************************)
(* Theorems about src/channel.rs for any threads, channels, capacities and *)
(* payloads; and about log! and notify! for any workers, channels, levels  *)
(* and bounds: every step of Messaging is a step of Channel, so what is    *)
(* shown of channels holds of the logging channels too, and a message      *)
(* reaches the logger its call borrowed, in the order of the calls.        *)
(***************************************************************************)
EXTENDS MessagingProps, SequenceTheorems, TLAPS

\* A channel that was just created is typed.
LEMMA ChanTypeInit == ChanInit => ChanTypeOK
  BY DEF ChanInit, ChanTypeOK, Idle, Calls, Gone, Ended, Message

\* A call under way has a channel to send to and something to send.
LEMMA CallType ==
  ASSUME ChanTypeOK, NEW t \in Thread, op[t] # Idle
  PROVE  op[t].to \in Chan /\ op[t].data \in Data
  BY DEF ChanTypeOK, Calls

\* A message put in a buffer is numbered and replied to with a reply there is.
LEMMA EnqueueType ==
  ASSUME ChanTypeOK, NEW t \in Thread, NEW c \in Chan, NEW d \in Data,
         Enqueue(t, c, d), op' \in [Thread -> Calls]
  PROVE  ChanTypeOK'
<1> USE DEF ChanTypeOK, Enqueue
<1>1. Numbered(t, c, d) \in Message
  BY DEF Numbered, Message
<1>2. buf' \in [Chan -> Seq(Message)]
  BY <1>1
<1>3. sent' \in [Chan -> [Thread -> Nat]]
  OBVIOUS
<1>4. reply' \in [Chan -> [Thread -> {"none", "Ok", "Full"} \cup Gone]]
  BY DEF Answer
<1> QED BY <1>2, <1>3, <1>4

\* Every way a receive returns leaves what it took in order of its type.
LEMMA ReceiveType ==
  ASSUME ChanTypeOK, NEW c \in Chan,
         \/ TakeOldest(c)
         \/ \E r \in Ended : FindsEnd(c, r)
         \/ \E r \in {"Empty", "Timeout"} : FindsNothing(c, r)
  PROVE  /\ buf' \in [Chan -> Seq(Message)]
         /\ got' \in [Chan -> Seq(Message)]
         /\ outcome' \in [Chan -> {"none", "Ok", "Empty", "Timeout"} \cup Ended]
<1> USE DEF ChanTypeOK, Returns
<1>1. CASE TakeOldest(c)
  <2>1. Head(buf[c]) \in Message /\ Tail(buf[c]) \in Seq(Message)
    BY <1>1 DEF TakeOldest
  <2>2. Append(got[c], Head(buf[c])) \in Seq(Message)
    BY <2>1
  <2> QED BY <1>1, <2>1, <2>2 DEF TakeOldest
<1>2. CASE \E r \in Ended : FindsEnd(c, r)
  BY <1>2 DEF FindsEnd
<1>3. CASE \E r \in {"Empty", "Timeout"} : FindsNothing(c, r)
  BY <1>3 DEF FindsNothing
<1> QED BY <1>1, <1>2, <1>3

\* Every operation of senders and receivers keeps the types.
LEMMA ChanTypeStep == ChanTypeOK /\ [ChanNext]_chanVars => ChanTypeOK'
<1> SUFFICES ASSUME ChanTypeOK, [ChanNext]_chanVars
             PROVE  ChanTypeOK'
  OBVIOUS
<1> USE DEF ChanTypeOK
<1>a. Idle \in Calls
  BY DEF Calls
<1>1. ASSUME NEW t \in Thread, SendOk(t) PROVE ChanTypeOK'
  BY <1>1, <1>a, CallType, EnqueueType DEF SendOk
<1>2. ASSUME NEW t \in Thread, SendError(t) PROVE ChanTypeOK'
  BY <1>2, <1>a, CallType DEF SendError, Answer, Gone
<1>3. ASSUME NEW t \in Thread, NEW c \in Chan, DropSender(t, c)
      PROVE  ChanTypeOK'
  BY <1>3 DEF DropSender
<1>4. ASSUME NEW t \in Thread, NEW u \in Thread, NEW c \in Chan,
             CloneSender(t, u, c)
      PROVE  ChanTypeOK'
  BY <1>4 DEF CloneSender
<1>5. ASSUME NEW t \in Thread, NEW c \in Chan, NEW d \in Data,
             CallSend(t, c, d)
      PROVE  ChanTypeOK'
  BY <1>5 DEF CallSend, Sending, Calls
<1>6. ASSUME NEW t \in Thread, NEW c \in Chan, NEW d \in Data,
             TrySend(t, c, d)
      PROVE  ChanTypeOK'
  <2>1. CASE Enqueue(t, c, d)
    BY <1>6, <2>1, EnqueueType DEF TrySend
  <2>2. CASE TrySendRefused(t, c)
    BY <1>6, <2>2 DEF TrySend, TrySendRefused, Answer, Gone
  <2> QED BY <1>6, <2>1, <2>2 DEF TrySend
<1>7. ASSUME NEW t \in Thread, NEW c \in Chan, NEW d \in Data,
             HandOver(t, c, d)
      PROVE  ChanTypeOK'
  <2>1. Numbered(t, c, d) \in Message
    BY DEF Numbered, Message
  <2>2. got' \in [Chan -> Seq(Message)]
    BY <1>7, <2>1 DEF HandOver
  <2>3. sent' \in [Chan -> [Thread -> Nat]]
    BY <1>7 DEF HandOver
  <2> QED BY <1>7, <1>a, <2>2, <2>3 DEF HandOver, Answer, Returns
<1>8. ASSUME NEW c \in Chan, NEW kind \in {"recv", "recv_timeout"},
             CallRecv(c, kind)
      PROVE  ChanTypeOK'
  BY <1>8 DEF CallRecv
<1>9. ASSUME NEW c \in Chan, Recv(c) PROVE ChanTypeOK'
  BY <1>9, ReceiveType DEF Recv, Ended
<1>10. ASSUME NEW c \in Chan, RecvTimeout(c) PROVE ChanTypeOK'
  BY <1>10, ReceiveType DEF RecvTimeout, Ended
<1>11. ASSUME NEW c \in Chan, TryRecv(c) PROVE ChanTypeOK'
  BY <1>11, ReceiveType DEF TryRecv, Ended
<1>12. ASSUME NEW c \in Chan, DropReceiver(c) PROVE ChanTypeOK'
  BY <1>12 DEF DropReceiver
<1>13. CASE UNCHANGED chanVars
  BY <1>13 DEF chanVars
<1> QED
  BY <1>1, <1>2, <1>3, <1>4, <1>5, <1>6, <1>7, <1>8, <1>9, <1>10, <1>11,
     <1>12, <1>13 DEF ChanNext

(* A message that enters a stream at the end of its queue enters it at the *)
(* end; one that moves from the queue to the received ones changes nothing.*)
LEMMA AppendToStream ==
  ASSUME NEW p \in Seq(Message), NEW q \in Seq(Message), NEW m \in Message
  PROVE  p \o Append(q, m) = Append(p \o q, m)
<1>1. Append(q, m) = q \o <<m>> /\ <<m>> \in Seq(Message)
  BY AppendIsConcat
<1>2. p \o q \in Seq(Message)
  BY ConcatProperties
<1>3. Append(p \o q, m) = (p \o q) \o <<m>>
  BY <1>2, AppendIsConcat
<1> QED BY <1>1, <1>3, ConcatAssociative

\* Taking the oldest message moves the border between taken and waiting, nothing else.
LEMMA MoveHead ==
  ASSUME NEW p \in Seq(Message), NEW q \in Seq(Message), q # <<>>
  PROVE  Append(p, Head(q)) \o Tail(q) = p \o q
<1>1. Head(q) \in Message /\ Tail(q) \in Seq(Message) /\ <<Head(q)>> \in Seq(Message)
  OBVIOUS
<1>2. Append(p, Head(q)) = p \o <<Head(q)>>
  BY <1>1, AppendIsConcat
<1>3. <<Head(q)>> \o Tail(q) = q
  BY <1>1
<1>4. (p \o <<Head(q)>>) \o Tail(q) = p \o (<<Head(q)>> \o Tail(q))
  BY <1>1, ConcatAssociative
<1> QED BY <1>2, <1>3, <1>4

(* The state of src/channel.rs keeps its types.                            *)
THEOREM ChannelTypes == ChanSpec => []ChanTypeOK
  BY ChanTypeInit, ChanTypeStep, PTL DEF ChanSpec
-----------------------------------------------------------------------------
(* The invariant that carries the rest.  InOrder and NothingLost speak of   *)
(* what is in the channel; they survive an accept only because the number   *)
(* a message gets is the next one of an open, hence complete, stream, and   *)
(* survive a DropReceiver only because a stream has no hole anywhere.       *)
Ordered(s) ==
  \A i, j \in DOMAIN s : i < j /\ s[i].from = s[j].from => s[i].n < s[j].n

HoleFree(s) ==
  \A i \in DOMAIN s : \A k \in 1 .. s[i].n - 1 :
     \E j \in 1 .. i - 1 : s[j].from = s[i].from /\ s[j].n = k

Counted(s, number) == \A i \in DOMAIN s : s[i].n \in 1 .. number[s[i].from]

Complete(s, number) ==
  \A t \in Thread : \A k \in 1 .. number[t] :
     \E i \in DOMAIN s : s[i].from = t /\ s[i].n = k

Sound(s, number) == Ordered(s) /\ HoleFree(s) /\ Counted(s, number)

ChanInvAt(c) ==
  /\ Sound(Stream(c), sent[c])
  /\ open[c] => Complete(Stream(c), sent[c])
  /\ ~open[c] => buf[c] = <<>> /\ rop[c] = "idle"
  /\ cap[c] # Unbounded => Len(buf[c]) <= cap[c]
  /\ outcome[c] \in Ended => buf[c] = <<>> /\ hold[c] = {}
  /\ \A t \in Thread : reply[c][t] \in Gone => ~open[c]

\* A thread inside of a send owns the Sender it sends with.
SenderHeld == \A t \in Thread : op[t] # Idle => t \in hold[op[t].to]

ChanInv == ChanTypeOK /\ SenderHeld /\ \A c \in Chan : ChanInvAt(c)

(* Numbering one more message of t keeps the stream sound and complete.    *)
LEMMA StreamGrows ==
  ASSUME NEW s \in Seq(Message), NEW number \in [Thread -> Nat],
         NEW t \in Thread, NEW m \in Message,
         m.from = t, m.n = number[t] + 1,
         Sound(s, number), Complete(s, number)
  PROVE  LET more == [number EXCEPT ![t] = @ + 1]
         IN  Sound(Append(s, m), more) /\ Complete(Append(s, m), more)
<1> DEFINE r == Append(s, m)
           more == [number EXCEPT ![t] = @ + 1]
<1>1. /\ r \in Seq(Message) /\ DOMAIN r = 1 .. Len(s) + 1
      /\ DOMAIN s = 1 .. Len(s) /\ Len(s) \in Nat
      /\ r[Len(s) + 1] = m
      /\ \A i \in 1 .. Len(s) : r[i] = s[i] /\ s[i] \in Message
  OBVIOUS
<1>2. \A i \in 1 .. Len(s) : s[i].from \in Thread /\ s[i].n \in Nat
  BY <1>1 DEF Message
<1>3. \A u \in Thread : /\ number[u] \in Nat /\ more[u] \in Nat
                         /\ more[u] = IF u = t THEN number[t] + 1 ELSE number[u]
  OBVIOUS
<1> HIDE DEF r, more
<1>4. Ordered(r)
  <2> SUFFICES ASSUME NEW i \in DOMAIN r, NEW j \in DOMAIN r,
                      i < j, r[i].from = r[j].from
               PROVE  r[i].n < r[j].n
    BY DEF Ordered
  <2>1. CASE j = Len(s) + 1
    BY <1>1, <1>2, <1>3, <2>1 DEF Sound, Counted
  <2>2. CASE j # Len(s) + 1
    BY <1>1, <2>2, SMTT(60) DEF Sound, Ordered
  <2> QED BY <2>1, <2>2
<1>5. HoleFree(r)
  <2> SUFFICES ASSUME NEW i \in DOMAIN r, NEW k \in 1 .. r[i].n - 1
               PROVE  \E j \in 1 .. i - 1 : r[j].from = r[i].from /\ r[j].n = k
    BY DEF HoleFree
  <2>1. CASE i = Len(s) + 1
    <3>1. k \in 1 .. number[t]
      BY <1>1, <1>3, <2>1
    <3>2. PICK j \in DOMAIN s : s[j].from = t /\ s[j].n = k
      BY <3>1 DEF Complete
    <3> QED BY <1>1, <2>1, <3>2
  <2>2. CASE i # Len(s) + 1
    BY <1>1, <2>2, SMTT(60) DEF Sound, HoleFree
  <2> QED BY <2>1, <2>2
<1>6. Counted(r, more)
  <2> SUFFICES ASSUME NEW i \in DOMAIN r PROVE r[i].n \in 1 .. more[r[i].from]
    BY DEF Counted
  <2>1. CASE i = Len(s) + 1
    BY <1>1, <1>3, <2>1
  <2>2. CASE i # Len(s) + 1
    <3>1. r[i] = s[i] /\ i \in DOMAIN s
      BY <1>1, <2>2
    <3>2. s[i].n \in 1 .. number[s[i].from]
      BY <3>1 DEF Sound, Counted
    <3> QED BY <1>1, <1>2, <1>3, <3>1, <3>2
  <2> QED BY <2>1, <2>2
<1>7. Complete(r, more)
  <2> SUFFICES ASSUME NEW u \in Thread, NEW k \in 1 .. more[u]
               PROVE  \E i \in DOMAIN r : r[i].from = u /\ r[i].n = k
    BY DEF Complete
  <2>1. CASE u = t /\ k = number[t] + 1
    BY <1>1, <2>1
  <2>2. CASE ~(u = t /\ k = number[t] + 1)
    <3>1. k \in 1 .. number[u]
      BY <1>3, <2>2
    <3> QED BY <1>1, <3>1 DEF Complete
  <2> QED BY <2>1, <2>2
<1> QED BY <1>4, <1>5, <1>6, <1>7 DEF Sound, r, more

(* What was received stays sound when the rest of the stream is destroyed. *)
LEMMA StreamPrefix ==
  ASSUME NEW p \in Seq(Message), NEW q \in Seq(Message),
         NEW number \in [Thread -> Nat], Sound(p \o q, number)
  PROVE  Sound(p, number)
<1> DEFINE s == p \o q
<1>1. /\ DOMAIN p = 1 .. Len(p) /\ DOMAIN s = 1 .. Len(p) + Len(q)
      /\ Len(p) \in Nat /\ Len(q) \in Nat
      /\ \A i \in DOMAIN p : s[i] = p[i]
  OBVIOUS
<1>2. \A i \in DOMAIN p : p[i].n \in Nat /\ i \in DOMAIN s
  <2>1. \A i \in DOMAIN p : p[i] \in Message
    BY <1>1
  <2> QED BY <1>1, <2>1 DEF Message
<1> HIDE DEF s
<1>3. Ordered(p)
  BY <1>1, <1>2 DEF Sound, Ordered, s
<1>4. Counted(p, number)
  BY <1>1, <1>2 DEF Sound, Counted, s
<1>5. HoleFree(p)
  <2> SUFFICES ASSUME NEW i \in DOMAIN p, NEW k \in 1 .. p[i].n - 1
               PROVE  \E j \in 1 .. i - 1 : p[j].from = p[i].from /\ p[j].n = k
    BY DEF HoleFree
  <2>1. PICK j \in 1 .. i - 1 : s[j].from = s[i].from /\ s[j].n = k
    BY <1>1, <1>2 DEF Sound, HoleFree, s
  <2> QED BY <1>1, <2>1
<1> QED BY <1>3, <1>4, <1>5 DEF Sound
-----------------------------------------------------------------------------
\* Nothing that ChanInvAt(c) speaks of changes.
Untouched(c) ==
  /\ cap'[c] = cap[c] /\ open'[c] = open[c] /\ hold'[c] = hold[c]
  /\ buf'[c] = buf[c] /\ got'[c] = got[c] /\ sent'[c] = sent[c]
  /\ reply'[c] = reply[c] /\ rop'[c] = rop[c] /\ outcome'[c] = outcome[c]

\* A channel no step touches keeps its invariant.
LEMMA UntouchedKeeps ==
  ASSUME NEW c \in Chan, ChanInvAt(c), Untouched(c)
  PROVE  ChanInvAt(c)'
  BY DEF ChanInvAt, Untouched, Stream

\* One more message at the end of a buffer: numbers stay dense, per thread.
LEMMA EnqueueKeeps ==
  ASSUME ChanInv, NEW t \in Thread, NEW c \in Chan, NEW d \in Data,
         Enqueue(t, c, d), t \in hold[c]
  PROVE  \A x \in Chan : ChanInvAt(x)'
<1> USE DEF ChanTypeOK
<1> DEFINE m == Numbered(t, c, d)
<1>1. /\ ChanTypeOK /\ ChanInvAt(c) /\ open[c]
      /\ buf[c] \in Seq(Message) /\ got[c] \in Seq(Message)
      /\ sent[c] \in [Thread -> Nat]
  BY DEF ChanInv, Enqueue
<1>2. m \in Message /\ m.from = t /\ m.n = sent[c][t] + 1
  BY <1>1 DEF Numbered, Message
<1> HIDE DEF m
<1>3. /\ got'[c] \o buf'[c] = Append(got[c] \o buf[c], m)
      /\ got[c] \o buf[c] \in Seq(Message)
  <2>1. buf'[c] = Append(buf[c], m) /\ got' = got
    BY <1>1 DEF Enqueue, m
  <2>2. got[c] \o Append(buf[c], m) = Append(got[c] \o buf[c], m)
    BY <1>1, <1>2, AppendToStream
  <2> QED BY <1>1, <2>1, <2>2
<1>4. sent'[c] = [sent[c] EXCEPT ![t] = @ + 1]
  BY <1>1 DEF Enqueue
<1>5. Sound(Stream(c), sent[c])' /\ Complete(Stream(c), sent[c])'
  <2> DEFINE s == got[c] \o buf[c]
             more == [sent[c] EXCEPT ![t] = @ + 1]
  <2>1. Sound(s, sent[c]) /\ Complete(s, sent[c])
    BY <1>1 DEF ChanInvAt, Stream
  <2>2. Sound(Append(s, m), more) /\ Complete(Append(s, m), more)
    BY <1>1, <1>2, <1>3, <2>1, StreamGrows
  <2>3. Stream(c)' = Append(s, m) /\ sent'[c] = more
    BY <1>3, <1>4 DEF Stream
  <2> HIDE DEF s, more
  <2> QED BY <2>2, <2>3
<1>6. cap'[c] # Unbounded => Len(buf'[c]) <= cap'[c]
  <2>1. cap[c] \in Nat \cup {Unbounded} /\ cap' = cap
    BY <1>1, ChannelAssumption DEF Enqueue
  <2>2. buf'[c] = Append(buf[c], m)
    BY <1>1 DEF Enqueue, m
  <2>3. Len(buf'[c]) = Len(buf[c]) + 1 /\ Len(buf[c]) \in Nat
    BY <1>1, <1>2, <2>2
  <2> QED BY <2>1, <2>3 DEF Enqueue, HasRoom, Unbounded
<1>7. ASSUME NEW u \in Thread, reply'[c][u] \in Gone PROVE ~open'[c]
  BY <1>1, <1>7 DEF Enqueue, Answer, ChanInvAt, Gone
<1>8. ~(outcome'[c] \in Ended)
  BY <1>1 DEF Enqueue, ChanInvAt
<1>9. ChanInvAt(c)'
  BY <1>1, <1>5, <1>6, <1>7, <1>8 DEF ChanInvAt, Enqueue
<1>10. ASSUME NEW x \in Chan, x # c PROVE ChanInvAt(x)'
  <2>1. ChanInvAt(x) /\ Untouched(x)
    BY <1>1, <1>10 DEF ChanInv, Enqueue, Answer, Untouched
  <2> QED BY <2>1, UntouchedKeeps
<1> QED BY <1>9, <1>10

\* A receive, whatever it returns, keeps every channel's invariant.
LEMMA ReceiveKeeps ==
  ASSUME ChanInv, NEW c \in Chan, open[c],
         \/ TakeOldest(c)
         \/ \E r \in Ended : FindsEnd(c, r)
         \/ \E r \in {"Empty", "Timeout"} : FindsNothing(c, r),
         rop' \in [Chan -> {"idle", "recv", "recv_timeout"}],
         \A x \in Chan : x # c => rop'[x] = rop[x],
         UNCHANGED <<cap, open, hold, sent, op, reply>>
  PROVE  \A x \in Chan : ChanInvAt(x)'
<1> USE DEF ChanTypeOK
<1>1. /\ ChanTypeOK /\ ChanInvAt(c)
      /\ buf[c] \in Seq(Message) /\ got[c] \in Seq(Message)
  BY DEF ChanInv
<1>2. ASSUME TakeOldest(c) PROVE ChanInvAt(c)'
  <2>1. /\ buf[c] # <<>> /\ buf'[c] = Tail(buf[c])
        /\ got'[c] = Append(got[c], Head(buf[c])) /\ outcome'[c] = "Ok"
    BY <1>1, <1>2 DEF TakeOldest, Returns
  <2>2. got'[c] \o buf'[c] = got[c] \o buf[c]
    BY <1>1, <2>1, MoveHead
  <2>3. Stream(c)' = Stream(c)
    BY <2>2 DEF Stream
  <2>4. Len(buf'[c]) <= Len(buf[c])
    BY <1>1, <2>1
  <2>5. cap[c] # Unbounded => Len(buf'[c]) <= cap[c]
    <3>1. cap[c] \in Nat \cup {Unbounded}
      BY <1>1, ChannelAssumption
    <3>2. Len(buf'[c]) \in Nat /\ Len(buf[c]) \in Nat
      BY <1>1, <2>1
    <3> QED BY <1>1, <2>4, <3>1, <3>2 DEF ChanInvAt, Unbounded
  <2>6. outcome'[c] \notin Ended
    BY <2>1 DEF Ended
  <2> QED BY <1>1, <2>3, <2>5, <2>6 DEF ChanInvAt
<1>3. ASSUME ~TakeOldest(c) PROVE ChanInvAt(c)'
  <2>1. /\ UNCHANGED <<buf, got>>
        /\ outcome'[c] \in Ended => buf[c] = <<>> /\ hold[c] = {}
    BY <1>1, <1>3 DEF FindsEnd, FindsNothing, Returns, Ended
  <2> QED BY <1>1, <2>1 DEF ChanInvAt, Stream
<1>4. ChanInvAt(c)'
  BY <1>1, <1>2, <1>3
<1>5. ASSUME NEW x \in Chan, x # c PROVE ChanInvAt(x)'
  <2>1. ChanInvAt(x) /\ Untouched(x)
    BY <1>1, <1>5 DEF ChanInv, TakeOldest, FindsEnd, FindsNothing, Returns, Untouched
  <2> QED BY <2>1, UntouchedKeeps
<1> QED BY <1>4, <1>5

\* So does a rendezvous, which goes from hand to hand with no buffer between.
LEMMA HandOverKeeps ==
  ASSUME ChanInv, NEW t \in Thread, NEW c \in Chan, NEW d \in Data,
         HandOver(t, c, d)
  PROVE  \A x \in Chan : ChanInvAt(x)'
<1> USE DEF ChanTypeOK
<1> DEFINE m == Numbered(t, c, d)
           more == [sent[c] EXCEPT ![t] = @ + 1]
<1>1. /\ ChanTypeOK /\ ChanInvAt(c) /\ open[c] /\ cap[c] = 0
      /\ buf[c] \in Seq(Message) /\ got[c] \in Seq(Message)
      /\ sent[c] \in [Thread -> Nat]
  BY DEF ChanInv, HandOver
<1>2. m \in Message /\ m.from = t /\ m.n = sent[c][t] + 1
  BY <1>1 DEF Numbered, Message
<1>3. buf[c] = <<>>
  <2>1. Len(buf[c]) <= 0
    BY <1>1 DEF ChanInvAt, Unbounded
  <2> QED BY <1>1, <2>1
<1>4. /\ got'[c] = Append(got[c], m) /\ buf' = buf /\ sent'[c] = more
      /\ outcome'[c] = "Ok" /\ UNCHANGED <<cap, open, hold>>
  BY <1>1 DEF HandOver, Returns
<1> HIDE DEF m
<1>5. Sound(got[c], sent[c]) /\ Complete(got[c], sent[c])
  <2>1. got[c] \o buf[c] = got[c]
    BY <1>1, <1>3
  <2> QED BY <1>1, <2>1 DEF ChanInvAt, Stream
<1>6. Sound(got'[c], sent'[c]) /\ Complete(got'[c], sent'[c])
  <2>1. Sound(Append(got[c], m), more) /\ Complete(Append(got[c], m), more)
    BY <1>1, <1>2, <1>5, StreamGrows
  <2> HIDE DEF more
  <2> QED BY <1>4, <2>1
<1>7. Stream(c)' = got'[c]
  <2> HIDE DEF more
  <2>1. Append(got[c], m) \o <<>> = Append(got[c], m)
    BY <1>1, <1>2
  <2>2. buf'[c] = <<>>
    BY <1>3, <1>4
  <2>3. Stream(c)' = got'[c] \o buf'[c]
    BY DEF Stream
  <2> QED BY <1>4, <2>1, <2>2, <2>3
<1>8. ~(outcome'[c] \in Ended)
  BY <1>4 DEF Ended
<1>9. ASSUME NEW u \in Thread, reply'[c][u] \in Gone PROVE FALSE
  BY <1>1, <1>9 DEF HandOver, Answer, ChanInvAt, Gone
<1>10. ChanInvAt(c)'
  BY <1>1, <1>4, <1>6, <1>7, <1>8, <1>9 DEF ChanInvAt
<1>11. ASSUME NEW x \in Chan, x # c PROVE ChanInvAt(x)'
  <2>1. ChanInvAt(x) /\ Untouched(x)
    BY <1>1, <1>11 DEF ChanInv, HandOver, Answer, Returns, Untouched
  <2> QED BY <2>1, UntouchedKeeps
<1> QED BY <1>10, <1>11

\* What was waiting when a receiver is dropped is lost, and nothing else.
LEMMA DropReceiverKeeps ==
  ASSUME ChanInv, NEW c \in Chan, DropReceiver(c)
  PROVE  \A x \in Chan : ChanInvAt(x)'
<1> USE DEF ChanTypeOK
<1>1. /\ ChanTypeOK /\ ChanInvAt(c)
      /\ buf[c] \in Seq(Message) /\ got[c] \in Seq(Message)
      /\ sent[c] \in [Thread -> Nat] /\ cap[c] \in Nat \cup {Unbounded}
  BY ChannelAssumption DEF ChanInv
<1>2. /\ ~open'[c] /\ buf'[c] = <<>> /\ rop'[c] = "idle"
      /\ UNCHANGED <<cap, hold, sent, reply, rop, outcome, got>>
  BY <1>1 DEF DropReceiver
<1>3. Sound(got[c], sent[c])
  <2>1. Sound(got[c] \o buf[c], sent[c])
    BY <1>1 DEF ChanInvAt, Stream
  <2> QED BY <1>1, <2>1, StreamPrefix
<1>4. Stream(c)' = got[c]
  BY <1>1, <1>2 DEF Stream
<1>5. cap[c] # Unbounded => Len(buf'[c]) <= cap[c]
  BY <1>1, <1>2 DEF Unbounded
<1>6. ChanInvAt(c)'
  BY <1>1, <1>2, <1>3, <1>4, <1>5 DEF ChanInvAt
<1>7. ASSUME NEW x \in Chan, x # c PROVE ChanInvAt(x)'
  <2>1. ChanInvAt(x) /\ Untouched(x)
    BY <1>1, <1>7 DEF ChanInv, DropReceiver, Untouched
  <2> QED BY <2>1, UntouchedKeeps
<1> QED BY <1>6, <1>7
-----------------------------------------------------------------------------
\* Channels start with nothing sent, waiting or taken.
LEMMA ChanInvInit == ChanInit => ChanInv
<1> SUFFICES ASSUME ChanInit PROVE ChanInv
  OBVIOUS
<1>1. ChanTypeOK
  BY ChanTypeInit
<1>2. SenderHeld
  BY DEF ChanInit, SenderHeld
<1>3. ASSUME NEW c \in Chan PROVE ChanInvAt(c)
  <2>1. /\ got[c] = <<>> /\ buf[c] = <<>> /\ open[c] /\ outcome[c] = "none"
        /\ sent[c] = [t \in Thread |-> 0] /\ \A t \in Thread : reply[c][t] = "none"
        /\ cap[c] \in Nat \cup {Unbounded}
    BY ChannelAssumption DEF ChanInit
  <2>2. Stream(c) = <<>>
    BY <2>1 DEF Stream
  <2>3. Sound(<<>>, sent[c]) /\ Complete(<<>>, sent[c])
    BY <2>1 DEF Sound, Ordered, HoleFree, Counted, Complete
  <2>4. Len(buf[c]) = 0
    BY <2>1
  <2> QED BY <2>1, <2>2, <2>3, <2>4 DEF ChanInvAt, Gone, Ended, Unbounded
<1> QED BY <1>1, <1>2, <1>3 DEF ChanInv

\* The invariant is inductive: one step per operation.
LEMMA ChanInvStep == ChanInv /\ [ChanNext]_chanVars => ChanInv'
<1> SUFFICES ASSUME ChanInv, [ChanNext]_chanVars PROVE ChanInv'
  OBVIOUS
<1>t. ChanTypeOK /\ ChanTypeOK'
  BY ChanTypeStep DEF ChanInv
<1>h. SenderHeld /\ \A c \in Chan : ChanInvAt(c)
  BY DEF ChanInv
<1> DEFINE Goal == SenderHeld' /\ \A x \in Chan : ChanInvAt(x)'
<1>1. ASSUME NEW t \in Thread, SendOk(t) PROVE Goal
  <2>1. op[t].to \in Chan /\ op[t].data \in Data /\ t \in hold[op[t].to]
    BY <1>1, <1>t, <1>h, CallType DEF SendOk, SenderHeld
  <2>2. SenderHeld'
    BY <1>1, <1>t, <1>h DEF SendOk, Enqueue, SenderHeld, ChanTypeOK
  <2> QED BY <1>1, <2>1, <2>2, EnqueueKeeps DEF SendOk
<1>2. ASSUME NEW t \in Thread, SendError(t) PROVE Goal
  <2>1. op[t].to \in Chan
    BY <1>2, <1>t, CallType DEF SendError
  <2>2. SenderHeld'
    BY <1>2, <1>t, <1>h DEF SendError, SenderHeld, ChanTypeOK
  <2>3. ASSUME NEW x \in Chan PROVE ChanInvAt(x)'
    BY <1>2, <1>t, <1>h, <2>1
       DEF SendError, Answer, ChanTypeOK, ChanInvAt, Stream
  <2> QED BY <2>2, <2>3
<1>3. ASSUME NEW t \in Thread, NEW c \in Chan, DropSender(t, c) PROVE Goal
  <2>1. SenderHeld'
    BY <1>3, <1>t, <1>h, CallType DEF DropSender, SenderHeld, ChanTypeOK
  <2>2. ASSUME NEW x \in Chan PROVE ChanInvAt(x)'
    BY <1>3, <1>t, <1>h DEF DropSender, ChanTypeOK, ChanInvAt, Stream
  <2> QED BY <2>1, <2>2
<1>4. ASSUME NEW t \in Thread, NEW u \in Thread, NEW c \in Chan,
             CloneSender(t, u, c)
      PROVE  Goal
  <2>1. SenderHeld'
    BY <1>4, <1>t, <1>h, CallType DEF CloneSender, SenderHeld, ChanTypeOK
  <2>2. ASSUME NEW x \in Chan PROVE ChanInvAt(x)'
    BY <1>4, <1>t, <1>h DEF CloneSender, ChanTypeOK, ChanInvAt, Stream
  <2> QED BY <2>1, <2>2
<1>5. ASSUME NEW t \in Thread, NEW c \in Chan, NEW d \in Data,
             CallSend(t, c, d)
      PROVE  Goal
  <2>1. SenderHeld'
    BY <1>5, <1>t, <1>h DEF CallSend, Sending, SenderHeld, ChanTypeOK
  <2>2. ASSUME NEW x \in Chan PROVE Untouched(x)
    BY <1>5 DEF CallSend, Untouched
  <2> QED BY <1>h, <2>1, <2>2, UntouchedKeeps
<1>6. ASSUME NEW t \in Thread, NEW c \in Chan, NEW d \in Data,
             TrySend(t, c, d)
      PROVE  Goal
  <2>1. SenderHeld'
    BY <1>6, <1>h DEF TrySend, Enqueue, TrySendRefused, SenderHeld
  <2>2. CASE Enqueue(t, c, d)
    BY <1>6, <2>1, <2>2, EnqueueKeeps DEF TrySend
  <2>3. CASE TrySendRefused(t, c)
    <3>1. ASSUME NEW x \in Chan PROVE ChanInvAt(x)'
      BY <1>t, <1>h, <2>3
         DEF TrySendRefused, Answer, ChanTypeOK, ChanInvAt, Stream, Gone
    <3> QED BY <2>1, <3>1
  <2> QED BY <1>6, <2>2, <2>3 DEF TrySend
<1>7. ASSUME NEW t \in Thread, NEW c \in Chan, NEW d \in Data,
             HandOver(t, c, d)
      PROVE  Goal
  <2>1. SenderHeld'
    BY <1>7, <1>t, <1>h DEF HandOver, SenderHeld, ChanTypeOK
  <2> QED BY <1>7, <2>1, HandOverKeeps
<1>8. ASSUME NEW c \in Chan, NEW kind \in {"recv", "recv_timeout"},
             CallRecv(c, kind)
      PROVE  Goal
  <2>1. SenderHeld'
    BY <1>8, <1>h DEF CallRecv, SenderHeld
  <2>2. ASSUME NEW x \in Chan PROVE ChanInvAt(x)'
    BY <1>8, <1>t, <1>h DEF CallRecv, ChanTypeOK, ChanInvAt, Stream
  <2> QED BY <2>1, <2>2
<1>9. ASSUME NEW c \in Chan, Recv(c) \/ RecvTimeout(c) \/ TryRecv(c)
      PROVE  Goal
  <2>1. SenderHeld'
    BY <1>9, <1>h DEF Recv, RecvTimeout, TryRecv, SenderHeld
  <2>2. open[c]
    BY <1>9, <1>h, <1>t
       DEF Recv, RecvTimeout, TryRecv, ChanInvAt, ChanTypeOK
  <2>3. /\ \/ TakeOldest(c)
           \/ \E r \in Ended : FindsEnd(c, r)
           \/ \E r \in {"Empty", "Timeout"} : FindsNothing(c, r)
        /\ UNCHANGED <<cap, open, hold, sent, op, reply>>
        /\ \A x \in Chan : x # c => rop'[x] = rop[x]
    BY <1>9, <1>t DEF Recv, RecvTimeout, TryRecv, Ended, ChanTypeOK
  <2>4. rop' \in [Chan -> {"idle", "recv", "recv_timeout"}]
    BY <1>t DEF ChanTypeOK
  <2> QED BY <2>1, <2>2, <2>3, <2>4, ReceiveKeeps
<1>10. ASSUME NEW c \in Chan, DropReceiver(c) PROVE Goal
  <2>1. SenderHeld'
    BY <1>10, <1>h DEF DropReceiver, SenderHeld
  <2> QED BY <1>10, <2>1, DropReceiverKeeps
<1>11. CASE UNCHANGED chanVars
  <2>1. SenderHeld'
    BY <1>11, <1>h DEF chanVars, SenderHeld
  <2>2. ASSUME NEW x \in Chan PROVE Untouched(x)
    BY <1>11 DEF chanVars, Untouched
  <2>3. Goal
    BY <1>h, <2>1, <2>2, UntouchedKeeps
  <2> QED BY <1>t, <2>3 DEF ChanInv
<1> QED
  BY <1>t, <1>1, <1>2, <1>3, <1>4, <1>5, <1>6, <1>7, <1>8, <1>9, <1>10, <1>11
     DEF ChanNext, ChanInv

\* The invariant every theorem below is drawn from.
LEMMA ChanInvAlways == ChanSpec => []ChanInv
  BY ChanInvInit, ChanInvStep, PTL DEF ChanSpec

(* ExactlyOncePerSender for every number of threads, channels, messages:   *)
(* no interleaving of sends, receives, timeouts, clones and drops loses,   *)
(* repeats or reorders a message of one sender.                            *)
THEOREM ExactlyOnce == ChanSpec => []ExactlyOncePerSender
<1>1. ChanInv => ExactlyOncePerSender
  <2> SUFFICES ASSUME ChanInv PROVE InOrder /\ NothingLost
    BY DEF ExactlyOncePerSender
  <2>1. \A c \in Chan : ChanInvAt(c) /\ sent[c] \in [Thread -> Nat]
    BY DEF ChanInv, ChanTypeOK
  <2>2. InOrder
    BY <2>1 DEF InOrder, ChanInvAt, Sound, Ordered
  <2>3. ASSUME NEW c \in Chan, NEW t \in Thread, open[c]
        PROVE  NumbersOf(Stream(c), t) = 1 .. sent[c][t]
    <3>1. \A n \in NumbersOf(Stream(c), t) : n \in 1 .. sent[c][t]
      BY <2>1 DEF ChanInvAt, Sound, Counted, NumbersOf
    <3>2. \A n \in 1 .. sent[c][t] : n \in NumbersOf(Stream(c), t)
      BY <2>1, <2>3 DEF ChanInvAt, Complete, NumbersOf
    <3> QED BY <3>1, <3>2
  <2>4. ASSUME NEW c \in Chan, NEW t \in Thread, NEW n \in NumbersOf(got[c], t)
        PROVE  1 .. n \subseteq NumbersOf(got[c], t)
    <3>1. got[c] \in Seq(Message) /\ buf[c] \in Seq(Message)
      BY DEF ChanInv, ChanTypeOK
    <3>2. HoleFree(got[c])
      BY <2>1, <3>1, StreamPrefix DEF ChanInvAt, Stream, Sound
    <3>3. PICK i \in DOMAIN got[c] : got[c][i].from = t /\ got[c][i].n = n
      BY DEF NumbersOf
    <3>4. n \in Nat /\ DOMAIN got[c] = 1 .. Len(got[c]) /\ Len(got[c]) \in Nat
      <4>1. got[c][i] \in Message
        BY <3>1, <3>3
      <4> QED BY <3>1, <3>3, <4>1 DEF Message
    <3>5. ASSUME NEW k \in 1 .. n PROVE k \in NumbersOf(got[c], t)
      <4>1. CASE k = n
        BY <4>1
      <4>2. CASE k # n
        <5>0. k \in 1 .. got[c][i].n - 1
          BY <3>3, <3>4, <4>2
        <5>1. PICK j \in 1 .. i - 1 :
                 got[c][j].from = got[c][i].from /\ got[c][j].n = k
          BY <3>2, <3>3, <5>0 DEF HoleFree
        <5> QED BY <3>3, <3>4, <5>1 DEF NumbersOf
      <4> QED BY <4>1, <4>2
    <3> QED BY <3>5
  <2> QED BY <2>2, <2>3, <2>4 DEF NothingLost
<1> QED BY <1>1, ChanInvAlways, PTL

(* The answer that the senders are gone is final.                          *)
THEOREM EndIsFinal == ChanSpec => NothingAfterEnd
<1>1. ASSUME ChanInv, [ChanNext]_chanVars, NEW c \in Chan,
             outcome[c] \in Ended, got'[c] # got[c]
      PROVE  FALSE
  <2>1. /\ buf[c] = <<>> /\ hold[c] = {} /\ ChanTypeOK
        /\ \A t \in Thread : op[t] # Idle => t \in hold[op[t].to]
    BY <1>1 DEF ChanInv, ChanInvAt, SenderHeld
  <2>2. ASSUME NEW t \in Thread, NEW x \in Chan, NEW d \in Data, HandOver(t, x, d)
        PROVE  FALSE
    <3>1. x = c
      BY <1>1, <2>1, <2>2 DEF HandOver, ChanTypeOK
    <3>2. op[t] = Idle => t \in hold[c]
      BY <2>2, <3>1 DEF HandOver, Sending, Idle
    <3>3. op[t] # Idle => op[t].to = c
      BY <2>2, <3>1 DEF HandOver, Sending
    <3> QED BY <2>1, <3>2, <3>3
  <2>3. ASSUME NEW x \in Chan, Recv(x) \/ RecvTimeout(x) \/ TryRecv(x)
        PROVE  FALSE
    BY <1>1, <2>1, <2>3
       DEF Recv, RecvTimeout, TryRecv, TakeOldest, FindsEnd, FindsNothing, ChanTypeOK
  <2>4. UNCHANGED got
    BY <1>1, <2>2, <2>3, ZenonT(60)
       DEF ChanNext, chanVars, SendOk, Enqueue, SendError, DropSender,
           CloneSender, CallSend, TrySend, TrySendRefused, CallRecv, DropReceiver
  <2> QED BY <1>1, <2>4
<1>2. ChanInv /\ [ChanNext]_chanVars
        => [\A c \in Chan : outcome[c] \in Ended => got'[c] = got[c]]_chanVars
  BY <1>1
<1> QED BY <1>2, ChanInvAlways, PTL DEF ChanSpec, NothingAfterEnd

(* The answer that the receiver is gone is final.                          *)
THEOREM GoneIsFinal == ChanSpec => NothingAcceptedAfterGone
<1>1. ASSUME ChanInv, [ChanNext]_chanVars, NEW c \in Chan, NEW u \in Thread,
             reply[c][u] \in Gone
      PROVE  sent'[c] = sent[c]
  <2>1. ~open[c] /\ ChanTypeOK
    BY <1>1 DEF ChanInv, ChanInvAt
  <2>2. ASSUME NEW t \in Thread, NEW x \in Chan, NEW d \in Data, Enqueue(t, x, d)
        PROVE  sent'[c] = sent[c]
    BY <2>1, <2>2 DEF Enqueue, ChanTypeOK
  <2>3. ASSUME NEW t \in Thread, SendOk(t) PROVE sent'[c] = sent[c]
    BY <2>1, <2>2, <2>3, CallType DEF SendOk
  <2>4. ASSUME NEW t \in Thread, NEW x \in Chan, NEW d \in Data, HandOver(t, x, d)
        PROVE  sent'[c] = sent[c]
    BY <2>1, <2>4 DEF HandOver, ChanTypeOK
  <2> QED
    BY <1>1, <2>2, <2>3, <2>4
       DEF ChanNext, chanVars, SendError, DropSender, CloneSender, CallSend,
           TrySend, TrySendRefused, CallRecv, Recv, RecvTimeout, TryRecv, DropReceiver
<1>2. ChanInv /\ [ChanNext]_chanVars
        => [\A c \in Chan : (\E t \in Thread : reply[c][t] \in Gone)
                              => sent'[c] = sent[c]]_chanVars
  BY <1>1
<1> QED BY <1>2, ChanInvAlways, PTL DEF ChanSpec, NothingAcceptedAfterGone
-----------------------------------------------------------------------------
(* Channel implements ChannelContract: initial states map to initial       *)
(* states, every step to a step of each channel's contract or to a stutter *)
(* of it.                                                                  *)
Pending(c) == {buf[c][i] : i \in DOMAIN buf[c]}

ContractStep(c) == [Contract(c)!Next]_(Contract(c)!contractVars)

(* A queue as long as the capacity allows has a place for each message.    *)
LEMMA QueueFits ==
  ASSUME NEW s \in Seq(Message), NEW size \in Nat, Len(s) <= size, s # <<>>
  PROVE  LET S == {s[i] : i \in DOMAIN s}
         IN  \E place \in [1 .. size -> S] :
               \A m \in S : \E i \in 1 .. size : place[i] = m
<1> DEFINE S == {s[i] : i \in DOMAIN s}
           place == [i \in 1 .. size |-> IF i <= Len(s) THEN s[i] ELSE s[1]]
<1>1. DOMAIN s = 1 .. Len(s) /\ Len(s) \in Nat /\ 1 <= Len(s)
  OBVIOUS
<1>2. place \in [1 .. size -> S]
  BY <1>1
<1>3. ASSUME NEW m \in S PROVE \E i \in 1 .. size : place[i] = m
  <2>1. PICK i \in 1 .. Len(s) : m = s[i]
    BY <1>1
  <2> QED BY <1>1, <2>1
<1> HIDE DEF place, S
<1>4. \E f \in [1 .. size -> S] : \A m \in S : \E i \in 1 .. size : f[i] = m
  BY <1>2, <1>3
<1> QED BY <1>4 DEF S

\* A channel no step touches stutters in its contract.
LEMMA ContractUntouched ==
  ASSUME NEW c \in Chan, Untouched(c)
  PROVE  ContractStep(c)
  BY DEF Untouched, ContractStep, Contract!contractVars

\* Putting in a buffer is the contract's Accept.
LEMMA AcceptStep ==
  ASSUME ChanInv, ChanInv', NEW t \in Thread, NEW c \in Chan, NEW d \in Data,
         Enqueue(t, c, d), t \in hold[c]
  PROVE  Contract(c)!Accept(t, d)
<1> DEFINE m == Numbered(t, c, d)
<1>1. /\ ChanTypeOK /\ buf[c] \in Seq(Message) /\ cap[c] \in Nat \cup {Unbounded}
      /\ sent[c] \in [Thread -> Nat] /\ buf'[c] \in Seq(Message)
  BY ChannelAssumption DEF ChanInv, ChanTypeOK
<1>2. m \in Message
  BY <1>1 DEF Numbered, Message
<1>3. /\ buf'[c] = Append(buf[c], m) /\ sent'[c] = [sent[c] EXCEPT ![t] = @ + 1]
      /\ open[c] /\ UNCHANGED <<cap, open, hold, got, outcome>>
  BY <1>1 DEF Enqueue, ChanTypeOK
<1>4. m = [from |-> t, n |-> sent'[c][t], data |-> d]
  BY <1>1, <1>3 DEF Numbered
<1> HIDE DEF m
<1>5. Pending(c)' = Pending(c) \cup {m}
  <2>1. /\ DOMAIN buf'[c] = 1 .. Len(buf[c]) + 1 /\ DOMAIN buf[c] = 1 .. Len(buf[c])
        /\ Len(buf[c]) \in Nat /\ buf'[c][Len(buf[c]) + 1] = m
        /\ \A i \in 1 .. Len(buf[c]) : buf'[c][i] = buf[c][i]
    BY <1>1, <1>2, <1>3
  <2> QED BY <2>1 DEF Pending
<1>6. Contract(c)!Fits(Pending(c)')
  <2>1. CASE cap[c] = Unbounded
    BY <2>1 DEF Contract!Fits
  <2>2. CASE cap[c] # Unbounded
    <3>1. Len(buf'[c]) <= cap[c] /\ buf'[c] # <<>>
      <4>1. ChanInvAt(c)'
        BY DEF ChanInv
      <4>2. Len(buf'[c]) <= cap[c]
        BY <1>3, <2>2, <4>1 DEF ChanInvAt
      <4>3. Len(buf'[c]) = Len(buf[c]) + 1 /\ Len(buf[c]) \in Nat
        BY <1>1, <1>2, <1>3
      <4> QED BY <1>1, <4>2, <4>3
    <3> QED BY <1>1, <2>2, <3>1, QueueFits DEF Contract!Fits, Pending
  <2> QED BY <2>1, <2>2
<1> QED
  BY <1>3, <1>4, <1>5, <1>6 DEF Contract!Accept, Pending

\* Where the elements of a second sequence are once it follows a first.
LEMMA SecondHalf ==
  ASSUME NEW p \in Seq(Message), NEW q \in Seq(Message), NEW i \in 1 .. Len(q)
  PROVE  Len(p) + i \in DOMAIN (p \o q) /\ (p \o q)[Len(p) + i] = q[i]
  OBVIOUS

\* Taking the oldest is the contract's Deliver.
LEMMA DeliverHolds ==
  ASSUME ChanInv, NEW c \in Chan, open[c], TakeOldest(c),
         UNCHANGED <<cap, open, hold, sent>>
  PROVE  Contract(c)!Next
<1> DEFINE Len0 == Len(buf[c])
<1>0. PICK m : m = Head(buf[c])
  OBVIOUS
<1>1. /\ ChanTypeOK /\ buf[c] \in Seq(Message) /\ got[c] \in Seq(Message)
      /\ Sound(Stream(c), sent[c])
  BY DEF ChanInv, ChanInvAt, ChanTypeOK
<1>2. /\ buf[c] # <<>> /\ buf'[c] = Tail(buf[c])
      /\ got'[c] = Append(got[c], m) /\ outcome'[c] = "Ok"
  BY <1>0, <1>1 DEF TakeOldest, Returns, ChanTypeOK
<1>3. /\ DOMAIN buf[c] = 1 .. Len0 /\ Len0 \in Nat \ {0} /\ m = buf[c][1]
      /\ DOMAIN buf'[c] = 1 .. Len0 - 1
      /\ \A i \in 1 .. Len0 - 1 : buf'[c][i] = buf[c][i + 1]
  BY <1>0, <1>1, <1>2
<1>4. \A i, j \in 1 .. Len0 :
        i < j /\ buf[c][i].from = buf[c][j].from => buf[c][i].n < buf[c][j].n
  <2>1. SUFFICES ASSUME NEW i \in 1 .. Len0, NEW j \in 1 .. Len0,
                        i < j, buf[c][i].from = buf[c][j].from
                 PROVE  buf[c][i].n < buf[c][j].n
    OBVIOUS
  <2>2. /\ Len(got[c]) + i \in DOMAIN Stream(c) /\ Len(got[c]) + j \in DOMAIN Stream(c)
        /\ Stream(c)[Len(got[c]) + i] = buf[c][i]
        /\ Stream(c)[Len(got[c]) + j] = buf[c][j]
        /\ Len(got[c]) + i < Len(got[c]) + j
    <3>1. Len(got[c]) \in Nat /\ i \in Nat /\ j \in Nat
      BY <1>1, <1>3, <2>1
    <3>2. ASSUME NEW k \in 1 .. Len(buf[c])
          PROVE  /\ Len(got[c]) + k \in DOMAIN Stream(c)
                 /\ Stream(c)[Len(got[c]) + k] = buf[c][k]
      BY <1>1, SecondHalf DEF Stream
    <3> QED BY <2>1, <3>1, <3>2
  <2> QED BY <1>1, <2>1, <2>2 DEF Sound, Ordered
<1>5. \A i \in 1 .. Len0 : buf[c][i].n \in Nat
  <2>1. \A i \in 1 .. Len0 : buf[c][i] \in Message
    BY <1>1, <1>3
  <2> QED BY <2>1 DEF Message
<1> HIDE DEF Len0
<1>6. m \in Pending(c) /\ \A k \in Pending(c) : k.from = m.from => m.n <= k.n
  <2>1. m \in Pending(c)
    BY <1>3 DEF Pending
  <2>2. ASSUME NEW k \in Pending(c), k.from = m.from PROVE m.n <= k.n
    <3>1. PICK i \in 1 .. Len0 : k = buf[c][i]
      BY <1>3 DEF Pending
    <3>2. 1 \in 1 .. Len0 /\ (i = 1 \/ 1 < i)
      BY <1>3
    <3> QED BY <1>3, <1>4, <1>5, <2>2, <3>1, <3>2
  <2> QED BY <2>1, <2>2
<1>7. Pending(c)' = Pending(c) \ {m}
  <2>1. ASSUME NEW k \in Pending(c)' PROVE k \in Pending(c) \ {m}
    <3>0. PICK i \in 1 .. Len0 - 1 : k = buf'[c][i]
      BY <1>3 DEF Pending
    <3>1. /\ i + 1 \in 1 .. Len0 /\ 1 \in 1 .. Len0 /\ 1 < i + 1
          /\ buf'[c][i] = buf[c][i + 1]
      BY <1>3
    <3>2. buf[c][i + 1].from = buf[c][1].from => buf[c][1].n < buf[c][i + 1].n
      BY <1>4, <3>1
    <3>3. buf[c][i + 1] # buf[c][1]
      BY <1>5, <3>1, <3>2
    <3> QED BY <1>3, <3>0, <3>1, <3>3 DEF Pending
  <2>2. ASSUME NEW k \in Pending(c) \ {m} PROVE k \in Pending(c)'
    <3>1. PICK i \in 1 .. Len0 : k = buf[c][i] /\ i # 1
      BY <1>3 DEF Pending
    <3>2. i - 1 \in 1 .. Len0 - 1 /\ buf'[c][i - 1] = k
      BY <1>3, <3>1
    <3> QED BY <1>3, <3>2 DEF Pending
  <2> QED BY <2>1, <2>2
<1>8. Contract(c)!Deliver(m)
  BY <1>2, <1>6, <1>7 DEF Contract!Deliver, Pending
<1>9. \E k \in Pending(c) : Contract(c)!Deliver(k)
  BY <1>6, <1>8
<1> QED BY <1>9 DEF Contract!Next, Pending

\* A receive that returns no message is the contract's ReportNothing.
LEMMA NothingStep ==
  ASSUME ChanInv, NEW c \in Chan, open[c],
         \/ \E r \in Ended : FindsEnd(c, r)
         \/ \E r \in {"Empty", "Timeout"} : FindsNothing(c, r),
         UNCHANGED <<cap, open, hold, sent>>
  PROVE  Contract(c)!ReportNothing
<1>1. ChanTypeOK
  BY DEF ChanInv
<1>2. /\ buf[c] = <<>> /\ UNCHANGED <<buf, got>>
      /\ \/ hold[c] # {} /\ outcome'[c] \in {"Empty", "Timeout"}
         \/ hold[c] = {} /\ outcome'[c] \in {"RecvError", "Disconnected"}
  BY <1>1 DEF FindsEnd, FindsNothing, Returns, Ended, ChanTypeOK
<1>3. Pending(c) = {}
  BY <1>2 DEF Pending
<1>4. Pending(c)' = Pending(c)
  BY <1>2 DEF Pending
<1> QED BY <1>2, <1>3, <1>4 DEF Contract!ReportNothing, Pending

\* A rendezvous is the contract's Pass: accepted and delivered in one step.
LEMMA PassStep ==
  ASSUME ChanInv, NEW t \in Thread, NEW c \in Chan, NEW d \in Data,
         HandOver(t, c, d)
  PROVE  Contract(c)!Pass(t, d)
<1>1. ChanTypeOK /\ SenderHeld
  BY DEF ChanInv
<1>2. t \in hold[c]
  BY <1>1 DEF HandOver, SenderHeld, Sending, Idle
<1>3. sent[c] \in [Thread -> Nat] /\ sent'[c] = [sent[c] EXCEPT ![t] = @ + 1]
  BY <1>1 DEF HandOver, ChanTypeOK
<1>4. got'[c] = Append(got[c], [from |-> t, n |-> sent'[c][t], data |-> d])
  BY <1>1, <1>3 DEF HandOver, Numbered, ChanTypeOK
<1>5. outcome'[c] = "Ok" /\ open[c] /\ cap[c] = 0 /\ UNCHANGED <<cap, open, hold, buf>>
  BY <1>1 DEF HandOver, Returns, ChanTypeOK
<1>6. Pending(c)' = Pending(c)
  BY <1>5 DEF Pending
<1> QED BY <1>2, <1>3, <1>4, <1>5, <1>6 DEF Contract!Pass, Pending
-----------------------------------------------------------------------------
\* New channels are new contracts.
LEMMA ContractInit == ChanInit => \A c \in Chan : Contract(c)!Init
<1> SUFFICES ASSUME ChanInit, NEW c \in Chan PROVE Contract(c)!Init
  OBVIOUS
<1>1. Pending(c) = {}
  BY DEF ChanInit, Pending
<1>2. hold[c] \in {{t} : t \in Thread}
  BY DEF ChanInit
<1> QED BY <1>1, <1>2 DEF ChanInit, Contract!Init, Pending

\* Every step of the threads is a step of each contract, or a stutter.
LEMMA ContractNext ==
  ASSUME ChanInv, ChanInv', [ChanNext]_chanVars, NEW x \in Chan
  PROVE  ContractStep(x)
<1>t. ChanTypeOK /\ SenderHeld /\ \A c \in Chan : ChanInvAt(c)
  BY DEF ChanInv
<1>1. ASSUME NEW t \in Thread, SendOk(t) PROVE ContractStep(x)
  <2> DEFINE c == op[t].to
             d == op[t].data
  <2>1. c \in Chan /\ d \in Data /\ t \in hold[c] /\ Enqueue(t, c, d)
    BY <1>1, <1>t, CallType DEF SendOk, SenderHeld
  <2> HIDE DEF c, d
  <2>2. CASE x = c
    <3>1. PICK e \in Data : Enqueue(t, x, e)
      BY <2>1, <2>2
    <3>2. Contract(x)!Accept(t, e)
      BY <2>1, <2>2, <3>1, AcceptStep
    <3> QED BY <3>2 DEF ContractStep, Contract!Next
  <2>3. CASE x # c
    <3>1. Untouched(x)
      BY <1>t, <2>1, <2>3 DEF Enqueue, Answer, Untouched, ChanTypeOK
    <3> QED BY <3>1, ContractUntouched
  <2> QED BY <2>2, <2>3
<1>2. ASSUME NEW t \in Thread, SendError(t) PROVE ContractStep(x)
  BY <1>2 DEF SendError, ContractStep, Contract!contractVars
<1>3. ASSUME NEW t \in Thread, NEW c \in Chan, DropSender(t, c)
      PROVE  ContractStep(x)
  <2>1. CASE x = c
    <3>1. hold'[x] = hold[x] \ {t}
      BY <1>3, <1>t, <2>1 DEF DropSender, ChanTypeOK
    <3>2. Contract(x)!Leave(t)
      BY <1>3, <3>1 DEF DropSender, Contract!Leave
    <3> QED BY <3>2 DEF ContractStep, Contract!Next
  <2>2. CASE x # c
    <3>1. Untouched(x)
      BY <1>3, <1>t, <2>2 DEF DropSender, Untouched, ChanTypeOK
    <3> QED BY <3>1, ContractUntouched
  <2> QED BY <2>1, <2>2
<1>4. ASSUME NEW t \in Thread, NEW u \in Thread, NEW c \in Chan,
             CloneSender(t, u, c)
      PROVE  ContractStep(x)
  <2>1. CASE x = c
    <3>1. t \in hold[x] /\ hold'[x] = hold[x] \cup {u}
      BY <1>4, <1>t, <2>1 DEF CloneSender, ChanTypeOK
    <3>2. Contract(x)!Join(t, u)
      BY <1>4, <3>1 DEF CloneSender, Contract!Join
    <3> QED BY <3>2 DEF ContractStep, Contract!Next
  <2>2. CASE x # c
    <3>1. Untouched(x)
      BY <1>4, <1>t, <2>2 DEF CloneSender, Untouched, ChanTypeOK
    <3> QED BY <3>1, ContractUntouched
  <2> QED BY <2>1, <2>2
<1>5. ASSUME NEW t \in Thread, NEW c \in Chan, NEW d \in Data,
             CallSend(t, c, d)
      PROVE  ContractStep(x)
  BY <1>5 DEF CallSend, ContractStep, Contract!contractVars
<1>6. ASSUME NEW t \in Thread, NEW c \in Chan, NEW d \in Data,
             TrySend(t, c, d)
      PROVE  ContractStep(x)
  <2>1. CASE TrySendRefused(t, c)
    BY <2>1 DEF TrySendRefused, ContractStep, Contract!contractVars
  <2>2. CASE Enqueue(t, c, d) /\ x = c
    <3>1. Contract(x)!Accept(t, d)
      BY <1>6, <2>2, AcceptStep DEF TrySend
    <3> QED BY <3>1 DEF ContractStep, Contract!Next
  <2>3. CASE Enqueue(t, c, d) /\ x # c
    <3>1. Untouched(x)
      BY <1>t, <2>3 DEF Enqueue, Answer, Untouched, ChanTypeOK
    <3> QED BY <3>1, ContractUntouched
  <2> QED BY <1>6, <2>1, <2>2, <2>3 DEF TrySend
<1>7. ASSUME NEW t \in Thread, NEW c \in Chan, NEW d \in Data,
             HandOver(t, c, d)
      PROVE  ContractStep(x)
  <2>1. CASE x = c
    <3>1. Contract(x)!Pass(t, d)
      BY <1>7, <2>1, PassStep
    <3> QED BY <3>1 DEF ContractStep, Contract!Next
  <2>2. CASE x # c
    <3>1. Untouched(x)
      BY <1>7, <1>t, <2>2 DEF HandOver, Answer, Returns, Untouched, ChanTypeOK
    <3> QED BY <3>1, ContractUntouched
  <2> QED BY <2>1, <2>2
<1>8. ASSUME NEW c \in Chan, NEW kind \in {"recv", "recv_timeout"},
             CallRecv(c, kind)
      PROVE  ContractStep(x)
  BY <1>8 DEF CallRecv, ContractStep, Contract!contractVars
<1>9. ASSUME NEW c \in Chan, Recv(c) \/ RecvTimeout(c) \/ TryRecv(c)
      PROVE  ContractStep(x)
  <2>1. open[c] /\ UNCHANGED <<cap, open, hold, sent, reply>>
    BY <1>9, <1>t DEF Recv, RecvTimeout, TryRecv, ChanInvAt
  <2>2. CASE x = c /\ TakeOldest(c)
    <3>1. Contract(x)!Next
      BY <2>1, <2>2, DeliverHolds
    <3> QED BY <3>1 DEF ContractStep
  <2>3. CASE x = c /\ ~TakeOldest(c)
    <3>1. \/ \E r \in Ended : FindsEnd(c, r)
          \/ \E r \in {"Empty", "Timeout"} : FindsNothing(c, r)
      BY <1>9, <2>3 DEF Recv, RecvTimeout, TryRecv, Ended
    <3>2. Contract(x)!ReportNothing
      BY <2>1, <2>3, <3>1, NothingStep
    <3> QED BY <3>2 DEF ContractStep, Contract!Next
  <2>4. CASE x # c
    BY <1>9, <1>t, <2>1, <2>4
       DEF Recv, RecvTimeout, TryRecv, TakeOldest, FindsEnd, FindsNothing,
           Returns, ChanTypeOK, ContractStep, Contract!contractVars
  <2> QED BY <2>2, <2>3, <2>4
<1>10. ASSUME NEW c \in Chan, DropReceiver(c) PROVE ContractStep(x)
  <2>1. CASE x = c
    <3>1. open[x] /\ open'[x] = FALSE /\ buf'[x] = <<>>
      BY <1>10, <1>t, <2>1 DEF DropReceiver, ChanTypeOK
    <3>2. Pending(x)' = {}
      BY <3>1 DEF Pending
    <3>3. Contract(x)!Close
      BY <1>10, <3>1, <3>2 DEF DropReceiver, Contract!Close, Pending
    <3> QED BY <3>3 DEF ContractStep, Contract!Next
  <2>2. CASE x # c
    <3>1. Untouched(x)
      BY <1>10, <1>t, <2>2 DEF DropReceiver, Untouched, ChanTypeOK
    <3> QED BY <3>1, ContractUntouched
  <2> QED BY <2>1, <2>2
<1>11. CASE UNCHANGED chanVars
  BY <1>11 DEF chanVars, ContractStep, Contract!contractVars
<1> QED
  BY <1>1, <1>2, <1>3, <1>4, <1>5, <1>6, <1>7, <1>8, <1>9, <1>10, <1>11
     DEF ChanNext

(* src/channel.rs implements its contract, whatever the capacity.          *)
THEOREM ChannelImplementsContract == ChanSpec => ContractHolds
<1>1. ChanInv /\ ChanInv' /\ [ChanNext]_chanVars
        => [\A c \in Chan : [Contract(c)!Next]_(Contract(c)!contractVars)]_chanVars
  BY ContractNext DEF ContractStep
<1> QED
  BY <1>1, ContractInit, ChanInvAlways, PTL DEF ChanSpec, ContractHolds
-----------------------------------------------------------------------------
\* The frame f, at position i of the calls of t, keeps what it borrowed.
FrameOK(t, i) ==
  /\ calls[t][i].via = cell[t][calls[t][i].kind]
  /\ calls[t][i].ticket <= begun[t]
  /\ \A j \in 1 .. i - 1 : /\ calls[t][j].ticket < calls[t][i].ticket
                           /\ calls[t][j].ticket \in calls[t][i].outer

\* The message m comes from a call that is no longer running.
MessageOK(c, m) ==
  /\ m.from \in Worker /\ m.data \in Call
  /\ m.data.via = c /\ m.data.kind = KindOf[c]
  /\ m.data.ticket <= begun[m.from]
  /\ \A j \in DOMAIN calls[m.from] :
       /\ calls[m.from][j].ticket # m.data.ticket
       /\ m.data.ticket > calls[m.from][j].ticket
            => calls[m.from][j].ticket \in m.data.outer

\* A cell holds a Logger or a Notifier, as its type says.
CellsTyped == \A t \in Worker, k \in Kind :
                cell[t][k] # Default => KindOf[cell[t][k]] = k

\* A thread inside of a send sends its innermost call with the borrowed cell.
SendsTop == \A t \in Thread : op[t] # Idle =>
              /\ t \in Worker /\ calls[t] # <<>>
              /\ op[t].to = cell[t][Top(t).kind] /\ op[t].data = Top(t)

Frames == \A t \in Worker : \A i \in DOMAIN calls[t] : FrameOK(t, i)
Messages == \A c \in Chan : \A i \in DOMAIN Stream(c) : MessageOK(c, Stream(c)[i])

MsgInv == /\ ChanInv /\ MsgTypeOK /\ CellsTyped /\ SendsTop
          /\ Frames /\ Messages /\ CallOrder
-----------------------------------------------------------------------------
(* Every step of logging and notifications is a step of the channels.      *)
LEMMA StepIsChanStep ==
  ASSUME MsgTypeOK, SendsTop, [Next]_vars
  PROVE  [ChanNext]_chanVars
<1> USE DEF Worker, Kind
<1>t. ChanTypeOK
  BY DEF MsgTypeOK
<1>1. ASSUME NEW t \in Worker, Emit(t) PROVE [ChanNext]_chanVars
  <2>1. calls[t] \in Seq(Call) /\ calls[t] # <<>>
    BY <1>1 DEF MsgTypeOK, Emit
  <2>2. Top(t) \in Data
    BY <2>1, MessagingAssumption DEF Top
  <2> QED BY <1>1, <2>2 DEF Emit, ChanNext
<1>2. ASSUME NEW t \in Worker, Return(t) PROVE [ChanNext]_chanVars
  <2>1. CASE SendOk(t) \/ SendError(t)
    BY <2>1 DEF ChanNext
  <2>2. CASE op[t] # Idle /\ HandOver(t, op[t].to, op[t].data)
    BY <1>t, <2>2, CallType DEF ChanNext
  <2> QED BY <1>2, <2>1, <2>2 DEF Return
<1>3. ASSUME NEW t \in Worker, NEW k \in Kind, NEW c \in Chan \cup {Default},
             Initialize(t, k, c)
      PROVE  [ChanNext]_chanVars
  <2>1. cell[t][k] \in Chan \cup {Default}
    BY DEF MsgTypeOK
  <2> QED BY <1>3, <2>1 DEF Initialize, Replace, ChanNext
<1>4. ASSUME NEW t \in Worker, NEW c \in Chan, Give(t, c) \/ Release(t, c)
      PROVE  [ChanNext]_chanVars
  BY <1>4, MessagingAssumption DEF Give, Release, ChanNext
<1>5. ASSUME NEW c \in Chan, AppRelease(c) \/ Abandon(c)
      PROVE  [ChanNext]_chanVars
  BY <1>5, MessagingAssumption DEF AppRelease, Abandon, ChanNext
<1>6. ASSUME NEW c \in Chan, Drain(c) \/ Receive(c) \/ DrainReturns(c)
      PROVE  [ChanNext]_chanVars
  BY <1>6 DEF Drain, Receive, DrainReturns, ChanNext
<1> QED
  BY <1>1, <1>2, <1>3, <1>4, <1>5, <1>6
     DEF Next, vars, Log, Notify, Begin, Exit, Panic, End, set_max_level

\* The invariant holds before any thread called anything.
LEMMA MsgInitInv == Init => MsgInv
<1> SUFFICES ASSUME Init PROVE MsgInv
  OBVIOUS
<1>1. ChanInv
  BY ChanInvInit DEF Init
<1>2. MsgTypeOK
  <2>1. Trace \in 0 .. Trace
    BY DEF Trace
  <2> QED BY <1>1, <2>1, MessagingAssumption DEF Init, MsgTypeOK, ChanInv
<1>3. \A c \in Chan : Stream(c) = <<>>
  BY DEF Init, ChanInit, Stream
<1>4. CellsTyped /\ Frames
  BY DEF Init, CellsTyped, Frames
<1>5. SendsTop
  BY DEF Init, ChanInit, SendsTop
<1>6. Messages /\ CallOrder
  BY <1>3 DEF Messages, CallOrder
<1> QED BY <1>1, <1>2, <1>4, <1>5, <1>6 DEF MsgInv
-----------------------------------------------------------------------------
(* The innermost call returns: the frames below it stay.                   *)
LEMMA PopShape ==
  ASSUME MsgTypeOK, NEW t \in Worker, calls[t] # <<>>, Pop(t)
  PROVE  /\ calls' \in [Worker -> Seq(Call)]
         /\ \A u \in Worker : \A j \in DOMAIN calls'[u] :
               j \in DOMAIN calls[u] /\ calls'[u][j] = calls[u][j]
         /\ \A j \in DOMAIN calls'[t] : j \in 1 .. Len(calls[t]) - 1
         /\ Len(calls[t]) \in DOMAIN calls[t] /\ Top(t) \in Call
<1>1. calls \in [Worker -> Seq(Call)]
  BY DEF MsgTypeOK
<1>2. calls' = [calls EXCEPT ![t] = SubSeq(calls[t], 1, Len(calls[t]) - 1)]
  BY DEF Pop
<1>3. /\ calls[t] \in Seq(Call) /\ Len(calls[t]) \in Nat \ {0}
      /\ DOMAIN calls[t] = 1 .. Len(calls[t])
  BY <1>1
<1> DEFINE s == SubSeq(calls[t], 1, Len(calls[t]) - 1)
<1>4. /\ s \in Seq(Call) /\ DOMAIN s = 1 .. Len(calls[t]) - 1
      /\ \A j \in DOMAIN s : s[j] = calls[t][j]
  BY <1>3
<1> HIDE DEF s
<1>5. calls'[t] = s /\ \A u \in Worker : u # t => calls'[u] = calls[u]
  BY <1>1, <1>2 DEF s
<1>6. calls' \in [Worker -> Seq(Call)]
  BY <1>1, <1>2, <1>4 DEF s
<1>7. Top(t) \in Call
  BY <1>3 DEF Top
<1> QED BY <1>3, <1>4, <1>5, <1>6, <1>7, SMTT(60)

\* What a call puts on its thread's stack: one more frame, with a fresh ticket.
LEMMA PushShape ==
  ASSUME MsgTypeOK, NEW t \in Worker, NEW k \in Kind, NEW l \in Level \cup Priority,
         begun[t] < MaxCalls, Push(t, k, l), Frames
  PROVE  LET f == [kind |-> k, level |-> l, ticket |-> begun[t] + 1,
                   outer |-> {calls[t][i].ticket : i \in DOMAIN calls[t]},
                   via |-> cell[t][k]]
         IN  f \in Call /\ calls' = [calls EXCEPT ![t] = Append(@, f)]
<1>1. /\ calls \in [Worker -> Seq(Call)] /\ begun[t] \in 0 .. MaxCalls
      /\ cell[t][k] \in Chan \cup {Default}
      /\ MaxCalls \in Nat
  BY MessagingAssumption DEF MsgTypeOK
<1>2. \A i \in DOMAIN calls[t] : calls[t][i].ticket \in 1 .. MaxCalls
  <2>1. \A i \in DOMAIN calls[t] : calls[t][i] \in Call
    BY <1>1
  <2> QED BY <2>1 DEF Call
<1>3. begun[t] + 1 \in 1 .. MaxCalls
  BY <1>1
<1>4. {calls[t][i].ticket : i \in DOMAIN calls[t]} \in SUBSET (1 .. MaxCalls)
  BY <1>2
<1> QED BY <1>1, <1>3, <1>4 DEF Push, Call

\* Every call, nested or not, keeps the types.
LEMMA MsgTypeStep ==
  ASSUME MsgTypeOK, SendsTop, Frames, [Next]_vars
  PROVE  MsgTypeOK'
<1> USE DEF MsgTypeOK
<1>c. ChanTypeOK'
  BY StepIsChanStep, ChanTypeStep
<1>k. "log" \in Kind /\ "note" \in Kind
  BY DEF Kind
<1>b. ASSUME NEW t \in Worker, Begin(t) PROVE begun' \in [Worker -> 0 .. MaxCalls]
  BY <1>b, MessagingAssumption DEF Begin
<1>a. ASSUME NEW t \in Worker, NEW k \in Kind, NEW l \in Level \cup Priority,
             Begin(t), Push(t, k, l)
      PROVE  MsgTypeOK'
  <2> DEFINE f == [kind |-> k, level |-> l, ticket |-> begun[t] + 1,
                   outer |-> {calls[t][i].ticket : i \in DOMAIN calls[t]},
                   via |-> cell[t][k]]
  <2>1. f \in Call /\ calls' = [calls EXCEPT ![t] = Append(@, f)]
    BY <1>a, PushShape DEF Begin
  <2> HIDE DEF f
  <2>2. calls' \in [Worker -> Seq(Call)]
    BY <2>1
  <2> QED BY <1>a, <1>b, <1>c, <2>2 DEF Begin
<1>1. ASSUME NEW t \in Worker, NEW l \in Level, Log(t, l) PROVE MsgTypeOK'
  BY <1>1, <1>a, <1>b, <1>c, <1>k DEF Log, Begin
<1>2. ASSUME NEW t \in Worker, NEW p \in Priority, Notify(t, p) PROVE MsgTypeOK'
  BY <1>2, <1>a, <1>k DEF Notify
<1>3. ASSUME NEW t \in Worker, Emit(t) PROVE MsgTypeOK'
  BY <1>3, <1>c, PopShape DEF Emit
<1>4. ASSUME NEW t \in Worker, Return(t) PROVE MsgTypeOK'
  <2>1. calls[t] # <<>>
    BY <1>4 DEF Return, SendOk, SendError, SendsTop, Worker
  <2> QED BY <1>4, <1>c, <2>1, PopShape DEF Return
<1>5. ASSUME NEW t \in Worker, End(t) PROVE MsgTypeOK'
  BY <1>5, <1>c DEF End
<1>6. ASSUME NEW t \in Worker, NEW k \in Kind, NEW c \in Chan \cup {Default},
             Initialize(t, k, c)
      PROVE  MsgTypeOK'
  BY <1>6, <1>c DEF Initialize, Replace
<1>7. ASSUME NEW l \in Limit, set_max_level(l) PROVE MsgTypeOK'
  BY <1>7, <1>c, MessagingAssumption DEF set_max_level
<1>8. ASSUME UNCHANGED msgVars PROVE MsgTypeOK'
  BY <1>8, <1>c DEF msgVars
<1> QED
  BY <1>1, <1>2, <1>3, <1>4, <1>5, <1>6, <1>7, <1>8
     DEF Next, vars, Exit, Panic, Give, Release, AppRelease, Abandon, Drain,
         Receive, DrainReturns
-----------------------------------------------------------------------------
(* A thread blocked in a send neither calls nor installs anything.         *)
LEMMA SendsTopKept ==
  ASSUME SendsTop,
         \A t \in Thread : \/ op'[t] = Idle
                           \/ /\ op'[t] = op[t]
                              /\ op[t] # Idle /\ t \in Worker
                                   => calls'[t] = calls[t] /\ cell'[t] = cell[t]
  PROVE  SendsTop'
  BY DEF SendsTop, Top

\* Only the innermost call of a thread sends.
LEMMA SendsTopStep ==
  ASSUME MsgTypeOK, SendsTop, [Next]_vars
  PROVE  SendsTop'
<1> USE DEF Worker
<1>t. /\ op \in [Thread -> Calls] /\ calls \in [Worker -> Seq(Call)]
      /\ cell \in [Worker -> [Kind -> Chan \cup {Default}]]
      /\ begun \in [Worker -> 0 .. MaxCalls]
  BY DEF MsgTypeOK, ChanTypeOK
<1>1. ASSUME NEW t \in Worker, Begin(t),
             \A u \in Worker : u # t => calls'[u] = calls[u]
      PROVE  SendsTop'
  BY <1>1, SendsTopKept DEF Begin, Runs, chanVars
<1>2. ASSUME NEW t \in Worker, NEW k \in Kind, NEW l, Push(t, k, l)
      PROVE  \A u \in Worker : u # t => calls'[u] = calls[u]
  BY <1>2, <1>t DEF Push
<1>3. ASSUME NEW t \in Worker, NEW l \in Level, Log(t, l) PROVE SendsTop'
  BY <1>1, <1>2, <1>3 DEF Log, Kind
<1>4. ASSUME NEW t \in Worker, NEW p \in Priority, Notify(t, p) PROVE SendsTop'
  BY <1>1, <1>2, <1>4 DEF Notify, Kind
<1>5. ASSUME NEW t \in Worker, Emit(t) PROVE SendsTop'
  <2>1. CASE Pop(t) /\ UNCHANGED chanVars
    <3>1. \A u \in Worker : u # t => calls'[u] = calls[u]
      BY <1>t, <2>1 DEF Pop
    <3> QED BY <1>5, <2>1, <3>1, SendsTopKept DEF Emit, Runs, chanVars
  <2>2. ASSUME NEW c \in Chan, c = cell[t][Top(t).kind],
               CallSend(t, c, Top(t)), UNCHANGED calls
        PROVE  SendsTop'
    <3>1. op'[t] = Sending(c, Top(t)) /\ \A u \in Thread : u # t => op'[u] = op[u]
      BY <1>t, <2>2 DEF CallSend
    <3> QED BY <1>5, <2>2, <3>1 DEF Emit, SendsTop, Sending, Top
  <2> QED BY <1>5, <2>1, <2>2 DEF Emit
<1>6. ASSUME NEW t \in Worker, Return(t) PROVE SendsTop'
  <2>1. op'[t] = Idle /\ \A u \in Thread : u # t => op'[u] = op[u]
    BY <1>6, <1>t DEF Return, SendOk, SendError, HandOver
  <2>2. \A u \in Worker : u # t => calls'[u] = calls[u]
    BY <1>6, <1>t DEF Return, Pop
  <2> QED BY <1>6, <2>1, <2>2, SendsTopKept DEF Return
<1>7. ASSUME NEW t \in Worker, Runs(t), End(t) PROVE SendsTop'
  BY <1>7, <1>t, SendsTopKept DEF End, Runs, chanVars
<1>8. ASSUME NEW t \in Worker, NEW k \in Kind, NEW c \in Chan \cup {Default},
             Initialize(t, k, c)
      PROVE  SendsTop'
  <2>1. UNCHANGED <<op, calls>> /\ \A u \in Worker : u # t => cell'[u] = cell[u]
    BY <1>8, <1>t DEF Initialize, Replace, DropSender, chanVars
  <2> QED BY <1>8, <2>1, SendsTopKept DEF Initialize, Runs
<1>9. ASSUME UNCHANGED <<op, calls, cell>> PROVE SendsTop'
  BY <1>9, SendsTopKept
<1> QED
  BY <1>3, <1>4, <1>5, <1>6, <1>7, <1>8, <1>9
     DEF Next, vars, chanVars, msgVars, Exit, Panic, Give, CloneSender, Release,
         DropSender, AppRelease, Abandon, DropReceiver, Drain, CallRecv, Receive,
         Recv, DrainReturns, set_max_level

(* A Logger only goes into the logger cell, a Notifier into the other.     *)
LEMMA CellsStep ==
  ASSUME MsgTypeOK, CellsTyped, [Next]_vars
  PROVE  CellsTyped'
<1>t. cell \in [Worker -> [Kind -> Chan \cup {Default}]]
  BY DEF MsgTypeOK
<1>1. ASSUME NEW t \in Worker, NEW k \in Kind, NEW c \in Chan \cup {Default},
             Initialize(t, k, c)
      PROVE  CellsTyped'
  BY <1>1, <1>t DEF Initialize, Replace, CellsTyped
<1>2. ASSUME NEW t \in Worker, End(t) PROVE CellsTyped'
  BY <1>2, <1>t DEF End, CellsTyped
<1>3. ASSUME UNCHANGED cell PROVE CellsTyped'
  BY <1>3 DEF CellsTyped
<1> QED
  BY <1>1, <1>2, <1>3
     DEF Next, vars, msgVars, Log, Notify, Begin, Emit, Return, Exit, Panic, Give,
         Release, AppRelease, Abandon, Drain, Receive, DrainReturns, set_max_level
-----------------------------------------------------------------------------
(* Frames that stay on a stack keep what they borrowed.                    *)
LEMMA FramesKept ==
  ASSUME MsgTypeOK, MsgTypeOK', Frames, NEW t \in Worker,
         begun'[t] >= begun[t],
         \A i \in DOMAIN calls'[t] :
            /\ i \in DOMAIN calls[t] /\ calls'[t][i] = calls[t][i]
            /\ cell'[t][calls[t][i].kind] = cell[t][calls[t][i].kind]
  PROVE  \A i \in DOMAIN calls'[t] : FrameOK(t, i)'
<1>1. /\ calls[t] \in Seq(Call) /\ calls'[t] \in Seq(Call)
      /\ begun[t] \in Nat /\ begun'[t] \in Nat
  BY MessagingAssumption DEF MsgTypeOK
<1> SUFFICES ASSUME NEW i \in DOMAIN calls'[t]
             PROVE  FrameOK(t, i)'
  OBVIOUS
<1>2. /\ FrameOK(t, i) /\ calls[t][i] \in Call /\ calls'[t][i] = calls[t][i]
      /\ i \in Nat
  BY <1>1 DEF Frames
<1>3. calls[t][i].ticket \in Nat
  BY <1>2 DEF Call
<1>4. \A j \in 1 .. i - 1 : j \in DOMAIN calls'[t] /\ calls'[t][j] = calls[t][j]
  BY <1>1, <1>2
<1>5. /\ calls'[t][i].via = cell'[t][calls'[t][i].kind]
      /\ calls'[t][i].ticket <= begun'[t]
  BY <1>1, <1>2, <1>3 DEF FrameOK
<1> QED BY <1>2, <1>4, <1>5 DEF FrameOK

\* Calls are begun, and never unbegun.
LEMMA BegunGrows ==
  MsgTypeOK /\ [Next]_vars => \A t \in Worker : begun'[t] >= begun[t]
<1> SUFFICES ASSUME MsgTypeOK, [Next]_vars, NEW u \in Worker
             PROVE  begun'[u] >= begun[u]
  OBVIOUS
<1>1. begun \in [Worker -> 0 .. MaxCalls] /\ begun[u] \in Nat
  BY MessagingAssumption DEF MsgTypeOK
<1>2. ASSUME NEW t \in Worker, Begin(t) PROVE begun'[u] >= begun[u]
  <2>1. begun'[u] = IF u = t THEN begun[u] + 1 ELSE begun[u]
    BY <1>1, <1>2 DEF Begin
  <2> QED BY <1>1, <2>1
<1>3. CASE UNCHANGED begun
  BY <1>1, <1>3
<1> QED
  BY <1>2, <1>3
     DEF Next, vars, msgVars, Log, Notify, Emit, Return, Exit, Panic, End,
         Initialize, Give, Release, AppRelease, Abandon, Drain, Receive,
         DrainReturns, set_max_level

\* What each frame remembers of the calls outside of it stays so.
LEMMA FramesStep ==
  ASSUME MsgTypeOK, MsgTypeOK', SendsTop, Frames, [Next]_vars
  PROVE  Frames'
<1> USE DEF Worker
<1>t. /\ calls \in [Worker -> Seq(Call)] /\ begun \in [Worker -> 0 .. MaxCalls]
      /\ cell \in [Worker -> [Kind -> Chan \cup {Default}]]
      /\ MaxCalls \in Nat
  BY MessagingAssumption DEF MsgTypeOK
<1>k. \A t \in Worker : \A i \in DOMAIN calls[t] :
        calls[t][i] \in Call /\ calls[t][i].kind \in Kind
  <2>1. \A t \in Worker : \A i \in DOMAIN calls[t] : calls[t][i] \in Call
    BY <1>t
  <2> QED BY <2>1 DEF Call
<1>q. ASSUME \A u \in Worker : \A i \in DOMAIN calls'[u] :
               /\ i \in DOMAIN calls[u] /\ calls'[u][i] = calls[u][i]
               /\ cell'[u][calls[u][i].kind] = cell[u][calls[u][i].kind]
      PROVE  Frames'
  <2>1. \A u \in Worker : begun'[u] >= begun[u]
    BY BegunGrows
  <2>2. ASSUME NEW u \in Worker PROVE \A i \in DOMAIN calls'[u] : FrameOK(u, i)'
    BY <1>q, <2>1, FramesKept
  <2> QED BY <2>2 DEF Frames
<1>0. ASSUME UNCHANGED calls, UNCHANGED cell PROVE Frames'
  BY <1>0, <1>q
<1>1. ASSUME NEW t \in Worker, NEW k \in Kind, NEW l \in Level \cup Priority,
             Begin(t), Push(t, k, l)
      PROVE  Frames'
  <2> DEFINE f == [kind |-> k, level |-> l, ticket |-> begun[t] + 1,
                   outer |-> {calls[t][i].ticket : i \in DOMAIN calls[t]},
                   via |-> cell[t][k]]
  <2>1. f \in Call /\ calls' = [calls EXCEPT ![t] = Append(@, f)]
    BY <1>1, PushShape DEF Begin
  <2>2. /\ UNCHANGED cell /\ begun'[t] = begun[t] + 1
        /\ \A u \in Worker : u # t => begun'[u] = begun[u]
    BY <1>1, <1>t DEF Begin
  <2>3. /\ f.kind = k /\ f.level = l /\ f.ticket = begun[t] + 1 /\ f.via = cell[t][k]
        /\ \A i \in DOMAIN calls[t] : calls[t][i].ticket \in f.outer
    OBVIOUS
  <2> HIDE DEF f
  <2>4. /\ calls'[t] = Append(calls[t], f) /\ calls[t] \in Seq(Call)
        /\ \A u \in Worker : u # t => calls'[u] = calls[u]
    BY <1>t, <2>1
  <2>n. PICK n \in Nat : n = Len(calls[t]) + 1
    BY <2>4
  <2>5. /\ DOMAIN calls[t] = 1 .. n - 1 /\ DOMAIN calls'[t] = 1 .. n /\ n \in Nat
        /\ calls'[t][n] = f /\ \A i \in 1 .. n - 1 : calls'[t][i] = calls[t][i]
    BY <2>1, <2>4, <2>n
  <2>6. FrameOK(t, n)'
    <3>1. \A j \in 1 .. n - 1 : /\ calls[t][j].ticket <= begun[t]
                                /\ calls[t][j].ticket \in Nat
      BY <1>k, <2>5 DEF Frames, FrameOK, Call
    <3>2. \A j \in 1 .. n - 1 : calls[t][j].ticket < begun[t] + 1
      BY <1>t, <3>1
    <3>3. \A j \in 1 .. n - 1 : calls'[t][j].ticket < calls'[t][n].ticket
      BY <2>3, <2>5, <3>2
    <3>4. \A j \in 1 .. n - 1 : calls'[t][j].ticket \in calls'[t][n].outer
      BY <2>3, <2>5
    <3>5. /\ calls'[t][n].via = cell'[t][calls'[t][n].kind]
          /\ calls'[t][n].ticket <= begun'[t]
      BY <1>1, <1>t, <2>2, <2>3, <2>5
    <3> QED BY <3>3, <3>4, <3>5 DEF FrameOK
  <2>7. ASSUME NEW i \in 1 .. n - 1 PROVE FrameOK(t, i)'
    <3>1. /\ FrameOK(t, i) /\ begun[t] + 1 >= begun[t] /\ i \in Nat
          /\ calls[t][i].ticket \in Nat
      BY <1>k, <1>t, <2>5, SMTT(60) DEF Frames, Call
    <3>2. \A j \in 1 .. i - 1 : j \in 1 .. n - 1
      BY <2>5
    <3>3. calls'[t][i].ticket <= begun'[t]
      BY <1>t, <2>2, <2>5, <3>1 DEF FrameOK
    <3> QED BY <2>2, <2>5, <3>1, <3>2, <3>3 DEF FrameOK
  <2>8. \A i \in DOMAIN calls'[t] : FrameOK(t, i)'
    BY <2>5, <2>6, <2>7
  <2>9. ASSUME NEW u \in Worker, u # t PROVE \A i \in DOMAIN calls'[u] : FrameOK(u, i)'
    BY <2>2, <2>4, <2>9 DEF Frames, FrameOK
  <2> QED BY <2>8, <2>9 DEF Frames
<1>2. ASSUME NEW t \in Worker, NEW l \in Level, Log(t, l) PROVE Frames'
  <2>1. CASE UNCHANGED calls
    BY <1>0, <1>2, <2>1 DEF Log, Begin
  <2>2. CASE l <= max_level /\ Push(t, "log", l)
    BY <1>1, <1>2, <2>2 DEF Log, Kind
  <2> QED BY <1>2, <2>1, <2>2 DEF Log
<1>3. ASSUME NEW t \in Worker, NEW p \in Priority, Notify(t, p) PROVE Frames'
  BY <1>1, <1>3 DEF Notify, Kind
<1>4. ASSUME NEW t \in Worker, calls[t] # <<>>, Pop(t), UNCHANGED cell
      PROVE  Frames'
  <2>1. \A u \in Worker : \A j \in DOMAIN calls'[u] :
               j \in DOMAIN calls[u] /\ calls'[u][j] = calls[u][j]
    BY <1>4, PopShape
  <2> QED BY <1>4, <1>q, <2>1
<1>5. ASSUME NEW t \in Worker, Emit(t) PROVE Frames'
  BY <1>0, <1>4, <1>5 DEF Emit
<1>6. ASSUME NEW t \in Worker, Return(t) PROVE Frames'
  <2>1. calls[t] # <<>>
    BY <1>6 DEF Return, SendOk, SendError, SendsTop
  <2> QED BY <1>4, <1>6, <2>1 DEF Return
<1>7. ASSUME NEW t \in Worker, End(t) PROVE Frames'
  <2>1. /\ calls'[t] = <<>> /\ \A u \in Worker : u # t => calls'[u] = calls[u]
        /\ \A u \in Worker : u # t => cell'[u] = cell[u]
    BY <1>7, <1>t DEF End
  <2> QED BY <1>q, <2>1
<1>8. ASSUME NEW t \in Worker, NEW k \in Kind, NEW c \in Chan \cup {Default},
             Initialize(t, k, c)
      PROVE  Frames'
  <2>1. /\ UNCHANGED calls /\ ~Borrowed(t, k)
        /\ cell' = [cell EXCEPT ![t][k] = c]
    BY <1>8 DEF Initialize, Replace
  <2>2. ASSUME NEW u \in Worker, NEW i \in DOMAIN calls[u]
        PROVE  cell'[u][calls[u][i].kind] = cell[u][calls[u][i].kind]
    BY <1>k, <1>t, <2>1 DEF Borrowed
  <2> QED BY <1>q, <2>1, <2>2
<1> QED
  BY <1>0, <1>2, <1>3, <1>5, <1>6, <1>7, <1>8
     DEF Next, vars, msgVars, Exit, Panic, Give, Release, AppRelease, Abandon,
         Drain, Receive, DrainReturns, set_max_level
-----------------------------------------------------------------------------
\* A stack loses frames, or gains the frame of the next call.
StacksMove == \A t \in Worker : \A j \in DOMAIN calls'[t] :
                \/ j \in DOMAIN calls[t] /\ calls'[t][j] = calls[t][j]
                \/ calls'[t][j].ticket = begun[t] + 1

\* A stream stays, or loses the messages a dropped Receiver had not received.
StreamsShrink == \A c \in Chan : \A i \in DOMAIN Stream(c)' :
                   i \in DOMAIN Stream(c) /\ Stream(c)'[i] = Stream(c)[i]

\* A step pushes or pops at most one frame, of one thread.
LEMMA StacksStep ==
  ASSUME MsgTypeOK, SendsTop, Frames, [Next]_vars
  PROVE  StacksMove
<1> USE DEF Worker
<1>t. calls \in [Worker -> Seq(Call)]
  BY DEF MsgTypeOK
<1>1. ASSUME NEW t \in Worker, NEW k \in Kind, NEW l \in Level \cup Priority,
             Begin(t), Push(t, k, l)
      PROVE  StacksMove
  <2>1. PICK f \in Call : /\ f.ticket = begun[t] + 1
                          /\ calls' = [calls EXCEPT ![t] = Append(@, f)]
    BY <1>1, PushShape DEF Begin
  <2>2. /\ calls'[t] = Append(calls[t], f) /\ calls[t] \in Seq(Call)
        /\ \A u \in Worker : u # t => calls'[u] = calls[u]
    BY <1>t, <2>1
  <2>3. \A j \in DOMAIN calls'[t] : \/ j \in DOMAIN calls[t] /\ calls'[t][j] = calls[t][j]
                                    \/ calls'[t][j] = f
    BY <2>1, <2>2
  <2> QED BY <2>1, <2>2, <2>3 DEF StacksMove
<1>2. ASSUME NEW t \in Worker, NEW l \in Level, Log(t, l) PROVE StacksMove
  BY <1>1, <1>2 DEF Log, Kind, StacksMove
<1>3. ASSUME NEW t \in Worker, NEW p \in Priority, Notify(t, p) PROVE StacksMove
  BY <1>1, <1>3 DEF Notify, Kind
<1>4. ASSUME NEW t \in Worker, Emit(t) PROVE StacksMove
  BY <1>4, PopShape DEF Emit, StacksMove
<1>5. ASSUME NEW t \in Worker, Return(t) PROVE StacksMove
  <2>1. calls[t] # <<>>
    BY <1>5 DEF Return, SendOk, SendError, SendsTop
  <2> QED BY <1>5, <2>1, PopShape DEF Return, StacksMove
<1>6. ASSUME NEW t \in Worker, End(t) PROVE StacksMove
  <2>1. calls'[t] = <<>> /\ \A u \in Worker : u # t => calls'[u] = calls[u]
    BY <1>6, <1>t DEF End
  <2> QED BY <2>1 DEF StacksMove
<1>7. ASSUME UNCHANGED calls PROVE StacksMove
  BY <1>7 DEF StacksMove
<1> QED
  BY <1>2, <1>3, <1>4, <1>5, <1>6, <1>7
     DEF Next, vars, msgVars, Exit, Panic, Initialize, Give, Release, AppRelease,
         Abandon, Drain, Receive, DrainReturns, set_max_level

(* What is true of a message stays true.                                   *)
LEMMA MessageKept ==
  ASSUME MsgTypeOK, SendsTop, Frames, [Next]_vars, NEW c \in Chan, NEW m,
         MessageOK(c, m)
  PROVE  MessageOK(c, m)'
<1>1. StacksMove /\ \A t \in Worker : begun'[t] >= begun[t]
  BY StacksStep, BegunGrows
<1>2. /\ m.from \in Worker /\ m.data \in Call /\ begun[m.from] \in Nat
      /\ begun'[m.from] \in Nat
  BY MsgTypeStep, MessagingAssumption DEF MessageOK, MsgTypeOK
<1>3. m.data.ticket \in Nat
  BY <1>2, MessagingAssumption DEF Call
<1>4. m.data.ticket <= begun'[m.from]
  BY <1>1, <1>2, <1>3 DEF MessageOK
<1>5. ASSUME NEW j \in DOMAIN calls'[m.from]
      PROVE  /\ calls'[m.from][j].ticket # m.data.ticket
             /\ m.data.ticket > calls'[m.from][j].ticket
                  => calls'[m.from][j].ticket \in m.data.outer
  <2>1. CASE j \in DOMAIN calls[m.from] /\ calls'[m.from][j] = calls[m.from][j]
    BY <2>1 DEF MessageOK
  <2>2. CASE calls'[m.from][j].ticket = begun[m.from] + 1
    BY <1>2, <1>3, <2>2 DEF MessageOK
  <2> QED BY <1>1, <1>2, <2>1, <2>2 DEF StacksMove
<1> QED BY <1>2, <1>4, <1>5 DEF MessageOK

(* The steps that put nothing into a channel.                              *)
LEMMA QuietStep ==
  ASSUME MsgInv, [Next]_vars, StreamsShrink
  PROVE  Messages' /\ CallOrder'
<1>1. /\ MsgTypeOK /\ SendsTop /\ Frames /\ Messages /\ CallOrder
  BY DEF MsgInv
<1>2. ASSUME NEW c \in Chan, NEW i \in DOMAIN Stream(c)'
      PROVE  MessageOK(c, Stream(c)[i])'
  <2>1. PICK m : m = Stream(c)[i]
    OBVIOUS
  <2>2. m = Stream(c)'[i] /\ MessageOK(c, m)
    BY <1>1, <2>1 DEF StreamsShrink, Messages
  <2>3. MessageOK(c, m)'
    BY <1>1, <2>2, MessageKept
  <2> QED BY <2>2, <2>3
<1>3. CallOrder'
  BY <1>1 DEF StreamsShrink, CallOrder
<1> QED BY <1>2, <1>3 DEF Messages

\* The send of d that t is inside of puts its message at the end of c.
Delivers(t, c, d) ==
  /\ op[t] # Idle /\ op[t].to = c /\ op[t].data = d
  /\ \A x \in Chan : x # c => Stream(x)' = Stream(x)
  /\ Stream(c)' = Append(Stream(c), Numbered(t, c, d))

\* A send that returns has given one message to one channel.
LEMMA DeliverStep ==
  ASSUME ChanInv, NEW t \in Thread, op[t] # Idle,
         SendOk(t) \/ HandOver(t, op[t].to, op[t].data)
  PROVE  \E c \in Chan, d \in Data : Delivers(t, c, d)
<1>1. /\ op[t].to \in Chan /\ op[t].data \in Data
      /\ got \in [Chan -> Seq(Message)] /\ buf \in [Chan -> Seq(Message)]
  BY CallType DEF ChanInv, ChanTypeOK
<1>2. PICK c \in Chan, d \in Data : c = op[t].to /\ d = op[t].data
  BY <1>1
<1>3. Numbered(t, c, d) \in Message
  BY DEF Numbered, Message, ChanInv, ChanTypeOK
<1>4. PICK m \in Message : m = Numbered(t, c, d)
  BY <1>3
<1>5. got[c] \in Seq(Message) /\ buf[c] \in Seq(Message)
  BY <1>1, SMTT(60)
<1>6. CASE SendOk(t)
  <2>1. Enqueue(t, c, d)
    BY <1>2, <1>6 DEF SendOk
  <2>2. got' = got /\ buf' = [buf EXCEPT ![c] = Append(buf[c], m)]
    BY <1>4, <2>1 DEF Enqueue
  <2>3. buf'[c] = Append(buf[c], m) /\ \A x \in Chan : x # c => buf'[x] = buf[x]
    BY <1>1, <2>2
  <2>4. got[c] \o Append(buf[c], m) = Append(got[c] \o buf[c], m)
    BY <1>5, AppendToStream
  <2> QED BY <1>2, <1>4, <2>2, <2>3, <2>4 DEF Delivers, Stream
<1>7. CASE HandOver(t, op[t].to, op[t].data)
  <2>1. HandOver(t, c, d)
    BY <1>2, <1>7
  <2>2. /\ got' = [got EXCEPT ![c] = Append(got[c], m)] /\ buf' = buf /\ cap[c] = 0
    BY <1>4, <2>1 DEF HandOver
  <2>3. got'[c] = Append(got[c], m) /\ \A x \in Chan : x # c => got'[x] = got[x]
    BY <1>1, <2>2
  <2>4. buf[c] = <<>>
    <3>1. Len(buf[c]) <= 0
      BY <2>2 DEF ChanInv, ChanInvAt, Unbounded
    <3> QED BY <1>5, <3>1
  <2>5. Append(got[c], m) \o buf[c] = Append(got[c] \o buf[c], m)
    BY <1>5, <2>4
  <2> QED BY <1>2, <1>4, <2>2, <2>3, <2>5 DEF Delivers, Stream
<1> QED BY <1>6, <1>7

\* Streams shrink, or one grows by the message of the call that returns.
LEMMA StreamsStep ==
  ASSUME MsgInv, [Next]_vars
  PROVE  \/ StreamsShrink
         \/ \E t \in Worker, c \in Chan, d \in Data : Delivers(t, c, d) /\ Return(t)
<1> USE DEF Worker
<1>i. ChanInv /\ SendsTop
  BY DEF MsgInv
<1>t. got \in [Chan -> Seq(Message)] /\ buf \in [Chan -> Seq(Message)]
  BY DEF MsgInv, ChanInv, ChanTypeOK
<1>1. ASSUME UNCHANGED <<got, buf>> PROVE StreamsShrink
  BY <1>1 DEF StreamsShrink, Stream
<1>2. ASSUME NEW c \in Chan, Recv(c) PROVE StreamsShrink
  <2>1. CASE TakeOldest(c)
    <3>1. /\ buf[c] # <<>> /\ got' = [got EXCEPT ![c] = Append(@, Head(buf[c]))]
          /\ buf' = [buf EXCEPT ![c] = Tail(@)]
      BY <2>1 DEF TakeOldest
    <3>2. /\ Append(got[c], Head(buf[c])) \o Tail(buf[c]) = got[c] \o buf[c]
      BY <1>t, <3>1, MoveHead
    <3>3. \A x \in Chan : Stream(x)' = Stream(x)
      BY <1>t, <3>1, <3>2 DEF Stream
    <3> QED BY <3>3 DEF StreamsShrink
  <2>2. CASE FindsEnd(c, "RecvError")
    BY <1>1, <2>2 DEF FindsEnd
  <2> QED BY <1>2, <2>1, <2>2 DEF Recv
<1>3. ASSUME NEW c \in Chan, DropReceiver(c) PROVE StreamsShrink
  <2>1. /\ got' = got /\ buf' = [buf EXCEPT ![c] = <<>>]
    BY <1>3 DEF DropReceiver
  <2>2. \A i \in DOMAIN (got[c] \o <<>>) : i \in DOMAIN (got[c] \o buf[c])
                                    /\ (got[c] \o <<>>)[i] = (got[c] \o buf[c])[i]
    BY <1>t
  <2>3. \A x \in Chan : x # c => Stream(x)' = Stream(x)
    BY <1>t, <2>1 DEF Stream
  <2>4. Stream(c)' = got[c] \o <<>>
    BY <1>t, <2>1 DEF Stream
  <2> QED BY <2>2, <2>3, <2>4 DEF StreamsShrink, Stream
<1>4. ASSUME NEW t \in Worker, Return(t)
      PROVE  StreamsShrink \/ \E c \in Chan, d \in Data : Delivers(t, c, d)
  BY <1>1, <1>4, <1>i, DeliverStep DEF Return, SendOk, SendError
<1>5. ASSUME NEW t \in Worker, NEW k \in Kind, NEW c \in Chan \cup {Default},
             Initialize(t, k, c)
      PROVE  StreamsShrink
  BY <1>1, <1>5 DEF Initialize, Replace, DropSender, chanVars
<1> QED
  BY <1>1, <1>2, <1>3, <1>4, <1>5
     DEF Next, vars, chanVars, Log, Notify, Begin, Emit, CallSend, Exit, Panic,
         End, Give, CloneSender, Release, DropSender, AppRelease, Abandon, Drain,
         CallRecv, Receive, DrainReturns, set_max_level

(* The step that delivers the message of the innermost call.               *)
LEMMA DeliveringStep ==
  ASSUME MsgInv, [Next]_vars, NEW t \in Worker, NEW c \in Chan, NEW f \in Data,
         Delivers(t, c, f), Return(t)
  PROVE  Messages' /\ CallOrder'
<1>1. /\ MsgTypeOK /\ SendsTop /\ Frames /\ Messages /\ CallOrder /\ CellsTyped
      /\ ChanInv /\ t \in Thread
  BY DEF MsgInv, Worker
<1>2. /\ f = Top(t) /\ f \in Call /\ calls[t] # <<>> /\ c = cell[t][f.kind]
  <2>1. f = Top(t) /\ c = cell[t][f.kind] /\ calls[t] # <<>>
    BY <1>1 DEF Delivers, SendsTop
  <2> QED BY <1>1, <2>1, PopShape DEF Return
<1>3. PICK n \in Nat : n = Len(calls[t]) /\ n \in DOMAIN calls[t] /\ calls[t][n] = f
  BY <1>1, <1>2, PopShape DEF Return, Top
<1>4. FrameOK(t, n) /\ f.kind \in Kind /\ f.ticket \in Nat
  BY <1>1, <1>2, <1>3, MessagingAssumption DEF Frames, Call
<1>5. PICK m \in Message : m = Numbered(t, c, f) /\ m.from = t /\ m.data = f
  <2>1. sent[c][t] + 1 \in Nat
    BY <1>1 DEF ChanInv, ChanTypeOK
  <2> DEFINE x == Numbered(t, c, f)
  <2>2. x \in Message /\ x.from = t /\ x.data = f
    BY <1>1, <2>1 DEF Numbered, Message
  <2> HIDE DEF x
  <2>3. PICK m \in Message : m = x
    BY <2>2
  <2> QED BY <2>2, <2>3 DEF x
<1>6. /\ Stream(c)' = Append(Stream(c), m) /\ Stream(c) \in Seq(Message)
      /\ \A x \in Chan : x # c => Stream(x)' = Stream(x)
  <2>1. got[c] \in Seq(Message) /\ buf[c] \in Seq(Message)
    BY <1>1 DEF ChanInv, ChanTypeOK
  <2>2. Stream(c) \in Seq(Message)
    BY <2>1 DEF Stream
  <2> QED BY <1>5, <2>2 DEF Delivers
<1>7. /\ UNCHANGED begun
      /\ \A j \in DOMAIN calls'[t] : /\ j \in 1 .. n - 1 /\ j \in DOMAIN calls[t]
                                     /\ calls'[t][j] = calls[t][j]
  BY <1>1, <1>2, <1>3, PopShape DEF Return
<1>8. MessageOK(c, m)'
  <2>1. f.via = c /\ KindOf[c] = f.kind
    BY <1>1, <1>2, <1>3, <1>4, MessagingAssumption DEF FrameOK, CellsTyped
  <2>2. \A j \in DOMAIN calls'[t] :
          /\ calls'[t][j].ticket < f.ticket /\ calls'[t][j].ticket \in f.outer
          /\ calls'[t][j].ticket \in Nat
    <3>1. \A j \in DOMAIN calls[t] : calls[t][j].ticket \in Nat
      <4>1. \A j \in DOMAIN calls[t] : calls[t][j] \in Call
        BY <1>1 DEF MsgTypeOK
      <4> QED BY <4>1, MessagingAssumption DEF Call
    <3> QED BY <1>3, <1>4, <1>7, <3>1 DEF FrameOK
  <2>3. \A j \in DOMAIN calls'[t] : calls'[t][j].ticket # f.ticket
    BY <1>4, <2>2
  <2> QED BY <1>2, <1>3, <1>4, <1>5, <1>7, <2>1, <2>2, <2>3 DEF FrameOK, MessageOK
<1>9. ASSUME NEW x \in Chan, NEW i \in DOMAIN Stream(x)
      PROVE  MessageOK(x, Stream(x)[i]) /\ \A y : y = Stream(x)[i] => MessageOK(x, y)'
  BY <1>1, <1>9, MessageKept DEF Messages
<1>10. ASSUME NEW i \in DOMAIN Stream(c)'
       PROVE  \/ i = Len(Stream(c)) + 1 /\ Stream(c)'[i] = m
              \/ /\ i \in DOMAIN Stream(c) /\ Stream(c)'[i] = Stream(c)[i]
                 /\ i \in 1 .. Len(Stream(c))
  BY <1>6, <1>10
<1>11. ASSUME NEW x \in Chan, NEW i \in DOMAIN Stream(x)'
       PROVE  MessageOK(x, Stream(x)[i])'
  <2>1. PICK y : y = Stream(x)'[i]
    OBVIOUS
  <2>2. MessageOK(x, y)'
    BY <1>6, <1>8, <1>9, <1>10, <2>1
  <2> QED BY <2>1, <2>2
<1>12. Messages'
  BY <1>11 DEF Messages
<1>13. CallOrder'
  <2> SUFFICES ASSUME NEW x \in Chan, NEW i \in DOMAIN Stream(x)',
                      NEW j \in DOMAIN Stream(x)', i < j,
                      Stream(x)'[i].from = Stream(x)'[j].from
               PROVE  LET a == Stream(x)'[i].data
                          b == Stream(x)'[j].data
                      IN  /\ a.ticket # b.ticket
                          /\ a.ticket > b.ticket => b.ticket \in a.outer
    BY DEF CallOrder
  <2>1. CASE x # c \/ j \in DOMAIN Stream(c)
    <3>1. /\ i \in DOMAIN Stream(x) /\ Stream(x)'[i] = Stream(x)[i]
          /\ j \in DOMAIN Stream(x) /\ Stream(x)'[j] = Stream(x)[j]
      BY <1>6, <1>10, <2>1
    <3> QED BY <1>1, <3>1 DEF CallOrder
  <2>2. CASE x = c /\ j = Len(Stream(c)) + 1
    <3>1. i \in DOMAIN Stream(c) /\ Stream(c)'[i] = Stream(c)[i] /\ Stream(c)'[j] = m
      BY <1>6, <1>10, <2>2
    <3>2. MessageOK(c, Stream(c)[i]) /\ Stream(c)[i].from = t
      BY <1>5, <1>9, <2>2, <3>1
    <3> QED BY <1>3, <1>5, <2>2, <3>1, <3>2 DEF MessageOK
  <2> QED BY <1>6, <1>10, <2>1, <2>2
<1> QED BY <1>12, <1>13
-----------------------------------------------------------------------------
\* The invariant is inductive.
LEMMA MsgInvStep == MsgInv /\ [Next]_vars => MsgInv'
<1> SUFFICES ASSUME MsgInv, [Next]_vars PROVE MsgInv'
  OBVIOUS
<1>1. ChanInv /\ MsgTypeOK /\ CellsTyped /\ SendsTop /\ Frames
  BY DEF MsgInv
<1>2. ChanInv'
  BY <1>1, StepIsChanStep, ChanInvStep
<1>3. MsgTypeOK' /\ CellsTyped' /\ SendsTop'
  BY <1>1, MsgTypeStep, CellsStep, SendsTopStep
<1>4. Frames'
  BY <1>1, <1>3, FramesStep
<1>5. Messages' /\ CallOrder'
  BY StreamsStep, QuietStep, DeliveringStep
<1> QED BY <1>2, <1>3, <1>4, <1>5 DEF MsgInv

\* The invariant every theorem below is drawn from.
LEMMA MsgInvAlways == Spec => []MsgInv
  BY MsgInitInv, MsgInvStep, PTL DEF Spec

(* The state of src/logging and src/notifications keeps its types.         *)
THEOREM MessagingTypes == Spec => []MsgTypeOK
<1>1. MsgInv => MsgTypeOK
  BY DEF MsgInv
<1> QED BY <1>1, MsgInvAlways, PTL

(* NoMisrouting for any workers, channels and nesting of calls.            *)
THEOREM NeverMisrouted == Spec => []NoMisrouting
<1>1. MsgInv => NoMisrouting
  BY DEF MsgInv, Messages, MessageOK, NoMisrouting
<1> QED BY <1>1, MsgInvAlways, PTL

(* CallOrder: an overtaking message is always that of an argument.         *)
THEOREM CallsInOrder == Spec => []CallOrder
<1>1. MsgInv => CallOrder
  BY DEF MsgInv
<1> QED BY <1>1, MsgInvAlways, PTL

(* Logging uses the channels as channel.rs allows: whatever is proved of   *)
(* ChanSpec (ExactlyOnce, EndIsFinal, GoneIsFinal) holds of its channels.  *)
THEOREM MessagingUsesChannels == Spec => ChanSpec
<1>1. Init => ChanInit
  BY DEF Init
<1>2. MsgInv /\ [Next]_vars => [ChanNext]_chanVars
  BY StepIsChanStep DEF MsgInv
<1> QED BY <1>1, <1>2, MsgInvAlways, PTL DEF Spec, ChanSpec
=============================================================================
