---------------------- MODULE SessionWriteQueueProofs ----------------------
(* Proofs about the write side of a session, for any number of producers,  *)
(* any limit of the queue and any number of messages.                      *)
EXTENDS SessionWriteQueue, SequenceTheorems, TLAPS

-----------------------------------------------------------------------------
(* Sequences.                                                              *)

\* The head of a queue goes to the end of another sequence: nothing is lost.
LEMMA MoveHead ==
    ASSUME NEW S, NEW q \in Seq(S), NEW r \in Seq(S), r # <<>>
    PROVE  Append(q, Head(r)) \o Tail(r) = q \o r
<1> DEFINE a == Append(q, Head(r)) \o Tail(r)
           b == q \o r
<1>1. a \in Seq(S) /\ b \in Seq(S) /\ Len(a) = Len(b) /\ Len(b) = Len(q) + Len(r)
  OBVIOUS
<1>2. ASSUME NEW i \in 1..Len(b) PROVE a[i] = b[i]
  <2>1. CASE i <= Len(q)
    BY <2>1
  <2>2. CASE i = Len(q) + 1
    BY <2>2
  <2>3. CASE i > Len(q) + 1
    <3>1. i - (Len(q) + 1) \in 1..Len(Tail(r))
      BY <1>1, <1>2, <2>3
    <3>2. a[i] = Tail(r)[i - (Len(q) + 1)]
      BY <3>1, <2>3
    <3>3. Tail(r)[i - (Len(q) + 1)] = r[i - Len(q)]
      BY <3>1
    <3>4. b[i] = r[i - Len(q)]
      BY <1>1, <1>2, <2>3
    <3> QED BY <3>2, <3>3, <3>4
  <2> QED BY <1>1, <1>2, <2>1, <2>2, <2>3
<1> HIDE DEF a, b
<1>3. a = b
  BY <1>1, <1>2
<1> QED BY <1>3 DEF a, b

\* Appending to the second part appends to the whole.
LEMMA AppendSecond ==
    ASSUME NEW S, NEW q \in Seq(S), NEW r \in Seq(S), NEW m \in S
    PROVE  q \o Append(r, m) = Append(q \o r, m)
  OBVIOUS

LEMMA ShortSeqs ==
    ASSUME NEW S
    PROVE  /\ <<>> \in Seq(S) /\ Len(<<>>) = 0
           /\ \A m \in S : <<m>> \in Seq(S) /\ Len(<<m>>) = 1 /\ <<m>> # <<>> /\ <<m>>[1] = m
  OBVIOUS

LEMMA OneElement ==
    ASSUME NEW S, NEW q \in Seq(S), q # <<>>, Len(q) <= 1
    PROVE  Len(q) = 1 /\ Tail(q) = <<>> /\ Head(q) = q[1] /\ Head(q) \in S
<1>1. Len(q) = 1
  <2>1. Len(q) \in Nat \ {0}
    BY EmptySeq
  <2> QED BY <2>1
<1>2. Tail(q) \in Seq(S) /\ Len(Tail(q)) = 0
  BY <1>1
<1>3. Tail(q) = <<>>
  BY <1>2, EmptySeq
<1> QED BY <1>1, <1>3

-----------------------------------------------------------------------------
(* The queue and its one write.                                            *)

LEMMA InitQueue == Init => QueueInv
<1> SUFFICES ASSUME Init PROVE QueueInv
  OBVIOUS
<1>1. called \in [Producers -> 0..MaxCalls]
  BY QueueAssumption DEF QueueAssumption, Init
<1>2. <<>> \in Seq(Messages)
  BY ShortSeqs
<1>3. TypeOK
  BY <1>1, <1>2 DEF Init, TypeOK
<1> QED BY <1>3, ShortSeqs, QueueAssumption DEF QueueAssumption, Init, QueueInv, OneWriteOfHead,
           WritingIffWaiting, FlagAgrees, ReportedOnce, QueueBounded, FailedKept

LEMMA DeliverQueue == ASSUME QueueInv, NEW p \in Producers, Deliver(p) PROVE QueueInv'
<1>1. TypeOK'
  <2>1. [from |-> p, n |-> called[p] + 1] \in Messages /\ called[p] + 1 \in 0..MaxCalls
    BY QueueAssumption DEF QueueAssumption, QueueInv, TypeOK, Deliver, Messages
  <2>2. called' \in [Producers -> 0..MaxCalls]
    BY <2>1 DEF QueueInv, TypeOK, Deliver
  <2>3. posted' \in Seq(Messages)
    BY <2>1 DEF QueueInv, TypeOK, Deliver
  <2> QED BY <2>2, <2>3 DEF QueueInv, TypeOK, Deliver
<1> QED BY <1>1 DEF Deliver, QueueInv, OneWriteOfHead, WritingIffWaiting, FlagAgrees,
           ReportedOnce, QueueBounded, FailedKept

\* A posted message is put into the queue or dropped.
LEMMA DeliverTaskQueue == ASSUME QueueInv, DeliverTask PROVE QueueInv'
<1> USE DEF QueueInv
<1>1. /\ posted' \in Seq(Messages) /\ Head(posted) \in Messages
      /\ UNCHANGED <<called, sent, failed, leaves>>
  BY DEF DeliverTask, TypeOK
<1>2. CASE Full
  BY <1>1, <1>2 DEF DeliverTask, TypeOK, OneWriteOfHead, WritingIffWaiting, FlagAgrees,
     ReportedOnce, QueueBounded, FailedKept
<1>3. CASE ~Full
  <2>1. /\ write_msgs \in Seq(Messages) /\ inflight \in Seq(Messages)
        /\ Len(write_msgs) < MaxQueue
        /\ write_msgs' = Append(write_msgs, Head(posted))
    BY <1>3, QueueAssumption DEF QueueAssumption, DeliverTask, TypeOK, Full
  <2>2. /\ write_msgs' \in Seq(Messages) /\ write_msgs' # <<>>
        /\ Len(write_msgs') = Len(write_msgs) + 1
        /\ write_msgs # <<>> => write_msgs'[1] = write_msgs[1]
        /\ write_msgs = <<>> => Head(write_msgs') = Head(posted) /\ write_msgs'[1] = Head(posted)
    BY <1>1, <2>1
  <2>3. QueueBounded' /\ FailedKept' /\ ReportedOnce'
    BY <1>1, <2>1, <2>2, QueueAssumption
       DEF QueueAssumption, QueueBounded, FailedKept, ReportedOnce
  <2>4. CASE Starts
    <3>1. /\ write_msgs = <<>> /\ is_writing = FALSE /\ inflight = <<>> /\ failed = FALSE
      BY <2>4 DEF Starts, TypeOK, FlagAgrees, FailedKept
    <3>2. is_writing' = TRUE /\ inflight' = <<Head(posted)>>
      BY <1>3, <2>2, <2>4, <3>1 DEF DeliverTask, DoWrite
    <3>3. Len(inflight') = 1 /\ inflight' # <<>> /\ inflight'[1] = Head(posted)
          /\ inflight' \in Seq(Messages)
      BY <1>1, <3>2
    <3>4. TypeOK'
      BY <1>1, <2>2, <3>2, <3>3 DEF TypeOK
    <3>5. OneWriteOfHead' /\ WritingIffWaiting' /\ FlagAgrees'
      BY <1>1, <2>2, <3>1, <3>2, <3>3 DEF OneWriteOfHead, WritingIffWaiting, FlagAgrees
    <3> QED BY <2>3, <3>4, <3>5
  <2>5. CASE ~Starts
    <3>1. write_msgs # <<>> /\ UNCHANGED <<is_writing, inflight>>
      BY <1>3, <2>5 DEF DeliverTask, Starts, WritingIffWaiting
    <3>2. TypeOK'
      BY <1>1, <2>2, <3>1 DEF TypeOK
    <3>3. OneWriteOfHead' /\ WritingIffWaiting' /\ FlagAgrees'
      BY <1>1, <2>2, <3>1 DEF OneWriteOfHead, WritingIffWaiting, FlagAgrees
    <3> QED BY <2>3, <3>2, <3>3
  <2> QED BY <2>4, <2>5
<1> QED BY <1>2, <1>3

\* What the completion of a write finds: its buffer is the head of the queue.
LEMMA OnWriteHead ==
    ASSUME QueueInv, inflight # <<>>
    PROVE  /\ inflight \in Seq(Messages) /\ write_msgs \in Seq(Messages) /\ write_msgs # <<>>
           /\ Len(inflight) = 1 /\ Tail(inflight) = <<>>
           /\ Head(inflight) = Head(write_msgs) /\ Head(inflight) \in Messages
           /\ failed = FALSE /\ is_writing = TRUE /\ leaves = 0
<1>1. inflight \in Seq(Messages) /\ write_msgs \in Seq(Messages) /\ Len(inflight) <= 1
      /\ write_msgs # <<>> /\ inflight[1] = write_msgs[1]
  BY DEF QueueInv, TypeOK, OneWriteOfHead
<1>2. Len(inflight) = 1 /\ Tail(inflight) = <<>> /\ Head(inflight) = inflight[1]
      /\ Head(inflight) \in Messages /\ Head(write_msgs) = write_msgs[1]
  <2>1. Len(inflight) = 1 /\ Tail(inflight) = <<>> /\ Head(inflight) = inflight[1]
        /\ Head(inflight) \in Messages
    BY <1>1, OneElement
  <2> QED BY <1>1, <2>1
<1>3. failed = FALSE /\ is_writing = TRUE /\ leaves = 0
  BY DEF QueueInv, TypeOK, FlagAgrees, WritingIffWaiting, ReportedOnce
<1> QED BY <1>1, <1>2, <1>3

\* A completed write hands its message over and starts the next, if any.
LEMMA OnWriteOkQueue == ASSUME QueueInv, OnWriteOk PROVE QueueInv'
<1>1. /\ inflight \in Seq(Messages) /\ write_msgs \in Seq(Messages) /\ write_msgs # <<>>
      /\ Tail(inflight) = <<>> /\ Head(inflight) \in Messages
      /\ failed = FALSE /\ leaves = 0
  BY OnWriteHead DEF OnWriteOk
<1>2. /\ sent' = Append(sent, Head(inflight)) /\ write_msgs' = Tail(write_msgs)
      /\ DoWrite(write_msgs', FALSE, <<>>)
      /\ UNCHANGED <<called, posted, failed, leaves>>
  BY <1>1 DEF OnWriteOk, Popped
<1>3. /\ write_msgs' \in Seq(Messages) /\ Len(write_msgs') = Len(write_msgs) - 1
      /\ Len(write_msgs) \in Nat
      /\ write_msgs' # <<>> => Head(write_msgs') \in Messages /\ Head(write_msgs') = write_msgs'[1]
  BY <1>1, <1>2
<1>4. \/ write_msgs' = <<>> /\ is_writing' = FALSE /\ inflight' = <<>>
      \/ write_msgs' # <<>> /\ is_writing' = TRUE /\ inflight' = <<Head(write_msgs')>>
  BY <1>2 DEF DoWrite
<1>5. /\ inflight' \in Seq(Messages) /\ Len(inflight') <= 1
      /\ inflight' # <<>> => inflight'[1] = Head(write_msgs')
  <2>1. CASE inflight' = <<>>
    BY <2>1, ShortSeqs
  <2>2. CASE write_msgs' # <<>> /\ inflight' = <<Head(write_msgs')>>
    BY <1>3, <2>2, ShortSeqs
  <2> QED BY <1>4, <2>1, <2>2
<1>6. sent' \in Seq(Messages)
  BY <1>1, <1>2 DEF QueueInv, TypeOK
<1>7. TypeOK'
  BY <1>2, <1>3, <1>4, <1>5, <1>6 DEF QueueInv, TypeOK
<1>8. OneWriteOfHead'
  BY <1>3, <1>4, <1>5 DEF OneWriteOfHead
<1>11. FlagAgrees' /\ WritingIffWaiting'
  BY <1>1, <1>2, <1>4, <1>5 DEF FlagAgrees, WritingIffWaiting
<1>9. ReportedOnce' /\ FailedKept'
  BY <1>1, <1>2 DEF ReportedOnce, FailedKept
<1>10. QueueBounded'
  BY <1>3, QueueAssumption DEF QueueInv, QueueBounded, QueueAssumption
<1> QED BY <1>7, <1>8, <1>9, <1>10, <1>11 DEF QueueInv

LEMMA OnWriteErrorQueue == ASSUME QueueInv, OnWriteError PROVE QueueInv'
<1>1. /\ write_msgs # <<>> /\ Tail(inflight) = <<>> /\ failed = FALSE /\ leaves = 0
  BY OnWriteHead DEF OnWriteError
<1>2. /\ inflight' = <<>> /\ is_writing' = FALSE /\ failed' = TRUE /\ leaves' = 1
      /\ UNCHANGED <<called, posted, write_msgs, sent>>
  BY <1>1 DEF OnWriteError
<1>3. TypeOK'
  BY <1>2, ShortSeqs DEF QueueInv, TypeOK
<1> QED BY <1>1, <1>2, <1>3, ShortSeqs DEF QueueInv, OneWriteOfHead, FlagAgrees,
           WritingIffWaiting, ReportedOnce, FailedKept, QueueBounded

LEMMA QueueStep == ASSUME QueueInv, [Next]_vars PROVE QueueInv'
<1>1. CASE UNCHANGED vars
  BY <1>1 DEF vars, QueueInv, TypeOK, OneWriteOfHead, FlagAgrees, WritingIffWaiting,
     ReportedOnce, FailedKept, QueueBounded
<1> QED BY <1>1, DeliverQueue, DeliverTaskQueue, OnWriteOkQueue, OnWriteErrorQueue
        DEF Next, OnWrite

\* At most one write is outstanding and it writes the head of the queue; no
\* wakeup is lost; the queue keeps its limit; a failure is reported once.
THEOREM QueueAlways == Spec => []QueueInv
<1>1. QueueInv /\ [Next]_vars => QueueInv'
  BY QueueStep
<1> QED BY <1>1, InitQueue, PTL DEF Spec

-----------------------------------------------------------------------------
(* The session implements the channel.                                     *)

LEMMA InitChannel == Init => Channel!Init
  BY DEF Init, Channel!Init

LEMMA StepChannel ==
    ASSUME QueueInv, [Next]_vars
    PROVE  [Channel!Next]_(Channel!vars)
<1> USE DEF Channel!vars
<1>1. sent \in Seq(Messages) /\ write_msgs \in Seq(Messages) /\ posted \in Seq(Messages)
  BY DEF QueueInv, TypeOK
<1>2. Len(sent \o write_msgs) - Len(sent) = Len(write_msgs)
  BY <1>1
<1>3. CASE (\E p \in Producers : Deliver(p)) \/ UNCHANGED vars
  BY <1>3 DEF Deliver, vars
<1>4. CASE DeliverTask
  <2>1. CASE Full
    BY <1>4, <2>1 DEF DeliverTask
  <2>2. CASE ~Full
    <3>1. Head(posted) \in Messages /\ write_msgs' = Append(write_msgs, Head(posted))
          /\ UNCHANGED <<sent, failed>>
      BY <1>1, <1>4, <2>2 DEF DeliverTask
    <3>2. sent \o Append(write_msgs, Head(posted)) = Append(sent \o write_msgs, Head(posted))
      BY <1>1, <3>1, AppendSecond
    <3>3. Len(write_msgs) < MaxQueue
      BY <1>1, <2>2, QueueAssumption DEF QueueAssumption, Full
    <3>4. Channel!Accept(Head(posted))
      BY <1>2, <3>1, <3>2, <3>3 DEF Channel!Accept, Channel!Waiting
    <3> QED BY <3>1, <3>4 DEF Channel!Next
  <2> QED BY <2>1, <2>2
<1>5. CASE OnWriteOk
  <2>1. write_msgs # <<>> /\ Head(inflight) = Head(write_msgs) /\ failed = FALSE
    BY <1>5, OnWriteHead DEF OnWriteOk
  <2>2. sent' = Append(sent, Head(write_msgs)) /\ write_msgs' = Tail(write_msgs)
        /\ UNCHANGED failed
    BY <1>5, <2>1 DEF OnWriteOk, Popped
  <2>3. sent' \o write_msgs' = sent \o write_msgs
    BY <1>1, <2>1, <2>2, MoveHead
  <2>4. Len(sent') = Len(sent) + 1 /\ Len(write_msgs) > 0
    BY <1>1, <2>1, <2>2
  <2>5. Channel!Transmit
    BY <1>2, <2>1, <2>2, <2>3, <2>4 DEF Channel!Transmit, Channel!Waiting
  <2> QED BY <2>5 DEF Channel!Next
<1>6. CASE OnWriteError
  <2>1. write_msgs # <<>> /\ failed = FALSE
    BY <1>6, OnWriteHead DEF OnWriteError
  <2>2. failed' = TRUE /\ UNCHANGED <<sent, write_msgs>>
    BY <1>6 DEF OnWriteError
  <2>3. Len(write_msgs) > 0
    BY <1>1, <2>1
  <2>4. Channel!Break
    BY <1>2, <2>1, <2>2, <2>3 DEF Channel!Break, Channel!Waiting
  <2> QED BY <2>4 DEF Channel!Next
<1> QED BY <1>3, <1>4, <1>5, <1>6 DEF Next, OnWrite

\* Every behaviour of a session's write side is one of the bounded FIFO channel.
THEOREM ImplementsChannel == Spec => ChannelSpec
<1>1. QueueInv /\ [Next]_vars => [Channel!Next]_(Channel!vars)
  BY StepChannel
<1> QED BY <1>1, QueueAlways, InitChannel, PTL DEF Spec, ChannelSpec, Channel!Spec

-----------------------------------------------------------------------------
(* The order of what each producer hands over.                             *)

\* m comes after all of q that its producer sent, or before all of r.
After(m, q) == \A i \in DOMAIN q : q[i].from = m.from => q[i].n < m.n
Ahead(m, r) == \A j \in DOMAIN r : m.from = r[j].from => m.n < r[j].n

LEMMA AppendShape ==
    ASSUME NEW S, NEW q \in Seq(S), NEW m \in S
    PROVE  /\ DOMAIN q \subseteq Nat /\ Len(q) + 1 \in Nat
           /\ DOMAIN Append(q, m) = DOMAIN q \cup {Len(q) + 1}
           /\ \A i \in DOMAIN q : i < Len(q) + 1 /\ Append(q, m)[i] = q[i]
           /\ Append(q, m)[Len(q) + 1] = m
  OBVIOUS

LEMMA TailShape ==
    ASSUME NEW S, NEW q \in Seq(S), q # <<>>
    PROVE  /\ DOMAIN q \subseteq Nat /\ DOMAIN Tail(q) \subseteq Nat \ {0}
           /\ 1 \in DOMAIN q /\ Head(q) = q[1]
           /\ \A i \in DOMAIN Tail(q) : i + 1 \in DOMAIN q /\ Tail(q)[i] = q[i + 1]
  OBVIOUS

LEMMA AppendIncreasing ==
    ASSUME NEW q \in Seq(Messages), NEW m \in Messages, Increasing(q), After(m, q)
    PROVE  Increasing(Append(q, m))
<1> DEFINE a == Append(q, m)
           k == Len(q) + 1
<1>1. /\ DOMAIN a = DOMAIN q \cup {k}
      /\ \A i \in DOMAIN q : i < k /\ a[i] = q[i]
      /\ a[k] = m /\ DOMAIN q \subseteq Nat /\ k \in Nat
  BY AppendShape
<1> HIDE DEF a, k
<1>2. Increasing(a)
  BY <1>1 DEF Increasing, After
<1> QED BY <1>2 DEF a

LEMMA AppendBefore ==
    ASSUME NEW q \in Seq(Messages), NEW m \in Messages, NEW r \in Seq(Messages)
    PROVE  /\ Before(q, r) /\ Ahead(m, r) => Before(Append(q, m), r)
           /\ Before(r, q) /\ After(m, r) => Before(r, Append(q, m))
<1> DEFINE a == Append(q, m)
           k == Len(q) + 1
<1>1. /\ DOMAIN a = DOMAIN q \cup {k}
      /\ \A i \in DOMAIN q : a[i] = q[i]
      /\ a[k] = m
  BY AppendShape
<1> HIDE DEF a, k
<1>2. Before(q, r) /\ Ahead(m, r) => Before(a, r)
  BY <1>1 DEF Before, Ahead
<1>3. Before(r, q) /\ After(m, r) => Before(r, a)
  BY <1>1 DEF Before, After
<1> QED BY <1>2, <1>3 DEF a

\* Taking the head off keeps every order, and the head is ahead of the rest.
LEMMA TailOrder ==
    ASSUME NEW q \in Seq(Messages), q # <<>>, NEW r \in Seq(Messages)
    PROVE  /\ Increasing(q) => Increasing(Tail(q)) /\ Ahead(Head(q), Tail(q))
           /\ Before(q, r) => Before(Tail(q), r) /\ Ahead(Head(q), r)
           /\ Before(r, q) => Before(r, Tail(q)) /\ After(Head(q), r)
<1> DEFINE b == Tail(q)
           h == Head(q)
<1>1. /\ DOMAIN q \subseteq Nat /\ DOMAIN b \subseteq Nat \ {0}
      /\ 1 \in DOMAIN q /\ h = q[1]
      /\ \A i \in DOMAIN b : i + 1 \in DOMAIN q /\ b[i] = q[i + 1]
  BY TailShape
<1> HIDE DEF b, h
<1>2. ASSUME Increasing(q) PROVE Increasing(b) /\ Ahead(h, b)
  <2>1. ASSUME NEW i \in DOMAIN b, NEW j \in DOMAIN b, i < j, b[i].from = b[j].from
        PROVE  b[i].n < b[j].n
    <3>1. i + 1 < j + 1
      BY <1>1, <2>1
    <3> QED BY <1>1, <1>2, <2>1, <3>1 DEF Increasing
  <2>2. ASSUME NEW j \in DOMAIN b, h.from = b[j].from PROVE h.n < b[j].n
    <3>1. 1 < j + 1
      BY <1>1
    <3> QED BY <1>1, <1>2, <2>2, <3>1 DEF Increasing
  <2> QED BY <2>1, <2>2 DEF Increasing, Ahead
<1>3. Before(q, r) => Before(b, r) /\ Ahead(h, r)
  BY <1>1 DEF Before, Ahead
<1>4. Before(r, q) => Before(r, b) /\ After(h, r)
  BY <1>1 DEF Before, After
<1> QED BY <1>2, <1>3, <1>4 DEF b, h

\* Nobody is ahead of the calls made.
LEMMA NotAheadMoves ==
    ASSUME NEW q \in Seq(Messages), NotAhead(q), NEW r \in Seq(Messages), r # <<>>, NotAhead(r)
    PROVE  NotAhead(Append(q, Head(r))) /\ NotAhead(Tail(r))
<1> DEFINE a == Append(q, Head(r))
           b == Tail(r)
           k == Len(q) + 1
<1>1. 1 \in DOMAIN r /\ Head(r) = r[1] /\ Head(r) \in Messages
      /\ \A i \in DOMAIN b : i + 1 \in DOMAIN r /\ b[i] = r[i + 1]
  BY TailShape, HeadTailProperties
<1>2. /\ DOMAIN a = DOMAIN q \cup {k}
      /\ \A i \in DOMAIN q : a[i] = q[i]
      /\ a[k] = r[1]
  BY <1>1, AppendShape
<1> HIDE DEF a, b, k
<1>3. NotAhead(a) /\ NotAhead(b)
  BY <1>1, <1>2 DEF NotAhead
<1> QED BY <1>3 DEF a, b

LEMMA OrderStep == ASSUME QueueInv, OrderInv, [Next]_vars PROVE OrderInv'
<1>1. sent \in Seq(Messages) /\ write_msgs \in Seq(Messages) /\ posted \in Seq(Messages)
      /\ called \in [Producers -> 0..MaxCalls]
  BY DEF QueueInv, TypeOK
<1>2. ASSUME NEW p \in Producers, Deliver(p) PROVE OrderInv'
  <2> DEFINE m == [from |-> p, n |-> called[p] + 1]
  <2>1. m \in Messages /\ m.from = p /\ m.n = called[p] + 1 /\ called[p] \in Nat
    BY <1>1, <1>2, QueueAssumption DEF QueueAssumption, Deliver, Messages
  <2>2. posted' = Append(posted, m) /\ sent' = sent /\ write_msgs' = write_msgs
        /\ called' = [called EXCEPT ![p] = @ + 1]
    BY <1>2 DEF Deliver
  <2> HIDE DEF m
  <2>3. ASSUME NEW q \in Seq(Messages), NotAhead(q)
        PROVE  After(m, q) /\ \A i \in DOMAIN q : q[i].n <= called'[q[i].from]
    <3>1. \A i \in DOMAIN q : q[i] \in Messages
      OBVIOUS
    <3>2. \A i \in DOMAIN q : q[i].from \in Producers /\ q[i].n \in Nat
                              /\ called[q[i].from] \in Nat
      BY <1>1, <3>1, QueueAssumption DEF QueueAssumption, Messages
    <3> QED BY <1>1, <2>1, <2>2, <2>3, <3>2 DEF After, NotAhead
  <2>4. After(m, sent) /\ After(m, write_msgs) /\ After(m, posted)
    BY <1>1, <2>3 DEF OrderInv
  <2>5. Increasing(posted') /\ Before(sent, posted') /\ Before(write_msgs, posted')
    BY <1>1, <2>1, <2>2, <2>4, AppendIncreasing, AppendBefore DEF OrderInv
  <2>6. NotAhead(sent)' /\ NotAhead(write_msgs)'
    BY <1>1, <2>2, <2>3 DEF OrderInv, NotAhead
  <2>7. NotAhead(posted)'
    <3> DEFINE k == Len(posted) + 1
    <3>1. /\ DOMAIN posted' = DOMAIN posted \cup {k}
          /\ \A i \in DOMAIN posted : posted'[i] = posted[i]
          /\ posted'[k] = m
      BY <1>1, <2>1, <2>2, AppendShape
    <3>2. \A i \in DOMAIN posted : posted[i].n <= called'[posted[i].from]
      BY <1>1, <2>3 DEF OrderInv
    <3>3. m.n <= called'[m.from]
      BY <1>1, <2>1, <2>2
    <3> HIDE DEF k
    <3> QED BY <3>1, <3>2, <3>3 DEF NotAhead
  <2> QED BY <2>2, <2>5, <2>6, <2>7 DEF OrderInv
<1>3. CASE DeliverTask
  <2>1. posted # <<>> /\ posted' = Tail(posted) /\ sent' = sent /\ called' = called
        /\ (write_msgs' = write_msgs \/ write_msgs' = Append(write_msgs, Head(posted)))
    BY <1>3 DEF DeliverTask
  <2>2. Head(posted) \in Messages /\ Tail(posted) \in Seq(Messages)
    BY <1>1, <2>1, HeadTailProperties
  <2>3. /\ Increasing(Tail(posted)) /\ Ahead(Head(posted), Tail(posted))
        /\ Before(sent, Tail(posted)) /\ After(Head(posted), sent)
        /\ Before(write_msgs, Tail(posted)) /\ After(Head(posted), write_msgs)
    BY <1>1, <2>1, TailOrder DEF OrderInv
  <2>4. NotAhead(Append(write_msgs, Head(posted))) /\ NotAhead(Tail(posted))
    BY <1>1, <2>1, NotAheadMoves DEF OrderInv
  <2>5. /\ Increasing(Append(write_msgs, Head(posted)))
        /\ Before(sent, Append(write_msgs, Head(posted)))
        /\ Before(Append(write_msgs, Head(posted)), Tail(posted))
    BY <1>1, <2>2, <2>3, AppendIncreasing, AppendBefore DEF OrderInv
  <2> QED BY <2>1, <2>3, <2>4, <2>5 DEF OrderInv, NotAhead
<1>4. CASE OnWriteOk
  <2>1. write_msgs # <<>> /\ sent' = Append(sent, Head(write_msgs))
        /\ write_msgs' = Tail(write_msgs) /\ posted' = posted /\ called' = called
    BY <1>4, OnWriteHead DEF OnWriteOk, Popped
  <2>2. Head(write_msgs) \in Messages /\ Tail(write_msgs) \in Seq(Messages)
    BY <1>1, <2>1, HeadTailProperties
  <2>3. /\ Increasing(Tail(write_msgs)) /\ Ahead(Head(write_msgs), Tail(write_msgs))
        /\ Before(sent, Tail(write_msgs)) /\ After(Head(write_msgs), sent)
        /\ Before(Tail(write_msgs), posted) /\ Ahead(Head(write_msgs), posted)
    BY <1>1, <2>1, TailOrder DEF OrderInv
  <2>4. NotAhead(Append(sent, Head(write_msgs))) /\ NotAhead(Tail(write_msgs))
    BY <1>1, <2>1, NotAheadMoves DEF OrderInv
  <2>5. /\ Increasing(Append(sent, Head(write_msgs)))
        /\ Before(Append(sent, Head(write_msgs)), Tail(write_msgs))
        /\ Before(Append(sent, Head(write_msgs)), posted)
    BY <1>1, <2>2, <2>3, AppendIncreasing, AppendBefore DEF OrderInv
  <2> QED BY <2>1, <2>3, <2>4, <2>5 DEF OrderInv, NotAhead
<1>5. CASE OnWriteError \/ UNCHANGED vars
  <2>1. UNCHANGED <<called, posted, write_msgs, sent>>
    BY <1>5 DEF OnWriteError, vars
  <2> QED BY <2>1 DEF OrderInv, NotAhead
<1> QED BY <1>2, <1>3, <1>4, <1>5 DEF Next, OnWrite

\* Everything of one producer stays in the order of its calls on the whole way.
THEOREM OrderAlways == Spec => []OrderInv
<1>1. Init => OrderInv
  BY ShortSeqs DEF Init, OrderInv, Increasing, Before, NotAhead
<1>2. QueueInv /\ OrderInv /\ [Next]_vars => OrderInv'
  BY OrderStep
<1> QED BY <1>1, <1>2, QueueAlways, PTL DEF Spec

\* A peer receives the messages of one producer in the order of its calls,
\* without repetition.
THEOREM InOrderAlways == Spec => []InOrder
<1>1. OrderInv => InOrder
  BY DEF OrderInv, InOrder
<1> QED BY <1>1, OrderAlways, PTL
=============================================================================
