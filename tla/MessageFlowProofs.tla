-------------------------- MODULE MessageFlowProofs --------------------------
(***************************************************************************)
(* Proofs about the way of a chat line, for any sessions, senders and      *)
(* number of lines: the order in which everybody receives what is said,    *)
(* that it is the order of the history, what may still be heard of a       *)
(* session after the notice that it has left, and that the history holds   *)
(* what was sent on.                                                       *)
(***************************************************************************)
EXTENDS MessageFlow, SequenceTheorems, TLAPS

-----------------------------------------------------------------------------
(* Queues.                                                                 *)

\* The end of a queue with one more element.
LEMMA AppendIs ==
    ASSUME NEW S, NEW q \in Seq(S), NEW x \in S
    PROVE  /\ Append(q, x) \in Seq(S)
           /\ Len(q) \in Nat /\ DOMAIN q = 1..Len(q)
           /\ DOMAIN Append(q, x) = DOMAIN q \cup {Len(q) + 1}
           /\ \A i \in DOMAIN q : Append(q, x)[i] = q[i] /\ i < Len(q) + 1
           /\ Append(q, x)[Len(q) + 1] = x
<1> DEFINE r == Append(q, x)
<1>1. /\ r \in Seq(S) /\ Len(r) = Len(q) + 1 /\ r[Len(q) + 1] = x
      /\ \A i \in 1..Len(q) : r[i] = q[i]
  BY AppendProperties
<1>2. Len(q) \in Nat /\ DOMAIN q = 1..Len(q) /\ DOMAIN r = 1..Len(r)
  BY <1>1, LenProperties
<1> HIDE DEF r
<1>3. 1..Len(r) = 1..Len(q) \cup {Len(q) + 1}
  BY <1>1, <1>2
<1> QED
  BY <1>1, <1>2, <1>3 DEF r

\* What is left of a queue without its head: everything else, one place earlier.
LEMMA TailIs ==
    ASSUME NEW S, NEW q \in Seq(S), q # <<>>
    PROVE  /\ Tail(q) \in Seq(S) /\ Head(q) \in S
           /\ DOMAIN q \subseteq Nat /\ DOMAIN Tail(q) \subseteq Nat
           /\ 1 \in DOMAIN q /\ q[1] = Head(q) /\ \A i \in DOMAIN q : i # 1 => 1 < i
           /\ \A i \in DOMAIN Tail(q) : i + 1 \in DOMAIN q /\ 1 < i + 1 /\ Tail(q)[i] = q[i + 1]
           /\ \A i \in DOMAIN q : i # 1 => i - 1 \in DOMAIN Tail(q) /\ Tail(q)[i - 1] = q[i]
<1> DEFINE r == Tail(q)
<1>1. /\ r \in Seq(S) /\ Len(r) = Len(q) - 1 /\ \A i \in 1..Len(r) : r[i] = q[i + 1]
      /\ Head(q) = q[1] /\ Head(q) \in S
  BY HeadTailProperties
<1>2. Len(q) \in Nat \ {0} /\ DOMAIN q = 1..Len(q) /\ DOMAIN r = 1..Len(r)
  BY <1>1, EmptySeq, LenProperties
<1> HIDE DEF r
<1>3. \A i \in DOMAIN r : i + 1 \in DOMAIN q /\ 1 < i + 1 /\ r[i] = q[i + 1]
  BY <1>1, <1>2
<1>4. \A i \in DOMAIN q : i # 1 => i - 1 \in DOMAIN r /\ r[i - 1] = q[i]
  BY <1>1, <1>2
<1> QED
  BY <1>1, <1>2, <1>3, <1>4 DEF r

-----------------------------------------------------------------------------
(* Types.                                                                  *)

Hop == [hop : {1, 2}, m : Line]

\* The lines that are made.
LEMMA LineTypes ==
    ASSUME asked \in Nat, NEW s \in Sessions
    PROVE  /\ LineOf("global", s, None) \in Line /\ LineOf("room", s, None) \in Line
           /\ \A to \in Sessions : LineOf("private", s, to) \in Line
           /\ LeftNotice(s) \in Line
BY DEF LineOf, LeftNotice, Line

\* What a task of strand_ carries.
LEMMA TaskTypes ==
    ASSUME NEW k \in Task
    PROVE  /\ k.op \in {"say", "find", "leave"} => k.s \in Sessions /\ k.m \in Line
           /\ k.op = "enter" => k.s \in Sessions
BY DEF Task

\* The tasks that are queued for a line that is read.
LEMMA TasksMade ==
    ASSUME asked \in Nat, NEW s \in Sessions
    PROVE  /\ [op |-> "say", s |-> s, m |-> LineOf("global", s, None)] \in Task
           /\ \A to \in Sessions : [op |-> "find", s |-> s, m |-> LineOf("private", s, to)] \in Task
           /\ [op |-> "enter", s |-> s, m |-> Nothing] \in Task
           /\ [op |-> "leave", s |-> s, m |-> LeftNotice(s)] \in Task
BY LineTypes DEF Task

\* A broadcast of a room, as it goes on.
LEMMA HandlerParts ==
    ASSUME NEW h \in Handler
    PROVE  /\ h = NoHandler <=> h.op = "idle"
           /\ h.op # "idle" => h.m \in Line /\ h.todo \subseteq Sessions
           /\ h.op = "walk" =>
                /\ [h EXCEPT !.op = "log"] \in Handler
                /\ \A to : [h EXCEPT !.todo = h.todo \ {to}] \in Handler
<1>1. CASE h.op = "idle"
  BY <1>1 DEF Handler, NoHandler, Nothing
<1>2. CASE h.op # "idle"
  <2>1. h \in [op : {"walk", "log"}, m : Line, todo : SUBSET Sessions]
    BY <1>2 DEF Handler
  <2> QED
    BY <1>2, <2>1 DEF Handler, NoHandler
<1> QED
  BY <1>1, <1>2

\* Queueing a task, and taking the first one.
LEMMA StrandTypes ==
    ASSUME strand \in Seq(Task)
    PROVE  /\ \A op, s, m : [op |-> op, s |-> s, m |-> m] \in Task /\ Queue(op, s, m)
                            => strand' \in Seq(Task)
           /\ \A op : Take(op) => strand' \in Seq(Task) /\ Current \in Task
<1>1. \A k \in Task : Append(strand, k) \in Seq(Task)
  BY AppendIs
<1>2. strand # <<>> => Tail(strand) \in Seq(Task) /\ Head(strand) \in Task
  BY TailIs
<1> QED
  BY <1>1, <1>2 DEF Queue, Take, Current

\* Queueing a message on the strands of sessions.
LEMMA PostTypes ==
    ASSUME NEW q \in [Sessions -> Seq(Hop)], NEW m \in Line, NEW hop \in {1, 2}, NEW s \in Sessions
    PROVE  Post(q, s, hop, m) \in [Sessions -> Seq(Hop)]
<1>1. [hop |-> hop, m |-> m] \in Hop
  BY DEF Hop
<1>2. Append(q[s], [hop |-> hop, m |-> m]) \in Seq(Hop)
  BY <1>1, AppendIs
<1> QED
  BY <1>2 DEF Post

LEMMA PostAllTypes ==
    ASSUME posted \in [Sessions -> Seq(Hop)], NEW m \in Line, NEW to
    PROVE  PostsToAll(to, m) \in [Sessions -> Seq(Hop)]
<1>1. [hop |-> 1, m |-> m] \in Hop
  BY DEF Hop
<1>2. \A s \in Sessions : Append(posted[s], [hop |-> 1, m |-> m]) \in Seq(Hop)
  BY <1>1, AppendIs
<1> QED
  BY <1>2 DEF PostsToAll

\* A message that arrives has a number, and may be the last.
LEMMA HearsTypes ==
    ASSUME FlowTypeOK, NEW s \in Sessions, Hears(s)
    PROVE  /\ asked \in Nat /\ asked' = asked + 1 /\ asked' \in 0..MaxAsks
           /\ last' \in [Sessions -> 0..MaxAsks]
<1>1. asked \in Nat /\ MaxAsks \in Nat /\ last \in [Sessions -> 0..MaxAsks]
  BY FlowAssumption DEF FlowTypeOK
<1>2. asked' = asked + 1 /\ asked' \in 0..MaxAsks
  BY <1>1 DEF Hears, Asks
<1>3. last' = last \/ last' = [last EXCEPT ![s] = asked']
  BY DEF Hears
<1> QED
  BY <1>1, <1>2, <1>3

\* What happens to a connection keeps the types.
LEMMA ReadTypes ==
    ASSUME FlowTypeOK, NEW s \in Sessions, Reads(s)
    PROVE  FlowTypeOK'
<1>1. /\ asked \in Nat /\ MaxAsks \in Nat /\ strand \in Seq(Task)
      /\ handler \in [Sessions -> Handler]
  BY FlowAssumption DEF FlowTypeOK
<1>3. CASE SayGlobal(s)
  <2>1. [op |-> "say", s |-> s, m |-> LineOf("global", s, None)] \in Task
    BY <1>1, TasksMade
  <2>2. strand' \in Seq(Task)
    BY <1>1, <1>3, <2>1, StrandTypes DEF SayGlobal
  <2> QED
    BY <1>3, <2>2, HearsTypes
       DEF SayGlobal, FlowTypeOK, queueVars, historyVars
<1>4. CASE SayRoom(s)
  <2>1. members \subseteq Sessions
    BY DEF FlowTypeOK
  <2>2. [op |-> "walk", m |-> LineOf("room", s, None), todo |-> members \ {s}] \in Handler
    BY <1>1, <2>1, LineTypes DEF Handler
  <2>3. handler' \in [Sessions -> Handler]
    BY <1>1, <1>4, <2>2 DEF SayRoom
  <2> QED
    BY <1>4, <2>3, HearsTypes DEF SayRoom, FlowTypeOK, queueVars, historyVars
<1>5. ASSUME NEW to \in Sessions, SayPrivate(s, to)
      PROVE  FlowTypeOK'
  <2>1. [op |-> "find", s |-> s, m |-> LineOf("private", s, to)] \in Task
    BY <1>1, TasksMade
  <2>2. strand' \in Seq(Task)
    BY <1>1, <1>5, <2>1, StrandTypes DEF SayPrivate
  <2> QED
    BY <1>5, <2>2, HearsTypes DEF SayPrivate, FlowTypeOK, queueVars, historyVars
<1>6. CASE AskEnter(s)
  <2>1. [op |-> "enter", s |-> s, m |-> Nothing] \in Task
    BY <1>1, TasksMade
  <2>2. strand' \in Seq(Task)
    BY <1>1, <1>6, <2>1, StrandTypes DEF AskEnter
  <2> QED
    BY <1>6, <2>2, HearsTypes DEF AskEnter, FlowTypeOK, queueVars, historyVars
<1>7. CASE ExitRoom(s)
  BY <1>7, HearsTypes DEF ExitRoom, FlowTypeOK, queueVars, historyVars
<1>8. ASSUME NEW what \in {"read", "write"}, Disconnect(s, what)
      PROVE  FlowTypeOK'
  <2>1. [op |-> "leave", s |-> s, m |-> LeftNotice(s)] \in Task
    BY <1>1, TasksMade
  <2>2. strand' \in Seq(Task)
    BY <1>1, <1>8, <2>1, StrandTypes DEF Disconnect
  <2>3. asked' \in 0..MaxAsks
    BY <1>1, <1>8 DEF Disconnect, Asks
  <2>4. failed' \in [Sessions -> SUBSET {"read", "write"}]
    BY <1>8 DEF Disconnect, FlowTypeOK
  <2> QED
    BY <1>8, <2>2, <2>3, <2>4 DEF Disconnect, FlowTypeOK, queueVars, historyVars
<1> QED
  BY <1>3, <1>4, <1>5, <1>6, <1>7, <1>8 DEF Reads

\* So does what runs on the strand of a session.
LEMMA RunTypes ==
    ASSUME FlowTypeOK, NEW s \in Sessions, RunPosted(s)
    PROVE  FlowTypeOK'
<1> DEFINE p == Head(posted[s])
           rest == [posted EXCEPT ![s] = Tail(posted[s])]
<1>1. /\ posted \in [Sessions -> Seq(Hop)] /\ posted[s] # <<>>
      /\ delivered \in [Sessions -> Seq(Line)] /\ dropped \in [Sessions -> SUBSET Line]
  BY DEF FlowTypeOK, RunPosted, Hop
<1>2. p \in Hop /\ Tail(posted[s]) \in Seq(Hop)
  BY <1>1, TailIs
<1>3. p.m \in Line
  BY <1>2 DEF Hop
<1>4. rest \in [Sessions -> Seq(Hop)]
  BY <1>1, <1>2
<1>5. Append(delivered[s], p.m) \in Seq(Line)
  BY <1>1, <1>3, AppendIs
<1>6. \/ posted' = Post(rest, s, 2, p.m) /\ delivered' = delivered /\ dropped' = dropped
      \/ /\ posted' = rest /\ dropped' = dropped
         /\ delivered' = [delivered EXCEPT ![s] = Append(delivered[s], p.m)]
      \/ /\ posted' = rest /\ delivered' = delivered
         /\ dropped' = [dropped EXCEPT ![s] = dropped[s] \cup {p.m}]
  BY DEF RunPosted
<1> HIDE DEF p, rest
<1>7. Post(rest, s, 2, p.m) \in [Sessions -> Seq(Hop)]
  BY <1>3, <1>4, PostTypes
<1>8. /\ posted' \in [Sessions -> Seq(Hop)] /\ delivered' \in [Sessions -> Seq(Line)]
      /\ dropped' \in [Sessions -> SUBSET Line]
  BY <1>1, <1>3, <1>4, <1>5, <1>6, <1>7
<1> QED
  BY <1>8 DEF RunPosted, FlowTypeOK, Hop, connVars, historyVars

\* Whatever becomes of a write to the history.
LEMMA WriteTypes ==
    ASSUME FlowTypeOK, NEW m \in Line, Write(m)
    PROVE  /\ log' \in Seq(Line) /\ unlogged' \subseteq Line
           /\ history' \in {"held", "reset", "crashed"}
<1>1. Append(log, m) \in Seq(Line)
  BY AppendIs DEF FlowTypeOK
<1> QED
  BY <1>1 DEF Write, FlowTypeOK

\* And the broadcast of a room.
LEMMA GoesOnTypes ==
    ASSUME FlowTypeOK, NEW s \in Sessions, GoesOn(s)
    PROVE  FlowTypeOK'
<1>1. /\ handler \in [Sessions -> Handler] /\ posted \in [Sessions -> Seq(Hop)]
      /\ NoHandler \in Handler
  BY DEF FlowTypeOK, Hop, Handler, NoHandler
<1>2. ASSUME NEW to \in Sessions, WalkStep(s, to)
      PROVE  FlowTypeOK'
  <2>1. handler[s].op = "walk" /\ handler[s].m \in Line
    BY <1>1, <1>2, HandlerParts DEF WalkStep
  <2>2. posted' \in [Sessions -> Seq(Hop)]
    BY <1>1, <1>2, <2>1, PostTypes DEF WalkStep
  <2>3. handler' = [handler EXCEPT ![s] = [handler[s] EXCEPT !.todo = handler[s].todo \ {to}]]
    BY <1>2 DEF WalkStep
  <2>4. handler' \in [Sessions -> Handler]
    BY <1>1, <2>1, <2>3, HandlerParts
  <2> QED
    BY <1>2, <2>2, <2>4 DEF WalkStep, FlowTypeOK, Hop, connVars, queueVars, historyVars
<1>3. CASE WalkEnd(s)
  <2>1. [handler[s] EXCEPT !.op = "log"] \in Handler
    BY <1>1, <1>3, HandlerParts DEF WalkEnd
  <2>2. handler' \in [Sessions -> Handler]
    BY <1>1, <1>3, <2>1 DEF WalkEnd
  <2> QED
    BY <1>3, <2>2 DEF WalkEnd, FlowTypeOK, connVars, queueVars, historyVars
<1>4. CASE LogRoom(s)
  <2>1. handler[s].m \in Line
    BY <1>1, <1>4, HandlerParts DEF LogRoom
  <2>2. handler' \in [Sessions -> Handler]
    BY <1>1, <1>4 DEF LogRoom
  <2> QED
    BY <1>4, <2>1, <2>2, WriteTypes DEF LogRoom, FlowTypeOK, connVars, queueVars, historyVars
<1> QED
  BY <1>2, <1>3, <1>4 DEF GoesOn

\* And the tasks of strand_.
LEMMA StrandStepTypes ==
    ASSUME FlowTypeOK, StrandStarts \/ StrandLog
    PROVE  FlowTypeOK'
<1>1. /\ strand \in Seq(Task) /\ posted \in [Sessions -> Seq(Hop)]
      /\ Nothing \in Line \cup {Nothing}
  BY DEF FlowTypeOK, Hop
<1>2. ASSUME NEW m \in Line, NEW to, Broadcast(m, to)
      PROVE  posted' \in [Sessions -> Seq(Hop)] /\ running' \in Line \cup {Nothing}
  BY <1>1, <1>2, PostAllTypes DEF Broadcast
<1>3. CASE StrandSay
  <2>1. strand' \in Seq(Task) /\ Current.m \in Line
    BY <1>1, <1>3, StrandTypes, TaskTypes DEF StrandSay, Take, Current
  <2>2. posted' \in [Sessions -> Seq(Hop)] /\ running' \in Line \cup {Nothing}
    BY <1>1, <1>2, <1>3, <2>1 DEF StrandSay, FlowTypeOK, connVars, queueVars, historyVars
  <2> QED
    BY <1>3, <2>1, <2>2 DEF StrandSay, FlowTypeOK, Hop, connVars, queueVars, historyVars
<1>4. CASE StrandEnter
  <2>1. strand' \in Seq(Task) /\ Current.s \in Sessions
    BY <1>1, <1>4, StrandTypes, TaskTypes DEF StrandEnter, Take, Current
  <2> QED
    BY <1>4, <2>1 DEF StrandEnter, FlowTypeOK, connVars, queueVars, historyVars
<1>5. CASE StrandLeave
  <2>1. strand' \in Seq(Task) /\ Current.m \in Line
    BY <1>1, <1>5, StrandTypes, TaskTypes DEF StrandLeave, Take, Current
  <2>4. posted' \in [Sessions -> Seq(Hop)] /\ running' \in Line \cup {Nothing}
    BY <1>1, <1>2, <1>5, <2>1 DEF StrandLeave, FlowTypeOK
  <2>5. members' \subseteq Sessions /\ listed' \subseteq Sessions
    BY <1>5 DEF StrandLeave, FlowTypeOK, connVars, queueVars, historyVars
  <2> QED
    BY <1>5, <2>1, <2>4, <2>5 DEF StrandLeave, FlowTypeOK, Hop, connVars, queueVars, historyVars
<1>6. CASE StrandFind
  <2>1. strand' \in Seq(Task) /\ Current.m \in Line
    BY <1>1, <1>6, StrandTypes, TaskTypes DEF StrandFind, Take, Current
  <2>2. answers' \subseteq [m : Line, to : Sessions \cup {None}]
    BY <1>6, <2>1 DEF StrandFind, FlowTypeOK, connVars, queueVars, historyVars
  <2> QED
    BY <1>6, <2>1, <2>2 DEF StrandFind, FlowTypeOK, connVars, queueVars, historyVars
<1>7. CASE StrandLog
  <2>1. running \in Line
    BY <1>7 DEF StrandLog, FlowTypeOK, connVars, queueVars, historyVars
  <2> QED
    BY <1>7, <2>1, WriteTypes DEF StrandLog, FlowTypeOK, connVars, queueVars, historyVars
<1> QED
  BY <1>3, <1>4, <1>5, <1>6, <1>7 DEF StrandStarts

\* And private messages.
LEMMA AnswerTypes ==
    ASSUME FlowTypeOK, AnswerStarts \/ PrivateGoesOn
    PROVE  FlowTypeOK'
<1>1. posted \in [Sessions -> Seq(Hop)]
  BY DEF FlowTypeOK, Hop
<1>2. ASSUME NEW a \in answers, RunAnswer(a)
      PROVE  FlowTypeOK'
  <2>1. a.m \in Line /\ a.to \in Sessions \cup {None}
    BY DEF FlowTypeOK
  <2>2. a.m.from \in Sessions
    BY <2>1 DEF Line
  <2>3. Post(posted, a.m.from, 2, a.m) \in [Sessions -> Seq(Hop)]
    BY <1>1, <2>1, <2>2, PostTypes
  <2>4. a.to # None => Post(Post(posted, a.to, 2, a.m), a.m.from, 2, a.m) \in [Sessions -> Seq(Hop)]
    BY <1>1, <2>1, <2>2, PostTypes
  <2>5. posted' \in [Sessions -> Seq(Hop)] /\ answering' \subseteq Line
    BY <1>1, <1>2, <2>1, <2>3, <2>4 DEF RunAnswer, FlowTypeOK, connVars, queueVars, historyVars
  <2> QED
    BY <1>2, <2>5 DEF RunAnswer, FlowTypeOK, Hop, connVars, queueVars, historyVars
<1>3. ASSUME NEW m \in answering, LogPrivate(m)
      PROVE  FlowTypeOK'
  <2>1. m \in Line
    BY DEF FlowTypeOK
  <2> QED
    BY <1>3, <2>1, WriteTypes DEF LogPrivate, FlowTypeOK, connVars, queueVars, historyVars
<1> QED
  BY <1>2, <1>3 DEF AnswerStarts, PrivateGoesOn

LEMMA FlowTypesStart == FlowInit => FlowTypeOK
<1>1. \A S : <<>> \in Seq(S)
  BY EmptySeq
<1>2. NoHandler \in Handler /\ 0 \in 0..MaxAsks
  BY FlowAssumption DEF Handler, NoHandler
<1>3. FlowInit => /\ failed \in [Sessions -> SUBSET {"read", "write"}]
                   /\ last \in [Sessions -> 0..MaxAsks]
                   /\ dropped \in [Sessions -> SUBSET Line]
  BY <1>2 DEF FlowInit
<1> SUFFICES ASSUME FlowInit
             PROVE  FlowTypeOK
  OBVIOUS
<1>4. strand \in Seq(Task) /\ log \in Seq(Line)
  BY <1>1 DEF FlowInit
<1>5. /\ posted \in [Sessions -> Seq([hop : {1, 2}, m : Line])]
      /\ delivered \in [Sessions -> Seq(Line)]
  BY <1>1 DEF FlowInit
<1>6. /\ asked \in 0..MaxAsks /\ listed \subseteq Sessions /\ members \subseteq Sessions
      /\ handler \in [Sessions -> Handler] /\ running \in Line \cup {Nothing}
  BY <1>2 DEF FlowInit
<1>7. answers = {} /\ answering = {} /\ history = "held" /\ unlogged = {} /\ stopped = FALSE
  BY DEF FlowInit
<1> QED
  BY <1>3, <1>4, <1>5, <1>6, <1>7 DEF FlowTypeOK

LEMMA FlowTypesStep ==
    ASSUME FlowTypeOK, [FlowNext]_flowVars
    PROVE  FlowTypeOK'
<1>1. CASE UNCHANGED flowVars
  BY <1>1 DEF flowVars, connVars, queueVars, historyVars, FlowTypeOK
<1> QED
  BY <1>1, ReadTypes, RunTypes, GoesOnTypes, StrandStepTypes, AnswerTypes DEF FlowNext

\* Every reachable state has the types its declarations give it.
THEOREM FlowTypeCorrect == FlowSpec => []FlowTypeOK
BY FlowTypesStart, FlowTypesStep, PTL DEF FlowSpec

-----------------------------------------------------------------------------
(* The inductive invariant.                                                *)

\* What a session has in its write queue or in the queue of its strand.
Lines(d, q) == {d[i] : i \in DOMAIN d} \cup {q[i].m : i \in DOMAIN q}
Got(s)      == Lines(delivered[s], posted[s])

\* The lines every listed session is sent, by strand_; the lines of the history and
\* the one that is about to be given to it; and with them all that anybody got.
Announced == {"global", "left"}
Recorded  == {log[i] : i \in DOMAIN log} \cup ({running} \ {Nothing})
Seen      == {m \in Line : m \in Recorded \/ \E s \in Sessions : m \in Got(s)}

\* What may still be seen of a session after the notice that it has left.
Lasts == {m \in Line : m.kind = "private" \/ (m.kind # "left" /\ m.n = last[m.from])}

\* Of two lines in the history, or with a receiver: the first may precede the second.
MayPrecede(m1, m2) ==
    /\ m1.kind \in Announced /\ m2.kind \in Announced => m1.n < m2.n
    /\ m1.kind = "room" /\ m2.kind = "room" /\ m1.from = m2.from => m1.n < m2.n
    /\ m1.kind = "left" /\ m2.from = m1.from => m2 \in Lasts

Order == {p \in Line \X Line : MayPrecede(p[1], p[2])}

\* The order in which the messages of a queue will get to the write queue: those
\* that still have two turns to take go behind those that have one.
Sooner(q, i, j) == (q[j].hop = 1 /\ q[i].hop = 2) \/ (q[i].hop = q[j].hop /\ i < j)

\* What is delivered and what is queued behind it are in the order R.
Ordered(R, d, q) ==
    /\ \A i, j \in DOMAIN d : i < j => <<d[i], d[j]>> \in R
    /\ \A i \in DOMAIN d : \A j \in DOMAIN q : <<d[i], q[j].m>> \in R
    /\ \A i, j \in DOMAIN q : Sooner(q, i, j) => <<q[i].m, q[j].m>> \in R

\* Without ChatServer::stop, which Shutdown adds, history_ is never reset.
Unharmed == history = "held" /\ ~stopped

Kinds ==
    /\ \A i \in DOMAIN strand :
         /\ strand[i].op = "say" => strand[i].m.kind = "global" /\ strand[i].m.from = strand[i].s
         /\ strand[i].op = "leave" => strand[i].m.kind = "left" /\ strand[i].m.from = strand[i].s
         /\ strand[i].op = "find" => strand[i].m.kind = "private" /\ strand[i].m.to # strand[i].m.from
    /\ \A s \in Sessions : handler[s] # NoHandler => handler[s].m.kind = "room" /\ handler[s].m.from = s
    /\ running # Nothing => running.kind \in Announced
    /\ \A a \in answers : a.m.kind = "private" /\ a.m.to # a.m.from /\ a.to \in {a.m.to, None}
    /\ \A m \in answering : m.kind = "private"
    /\ \A s \in Sessions : \A i \in DOMAIN posted[s] :
         posted[s][i].hop = 1 => posted[s][i].m.kind \in Announced

\* A session whose connection has failed: whatever it still says is its last line.
Spent == {s \in Sessions : /\ failed[s] # {}
                           /\ handler[s] # NoHandler => handler[s].m.n = last[s]}

\* strand_ has its tasks in the order of their numbers, and all of them after what
\* was announced; behind the departure of a session there is its last line at most.
Sending == {"say", "leave"}
InTurn ==
    /\ \A i, j \in DOMAIN strand :
         i < j => /\ strand[i].op \in Sending /\ strand[j].op \in Sending
                       => strand[i].m.n < strand[j].m.n
                  /\ strand[i].op = "leave" /\ strand[j].op = "say" /\ strand[i].s = strand[j].s
                       => strand[j].m \in Lasts
    /\ \A i \in DOMAIN strand : strand[i].op = "leave" => strand[i].s \in Spent
    /\ \A m \in Seen : \A i \in DOMAIN strand :
         /\ m.kind \in Announced /\ strand[i].op \in Sending => m.n < strand[i].m.n
         /\ m.kind = "left" /\ strand[i].op = "say" /\ strand[i].s = m.from
              => strand[i].m \in Lasts
    /\ \A m \in Seen : m.kind = "left" => m.from \in Spent /\ m.from \notin listed

\* Lines carry numbers that were given out, and a room line that is on its way is
\* later than all those of its sender that have arrived.
Numbered ==
    /\ \A m \in Seen : m.kind # "private" => m.n <= asked
    /\ \A i \in DOMAIN strand : strand[i].op \in Sending => strand[i].m.n <= asked
    /\ \A s \in Sessions : handler[s] # NoHandler =>
         /\ handler[s].m.n <= asked
         /\ \A m \in Seen : m.kind = "room" /\ m.from = s => m.n <= handler[s].m.n
         /\ \A r \in handler[s].todo : \A m \in Got(r) :
              m.kind = "room" /\ m.from = s => m.n < handler[s].m.n
         /\ \A m \in Recorded : m.kind = "room" /\ m.from = s => m.n < handler[s].m.n

\* The history is in order, with the line that is about to be written to it.
RecordInOrder ==
    /\ \A i, j \in DOMAIN log : i < j => <<log[i], log[j]>> \in Order
    /\ running # Nothing => \A i \in DOMAIN log : <<log[i], running>> \in Order

\* So is what every session receives.
Received == \A s \in Sessions : Ordered(Order, delivered[s], posted[s])

\* Those who are to have a line.
Receivers(m) ==
    IF m.kind = "private" THEN {m.to, m.from}
    ELSE (IF m.kind = "room" THEN {} ELSE listed) \ {m.from}

\* What the history has, or is about to have, was sent on.
SentOn ==
    \A m \in Recorded \cup answering : \A s \in Receivers(m) : m \in Got(s) \cup dropped[s]

FlowInv ==
    FlowTypeOK /\ Unharmed /\ Kinds /\ InTurn /\ Numbered /\ RecordInOrder /\ Received /\ SentOn

-----------------------------------------------------------------------------
(* What a session receives, as its strand goes on.                         *)

Turn(d, q, d2, q2) ==
    \/ Head(q).hop = 1 /\ d2 = d /\ q2 = Append(Tail(q), [hop |-> 2, m |-> Head(q).m])
    \/ Head(q).hop = 2 /\ d2 \in {d, Append(d, Head(q).m)} /\ q2 = Tail(q)
Queued(q, hop, m, q2) == q2 = Append(q, [hop |-> hop, m |-> m])

\* A message takes its turn: it may be dropped, but nothing changes places.
LEMMA TurnTaken ==
    ASSUME NEW d \in Seq(Line), NEW q \in Seq(Hop), q # <<>>, NEW d2, NEW q2,
           Turn(d, q, d2, q2)
    PROVE  /\ Lines(d2, q2) \subseteq Lines(d, q)
           /\ Lines(d, q) \subseteq Lines(d2, q2) \cup {Head(q).m}
           /\ (d2 = d /\ q2 = Tail(q)) \/ Lines(d, q) = Lines(d2, q2)
           /\ \A R : Ordered(R, d, q) => Ordered(R, d2, q2)
           /\ \A j \in DOMAIN q2 : q2[j].hop = 1 => \E i \in DOMAIN q : q2[j] = q[i]
<1> DEFINE r == Tail(q)
           p == Head(q)
           again == [hop |-> 2, m |-> p.m]
<1>1. /\ r \in Seq(Hop) /\ p \in Hop /\ DOMAIN q \subseteq Nat /\ DOMAIN r \subseteq Nat
      /\ 1 \in DOMAIN q /\ q[1] = p /\ \A i \in DOMAIN q : i # 1 => 1 < i
      /\ \A i \in DOMAIN r : i + 1 \in DOMAIN q /\ 1 < i + 1 /\ r[i] = q[i + 1]
      /\ \A i \in DOMAIN q : i # 1 => i - 1 \in DOMAIN r /\ r[i - 1] = q[i]
  BY TailIs
<1>2. p.m \in Line /\ again \in Hop /\ again.hop = 2 /\ again.m = p.m
  BY <1>1 DEF Hop
<1>3. CASE p.hop = 1 /\ d2 = d /\ q2 = Append(r, again)
  <2> DEFINE n == Len(r) + 1
             was(i) == IF i = n THEN 1 ELSE i + 1
  <2>1. /\ Len(r) \in Nat /\ DOMAIN r = 1..Len(r) /\ DOMAIN q2 = DOMAIN r \cup {n}
        /\ \A i \in DOMAIN r : q2[i] = r[i] /\ i < n
        /\ q2[n] = again
    BY <1>1, <1>2, <1>3, AppendIs
  <2> HIDE DEF again, r, p
  <2>2. \A i \in DOMAIN q2 : was(i) \in DOMAIN q /\ q2[i].m = q[was(i)].m
    BY <1>1, <1>2, <2>1
  <2>3. \A i \in DOMAIN q : \E j \in DOMAIN q2 : was(j) = i
    <3> SUFFICES ASSUME NEW i \in DOMAIN q
                 PROVE  \E j \in DOMAIN q2 : was(j) = i
      OBVIOUS
    <3>1. CASE i = 1
      BY <2>1, <3>1
    <3>2. CASE i # 1
      <4>1. i - 1 \in DOMAIN q2 /\ i - 1 # n /\ i \in Nat
        BY <1>1, <2>1, <3>2
      <4> QED
        BY <4>1
    <3> QED
      BY <3>1, <3>2
  <2>4. \A i, j \in DOMAIN q2 : Sooner(q2, i, j) => Sooner(q, was(i), was(j))
    <3> SUFFICES ASSUME NEW i \in DOMAIN q2, NEW j \in DOMAIN q2, Sooner(q2, i, j)
                 PROVE  Sooner(q, was(i), was(j))
      OBVIOUS
    <3>1. CASE i # n /\ j # n
      <4>1. /\ i \in DOMAIN r /\ j \in DOMAIN r /\ q2[i] = r[i] /\ q2[j] = r[j]
            /\ was(i) = i + 1 /\ was(j) = j + 1
        BY <2>1, <3>1
      <4>2. q2[i] = q[was(i)] /\ q2[j] = q[was(j)] /\ i \in Nat /\ j \in Nat
        BY <1>1, <4>1
      <4> HIDE DEF was
      <4>3. i < j => was(i) < was(j)
        BY <4>1, <4>2
      <4> QED
        BY <4>2, <4>3 DEF Sooner
    <3>2. CASE i = n /\ j # n
      BY <1>1, <1>2, <1>3, <2>1, <3>2 DEF Sooner
    <3>3. CASE i # n /\ j = n
      BY <1>1, <1>2, <1>3, <2>1, <3>3 DEF Sooner
    <3>4. CASE i = n /\ j = n
      BY <1>2, <2>1, <3>4 DEF Sooner
    <3> QED
      BY <3>1, <3>2, <3>3, <3>4
  <2>5. \A j \in DOMAIN q2 : q2[j].hop = 1 => q2[j] = q[was(j)]
    BY <1>1, <1>2, <2>1
  <2> HIDE DEF was
  <2>6. Lines(d2, q2) = Lines(d, q)
    <3>1. {q2[i].m : i \in DOMAIN q2} \subseteq {q[i].m : i \in DOMAIN q}
      <4> SUFFICES ASSUME NEW i \in DOMAIN q2
                   PROVE  q2[i].m \in {q[j].m : j \in DOMAIN q}
        OBVIOUS
      <4>1. was(i) \in DOMAIN q /\ q2[i].m = q[was(i)].m
        BY <2>2
      <4> QED
        BY <4>1
    <3>2. ASSUME NEW i \in DOMAIN q
          PROVE  q[i].m \in {q2[j].m : j \in DOMAIN q2}
      <4>1. PICK j \in DOMAIN q2 : was(j) = i
        BY <2>3
      <4>2. q[i].m = q2[j].m
        BY <2>2, <4>1
      <4> QED
        BY <4>2
    <3>3. {q2[i].m : i \in DOMAIN q2} = {q[i].m : i \in DOMAIN q}
      <4>1. \A y \in {q[i].m : i \in DOMAIN q} : y \in {q2[i].m : i \in DOMAIN q2}
        BY <3>2
      <4> QED
        BY <3>1, <4>1
    <3> QED
      BY <1>3, <3>3 DEF Lines
  <2>7. \A R : Ordered(R, d, q) => Ordered(R, d2, q2)
    BY <1>3, <2>2, <2>4 DEF Ordered
  <2> QED
    BY <2>2, <2>5, <2>6, <2>7
<1>5. ASSUME q2 = r
      PROVE  \A i \in DOMAIN q2 : i + 1 \in DOMAIN q /\ 1 < i + 1 /\ q2[i] = q[i + 1]
  BY <1>1, <1>5
<1>6. CASE p.hop = 2 /\ d2 = d /\ q2 = r
  <2> HIDE DEF r, p
  <2>1. \A i \in DOMAIN q2 : i + 1 \in DOMAIN q /\ 1 < i + 1 /\ q2[i] = q[i + 1]
    BY <1>5, <1>6
  <2>2. \A i \in DOMAIN q : i # 1 => \E j \in DOMAIN q2 : q2[j] = q[i]
    BY <1>1, <1>6
  <2>3. Lines(d2, q2) \subseteq Lines(d, q)
    BY <1>6, <2>1 DEF Lines
  <2>4. Lines(d, q) \subseteq Lines(d2, q2) \cup {p.m}
    BY <1>1, <1>6, <2>2 DEF Lines
  <2>5. ASSUME NEW i \in DOMAIN q2, NEW j \in DOMAIN q2, Sooner(q2, i, j)
        PROVE  Sooner(q, i + 1, j + 1)
    <3>1. q2[i] = q[i + 1] /\ q2[j] = q[j + 1]
      BY <2>1
    <3>2. i < j => i + 1 < j + 1
      BY <1>1, <1>6
    <3> QED
      BY <2>5, <3>1, <3>2 DEF Sooner
  <2>6. \A R : Ordered(R, d, q) => Ordered(R, d2, q2)
    BY <1>6, <2>1, <2>5 DEF Ordered
  <2> QED
    BY <1>6, <2>1, <2>3, <2>4, <2>6 DEF p, r
<1>4. CASE p.hop = 2 /\ d2 = Append(d, p.m) /\ q2 = r
  <2> DEFINE n == Len(d) + 1
  <2>1. /\ Len(d) \in Nat /\ DOMAIN d = 1..Len(d) /\ DOMAIN d2 = DOMAIN d \cup {n}
        /\ \A i \in DOMAIN d : d2[i] = d[i] /\ i < n
        /\ d2[n] = p.m
    BY <1>2, <1>4, AppendIs
  <2> HIDE DEF r, p
  <2>2. \A i \in DOMAIN q2 : i + 1 \in DOMAIN q /\ q2[i] = q[i + 1] /\ Sooner(q, 1, i + 1)
    <3> SUFFICES ASSUME NEW i \in DOMAIN q2
                 PROVE  i + 1 \in DOMAIN q /\ q2[i] = q[i + 1] /\ Sooner(q, 1, i + 1)
      OBVIOUS
    <3>1. i + 1 \in DOMAIN q /\ q2[i] = q[i + 1] /\ 1 < i + 1
      BY <1>1, <1>4
    <3>2. q[i + 1].hop \in {1, 2}
      <4>1. \A j \in DOMAIN q : q[j] \in Hop
        BY SeqDef
      <4> QED
        BY <3>1, <4>1 DEF Hop
    <3> QED
      BY <1>1, <1>4, <3>1, <3>2 DEF Sooner
  <2>3. ASSUME NEW i \in DOMAIN q2, NEW j \in DOMAIN q2, Sooner(q2, i, j)
        PROVE  Sooner(q, i + 1, j + 1)
    <3>1. q2[i] = q[i + 1] /\ q2[j] = q[j + 1]
      BY <2>2
    <3>2. i < j => i + 1 < j + 1
      BY <1>1, <1>4
    <3> QED
      BY <2>3, <3>1, <3>2 DEF Sooner
  <2>4. \A i \in DOMAIN q : i # 1 => \E j \in DOMAIN q2 : q2[j] = q[i]
    BY <1>1, <1>4
  <2>5. Lines(d2, q2) = Lines(d, q)
    <3>1. ASSUME NEW m \in Lines(d2, q2)
          PROVE  m \in Lines(d, q)
      BY <1>1, <2>1, <2>2, <3>1 DEF Lines
    <3>2. ASSUME NEW m \in Lines(d, q)
          PROVE  m \in Lines(d2, q2)
      <4>1. CASE \E i \in DOMAIN d : m = d[i]
        BY <2>1, <4>1 DEF Lines
      <4>2. CASE m = q[1].m
        <5>1. m = d2[n] /\ n \in DOMAIN d2
          BY <1>1, <2>1, <4>2
        <5> QED
          BY <5>1 DEF Lines
      <4>3. CASE \E i \in DOMAIN q : i # 1 /\ m = q[i].m
        <5>1. \E j \in DOMAIN q2 : m = q2[j].m
          BY <2>4, <4>3
        <5> QED
          BY <5>1 DEF Lines
      <4> QED
        BY <3>2, <4>1, <4>2, <4>3 DEF Lines
    <3> QED
      BY <3>1, <3>2
  <2>6. \A R : Ordered(R, d, q) => Ordered(R, d2, q2)
    <3> SUFFICES ASSUME NEW R, Ordered(R, d, q)
                 PROVE  Ordered(R, d2, q2)
      OBVIOUS
    <3>1. \A i, j \in DOMAIN d2 : i < j => <<d2[i], d2[j]>> \in R
      BY <1>1, <2>1 DEF Ordered
    <3>2. \A i \in DOMAIN d2 : \A j \in DOMAIN q2 : <<d2[i], q2[j].m>> \in R
      <4> SUFFICES ASSUME NEW i \in DOMAIN d2, NEW j \in DOMAIN q2
                   PROVE  <<d2[i], q2[j].m>> \in R
        OBVIOUS
      <4>1. j + 1 \in DOMAIN q /\ q2[j].m = q[j + 1].m /\ Sooner(q, 1, j + 1)
        BY <2>2
      <4>2. CASE i = n
        <5>1. <<q[1].m, q[j + 1].m>> \in R /\ d2[i] = q[1].m
          BY <1>1, <2>1, <4>1, <4>2 DEF Ordered
        <5> QED
          BY <4>1, <5>1
      <4>3. CASE i # n
        <5>1. i \in DOMAIN d /\ d2[i] = d[i]
          BY <2>1, <4>3
        <5> QED
          BY <4>1, <5>1 DEF Ordered
      <4> QED
        BY <4>2, <4>3
    <3>3. \A i, j \in DOMAIN q2 : Sooner(q2, i, j) => <<q2[i].m, q2[j].m>> \in R
      BY <2>2, <2>3 DEF Ordered
    <3> QED
      BY <3>1, <3>2, <3>3 DEF Ordered
  <2> QED
    BY <2>2, <2>5, <2>6
<1> QED
  BY <1>3, <1>4, <1>6 DEF Turn

\* A message is queued that must not precede anything there is, and, where it has
\* only one turn to take, may precede whatever has two.
LEMMA MessageQueued ==
    ASSUME NEW d \in Seq(Line), NEW q \in Seq(Hop), NEW hop \in {1, 2}, NEW m \in Line,
           NEW q2, Queued(q, hop, m, q2)
    PROVE  /\ Lines(d, q2) = Lines(d, q) \cup {m}
           /\ \A R :
                /\ Ordered(R, d, q)
                /\ \A x \in Lines(d, q) : <<x, m>> \in R
                /\ hop = 2 => \A i \in DOMAIN q : q[i].hop = 1 => <<m, q[i].m>> \in R
                => Ordered(R, d, q2)
           /\ \A j \in DOMAIN q2 : q2[j].hop = 1 => q2[j] = [hop |-> hop, m |-> m]
                                                   \/ \E i \in DOMAIN q : q2[j] = q[i]
<1> DEFINE x == [hop |-> hop, m |-> m]
           n == Len(q) + 1
<1>1. x \in Hop /\ x.hop = hop /\ x.m = m
  BY DEF Hop
<1>2. /\ Len(q) \in Nat /\ DOMAIN q = 1..Len(q) /\ DOMAIN q2 = DOMAIN q \cup {n}
      /\ \A i \in DOMAIN q : q2[i] = q[i] /\ i < n
      /\ q2[n] = x
  BY <1>1, AppendIs DEF Queued
<1> HIDE DEF x
<1>3. Lines(d, q2) = Lines(d, q) \cup {m}
  BY <1>1, <1>2 DEF Lines
<1>4. ASSUME NEW R, Ordered(R, d, q), \A y \in Lines(d, q) : <<y, m>> \in R,
             hop = 2 => \A i \in DOMAIN q : q[i].hop = 1 => <<m, q[i].m>> \in R
      PROVE  Ordered(R, d, q2)
  <2>1. (\A i \in DOMAIN d : <<d[i], m>> \in R) /\ \A i \in DOMAIN q : <<q[i].m, m>> \in R
    BY <1>4 DEF Lines
  <2>2. \A i \in DOMAIN d : \A j \in DOMAIN q2 : <<d[i], q2[j].m>> \in R
    BY <1>1, <1>2, <1>4, <2>1 DEF Ordered
  <2>3. ASSUME NEW i \in DOMAIN q2, NEW j \in DOMAIN q2, Sooner(q2, i, j)
        PROVE  <<q2[i].m, q2[j].m>> \in R
    <3>1. CASE i # n /\ j # n
      BY <1>2, <1>4, <2>3, <3>1 DEF Ordered, Sooner
    <3>2. CASE i # n /\ j = n
      BY <1>1, <1>2, <2>1, <3>2
    <3>3. CASE i = n
      BY <1>1, <1>2, <1>4, <2>3, <3>3 DEF Sooner
    <3> QED
      BY <3>1, <3>2, <3>3
  <2> QED
    BY <1>4, <2>2, <2>3 DEF Ordered
<1> QED
  BY <1>2, <1>3, <1>4 DEF x

-----------------------------------------------------------------------------
(* What the steps do to what the sessions get and to the record.           *)

\* A message is queued for some sessions.
Sends(to, hop, m) ==
    /\ delivered' = delivered
    /\ \A r \in Sessions :
         posted'[r] = IF r \in to THEN Append(posted[r], [hop |-> hop, m |-> m]) ELSE posted[r]

LEMMA TurnGot ==
    ASSUME FlowTypeOK, NEW s \in Sessions, RunPosted(s), NEW r \in Sessions
    PROVE  /\ Got(r)' \subseteq Got(r)
           /\ Got(r) \cup dropped[r] \subseteq Got(r)' \cup dropped'[r]
           /\ \A R : Ordered(R, delivered[r], posted[r]) => Ordered(R, delivered'[r], posted'[r])
           /\ \A j \in DOMAIN posted'[r] : posted'[r][j].hop = 1 =>
                \E i \in DOMAIN posted[r] : posted'[r][j] = posted[r][i]
<1>1. /\ posted \in [Sessions -> Seq(Hop)] /\ delivered \in [Sessions -> Seq(Line)]
      /\ posted[s] # <<>> /\ dropped \in [Sessions -> SUBSET Line]
  BY DEF FlowTypeOK, RunPosted, Hop
<1>2. CASE r # s
  <2>1. posted'[r] = posted[r] /\ delivered'[r] = delivered[r] /\ dropped'[r] = dropped[r]
    BY <1>1, <1>2 DEF RunPosted, Post
  <2> QED
    BY <2>1 DEF Got
<1>3. CASE r = s
  <2>1. Turn(delivered[s], posted[s], delivered'[s], posted'[s])
    BY <1>1 DEF RunPosted, Post, Turn
  <2>2. delivered[s] \in Seq(Line) /\ posted[s] \in Seq(Hop)
    BY <1>1
  <2>3. /\ Lines(delivered'[s], posted'[s]) \subseteq Lines(delivered[s], posted[s])
        /\ Lines(delivered[s], posted[s])
             \subseteq Lines(delivered'[s], posted'[s]) \cup {Head(posted[s]).m}
    BY <1>1, <2>1, <2>2, TurnTaken
  <2>4. ASSUME NEW R, Ordered(R, delivered[s], posted[s])
        PROVE  Ordered(R, delivered'[s], posted'[s])
    BY <1>1, <2>1, <2>2, <2>4, TurnTaken
  <2>5. \A j \in DOMAIN posted'[s] : posted'[s][j].hop = 1 =>
          \E i \in DOMAIN posted[s] : posted'[s][j] = posted[s][i]
    BY <1>1, <2>1, <2>2, TurnTaken
  <2>6. \/ dropped'[s] = dropped[s] \cup {Head(posted[s]).m}
        \/ /\ dropped'[s] = dropped[s]
           /\ Lines(delivered[s], posted[s]) = Lines(delivered'[s], posted'[s])
    <3>1. \/ dropped'[s] = dropped[s] \cup {Head(posted[s]).m}
          \/ dropped' = dropped /\ delivered'[s] # delivered[s]
          \/ dropped' = dropped /\ posted'[s] # Tail(posted[s])
      <4>1. Tail(posted[s]) \in Seq(Hop) /\ Head(posted[s]) \in Hop
        BY <1>1, TailIs
      <4>2. [hop |-> 2, m |-> Head(posted[s]).m] \in Hop
        BY <4>1 DEF Hop
      <4>3. Append(Tail(posted[s]), [hop |-> 2, m |-> Head(posted[s]).m]) # Tail(posted[s])
        BY <4>1, <4>2, AppendProperties
      <4>4. Append(delivered[s], Head(posted[s]).m) # delivered[s]
        BY <1>1, <4>1, AppendProperties DEF Hop
      <4> QED
        BY <1>1, <4>3, <4>4 DEF RunPosted, Post
    <3>2. \/ delivered'[s] = delivered[s] /\ posted'[s] = Tail(posted[s])
          \/ Lines(delivered[s], posted[s]) = Lines(delivered'[s], posted'[s])
      BY <1>1, <2>1, <2>2, TurnTaken
    <3> QED
      BY <3>1, <3>2
  <2>7. Got(s) \cup dropped[s] \subseteq Got(s)' \cup dropped'[s]
    BY <2>3, <2>6 DEF Got
  <2> QED
    BY <1>3, <2>3, <2>4, <2>5, <2>7 DEF Got
<1> QED
  BY <1>2, <1>3

LEMMA SentGot ==
    ASSUME FlowTypeOK, NEW to, NEW hop \in {1, 2}, NEW m \in Line, Sends(to, hop, m),
           NEW r \in Sessions
    PROVE  Got(r)' = IF r \in to THEN Got(r) \cup {m} ELSE Got(r)
<1>1. delivered[r] \in Seq(Line) /\ posted[r] \in Seq(Hop) /\ delivered'[r] = delivered[r]
  BY DEF FlowTypeOK, Hop, Sends
<1>2. CASE r \in to
  <2>1. Queued(posted[r], hop, m, posted'[r])
    BY <1>1, <1>2 DEF Sends, Queued
  <2>2. Lines(delivered[r], posted'[r]) = Lines(delivered[r], posted[r]) \cup {m}
    BY <1>1, <2>1, MessageQueued
  <2> QED
    BY <1>1, <1>2, <2>2 DEF Got
<1>3. CASE r \notin to
  <2>1. posted'[r] = posted[r]
    BY <1>3 DEF Sends
  <2> QED
    BY <1>1, <1>3, <2>1 DEF Got
<1> QED
  BY <1>2, <1>3

LEMMA SentOrdered ==
    ASSUME FlowTypeOK, NEW to, NEW hop \in {1, 2}, NEW m \in Line, Sends(to, hop, m),
           NEW r \in Sessions, NEW R, Ordered(R, delivered[r], posted[r]),
           r \in to => \A x \in Got(r) : <<x, m>> \in R,
           r \in to /\ hop = 2 => \A i \in DOMAIN posted[r] :
             posted[r][i].hop = 1 => <<m, posted[r][i].m>> \in R
    PROVE  Ordered(R, delivered'[r], posted'[r])
<1>1. delivered[r] \in Seq(Line) /\ posted[r] \in Seq(Hop) /\ delivered'[r] = delivered[r]
  BY DEF FlowTypeOK, Hop, Sends
<1>2. CASE r \in to
  <2>1. Queued(posted[r], hop, m, posted'[r])
    BY <1>1, <1>2 DEF Sends, Queued
  <2>2. \A x \in Lines(delivered[r], posted[r]) : <<x, m>> \in R
    BY <1>2 DEF Got
  <2>3. hop = 2 => \A i \in DOMAIN posted[r] : posted[r][i].hop = 1 => <<m, posted[r][i].m>> \in R
    BY <1>2
  <2> DEFINE d == delivered[r]
             q == posted[r]
             q2 == posted'[r]
  <2>4. d \in Seq(Line) /\ q \in Seq(Hop) /\ Queued(q, hop, m, q2) /\ Ordered(R, d, q)
    BY <1>1, <2>1
  <2>7. \A x \in Lines(d, q) : <<x, m>> \in R
    BY <2>2
  <2>8. hop = 2 => \A i \in DOMAIN q : q[i].hop = 1 => <<m, q[i].m>> \in R
    BY <2>3
  <2>5. delivered'[r] = d
    BY <1>1
  <2> HIDE DEF d, q, q2
  <2>6. Ordered(R, d, q2)
    <3>1. \A Q :
             /\ Ordered(Q, d, q)
             /\ \A x \in Lines(d, q) : <<x, m>> \in Q
             /\ hop = 2 => \A i \in DOMAIN q : q[i].hop = 1 => <<m, q[i].m>> \in Q
             => Ordered(Q, d, q2)
      BY <2>4, MessageQueued
    <3> QED
      BY <2>4, <2>7, <2>8, <3>1
  <2> QED
    BY <2>5, <2>6 DEF q2
<1>3. CASE r \notin to
  <2>1. posted'[r] = posted[r]
    BY <1>3 DEF Sends
  <2> QED
    BY <1>1, <2>1
<1> QED
  BY <1>2, <1>3

\* How messages are sent.
LEMMA BroadcastSends ==
    ASSUME FlowTypeOK, NEW m, NEW to, Broadcast(m, to), delivered' = delivered
    PROVE  Sends(to, 1, m)
BY DEF Broadcast, PostsToAll, Sends

LEMMA PostSends ==
    ASSUME FlowTypeOK, NEW m, NEW s \in Sessions, posted' = Post(posted, s, 2, m),
           delivered' = delivered
    PROVE  Sends({s}, 2, m)
BY DEF FlowTypeOK, Post, Sends

LEMMA PostTwiceSends ==
    ASSUME FlowTypeOK, NEW m, NEW s \in Sessions, NEW r \in Sessions, s # r,
           posted' = Post(Post(posted, s, 2, m), r, 2, m), delivered' = delivered
    PROVE  Sends({s, r}, 2, m)
BY DEF FlowTypeOK, Post, Sends

\* What is order stays order while nobody has said its last.
LEMMA OrderKept ==
    ASSUME last' = last
    PROVE  Order' = Order /\ Lasts' = Lasts
BY DEF Order, MayPrecede, Lasts

\* And when somebody has.
LEMMA OrderGrows ==
    ASSUME NEW s \in Sessions, last \in [Sessions -> Nat],
           last' = last \/ (last[s] = 0 /\ \E n : last' = [last EXCEPT ![s] = n])
    PROVE  Order \subseteq Order' /\ Lasts \subseteq Lasts'
<1>1. \A m \in Line : m.n # 0 /\ m.from \in Sessions
  BY DEF Line
<1>2. Lasts \subseteq Lasts'
  BY <1>1 DEF Lasts
<1> QED
  BY <1>2 DEF Order, MayPrecede

\* The record is left alone.
LEMMA RecordKept ==
    ASSUME log' = log, running' = running
    PROVE  Recorded' = Recorded
BY DEF Recorded

\* What everybody has seen together, when somebody is given a line.
LEMMA SeenIs ==
    ASSUME NEW m, Recorded' \subseteq Recorded \cup {m},
           \A r \in Sessions : Got(r)' \subseteq Got(r) \cup {m}
    PROVE  Seen' \subseteq Seen \cup {m}
BY DEF Seen

LEMMA SeenKept ==
    ASSUME Recorded' \subseteq Recorded, \A r \in Sessions : Got(r)' \subseteq Got(r)
    PROVE  Seen' \subseteq Seen
BY DEF Seen

\* A line is given to the history, which may fail to write it.
Given(m) == (unlogged' = unlogged /\ log' = Append(log, m)) \/ log' = log

LEMMA WriteIs ==
    ASSUME history = "held", NEW m, Write(m)
    PROVE  history' = "held" /\ Given(m)
BY DEF Write, Given

LEMMA RecordWritten ==
    ASSUME FlowTypeOK, NEW m \in Line, Given(m), running' \in {running, Nothing}
    PROVE  Recorded' \subseteq Recorded \cup {m}
<1>1. log \in Seq(Line)
  BY DEF FlowTypeOK
<1>2. CASE log' = Append(log, m)
  <2>1. /\ DOMAIN log' = DOMAIN log \cup {Len(log) + 1}
        /\ (\A i \in DOMAIN log : log'[i] = log[i]) /\ log'[Len(log) + 1] = m
    BY <1>1, <1>2, AppendIs
  <2> QED
    BY <2>1 DEF Recorded
<1>3. CASE log' = log
  BY <1>3 DEF Recorded
<1> QED
  BY <1>2, <1>3 DEF Given

\* What sessions get has types.
LEMMA GotTypes ==
    ASSUME FlowTypeOK
    PROVE  /\ \A s \in Sessions : Got(s) \subseteq Line
           /\ Recorded \subseteq Line /\ Seen \subseteq Line /\ Nothing \notin Line
           /\ \A m \in Line : m.n \in Nat /\ m.from \in Sessions
           /\ asked \in Nat
<1>1. /\ log \in Seq(Line) /\ running \in Line \cup {Nothing}
      /\ delivered \in [Sessions -> Seq(Line)] /\ posted \in [Sessions -> Seq(Hop)]
  BY DEF FlowTypeOK, Hop
<1>2. ASSUME NEW S, NEW q \in Seq(S)
      PROVE  \A i \in DOMAIN q : q[i] \in S
  BY <1>2, LenProperties, ElementOfSeq
<1>3. \A h \in Hop : h.m \in Line
  BY DEF Hop
<1>4. ASSUME NEW s \in Sessions
      PROVE  Got(s) \subseteq Line
  <2>1. delivered[s] \in Seq(Line) /\ posted[s] \in Seq(Hop)
    BY <1>1
  <2>2. (\A i \in DOMAIN delivered[s] : delivered[s][i] \in Line)
        /\ \A i \in DOMAIN posted[s] : posted[s][i] \in Hop
    BY <1>2, <2>1
  <2> QED
    BY <1>3, <2>2 DEF Got, Lines
<1>5. Recorded \subseteq Line
  <2>1. \A i \in DOMAIN log : log[i] \in Line
    BY <1>1, <1>2
  <2> QED
    BY <1>1, <2>1 DEF Recorded
<1>6. Nothing \notin Line /\ \A m \in Line : m.n \in Nat /\ m.from \in Sessions
  BY DEF Line, Nothing
<1>7. asked \in Nat
  BY FlowAssumption DEF FlowTypeOK
<1> QED
  BY <1>4, <1>5, <1>6, <1>7 DEF Seen

-----------------------------------------------------------------------------
(* The invariant from step to step.                                        *)

\* The parts of the invariant beside the types.
Parts == Kinds /\ InTurn /\ Numbered /\ RecordInOrder /\ Received /\ SentOn

\* What a task of strand_ and a handler carry.
LEMMA Carried ==
    ASSUME FlowTypeOK
    PROVE  /\ \A i \in DOMAIN strand :
                /\ strand[i] \in Task
                /\ strand[i].op \in {"say", "find", "leave"} =>
                     strand[i].s \in Sessions /\ strand[i].m \in Line /\ strand[i].m.n \in Nat
           /\ \A s \in Sessions : handler[s] # NoHandler =>
                handler[s].m \in Line /\ handler[s].m.n \in Nat /\ handler[s].todo \subseteq Sessions
<1>1. strand \in Seq(Task) /\ handler \in [Sessions -> Handler]
  BY DEF FlowTypeOK
<1>2. \A i \in DOMAIN strand : strand[i] \in Task
  BY <1>1, LenProperties, ElementOfSeq
<1>3. \A m \in Line : m.n \in Nat
  BY DEF Line
<1> QED
  BY <1>1, <1>2, <1>3, TaskTypes, HandlerParts

\* What is on record is sent on, whatever happens to sessions_ and to the queues.
LEMMA SentOnKept ==
    ASSUME SentOn, listed' \subseteq listed,
           \A s \in Sessions : Got(s) \cup dropped[s] \subseteq Got(s)' \cup dropped'[s],
           FlowTypeOK, Recorded' \cup answering' \subseteq Recorded \cup answering
    PROVE  SentOn'
<1> SUFFICES ASSUME NEW m \in Recorded \cup answering, NEW s \in Receivers(m)'
             PROVE  m \in Got(s)' \cup dropped'[s]
  BY DEF SentOn
<1>1. s \in Receivers(m) /\ m \in Line
  BY GotTypes DEF Receivers, FlowTypeOK
<1>2. s \in Sessions
  BY <1>1 DEF Receivers, FlowTypeOK, Line
<1> QED
  BY <1>1, <1>2 DEF SentOn

\* A wider order keeps what is in order.
LEMMA OrderedMore ==
    ASSUME NEW R, NEW S, NEW d, NEW q, Ordered(R, d, q), R \subseteq S
    PROVE  Ordered(S, d, q)
BY DEF Ordered

\* A message is sent, and may be last at everybody who is sent it.
LEMMA ReceivedSent ==
    ASSUME FlowTypeOK, Received, NEW m \in Line, NEW to, NEW hop \in {1, 2}, Sends(to, hop, m),
           Order \subseteq Order',
           \A r \in Sessions : r \in to =>
             /\ \A x \in Got(r) : <<x, m>> \in Order'
             /\ hop = 2 => \A i \in DOMAIN posted[r] :
                  posted[r][i].hop = 1 => <<m, posted[r][i].m>> \in Order'
    PROVE  Received'
<1> SUFFICES ASSUME NEW r \in Sessions
             PROVE  Ordered(Order', delivered'[r], posted'[r])
  BY DEF Received
<1>1. Ordered(Order', delivered[r], posted[r])
  BY OrderedMore DEF Received
<1> QED
  BY <1>1, SentOrdered

\* Only what is announced takes two turns.
LEMMA HopsKept ==
    ASSUME FlowTypeOK, Kinds, NEW m \in Line, NEW to, NEW hop \in {1, 2}, Sends(to, hop, m),
           hop = 1 => m.kind \in Announced
    PROVE  \A r \in Sessions : \A j \in DOMAIN posted'[r] :
             posted'[r][j].hop = 1 => posted'[r][j].m.kind \in Announced
<1> SUFFICES ASSUME NEW r \in Sessions, NEW j \in DOMAIN posted'[r], posted'[r][j].hop = 1
             PROVE  posted'[r][j].m.kind \in Announced
  OBVIOUS
<1>1. delivered[r] \in Seq(Line) /\ posted[r] \in Seq(Hop)
  BY DEF FlowTypeOK, Hop
<1>2. CASE r \in to
  <2>1. Queued(posted[r], hop, m, posted'[r])
    BY <1>2 DEF Sends, Queued
  <2>2. \/ posted'[r][j] = [hop |-> hop, m |-> m]
        \/ \E i \in DOMAIN posted[r] : posted'[r][j] = posted[r][i]
    BY <1>1, <2>1, MessageQueued
  <2> QED
    BY <2>2 DEF Kinds
<1>3. CASE r \notin to
  BY <1>3 DEF Sends, Kinds
<1> QED
  BY <1>2, <1>3

\* Nothing is sent.
LEMMA ReceivedKept ==
    ASSUME Received, posted' = posted, delivered' = delivered, Order \subseteq Order'
    PROVE  Received'
<1> SUFFICES ASSUME NEW r \in Sessions
             PROVE  Ordered(Order', delivered[r], posted[r])
  BY DEF Received
<1> QED
  BY OrderedMore DEF Received

\* Nothing is announced, and nothing queued on strand_.
LEMMA InTurnKept ==
    ASSUME InTurn, strand' = strand, listed' \subseteq listed, Spent \subseteq Spent',
           Lasts \subseteq Lasts', \A m \in Seen' : m.kind \in Announced => m \in Seen
    PROVE  InTurn'
BY DEF InTurn, Announced

\* Who is in Spent.
LEMMA SpentIs ==
    \A r : r \in Spent <=> /\ r \in Sessions /\ failed[r] # {}
                           /\ handler[r] # NoHandler => handler[r].m.n = last[r]
BY DEF Spent

\* A handler ends, or goes on with its line.
LEMMA SpentKept ==
    ASSUME failed' = failed, last' = last,
           \A s \in Sessions : handler'[s] # NoHandler =>
             handler[s] # NoHandler /\ handler'[s].m = handler[s].m
    PROVE  Spent \subseteq Spent'
BY DEF Spent

\* A line is read, or the connection fails.
LEMMA ReadStep ==
    ASSUME FlowInv, NEW s \in Sessions, Reads(s)
    PROVE  Parts'
<1> DEFINE Fits(k) ==
      /\ k \in Task
      /\ k.op \in Sending => k.s = s /\ k.m.from = s /\ k.m.n = asked + 1
      /\ k.op = "say" => k.m.kind = "global" /\ (s \in Spent => k.m \in Lasts')
      /\ k.op = "leave" => k.m.kind = "left" /\ failed'[s] # {}
      /\ k.op = "find" => k.m.kind = "private" /\ k.m.to # k.m.from
    Walking(h) == h # NoHandler =>
      /\ h.m.kind = "room" /\ h.m.from = s /\ h.m.n = asked + 1 /\ h.todo \subseteq Sessions
      /\ s \in Spent => h.m.n = last'[s]
<1>1. /\ FlowTypeOK /\ Parts /\ ~stopped /\ handler \in [Sessions -> Handler]
      /\ strand \in Seq(Task) /\ asked \in Nat /\ last \in [Sessions -> Nat]
      /\ failed \in [Sessions -> SUBSET {"read", "write"}]
  <2>1. FlowTypeOK /\ Parts /\ ~stopped
    BY DEF FlowInv, Parts, Unharmed
  <2>2. /\ handler \in [Sessions -> Handler] /\ strand \in Seq(Task)
        /\ failed \in [Sessions -> SUBSET {"read", "write"}] /\ last \in [Sessions -> 0..MaxAsks]
    BY <2>1 DEF FlowTypeOK
  <2>3. last \in [Sessions -> Nat]
    BY <2>2, FlowAssumption
  <2> QED
    BY <2>1, <2>2, <2>3, GotTypes
<1>2. /\ handler[s] = NoHandler /\ asked' = asked + 1
      /\ UNCHANGED <<listed, running, answers, answering, posted, delivered, dropped, log>>
  BY DEF Reads, SayGlobal, SayRoom, SayPrivate, AskEnter, ExitRoom, Disconnect, Hears, Asks,
         queueVars, historyVars
\* A line of a session that has failed is its last.
<1>3. Hears(s) => /\ s \in Spent => last'[s] = asked + 1
                  /\ last' = last \/ (last[s] = 0 /\ last' = [last EXCEPT ![s] = asked + 1])
  <2> SUFFICES ASSUME Hears(s)
               PROVE  /\ s \in Spent => last'[s] = asked + 1
                      /\ last' = last \/ (last[s] = 0 /\ last' = [last EXCEPT ![s] = asked + 1])
    OBVIOUS
  <2>1. \/ last' = last /\ failed[s] = {}
        \/ last[s] = 0 /\ last' = [last EXCEPT ![s] = asked + 1]
    BY <1>1, <1>2 DEF Hears
  <2>2. s \in Spent => failed[s] # {}
    BY SpentIs
  <2>3. last' = [last EXCEPT ![s] = asked + 1] => last'[s] = asked + 1
    BY <1>1
  <2> QED
    BY <2>1, <2>2, <2>3
<1>4. /\ \A r \in Sessions : failed[r] # {} => failed'[r] # {}
      /\ last' = last \/ (last[s] = 0 /\ last' = [last EXCEPT ![s] = asked + 1])
  <2>1. CASE Hears(s) /\ failed' = failed
    BY <1>3, <2>1
  <2>2. ASSUME NEW what \in {"read", "write"}, Disconnect(s, what)
        PROVE  (\A r \in Sessions : failed[r] # {} => failed'[r] # {}) /\ last' = last
    BY <1>1, <2>2 DEF Disconnect
  <2> QED
    BY <2>1, <2>2 DEF Reads, SayGlobal, SayRoom, SayPrivate, AskEnter, ExitRoom
<1>5. Order \subseteq Order' /\ Lasts \subseteq Lasts'
  BY <1>1, <1>4, OrderGrows
<1>6. \/ handler' = handler /\ (strand' = strand \/ \E k : Fits(k) /\ strand' = Append(strand, k))
      \/ strand' = strand /\ \E h : Walking(h) /\ handler' = [handler EXCEPT ![s] = h]
  <2>1. CASE SayGlobal(s)
    <3> DEFINE k == [op |-> "say", s |-> s, m |-> LineOf("global", s, None)]
    <3>1. k \in Task /\ k.m \in Line /\ k.m.kind = "global" /\ k.m.from = s /\ k.m.n = asked + 1
      BY <1>1, TasksMade, LineTypes DEF LineOf
    <3>2. s \in Spent => k.m \in Lasts'
      BY <1>3, <2>1, <3>1 DEF SayGlobal, Lasts
    <3>3. handler' = handler /\ strand' = Append(strand, k)
      BY <1>1, <2>1 DEF SayGlobal, Queue
    <3>4. Fits(k)
      BY <3>1, <3>2
    <3> QED
      BY <3>3, <3>4
  <2>2. CASE SayRoom(s)
    <3> DEFINE h == [op |-> "walk", m |-> LineOf("room", s, None), todo |-> members \ {s}]
    <3>1. Walking(h)
      BY <1>1, <1>3, <2>2 DEF LineOf, SayRoom, FlowTypeOK
    <3> QED
      BY <1>1, <2>2, <3>1 DEF SayRoom
  <2>3. ASSUME NEW to \in Sessions, SayPrivate(s, to)
        PROVE  handler' = handler /\ \E k : Fits(k) /\ strand' = Append(strand, k)
    <3> DEFINE k == [op |-> "find", s |-> s, m |-> LineOf("private", s, to)]
    <3>1. Fits(k)
      BY <1>1, <2>3, TasksMade DEF LineOf, SayPrivate, Sending
    <3> QED
      BY <1>1, <2>3, <3>1 DEF SayPrivate, Queue
  <2>4. CASE AskEnter(s)
    <3> DEFINE k == [op |-> "enter", s |-> s, m |-> Nothing]
    <3>1. Fits(k)
      BY <1>1, TasksMade DEF Sending
    <3> QED
      BY <1>1, <2>4, <3>1 DEF AskEnter, Queue
  <2>5. CASE ExitRoom(s)
    BY <2>5 DEF ExitRoom
  <2>6. ASSUME NEW what \in {"read", "write"}, Disconnect(s, what)
        PROVE  handler' = handler /\ \E k : Fits(k) /\ strand' = Append(strand, k)
    <3> DEFINE k == [op |-> "leave", s |-> s, m |-> LeftNotice(s)]
    <3>1. failed'[s] # {}
      BY <1>1, <2>6 DEF Disconnect
    <3>2. Fits(k)
      BY <1>1, <3>1, TasksMade DEF LeftNotice, LineOf
    <3> QED
      BY <1>1, <2>6, <3>2 DEF Disconnect, Queue
  <2> QED
    BY <2>1, <2>2, <2>3, <2>4, <2>5, <2>6 DEF Reads
<1>7. /\ Recorded' = Recorded /\ (\A r \in Sessions : Got(r)' = Got(r)) /\ Seen' \subseteq Seen
      /\ RecordInOrder' /\ Received' /\ SentOn'
  <2>1. Recorded' = Recorded /\ \A r \in Sessions : Got(r)' = Got(r)
    BY <1>2, RecordKept DEF Got
  <2>2. Received'
    BY <1>1, <1>2, <1>5, ReceivedKept DEF Parts
  <2>3. SentOn'
    BY <1>1, <1>2, <2>1, SentOnKept DEF Parts
  <2>4. Seen' \subseteq Seen
    BY <2>1, SeenKept
  <2> QED
    BY <1>1, <1>2, <1>5, <2>1, <2>2, <2>3, <2>4 DEF Parts, RecordInOrder
<1>8. Kinds /\ InTurn /\ Numbered
  BY <1>1 DEF Parts
<1>9. \A m \in Seen : m \in Line /\ m.from \in Sessions /\ m.n \in Nat
  BY <1>1, GotTypes
<1>10. \A i \in DOMAIN strand :
         strand[i].op \in {"say", "find", "leave"} =>
           strand[i].s \in Sessions /\ strand[i].m \in Line /\ strand[i].m.n \in Nat
  BY <1>1, Carried
<1>11. /\ \A n \in Nat : n <= asked => n <= asked' /\ n < asked + 1
       /\ \A r \in Sessions : handler[r] # NoHandler =>
            handler[r].m.n \in Nat /\ handler[r].todo \subseteq Sessions
  <2>1. \A n \in Nat : n <= asked => n <= asked' /\ n < asked + 1
    BY <1>1, <1>2
  <2> QED
    BY <1>1, <2>1, Carried
<1>12. \A r \in Sessions : \A m \in Got(r) : m \in Line /\ m.n \in Nat
  BY <1>1, GotTypes
<1>13. Spent \subseteq Spent'
  <2> SUFFICES ASSUME NEW r \in Spent
               PROVE  r \in Spent'
    OBVIOUS
  <2>4. r \in Sessions /\ failed[r] # {} /\ (handler[r] # NoHandler => handler[r].m.n = last[r])
    BY SpentIs
  <2>1. r \in Sessions /\ failed'[r] # {}
    BY <1>4, <2>4
  <2>2. CASE r = s
    <3>1. handler'[s] # NoHandler => handler'[s].m.n = last'[s]
      BY <1>1, <1>2, <1>6, <2>2
    <3> QED
      BY <2>1, <2>2, <3>1 DEF Spent
  <2>3. CASE r # s
    <3>1. handler'[r] = handler[r] /\ last'[r] = last[r]
      BY <1>1, <1>4, <1>6, <2>1, <2>3
    <3> QED
      BY <2>1, <2>4, <3>1 DEF Spent
  <2> QED
    BY <2>2, <2>3
<1> HIDE DEF Walking
\* The numbers that were given out before are in order with those of the handlers.
<1> DEFINE Later(h, r) ==
      /\ h.m.n <= asked' /\ h.todo \subseteq Sessions
      /\ \A m \in Seen : m.kind = "room" /\ m.from = r => m.n <= h.m.n
      /\ \A u \in h.todo : \A m \in Got(u) : m.kind = "room" /\ m.from = r => m.n < h.m.n
      /\ \A m \in Recorded : m.kind = "room" /\ m.from = r => m.n < h.m.n
<1>17. \A r \in Sessions : handler[r] # NoHandler => Later(handler[r], r)
  BY <1>8, <1>11 DEF Numbered
<1>18. ASSUME \A i \in DOMAIN strand' : strand'[i].op \in Sending => strand'[i].m.n <= asked',
              \A r \in Sessions : handler'[r] # NoHandler => Later(handler'[r], r)
       PROVE  Numbered'
  <2>1. \A m \in Seen : m.kind # "private" => m.n <= asked'
    BY <1>8, <1>9, <1>11 DEF Numbered
  <2> QED
    BY <1>7, <1>18, <2>1 DEF Numbered
<1>19. \A i \in DOMAIN strand : strand[i].op \in Sending => strand[i].m.n <= asked'
  BY <1>8, <1>10, <1>11 DEF Numbered, Sending
<1> HIDE DEF Later
<1>14. CASE handler' = handler /\ strand' = strand
  <2>1. Kinds'
    BY <1>2, <1>8, <1>14 DEF Kinds
  <2>2. InTurn'
    BY <1>2, <1>5, <1>7, <1>8, <1>13, <1>14, InTurnKept
  <2>3. Numbered'
    BY <1>14, <1>17, <1>18, <1>19
  <2> QED
    BY <1>7, <2>1, <2>2, <2>3 DEF Parts
<1>15. ASSUME NEW k, Fits(k), strand' = Append(strand, k), handler' = handler
       PROVE  Parts'
  <2> DEFINE n == Len(strand) + 1
  <2>1. /\ n \in Nat /\ DOMAIN strand' = DOMAIN strand \cup {n}
        /\ DOMAIN strand \subseteq Nat
        /\ \A i \in DOMAIN strand : strand'[i] = strand[i] /\ i < n
        /\ strand'[n] = k
    BY <1>1, <1>15, AppendIs
  <2> HIDE DEF n
  <2>2. Kinds'
    BY <1>2, <1>8, <1>15, <2>1 DEF Kinds, Sending
  <2>3. InTurn'
    <3>1. ASSUME NEW i \in DOMAIN strand', NEW j \in DOMAIN strand', i < j
          PROVE  /\ strand'[i].op \in Sending /\ strand'[j].op \in Sending
                      => strand'[i].m.n < strand'[j].m.n
                 /\ strand'[i].op = "leave" /\ strand'[j].op = "say" /\ strand'[i].s = strand'[j].s
                      => strand'[j].m \in Lasts'
      <4>1. CASE j # n
        <5>1. i \in DOMAIN strand /\ j \in DOMAIN strand
          BY <2>1, <3>1, <4>1
        <5> QED
          BY <1>5, <1>8, <2>1, <3>1, <5>1 DEF InTurn
      <4>2. CASE j = n
        <5>1. i \in DOMAIN strand /\ strand'[i] = strand[i] /\ strand'[j] = k
          BY <2>1, <3>1, <4>2
        <5>2. strand[i].op \in Sending => strand[i].m.n < asked + 1
          BY <1>8, <1>10, <1>11, <5>1 DEF Numbered, Sending
        <5>3. strand[i].op = "leave" => strand[i].s \in Spent
          BY <1>8, <5>1 DEF InTurn
        <5> QED
          BY <1>15, <5>1, <5>2, <5>3 DEF Sending
      <4> QED
        BY <4>1, <4>2
    <3>2. ASSUME NEW i \in DOMAIN strand', strand'[i].op = "leave"
          PROVE  strand'[i].s \in Spent'
      <4>1. CASE i \in DOMAIN strand
        BY <1>8, <1>13, <2>1, <3>2, <4>1 DEF InTurn
      <4>2. CASE i = n
        BY <1>2, <1>15, <2>1, <3>2, <4>2 DEF Spent, Sending
      <4> QED
        BY <2>1, <4>1, <4>2
    <3>3. ASSUME NEW m \in Seen, NEW i \in DOMAIN strand'
          PROVE  /\ m.kind \in Announced /\ strand'[i].op \in Sending => m.n < strand'[i].m.n
                 /\ m.kind = "left" /\ strand'[i].op = "say" /\ strand'[i].s = m.from
                      => strand'[i].m \in Lasts'
      <4>1. CASE i \in DOMAIN strand
        BY <1>5, <1>8, <2>1, <4>1 DEF InTurn
      <4>2. CASE i = n
        <5>1. m.kind \in Announced => m.n < asked + 1
          BY <1>8, <1>9, <1>11 DEF Numbered, Announced
        <5>2. m.kind = "left" => m.from \in Spent
          BY <1>8 DEF InTurn
        <5> QED
          BY <1>15, <2>1, <4>2, <5>1, <5>2 DEF Sending
      <4> QED
        BY <2>1, <4>1, <4>2
    <3>4. \A m \in Seen : m.kind = "left" => m.from \in Spent' /\ m.from \notin listed'
      BY <1>2, <1>8, <1>13 DEF InTurn
    <3> QED
      BY <1>7, <3>1, <3>2, <3>3, <3>4 DEF InTurn
  <2>4. Numbered'
    <3>1. \A i \in DOMAIN strand' : strand'[i].op \in Sending => strand'[i].m.n <= asked'
      BY <1>1, <1>2, <1>15, <1>19, <2>1
    <3> QED
      BY <1>15, <1>17, <1>18, <3>1
  <2> QED
    BY <1>7, <2>2, <2>3, <2>4 DEF Parts
<1>16. ASSUME NEW h, h # NoHandler => h.m.kind = "room" /\ h.m.from = s /\ h.m.n = asked + 1,
              h # NoHandler => h.todo \subseteq Sessions,
              strand' = strand, handler' = [handler EXCEPT ![s] = h]
       PROVE  Parts'
  <2>1. \A r \in Sessions : handler'[r] = IF r = s THEN h ELSE handler[r]
    BY <1>1, <1>16
  <2>2. Kinds'
    BY <1>2, <1>8, <1>16, <2>1 DEF Kinds
  <2>3. InTurn'
    BY <1>2, <1>5, <1>7, <1>8, <1>13, <1>16, InTurnKept
  <2>4. Numbered'
    <3>1. h # NoHandler => Later(h, s)
      <4>1. /\ \A m \in Seen : m.kind # "private" => m.n < asked + 1
            /\ \A r \in Sessions : Got(r) \subseteq Seen
            /\ Recorded \subseteq Seen
        <5>1. \A m \in Seen : m.kind # "private" => m.n < asked + 1
          BY <1>8, <1>9, <1>11 DEF Numbered
        <5>2. Recorded \subseteq Line /\ \A r \in Sessions : Got(r) \subseteq Line
          BY <1>1, GotTypes
        <5> QED
          BY <5>1, <5>2 DEF Seen
      <4>2. ASSUME h # NoHandler, NEW m \in Seen, m.kind = "room"
            PROVE  m.n < h.m.n /\ m.n <= h.m.n
        BY <1>1, <1>9, <1>16, <4>1, <4>2
      <4>3. asked + 1 <= asked'
        BY <1>1, <1>2
      <4> QED
        BY <1>16, <4>1, <4>2, <4>3 DEF Later
    <3>2. \A r \in Sessions : handler'[r] # NoHandler => Later(handler'[r], r)
      BY <1>17, <2>1, <3>1
    <3> QED
      BY <1>16, <1>18, <1>19, <3>2
  <2> QED
    BY <1>7, <2>2, <2>3, <2>4 DEF Parts
<1> QED
  BY <1>6, <1>14, <1>15, <1>16 DEF Walking

\* A message takes a turn on the strand of its receiver, and may be dropped.
LEMMA TurnStep ==
    ASSUME FlowInv, NEW s \in Sessions, RunPosted(s)
    PROVE  Parts'
<1>1. /\ FlowTypeOK /\ Kinds /\ InTurn /\ Numbered /\ RecordInOrder /\ Received /\ SentOn
      /\ UNCHANGED <<asked, failed, last, listed, handler, strand, running, answers, answering, log>>
  BY DEF FlowInv, RunPosted, connVars, historyVars
<1>2. /\ Recorded' = Recorded /\ Order' = Order /\ Lasts' = Lasts /\ Spent' = Spent
      /\ (\A r \in Sessions : Got(r)' \subseteq Got(r)) /\ Seen' \subseteq Seen
  <2>1. Recorded' = Recorded /\ Order' = Order /\ Lasts' = Lasts
    BY <1>1, RecordKept, OrderKept
  <2>2. \A r \in Sessions : Got(r)' \subseteq Got(r)
    BY <1>1, TurnGot
  <2> QED
    BY <1>1, <2>1, <2>2, SeenKept DEF Spent
<1>3. Kinds'
  <2> SUFFICES ASSUME NEW r \in Sessions, NEW j \in DOMAIN posted'[r], posted'[r][j].hop = 1
               PROVE  posted'[r][j].m.kind \in Announced
    BY <1>1 DEF Kinds
  <2>1. \E i \in DOMAIN posted[r] : posted'[r][j] = posted[r][i]
    BY <1>1, TurnGot
  <2> QED
    BY <1>1, <2>1 DEF Kinds
<1>4. Received'
  <2> SUFFICES ASSUME NEW r \in Sessions
               PROVE  Ordered(Order, delivered'[r], posted'[r])
    BY <1>2 DEF Received
  <2>1. Ordered(Order, delivered[r], posted[r])
    BY <1>1 DEF Received
  <2> QED
    BY <1>1, <2>1, TurnGot
<1>5. SentOn'
  <2>1. \A r \in Sessions : Got(r) \cup dropped[r] \subseteq Got(r)' \cup dropped'[r]
    BY <1>1, TurnGot
  <2> QED
    BY <1>1, <1>2, <2>1, SentOnKept
<1>6. InTurn'
  BY <1>1, <1>2, InTurnKept
<1>7. Numbered'
  <2>1. \A r \in Sessions : handler[r] # NoHandler => handler[r].todo \subseteq Sessions
    BY <1>1, Carried
  <2> QED
    BY <1>1, <1>2, <2>1 DEF Numbered
<1>8. RecordInOrder'
  BY <1>1, <1>2 DEF RecordInOrder
<1> QED
  BY <1>3, <1>4, <1>5, <1>6, <1>7, <1>8 DEF Parts

\* The line of a room is sent to one more of its participants.
LEMMA WalkStepStep ==
    ASSUME FlowInv, NEW s \in Sessions, NEW to \in Sessions, WalkStep(s, to)
    PROVE  Parts'
<1> DEFINE h == handler[s]
<1>1. /\ FlowTypeOK /\ Kinds /\ InTurn /\ Numbered /\ RecordInOrder /\ Received /\ SentOn
      /\ UNCHANGED <<asked, failed, last, listed, strand, running, answers, answering, log,
                     delivered, dropped>>
      /\ handler \in [Sessions -> Handler]
  BY DEF FlowInv, FlowTypeOK, WalkStep, connVars, historyVars
<1>2. /\ h \in Handler /\ h.op = "walk" /\ to \in h.todo /\ h.m \in Line /\ h # NoHandler
      /\ h.m.n \in Nat
  BY <1>1, HandlerParts, Carried DEF WalkStep
<1>3. /\ h.m.kind = "room" /\ h.m.from = s
  BY <1>1, <1>2 DEF Kinds
<1>4. Sends({to}, 2, h.m)
  BY <1>1, PostSends DEF WalkStep
<1>5. /\ handler'[s].m = h.m /\ handler'[s].todo = h.todo \ {to} /\ handler'[s] # NoHandler
      /\ \A r \in Sessions \ {s} : handler'[r] = handler[r]
  <2>1. handler' = [handler EXCEPT ![s] = [h EXCEPT !.todo = h.todo \ {to}]]
    BY DEF WalkStep
  <2>2. [h EXCEPT !.todo = h.todo \ {to}] \in Handler
    BY <1>2, HandlerParts
  <2>3. h \in [op : {"walk", "log"}, m : Line, todo : SUBSET Sessions]
    BY <1>2 DEF Handler
  <2>4. /\ [h EXCEPT !.todo = h.todo \ {to}].op = "walk"
        /\ [h EXCEPT !.todo = h.todo \ {to}].m = h.m
        /\ [h EXCEPT !.todo = h.todo \ {to}].todo = h.todo \ {to}
    BY <1>2, <2>3
  <2> HIDE DEF h
  <2> QED
    BY <1>1, <2>1, <2>2, <2>4, HandlerParts
<1>6. /\ Recorded' = Recorded /\ Order' = Order /\ Lasts' = Lasts
      /\ \A r \in Sessions : Got(r)' = IF r \in {to} THEN Got(r) \cup {h.m} ELSE Got(r)
  <2>1. Recorded' = Recorded /\ Order' = Order /\ Lasts' = Lasts
    BY <1>1, RecordKept, OrderKept
  <2> QED
    BY <1>1, <1>2, <1>4, <2>1, SentGot
<1>7. \A m \in Seen' : m \in Seen \/ m = h.m
  <2>1. \A r \in Sessions : Got(r)' \subseteq Got(r) \cup {h.m}
    BY <1>6
  <2> HIDE DEF h
  <2>2. Seen' \subseteq Seen \cup {h.m}
    BY <1>6, <2>1, SeenIs
  <2> QED
    BY <2>2
<1>8. Spent \subseteq Spent'
  BY <1>1, <1>2, <1>5, SpentKept
<1>9. s \in Spent => h.m \in Lasts
  BY <1>2, <1>3, SpentIs DEF Lasts
<1> HIDE DEF h
<1>10. Received'
  <2>1. ASSUME NEW x \in Got(to)
        PROVE  <<x, h.m>> \in Order
    <3>1. x \in Line /\ x \in Seen
      BY <1>1, GotTypes DEF Seen
    <3>2. x.kind = "left" /\ x.from = s => h.m \in Lasts
      BY <1>1, <1>9, <3>1 DEF InTurn
    <3>3. x.kind = "room" /\ x.from = s => x.n < h.m.n
      BY <1>1, <1>2 DEF Numbered, h
    <3> QED
      BY <1>2, <1>3, <3>1, <3>2, <3>3 DEF Order, MayPrecede, Announced
  <2>2. ASSUME NEW i \in DOMAIN posted[to], posted[to][i].hop = 1
        PROVE  <<h.m, posted[to][i].m>> \in Order
    <3>1. posted[to][i].m \in Got(to)
      BY DEF Got, Lines
    <3>2. posted[to][i].m \in Line /\ posted[to][i].m.kind \in Announced
      BY <1>1, <2>2, <3>1, GotTypes DEF Kinds
    <3> QED
      BY <1>2, <1>3, <3>2 DEF Order, MayPrecede, Announced
  <2> QED
    BY <1>1, <1>2, <1>4, <1>6, <2>1, <2>2, ReceivedSent
<1>11. Kinds'
  <2>1. \A r \in Sessions : \A j \in DOMAIN posted'[r] :
          posted'[r][j].hop = 1 => posted'[r][j].m.kind \in Announced
    BY <1>1, <1>2, <1>4, HopsKept
  <2>2. \A r \in Sessions : handler'[r] # NoHandler => handler'[r].m.kind = "room" /\ handler'[r].m.from = r
    BY <1>1, <1>3, <1>5 DEF Kinds
  <2> QED
    BY <1>1, <2>1, <2>2 DEF Kinds
<1>12. InTurn'
  <2>1. \A m \in Seen' : m.kind \in Announced => m \in Seen
    BY <1>3, <1>7 DEF Announced
  <2> QED
    BY <1>1, <1>6, <1>8, <2>1, InTurnKept
<1>13. Numbered'
  <2>1. h.m.n \in Nat /\ h.m.n <= asked
    BY <1>1, <1>2 DEF Numbered, h
  <2>2. \A m \in Seen' : m.kind # "private" => m.n <= asked
    BY <1>1, <1>7, <2>1 DEF Numbered
  <2>3. ASSUME NEW u \in Sessions, handler'[u] # NoHandler
        PROVE  /\ handler[u] # NoHandler /\ handler'[u].m = handler[u].m
               /\ handler'[u].todo \subseteq handler[u].todo /\ handler[u].todo \subseteq Sessions
               /\ h.m.from = u => u = s /\ handler'[u].m = h.m /\ to \notin handler'[u].todo
    BY <1>1, <1>2, <1>3, <1>5, <2>3, Carried DEF h
  <2>4. ASSUME NEW u \in Sessions, handler'[u] # NoHandler, NEW m \in Seen',
               m.kind = "room", m.from = u
        PROVE  m.n <= handler'[u].m.n
    <3>1. CASE m \in Seen
      BY <1>1, <2>3, <2>4, <3>1 DEF Numbered
    <3>2. CASE m = h.m
      BY <2>1, <2>3, <2>4, <3>2
    <3> QED
      BY <1>7, <3>1, <3>2
  <2>5. ASSUME NEW u \in Sessions, handler'[u] # NoHandler, NEW r \in handler'[u].todo,
               NEW m \in Got(r)', m.kind = "room", m.from = u
        PROVE  m.n < handler'[u].m.n
    <3>1. r \in handler[u].todo /\ r \in Sessions
      BY <2>3, <2>5
    <3>2. CASE m \in Got(r)
      BY <1>1, <2>3, <2>5, <3>1, <3>2 DEF Numbered
    <3>3. CASE m = h.m /\ r = to
      BY <2>3, <2>5, <3>3
    <3> QED
      BY <1>6, <3>1, <3>2, <3>3
  <2>6. ASSUME NEW u \in Sessions, handler'[u] # NoHandler
        PROVE  /\ handler'[u].m.n <= asked
               /\ \A m \in Recorded : m.kind = "room" /\ m.from = u => m.n < handler'[u].m.n
    BY <1>1, <2>3, <2>6 DEF Numbered
  <2> QED
    BY <1>1, <1>6, <2>2, <2>4, <2>5, <2>6 DEF Numbered
<1>14. SentOn' /\ RecordInOrder'
  <2>1. \A r \in Sessions : Got(r) \cup dropped[r] \subseteq Got(r)' \cup dropped'[r]
    BY <1>1, <1>6
  <2> QED
    BY <1>1, <1>6, <2>1, SentOnKept DEF RecordInOrder
<1> QED
  BY <1>10, <1>11, <1>12, <1>13, <1>14 DEF Parts

\* The walk of a room is over.
LEMMA WalkEndStep ==
    ASSUME FlowInv, NEW s \in Sessions, WalkEnd(s)
    PROVE  Parts'
<1> DEFINE h == handler[s]
<1>1. /\ FlowTypeOK /\ Kinds /\ InTurn /\ Numbered /\ RecordInOrder /\ Received /\ SentOn
      /\ UNCHANGED <<asked, failed, last, listed, strand, running, answers, answering, log,
                     delivered, dropped, posted>>
      /\ handler \in [Sessions -> Handler] /\ history = "held"
  BY DEF FlowInv, FlowTypeOK, WalkEnd, Unharmed, connVars, queueVars, historyVars
<1>2. h \in Handler /\ h.op = "walk" /\ h # NoHandler
  BY <1>1, HandlerParts DEF WalkEnd
<1>3. /\ handler'[s].m = h.m /\ handler'[s].todo = h.todo
      /\ \A r \in Sessions \ {s} : handler'[r] = handler[r]
  <2>1. handler' = [handler EXCEPT ![s] = [h EXCEPT !.op = "log"]]
    BY <1>1 DEF WalkEnd
  <2>2. h \in [op : {"walk", "log"}, m : Line, todo : SUBSET Sessions]
    BY <1>2 DEF Handler
  <2> QED
    BY <1>1, <2>1, <2>2
<1>4. /\ Recorded' = Recorded /\ Order' = Order /\ Lasts' = Lasts
      /\ (\A r \in Sessions : Got(r)' = Got(r)) /\ Seen' \subseteq Seen
  <2>1. Recorded' = Recorded /\ Order' = Order /\ Lasts' = Lasts /\ \A r \in Sessions : Got(r)' = Got(r)
    BY <1>1, RecordKept, OrderKept DEF Got
  <2> QED
    BY <2>1, SeenKept
<1>5. \A r \in Sessions : handler'[r] # NoHandler =>
        /\ handler[r] # NoHandler /\ handler'[r].m = handler[r].m
        /\ handler'[r].todo = handler[r].todo /\ handler[r].todo \subseteq Sessions
  BY <1>1, <1>2, <1>3, Carried
<1> HIDE DEF h
<1>6. Spent \subseteq Spent'
  BY <1>1, <1>5, SpentKept
<1>7. InTurn'
  BY <1>1, <1>4, <1>6, InTurnKept
<1>8. Kinds' /\ RecordInOrder'
  BY <1>1, <1>4, <1>5 DEF Kinds, RecordInOrder
<1>9. Numbered'
  BY <1>1, <1>4, <1>5 DEF Numbered
<1>10. SentOn' /\ Received'
  BY <1>1, <1>4, SentOnKept, ReceivedKept
<1> QED
  BY <1>7, <1>8, <1>9, <1>10 DEF Parts

\* A line is given to the history, after those it must not precede.
LEMMA WrittenInOrder ==
    ASSUME FlowTypeOK, RecordInOrder, NEW m \in Line, Given(m), Order \subseteq Order',
           \A i \in DOMAIN log : <<log[i], m>> \in Order,
           running' # Nothing => running' = running /\ <<m, running>> \in Order
    PROVE  RecordInOrder'
<1>1. log \in Seq(Line)
  BY DEF FlowTypeOK
<1>2. CASE log' = log
  BY <1>2 DEF RecordInOrder
<1>3. CASE log' = Append(log, m)
  <2>1. /\ Len(log) \in Nat /\ DOMAIN log = 1..Len(log) /\ DOMAIN log' = DOMAIN log \cup {Len(log) + 1}
        /\ \A i \in DOMAIN log : log'[i] = log[i] /\ i < Len(log) + 1
        /\ log'[Len(log) + 1] = m
    BY <1>1, <1>3, AppendIs
  <2>2. ASSUME NEW i \in DOMAIN log', NEW j \in DOMAIN log', i < j
        PROVE  <<log'[i], log'[j]>> \in Order'
    <3>1. i \in DOMAIN log
      BY <2>1, <2>2
    <3>2. CASE j \in DOMAIN log
      BY <2>1, <2>2, <3>1, <3>2 DEF RecordInOrder
    <3>3. CASE j = Len(log) + 1
      BY <2>1, <3>1, <3>3
    <3> QED
      BY <2>1, <3>2, <3>3
  <2>3. running' # Nothing => \A i \in DOMAIN log' : <<log'[i], running'>> \in Order'
    BY <2>1 DEF RecordInOrder
  <2> QED
    BY <2>2, <2>3 DEF RecordInOrder
<1> QED
  BY <1>2, <1>3 DEF Given

\* A room line is given to the history.
LEMMA LogRoomStep ==
    ASSUME FlowInv, NEW s \in Sessions, LogRoom(s)
    PROVE  Parts'
<1> DEFINE m == handler[s].m
<1>1. /\ FlowTypeOK /\ Kinds /\ InTurn /\ Numbered /\ RecordInOrder /\ Received /\ SentOn
      /\ UNCHANGED <<asked, failed, last, listed, strand, running, answers, answering,
                     delivered, dropped, posted>>
      /\ handler \in [Sessions -> Handler] /\ handler' = [handler EXCEPT ![s] = NoHandler]
      /\ history = "held"
  BY DEF FlowInv, FlowTypeOK, LogRoom, Unharmed, connVars, queueVars
<1>2. m \in Line /\ handler[s] # NoHandler
  BY <1>1, HandlerParts DEF LogRoom
<1>3. m.kind = "room" /\ m.from = s /\ m.n <= asked
  BY <1>1, <1>2 DEF Kinds, Numbered
<1>4. Given(m)
  BY <1>1, WriteIs DEF LogRoom
<1>5. s \in Spent => m \in Lasts
  BY <1>2, <1>3, SpentIs DEF Lasts
<1>6. \A r \in Sessions : handler'[r] # NoHandler => handler'[r] = handler[r] /\ r # s
  BY <1>1
<1> HIDE DEF m
<1>7. /\ Recorded' \subseteq Recorded \cup {m} /\ Order' = Order /\ Lasts' = Lasts
      /\ (\A r \in Sessions : Got(r)' = Got(r)) /\ Seen' \subseteq Seen \cup {m}
  <2>1. Recorded' \subseteq Recorded \cup {m} /\ Order' = Order /\ Lasts' = Lasts
    BY <1>1, <1>2, <1>4, RecordWritten, OrderKept
  <2>2. \A r \in Sessions : Got(r)' = Got(r)
    BY <1>1 DEF Got
  <2> QED
    BY <2>1, <2>2, SeenIs
<1>8. Spent \subseteq Spent'
  BY <1>1, <1>6, SpentKept
<1>9. RecordInOrder'
  <2>1. ASSUME NEW i \in DOMAIN log
        PROVE  <<log[i], m>> \in Order
    <3>1. log[i] \in Recorded /\ log[i] \in Line /\ log[i] \in Seen
      BY <1>1, GotTypes DEF Recorded, Seen
    <3>2. log[i].kind = "room" /\ log[i].from = s => log[i].n < m.n
      BY <1>1, <1>2, <3>1 DEF Numbered, m
    <3>3. log[i].kind = "left" /\ log[i].from = s => m \in Lasts
      BY <1>1, <1>5, <3>1 DEF InTurn
    <3> QED
      BY <1>2, <1>3, <3>1, <3>2, <3>3 DEF Order, MayPrecede, Announced
  <2>2. running # Nothing => <<m, running>> \in Order
    <3>1. running # Nothing => running \in Line /\ running.kind \in Announced
      BY <1>1 DEF Kinds, FlowTypeOK
    <3> QED
      BY <1>2, <1>3, <3>1 DEF Order, MayPrecede, Announced
  <2> QED
    BY <1>1, <1>2, <1>4, <1>7, <2>1, <2>2, WrittenInOrder
<1>10. InTurn'
  <2>1. \A x \in Seen' : x.kind \in Announced => x \in Seen
    BY <1>3, <1>7 DEF Announced
  <2> QED
    BY <1>1, <1>7, <1>8, <2>1, InTurnKept
<1>11. Kinds'
  BY <1>1, <1>6 DEF Kinds
<1>12. Numbered'
  <2>1. \A x \in Seen' : x.kind # "private" => x.n <= asked
    BY <1>1, <1>3, <1>7 DEF Numbered
  <2>2. ASSUME NEW r \in Sessions, handler'[r] # NoHandler
        PROVE  /\ handler'[r].m.n <= asked
               /\ \A x \in Seen' : x.kind = "room" /\ x.from = r => x.n <= handler'[r].m.n
               /\ \A u \in handler'[r].todo : \A x \in Got(u)' :
                    x.kind = "room" /\ x.from = r => x.n < handler'[r].m.n
               /\ \A x \in Recorded' : x.kind = "room" /\ x.from = r => x.n < handler'[r].m.n
    <3>1. r # s /\ handler'[r] = handler[r] /\ handler[r].todo \subseteq Sessions
      BY <1>1, <1>6, <2>2, Carried
    <3> QED
      BY <1>1, <1>3, <1>7, <2>2, <3>1 DEF Numbered
  <2> QED
    BY <1>1, <2>1, <2>2 DEF Numbered
<1>13. SentOn'
  <2> SUFFICES ASSUME NEW x \in Recorded' \cup answering, NEW r \in Receivers(x)
               PROVE  x \in Got(r)' \cup dropped[r]
    BY <1>1 DEF SentOn, Receivers
  <2>1. x # m
    BY <1>3 DEF Receivers
  <2>2. x \in Recorded \cup answering
    BY <1>7, <2>1
  <2>3. x \in Line
    BY <1>1, <2>2, GotTypes DEF FlowTypeOK
  <2>4. listed \subseteq Sessions
    BY <1>1 DEF FlowTypeOK
  <2>5. r \in Sessions
    BY <2>3, <2>4 DEF Receivers, Line
  <2>6. x \in Got(r) \cup dropped[r]
    BY <1>1, <2>2 DEF SentOn
  <2>7. Got(r)' = Got(r)
    BY <1>7, <2>5
  <2> QED
    BY <2>6, <2>7
<1>14. Received'
  BY <1>1, <1>7, ReceivedKept
<1> QED
  BY <1>9, <1>10, <1>11, <1>12, <1>13, <1>14 DEF Parts

\* The first task of strand_ is taken; what is announced for the first time is its own.
LEMMA TakenInTurn ==
    ASSUME FlowTypeOK, InTurn, strand # <<>>, strand' = Tail(strand), listed' \subseteq listed,
           Spent \subseteq Spent', Lasts \subseteq Lasts',
           \A m \in Seen' : m.kind \in Announced /\ m \notin Seen =>
             /\ Head(strand).op \in Sending /\ Head(strand).m = m
             /\ m.kind = "left" =>
                  Head(strand).op = "leave" /\ Head(strand).s = m.from /\ m.from \notin listed'
    PROVE  InTurn'
<1>1. strand \in Seq(Task)
  BY DEF FlowTypeOK
<1>2. /\ 1 \in DOMAIN strand /\ strand[1] = Head(strand)
      /\ DOMAIN strand' \subseteq Nat
      /\ \A i \in DOMAIN strand' : i + 1 \in DOMAIN strand /\ 1 < i + 1 /\ strand'[i] = strand[i + 1]
  BY <1>1, TailIs
<1>3. ASSUME NEW i \in DOMAIN strand', NEW j \in DOMAIN strand', i < j
      PROVE  /\ strand'[i].op \in Sending /\ strand'[j].op \in Sending
                  => strand'[i].m.n < strand'[j].m.n
             /\ strand'[i].op = "leave" /\ strand'[j].op = "say" /\ strand'[i].s = strand'[j].s
                  => strand'[j].m \in Lasts'
  <2>1. i + 1 \in DOMAIN strand /\ j + 1 \in DOMAIN strand /\ i + 1 < j + 1
    BY <1>2, <1>3
  <2> QED
    BY <1>2, <2>1 DEF InTurn
<1>4. \A i \in DOMAIN strand' : strand'[i].op = "leave" => strand'[i].s \in Spent'
  BY <1>2 DEF InTurn
<1>5. ASSUME NEW m \in Seen', NEW i \in DOMAIN strand'
      PROVE  /\ m.kind \in Announced /\ strand'[i].op \in Sending => m.n < strand'[i].m.n
             /\ m.kind = "left" /\ strand'[i].op = "say" /\ strand'[i].s = m.from
                  => strand'[i].m \in Lasts'
  <2>1. i + 1 \in DOMAIN strand /\ 1 < i + 1 /\ strand'[i] = strand[i + 1]
    BY <1>2
  <2>2. CASE m \in Seen
    BY <2>1, <2>2 DEF InTurn
  <2>3. CASE m \notin Seen
    BY <1>2, <2>1, <2>3 DEF InTurn, Announced
  <2> QED
    BY <2>2, <2>3
<1>6. ASSUME NEW m \in Seen', m.kind = "left"
      PROVE  m.from \in Spent' /\ m.from \notin listed'
  BY <1>2, <1>6 DEF InTurn, Announced
<1> QED
  BY <1>3, <1>4, <1>5, <1>6 DEF InTurn

\* And the tasks that are left fit as before.
LEMMA TakenKinds ==
    ASSUME FlowTypeOK, Kinds, strand # <<>>, strand' = Tail(strand)
    PROVE  \A i \in DOMAIN strand' :
             /\ strand'[i].op = "say" => strand'[i].m.kind = "global" /\ strand'[i].m.from = strand'[i].s
             /\ strand'[i].op = "leave" => strand'[i].m.kind = "left" /\ strand'[i].m.from = strand'[i].s
             /\ strand'[i].op = "find" => strand'[i].m.kind = "private" /\ strand'[i].m.to # strand'[i].m.from
<1>1. strand \in Seq(Task)
  BY DEF FlowTypeOK
<1>2. \A i \in DOMAIN strand' : i + 1 \in DOMAIN strand /\ strand'[i] = strand[i + 1]
  BY <1>1, TailIs
<1> QED
  BY <1>2 DEF Kinds

LEMMA TakenNumbered ==
    ASSUME FlowTypeOK, Numbered, strand # <<>>, strand' = Tail(strand)
    PROVE  \A i \in DOMAIN strand' : strand'[i].op \in Sending => strand'[i].m.n <= asked
<1>1. strand \in Seq(Task)
  BY DEF FlowTypeOK
<1>2. \A i \in DOMAIN strand' : i + 1 \in DOMAIN strand /\ strand'[i] = strand[i + 1]
  BY <1>1, TailIs
<1> QED
  BY <1>2 DEF Numbered

\* A task of strand_ broadcasts a line, or the notice of a departure.
LEMMA BroadcastStep ==
    ASSUME FlowInv, running = Nothing, strand # <<>>, strand' = Tail(strand),
           NEW m \in Line, Broadcast(m, listed' \ {m.from}), listed' \subseteq listed,
           Current.m = m, Current.s = m.from,
           \/ m.kind = "global" /\ Current.op = "say"
           \/ m.kind = "left" /\ Current.op = "leave" /\ m.from \in listed /\ m.from \notin listed',
           UNCHANGED <<asked, failed, last, handler, answers, answering, delivered, dropped, log>>
    PROVE  Parts'
<1> DEFINE to == listed' \ {m.from}
<1>1. /\ FlowTypeOK /\ Kinds /\ InTurn /\ Numbered /\ RecordInOrder /\ Received /\ SentOn
      /\ history = "held" /\ strand \in Seq(Task) /\ handler \in [Sessions -> Handler]
  BY DEF FlowInv, Unharmed, FlowTypeOK
<1>2. running' = m /\ Sends(to, 1, m) /\ m.kind \in Announced /\ m # Nothing /\ m.n \in Nat
  BY <1>1, BroadcastSends, GotTypes DEF Broadcast, Announced
<1>3. 1 \in DOMAIN strand /\ strand[1] = Current /\ Current.op \in Sending
  BY <1>1, TailIs DEF Current, Sending
<1> HIDE DEF to
<1>4. \A r \in Sessions : Got(r)' = IF r \in to THEN Got(r) \cup {m} ELSE Got(r)
  BY <1>1, <1>2, SentGot
<1>5. /\ Recorded' \subseteq Recorded \cup {m} /\ Order' = Order /\ Lasts' = Lasts /\ Spent' = Spent
      /\ Seen' \subseteq Seen \cup {m}
  <2>1. Recorded' \subseteq Recorded \cup {m}
    BY <1>2 DEF Recorded
  <2>2. \A r \in Sessions : Got(r)' \subseteq Got(r) \cup {m}
    BY <1>4
  <2> QED
    BY <2>1, <2>2, OrderKept, SeenIs DEF Spent
\* Whatever has been seen may precede it.
<1>6. ASSUME NEW x \in Seen
      PROVE  <<x, m>> \in Order
  <2>1. x \in Line
    BY DEF Seen
  <2>2. x.kind \in Announced => x.n < m.n
    BY <1>1, <1>3 DEF InTurn
  <2>3. x.kind = "left" /\ m.from = x.from => m \in Lasts
    BY <1>1, <1>3 DEF InTurn
  <2> QED
    BY <1>2, <2>1, <2>2, <2>3 DEF Order, MayPrecede, Announced
<1>7. /\ \A r \in Sessions : Got(r) \subseteq Seen
      /\ \A i \in DOMAIN log : log[i] \in Seen
      /\ \A r \in Sessions : handler[r] # NoHandler => handler[r].todo \subseteq Sessions
  BY <1>1, GotTypes, Carried DEF Seen, Recorded
<1>8. Received'
  BY <1>1, <1>2, <1>5, <1>6, <1>7, ReceivedSent
<1>9. RecordInOrder'
  BY <1>1, <1>2, <1>5, <1>6, <1>7 DEF RecordInOrder
<1>10. InTurn'
  BY <1>1, <1>3, <1>5, TakenInTurn DEF Current
<1>11. Kinds'
  <2>1. \A r \in Sessions : \A j \in DOMAIN posted'[r] :
          posted'[r][j].hop = 1 => posted'[r][j].m.kind \in Announced
    BY <1>1, <1>2, HopsKept
  <2> QED
    BY <1>1, <1>2, <2>1, TakenKinds DEF Kinds
<1>12. Numbered'
  <2>1. m.kind # "room" /\ m.n <= asked
    BY <1>1, <1>2, <1>3 DEF Numbered, Announced
  <2>2. \A r \in Sessions : \A x \in Got(r)' : x.kind = "room" => x \in Got(r)
    BY <1>4, <2>1
  <2>3. \A x \in Recorded' : x.kind = "room" => x \in Recorded
    BY <1>5, <2>1
  <2>4. \A x \in Seen' : (x.kind = "room" => x \in Seen) /\ (x.kind # "private" => x.n <= asked)
    BY <1>1, <1>5, <2>1 DEF Numbered
  <2>5. \A i \in DOMAIN strand' : strand'[i].op \in Sending => strand'[i].m.n <= asked
    BY <1>1, TakenNumbered
  <2>6. ASSUME NEW r \in Sessions, handler[r] # NoHandler
        PROVE  /\ handler[r].m.n <= asked
               /\ \A x \in Seen' : x.kind = "room" /\ x.from = r => x.n <= handler[r].m.n
               /\ \A u \in handler[r].todo : \A x \in Got(u)' :
                    x.kind = "room" /\ x.from = r => x.n < handler[r].m.n
               /\ \A x \in Recorded' : x.kind = "room" /\ x.from = r => x.n < handler[r].m.n
    BY <1>1, <1>7, <2>2, <2>3, <2>4, <2>6 DEF Numbered
  <2> QED
    BY <2>4, <2>5, <2>6 DEF Numbered
<1>13. SentOn'
  <2> SUFFICES ASSUME NEW x \in Recorded' \cup answering, NEW r \in Receivers(x)'
               PROVE  x \in Got(r)' \cup dropped[r]
    BY DEF SentOn
  <2>1. x \in Line
    BY <1>1, <1>5, GotTypes DEF FlowTypeOK
  <2>2. r \in Sessions
    BY <1>1, <2>1 DEF Receivers, FlowTypeOK, Line
  <2>3. CASE x = m
    BY <1>2, <1>4, <2>2, <2>3 DEF Receivers, Announced, to
  <2>4. CASE x # m
    <3>1. r \in Receivers(x) /\ x \in Recorded \cup answering
      BY <1>5, <2>4 DEF Receivers
    <3> QED
      BY <1>1, <1>4, <2>2, <3>1 DEF SentOn
  <2> QED
    BY <2>3, <2>4
<1> QED
  BY <1>8, <1>9, <1>10, <1>11, <1>12, <1>13 DEF Parts

LEMMA StrandStep ==
    ASSUME FlowInv, StrandStarts
    PROVE  Parts'
<1>1. /\ FlowTypeOK /\ Kinds /\ InTurn /\ Numbered /\ RecordInOrder /\ Received /\ SentOn
      /\ ~stopped /\ strand \in Seq(Task) /\ asked \in Nat /\ listed \subseteq Sessions
  BY GotTypes DEF FlowInv, Unharmed, FlowTypeOK
<1>2. ASSUME NEW op, Take(op)
      PROVE  /\ running = Nothing /\ strand # <<>> /\ strand' = Tail(strand) /\ Current.op = op
             /\ Current \in Task /\ 1 \in DOMAIN strand /\ strand[1] = Current
  <2>1. running = Nothing /\ strand # <<>> /\ strand' = Tail(strand) /\ Current.op = op
    BY <1>2 DEF Take, Current
  <2> QED
    BY <1>1, <2>1, TailIs DEF Current
<1>3. CASE StrandSay
  <2>1. Take("say")
    BY <1>3 DEF StrandSay
  <2>2. Current.m \in Line /\ Current.m.kind = "global" /\ Current.m.from = Current.s
    BY <1>1, <1>2, <2>1, TaskTypes DEF Kinds
  <2>3. /\ UNCHANGED <<asked, failed, last, listed, handler, answers, answering, delivered, dropped, log>>
        /\ Broadcast(Current.m, listed \ {Current.s})
    BY <1>1, <1>3 DEF StrandSay, Refuses, connVars, historyVars
  <2> QED
    BY <1>1, <1>2, <2>1, <2>2, <2>3, BroadcastStep
<1>4. CASE StrandLeave /\ Current.s \in listed
  <2>1. Take("leave")
    BY <1>4 DEF StrandLeave
  <2> DEFINE m == Current.m
  <2>2. m \in Line /\ m.kind = "left" /\ m.from = Current.s
    BY <1>1, <1>2, <2>1, TaskTypes DEF Kinds
  <2>3. /\ UNCHANGED <<asked, failed, last, handler, answers, answering, delivered, dropped, log>>
        /\ listed' = listed \ {Current.s} /\ Broadcast(m, listed \ {Current.s})
    BY <1>1, <1>4 DEF StrandLeave, Refuses, connVars, historyVars
  <2> HIDE DEF m
  <2>4. Broadcast(m, listed' \ {m.from})
    <3>1. listed' \ {m.from} = listed \ {Current.s}
      BY <2>2, <2>3
    <3> QED
      BY <2>3, <3>1
  <2>5. Current.m = m /\ m.from \in listed /\ m.from \notin listed' /\ listed' \subseteq listed
    BY <1>4, <2>2, <2>3 DEF m
  <2> QED
    BY <1>2, <2>1, <2>2, <2>3, <2>4, <2>5, BroadcastStep
\* A task that sends nothing.
<1>5. CASE StrandEnter \/ StrandFind \/ (StrandLeave /\ Current.s \notin listed)
  <2>1. /\ UNCHANGED <<asked, failed, last, listed, handler, running, answering, posted, delivered,
                       dropped, log>>
        /\ strand # <<>> /\ strand' = Tail(strand)
    BY <1>1, <1>5 DEF StrandEnter, StrandFind, StrandLeave, Take, Refuses, connVars, queueVars,
                      historyVars
  <2>2. /\ Recorded' = Recorded /\ Order' = Order /\ Lasts' = Lasts /\ Spent' = Spent
        /\ (\A r \in Sessions : Got(r)' = Got(r)) /\ Seen' \subseteq Seen
    <3>1. Recorded' = Recorded /\ Order' = Order /\ Lasts' = Lasts /\ \A r \in Sessions : Got(r)' = Got(r)
      BY <2>1, RecordKept, OrderKept DEF Got
    <3> QED
      BY <2>1, <3>1, SeenKept DEF Spent
  <2>3. \A a \in answers' : a.m.kind = "private" /\ a.m.to # a.m.from /\ a.to \in {a.m.to, None}
    <3>1. CASE answers' = answers
      BY <1>1, <3>1 DEF Kinds
    <3>2. CASE StrandFind
      <4>1. Take("find")
        BY <3>2 DEF StrandFind
      <4>2. Current.m.kind = "private" /\ Current.m.to # Current.m.from
        BY <1>1, <1>2, <4>1 DEF Kinds
      <4> QED
        BY <1>1, <3>2, <4>2 DEF StrandFind, Kinds
    <3> QED
      BY <1>5, <3>1, <3>2 DEF StrandEnter, StrandLeave
  <2>4. InTurn'
    BY <1>1, <2>1, <2>2, TakenInTurn
  <2>5. Kinds'
    BY <1>1, <2>1, <2>3, TakenKinds DEF Kinds
  <2>6. Numbered'
    <3>1. /\ \A r \in Sessions : handler[r] # NoHandler => handler[r].todo \subseteq Sessions
          /\ \A i \in DOMAIN strand' : strand'[i].op \in Sending => strand'[i].m.n <= asked
      BY <1>1, <2>1, TakenNumbered, Carried
    <3> QED
      BY <1>1, <2>1, <2>2, <3>1 DEF Numbered
  <2>7. RecordInOrder' /\ Received' /\ SentOn'
    BY <1>1, <2>1, <2>2, SentOnKept, ReceivedKept DEF RecordInOrder
  <2> QED
    BY <2>4, <2>5, <2>6, <2>7 DEF Parts
<1> QED
  BY <1>3, <1>4, <1>5 DEF StrandStarts

\* The line of a task is given to the history.
LEMMA StrandLogStep ==
    ASSUME FlowInv, StrandLog
    PROVE  Parts'
<1>1. /\ FlowTypeOK /\ Kinds /\ InTurn /\ Numbered /\ RecordInOrder /\ Received /\ SentOn
      /\ UNCHANGED <<asked, failed, last, listed, handler, strand, answers, answering, delivered,
                     dropped, posted>>
      /\ history = "held" /\ running # Nothing /\ running' = Nothing /\ running \in Line
  BY DEF FlowInv, FlowTypeOK, StrandLog, Unharmed, connVars, queueVars
<1>2. Given(running)
  BY <1>1, WriteIs DEF StrandLog
<1>3. /\ Recorded' \subseteq Recorded /\ Order' = Order /\ Lasts' = Lasts /\ Spent' = Spent
      /\ (\A r \in Sessions : Got(r)' = Got(r)) /\ Seen' \subseteq Seen
  <2>1. Recorded' \subseteq Recorded \cup {running} /\ running \in Recorded
    BY <1>1, <1>2, RecordWritten DEF Recorded
  <2>2. \A r \in Sessions : Got(r)' = Got(r)
    BY <1>1 DEF Got
  <2>3. Order' = Order /\ Lasts' = Lasts /\ Spent' = Spent
    BY <1>1, OrderKept DEF Spent
  <2> QED
    BY <2>1, <2>2, <2>3, SeenKept
<1>4. RecordInOrder'
  <2>1. \A i \in DOMAIN log : <<log[i], running>> \in Order
    BY <1>1 DEF RecordInOrder
  <2> QED
    BY <1>1, <1>2, <1>3, <2>1, WrittenInOrder
<1>5. InTurn'
  BY <1>1, <1>3, InTurnKept
<1>6. Kinds'
  BY <1>1 DEF Kinds
<1>7. Numbered'
  <2>1. \A r \in Sessions : handler[r] # NoHandler => handler[r].todo \subseteq Sessions
    BY <1>1, Carried
  <2> QED
    BY <1>1, <1>3, <2>1 DEF Numbered
<1>8. SentOn' /\ Received'
  BY <1>1, <1>3, SentOnKept, ReceivedKept
<1> QED
  BY <1>4, <1>5, <1>6, <1>7, <1>8 DEF Parts

\* A private message goes on its way: it may precede and follow anything.
LEMMA PrivateAnyOrder ==
    ASSUME NEW m \in Line, m.kind = "private", NEW x \in Line
    PROVE  <<x, m>> \in Order /\ <<m, x>> \in Order
BY DEF Order, MayPrecede, Announced, Lasts

LEMMA AnswerStep ==
    ASSUME FlowInv, NEW a \in answers, RunAnswer(a)
    PROVE  Parts'
<1> DEFINE m == a.m
<1>1. /\ FlowTypeOK /\ Kinds /\ InTurn /\ Numbered /\ RecordInOrder /\ Received /\ SentOn
      /\ UNCHANGED <<asked, failed, last, listed, handler, strand, running, delivered, dropped, log>>
      /\ history = "held" /\ ~stopped /\ answers' \subseteq answers
  BY DEF FlowInv, RunAnswer, Unharmed, connVars, historyVars
<1>2. /\ m \in Line /\ m.from \in Sessions /\ a.to \in Sessions \cup {None}
      /\ m.kind = "private" /\ m.to # m.from /\ a.to \in {m.to, None}
  <2>1. m \in Line /\ a.to \in Sessions \cup {None}
    BY <1>1 DEF FlowTypeOK
  <2> QED
    BY <1>1, <2>1, GotTypes DEF Kinds
<1> DEFINE to == IF a.to = None THEN {m.from} ELSE {a.to, m.from}
<1>3. Sends(to, 2, m) /\ answering' \in {answering, answering \cup {m}}
      /\ (answering' # answering => a.to # None)
  <2>1. CASE a.to = None
    <3>1. posted' = Post(posted, m.from, 2, m) /\ answering' = answering
      BY <1>1, <2>1 DEF RunAnswer, Refuses
    <3>2. Sends({m.from}, 2, m)
      BY <1>1, <1>2, <3>1, PostSends
    <3> QED
      BY <2>1, <3>1, <3>2
  <2>2. CASE a.to # None
    <3>1. posted' = Post(Post(posted, a.to, 2, m), m.from, 2, m) /\ answering' = answering \cup {m}
      BY <1>1, <2>2 DEF RunAnswer, Refuses
    <3>2. Sends({a.to, m.from}, 2, m)
      BY <1>1, <1>2, <2>2, <3>1, PostTwiceSends
    <3> QED
      BY <2>2, <3>1, <3>2
  <2> QED
    BY <2>1, <2>2
<1> HIDE DEF m, to
<1>4. /\ Recorded' = Recorded /\ Order' = Order /\ Lasts' = Lasts /\ Spent' = Spent
      /\ \A r \in Sessions : Got(r)' = IF r \in to THEN Got(r) \cup {m} ELSE Got(r)
  <2>1. Recorded' = Recorded /\ Order' = Order /\ Lasts' = Lasts /\ Spent' = Spent
    BY <1>1, RecordKept, OrderKept DEF Spent
  <2> QED
    BY <1>1, <1>2, <1>3, <2>1, SentGot
<1>5. \A x \in Seen' : x \in Seen \/ x = m
  <2>1. \A r \in Sessions : Got(r)' \subseteq Got(r) \cup {m}
    BY <1>4
  <2>2. Seen' \subseteq Seen \cup {m}
    BY <1>4, <2>1, SeenIs
  <2> QED
    BY <2>2
<1>6. Received'
  <2>1. ASSUME NEW r \in Sessions, NEW x \in Got(r)
        PROVE  <<x, m>> \in Order'
    BY <1>1, <1>2, <1>4, GotTypes, PrivateAnyOrder
  <2>2. ASSUME NEW r \in Sessions, NEW i \in DOMAIN posted[r]
        PROVE  <<m, posted[r][i].m>> \in Order'
    <3>1. posted[r][i].m \in Got(r)
      BY DEF Got, Lines
    <3> QED
      BY <1>1, <1>2, <1>4, <3>1, GotTypes, PrivateAnyOrder
  <2> QED
    BY <1>1, <1>2, <1>3, <1>4, <2>1, <2>2, ReceivedSent
<1>7. Kinds'
  <2>1. \A r \in Sessions : \A j \in DOMAIN posted'[r] :
          posted'[r][j].hop = 1 => posted'[r][j].m.kind \in Announced
    BY <1>1, <1>2, <1>3, HopsKept
  <2>2. \A x \in answering' : x.kind = "private"
    BY <1>1, <1>2, <1>3 DEF Kinds
  <2> QED
    BY <1>1, <2>1, <2>2 DEF Kinds
<1>8. InTurn' /\ RecordInOrder'
  <2>1. \A x \in Seen' : x.kind \in Announced => x \in Seen
    BY <1>2, <1>5 DEF Announced
  <2> QED
    BY <1>1, <1>4, <2>1, InTurnKept DEF RecordInOrder
<1>9. Numbered'
  <2>1. \A r \in Sessions : \A x \in Got(r)' : x.kind = "room" => x \in Got(r)
    BY <1>2, <1>4
  <2>2. \A x \in Seen' : x.kind # "private" => x \in Seen
    BY <1>2, <1>5
  <2>3. \A r \in Sessions : handler[r] # NoHandler => handler[r].todo \subseteq Sessions
    BY <1>1, Carried
  <2> QED
    BY <1>1, <1>4, <2>1, <2>2, <2>3 DEF Numbered
<1>10. SentOn'
  <2> SUFFICES ASSUME NEW x \in Recorded \cup answering', NEW r \in Receivers(x)
               PROVE  x \in Got(r)' \cup dropped[r]
    BY <1>1, <1>4 DEF SentOn, Receivers
  <2>1. x \in Line
    BY <1>1, <1>2, <1>3, GotTypes DEF FlowTypeOK
  <2>2. r \in Sessions
    BY <1>1, <2>1 DEF Receivers, FlowTypeOK, Line
  <2>3. CASE x \in Recorded \cup answering
    BY <1>1, <1>4, <2>2, <2>3 DEF SentOn
  <2>4. CASE x = m /\ answering' # answering
    <3>1. r \in to
      BY <1>2, <1>3, <2>4 DEF Receivers, to
    <3> QED
      BY <1>4, <2>2, <2>4, <3>1
  <2> QED
    BY <1>3, <2>3, <2>4
<1> QED
  BY <1>6, <1>7, <1>8, <1>9, <1>10 DEF Parts

\* A private message is given to the history.
LEMMA LogPrivateStep ==
    ASSUME FlowInv, NEW m \in answering, LogPrivate(m)
    PROVE  Parts'
<1>1. /\ FlowTypeOK /\ Kinds /\ InTurn /\ Numbered /\ RecordInOrder /\ Received /\ SentOn
      /\ UNCHANGED <<asked, failed, last, listed, handler, strand, running, answers, delivered,
                     dropped, posted>>
      /\ history = "held" /\ answering' \subseteq answering
  BY DEF FlowInv, LogPrivate, Unharmed, connVars, queueVars
<1>2. m \in Line /\ m.kind = "private" /\ Given(m)
  BY <1>1, WriteIs DEF FlowTypeOK, Kinds, LogPrivate
<1>3. /\ Recorded' \subseteq Recorded \cup {m} /\ Order' = Order /\ Lasts' = Lasts /\ Spent' = Spent
      /\ (\A r \in Sessions : Got(r)' = Got(r)) /\ Seen' \subseteq Seen \cup {m}
  <2>1. Recorded' \subseteq Recorded \cup {m} /\ Order' = Order /\ Lasts' = Lasts /\ Spent' = Spent
    BY <1>1, <1>2, RecordWritten, OrderKept DEF Spent
  <2>2. \A r \in Sessions : Got(r)' = Got(r)
    BY <1>1 DEF Got
  <2> QED
    BY <2>1, <2>2, SeenIs
<1>4. RecordInOrder'
  <2>1. \A i \in DOMAIN log : <<log[i], m>> \in Order
    <3>1. \A i \in DOMAIN log : log[i] \in Line
      BY <1>1, GotTypes DEF Recorded
    <3> QED
      BY <1>2, <3>1, PrivateAnyOrder
  <2>2. running # Nothing => <<m, running>> \in Order
    BY <1>1, <1>2, PrivateAnyOrder DEF FlowTypeOK
  <2> QED
    BY <1>1, <1>2, <1>3, <2>1, <2>2, WrittenInOrder
<1>5. InTurn'
  <2>1. \A x \in Seen' : x.kind \in Announced => x \in Seen
    BY <1>2, <1>3 DEF Announced
  <2> QED
    BY <1>1, <1>3, <2>1, InTurnKept
<1>6. Kinds'
  BY <1>1 DEF Kinds
<1>7. Numbered'
  <2>1. /\ \A r \in Sessions : handler[r] # NoHandler => handler[r].todo \subseteq Sessions
        /\ \A x \in Seen' : x.kind # "private" => x \in Seen
        /\ \A x \in Recorded' : x.kind = "room" => x \in Recorded
    BY <1>1, <1>2, <1>3, Carried
  <2> QED
    BY <1>1, <1>3, <2>1 DEF Numbered
<1>8. Received'
  BY <1>1, <1>3, ReceivedKept
<1>9. SentOn'
  <2>1. Recorded' \cup answering' \subseteq Recorded \cup answering
    BY <1>1, <1>3
  <2> QED
    BY <1>1, <1>3, <2>1, SentOnKept
<1> QED
  BY <1>4, <1>5, <1>6, <1>7, <1>8, <1>9 DEF Parts

-----------------------------------------------------------------------------
(* The theorems.                                                           *)

LEMMA UnharmedStep ==
    ASSUME FlowInv, [FlowNext]_flowVars
    PROVE  Unharmed'
<1>1. CASE UNCHANGED flowVars
  BY <1>1 DEF flowVars, historyVars, FlowInv, Unharmed
<1>2. CASE FlowNext
  <2>1. \A m : history = "held" /\ Write(m) => history' = history
    BY DEF Write
  <2>2. ASSUME NEW s \in Sessions, Reads(s) \/ RunPosted(s) \/ GoesOn(s)
        PROVE  Unharmed'
    <3>1. CASE Reads(s) \/ RunPosted(s)
      BY <3>1 DEF Reads, SayGlobal, SayRoom, SayPrivate, AskEnter, ExitRoom, Disconnect,
                  RunPosted, FlowInv, Unharmed, historyVars
    <3>2. CASE GoesOn(s)
      BY <2>1, <3>2 DEF GoesOn, WalkStep, WalkEnd, LogRoom, FlowInv, Unharmed, historyVars
    <3> QED
      BY <2>2, <3>1, <3>2
  <2>3. CASE StrandStarts \/ StrandLog
    BY <2>1, <2>3 DEF StrandStarts, StrandSay, StrandEnter, StrandLeave, StrandFind,
                      StrandLog, FlowInv, Unharmed, historyVars
  <2>4. CASE AnswerStarts \/ PrivateGoesOn
    BY <2>1, <2>4 DEF AnswerStarts, RunAnswer, PrivateGoesOn, LogPrivate, FlowInv, Unharmed,
                      historyVars
  <2> QED
    BY <1>2, <2>2, <2>3, <2>4 DEF FlowNext
<1> QED
  BY <1>1, <1>2

\* A step that changes nothing keeps all the parts.
LEMMA StutterStep ==
    ASSUME FlowInv, UNCHANGED flowVars
    PROVE  Parts'
<1>1. /\ UNCHANGED <<asked, failed, last, listed, strand, running, handler, answers, answering,
                     posted, delivered, dropped, log>>
      /\ FlowTypeOK /\ Kinds /\ InTurn /\ Numbered /\ RecordInOrder /\ Received /\ SentOn
  BY DEF FlowInv, flowVars, connVars, queueVars, historyVars
<1>2. /\ Recorded' = Recorded /\ Order' = Order /\ Lasts' = Lasts /\ Spent' = Spent
      /\ (\A r \in Sessions : Got(r)' = Got(r)) /\ Seen' \subseteq Seen
  <2>1. /\ Recorded' = Recorded /\ Order' = Order /\ Lasts' = Lasts
        /\ Spent' = Spent /\ \A r \in Sessions : Got(r)' = Got(r)
    BY <1>1, RecordKept, OrderKept DEF Got, Spent
  <2> QED
    BY <2>1, SeenKept
<1>3. Kinds' /\ RecordInOrder'
  BY <1>1, <1>2 DEF Kinds, RecordInOrder
<1>4. InTurn' /\ SentOn' /\ Received'
  BY <1>1, <1>2, InTurnKept, SentOnKept, ReceivedKept
<1>5. Numbered'
  <2>1. \A r \in Sessions : handler[r] # NoHandler => handler[r].todo \subseteq Sessions
    BY <1>1, Carried
  <2> QED
    BY <1>1, <1>2, <2>1 DEF Numbered
<1> QED
  BY <1>3, <1>4, <1>5 DEF Parts

\* The inductive invariant holds in every reachable state.
THEOREM FlowInvAlways == FlowSpec => []FlowInv
<1>1. FlowInit => FlowInv
  <2> SUFFICES ASSUME FlowInit
               PROVE  FlowInv
    OBVIOUS
  <2>1. FlowTypeOK
    BY FlowTypesStart
  <2>2. DOMAIN <<>> = {}
    OBVIOUS
  <2>3. Recorded = {} /\ \A s \in Sessions : Got(s) = {} /\ Ordered(Order, delivered[s], posted[s])
    BY <2>2 DEF FlowInit, Recorded, Got, Lines, Ordered
  <2>4. Seen = {}
    BY <2>3 DEF Seen
  <2>5. Kinds /\ RecordInOrder /\ Unharmed
    BY <2>2 DEF FlowInit, Kinds, RecordInOrder, Unharmed
  <2>6. InTurn /\ Numbered
    BY <2>2, <2>3, <2>4 DEF FlowInit, InTurn, Numbered
  <2>7. Received /\ SentOn
    BY <2>3 DEF FlowInit, Received, SentOn
  <2> QED
    BY <2>1, <2>5, <2>6, <2>7 DEF FlowInv
<1>2. FlowInv /\ [FlowNext]_flowVars => FlowInv'
  <2> SUFFICES ASSUME FlowInv, [FlowNext]_flowVars
               PROVE  FlowInv'
    OBVIOUS
  <2>1. FlowTypeOK'
    BY FlowTypesStep DEF FlowInv
  <2>2. Unharmed'
    BY UnharmedStep
  <2>3. Parts'
    <3>1. CASE UNCHANGED flowVars
      BY <3>1, StutterStep
    <3>2. CASE FlowNext
      BY <3>2, ReadStep, TurnStep, WalkStepStep, WalkEndStep, LogRoomStep, StrandStep,
         StrandLogStep, AnswerStep, LogPrivateStep
         DEF FlowNext, GoesOn, AnswerStarts, PrivateGoesOn
    <3> QED
      BY <3>1, <3>2
  <2> QED
    BY <2>1, <2>2, <2>3 DEF FlowInv, Parts
<1> QED
  BY <1>1, <1>2, PTL DEF FlowSpec

\* What is delivered to a session is in order.
LEMMA DeliveredInOrder ==
    ASSUME FlowInv, NEW s \in Sessions, NEW i \in DOMAIN delivered[s], NEW j \in DOMAIN delivered[s],
           i < j
    PROVE  /\ MayPrecede(delivered[s][i], delivered[s][j])
           /\ delivered[s][i] \in Line /\ delivered[s][j] \in Line
BY DEF FlowInv, Received, Ordered, Order

LEMMA LoggedInOrder ==
    ASSUME FlowInv, NEW i \in DOMAIN log, NEW j \in DOMAIN log, i < j
    PROVE  MayPrecede(log[i], log[j]) /\ log[i] \in Line /\ log[j] \in Line
BY DEF FlowInv, RecordInOrder, Order

\* Everybody sees the global lines and the departures in one order, that of the history.
THEOREM OneOrder == FlowSpec => []GlobalOrder
<1>1. FlowInv => GlobalOrder
  <2> SUFFICES ASSUME FlowInv, NEW s \in Sessions, NEW m1 \in OfKinds(delivered[s], Announced),
                      NEW m2 \in OfKinds(delivered[s], Announced), Before(delivered[s], m1, m2)
               PROVE  (\A r \in Sessions : ~Before(delivered[r], m2, m1)) /\ ~Before(log, m2, m1)
    BY DEF GlobalOrder, Announced
  <2>1. m1.kind \in Announced /\ m2.kind \in Announced
    BY DEF OfKinds
  <2>2. m1.n < m2.n /\ m1.n \in Nat /\ m2.n \in Nat
    <3>1. MayPrecede(m1, m2) /\ m1 \in Line /\ m2 \in Line
      BY DeliveredInOrder DEF Before
    <3> QED
      BY <2>1, <3>1 DEF MayPrecede, Line
  <2>3. ~MayPrecede(m2, m1)
    BY <2>1, <2>2 DEF MayPrecede
  <2>4. \A r \in Sessions : ~Before(delivered[r], m2, m1)
    BY <2>3, DeliveredInOrder DEF Before
  <2>5. ~Before(log, m2, m1)
    BY <2>3, LoggedInOrder DEF Before
  <2> QED
    BY <2>4, <2>5
<1> QED
  BY <1>1, FlowInvAlways, PTL

\* The room lines of a sender, and its global ones, arrive in the order they were sent.
THEOREM SendersInOrder == FlowSpec => []SenderOrder
<1>1. FlowInv => SenderOrder
  BY DeliveredInOrder, LoggedInOrder DEF SenderOrder, MayPrecede, Announced
<1> QED
  BY <1>1, FlowInvAlways, PTL

\* After the notice of its departure nobody is told so again, nor gets a global or a
\* room line of a session, but for its last.
THEOREM NothingAfterLeft == FlowSpec => []LeftIsLast
<1>1. FlowInv => LeftIsLast
  BY DeliveredInOrder DEF LeftIsLast, MayPrecede, Lasts
<1> QED
  BY <1>1, FlowInvAlways, PTL

\* A line of the history was sent on to everybody who was to get it: they have it, or
\* had no room for it.
THEOREM HistoryWasSent == FlowSpec => []LoggedWasSent
<1>1. FlowInv => LoggedWasSent
  <2> SUFFICES ASSUME FlowInv, NEW i \in DOMAIN log, NEW s \in Receivers(log[i])
               PROVE  \/ \E j \in DOMAIN delivered[s] : delivered[s][j] = log[i]
                      \/ \E j \in DOMAIN posted[s] : posted[s][j].m = log[i]
                      \/ log[i] \in dropped[s]
    BY DEF LoggedWasSent, Receivers
  <2>1. log[i] \in Recorded
    BY DEF Recorded
  <2>2. log[i] \in Got(s) \cup dropped[s]
    BY <2>1 DEF FlowInv, SentOn
  <2> QED
    BY <2>2 DEF Got, Lines
<1> QED
  BY <1>1, FlowInvAlways, PTL

=============================================================================
