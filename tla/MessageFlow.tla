----------------------------- MODULE MessageFlow -----------------------------
(***************************************************************************)
(* The way of a chat line from its sender to the sessions that receive it  *)
(* and to the history: global lines through strand_, room lines on the     *)
(* sender's own thread, private messages through strand_ and then through  *)
(* whatever thread is free.                                                *)
(*                                                                         *)
(* The registry is ChatServer's; here it only changes as far as it decides *)
(* who receives what.  A handler that may be interrupted between two calls *)
(* other threads can see is split there.                                   *)
(***************************************************************************)
EXTENDS Naturals, Sequences, FiniteSets

CONSTANTS
    Sessions, \* the sessions that have joined
    Senders,  \* those whose clients send something
    Slow,     \* those whose write queue may be full when a message gets there
    Unsafe,   \* the kinds of lines whose write to the history may fail
    MaxAsks,  \* bound on the lines, the moves and the failures of all connections
    None      \* nobody

ASSUME FlowAssumption ==
    /\ Senders \subseteq Sessions /\ Slow \subseteq Sessions
    /\ Unsafe \subseteq {"global", "room", "private", "left"}
    /\ None \notin Sessions
    /\ MaxAsks \in Nat

VARIABLES
    asked,     \* the number of lines, moves and failures so far
    failed,    \* what has failed of each session's connection: a read, a write
    last,      \* the number of what a session read after a write had failed, or 0
    listed,    \* sessions_, each of them with a nickname in nicknames_
    members,   \* participants_ of the one room
    handler,   \* the room broadcast each session is part way through
    strand,    \* the tasks queued on strand_
    running,   \* the task of strand_ that is part way through
    answers,   \* lookups of receivers posted to the io_context, in no order
    answering, \* private messages whose callback is part way through
    posted,    \* the function objects queued on each session's strand
    delivered, \* the messages put into each session's write queue, in order
    dropped,   \* those that were dropped because it was full
    history,   \* history_: held, reset, or used after it was reset with a crash
    log,       \* what was written to it, in order
    unlogged,  \* what it was given and could not write
    stopped    \* stopped_

\* What connections, queues and the history make of what is given to them.
connVars == <<failed, last>>
queueVars == <<posted, delivered, dropped>>
historyVars == <<history, log, unlogged>>
flowVars == <<asked, connVars, listed, members, handler, strand, running, answers, answering,
              queueVars, historyVars, stopped>>

-----------------------------------------------------------------------------
\* Lines and notices are numbered by the order in which they are sent, or in
\* which leave() is called.
Line == [kind : {"global", "room", "left"}, from : Sessions, n : Nat \ {0}, to : {None}]
        \cup [kind : {"private"}, from : Sessions, n : Nat \ {0}, to : Sessions]
Nothing == [kind |-> "nothing", from |-> None, n |-> 0, to |-> None]

LineOf(kind, s, to) == [kind |-> kind, from |-> s, n |-> asked + 1, to |-> to]
\* Faulty variant: the notice does not say who left.
NamelessNotice(s) == LineOf("left", None, None)
LeftNotice(s) == LineOf("left", s, None)

\* A room broadcast: the line, and the participants still to be given it; then
\* the history is written.
Handler == [op : {"idle"}, m : {Nothing}, todo : {{}}]
           \cup [op : {"walk", "log"}, m : Line, todo : SUBSET Sessions]
NoHandler == [op |-> "idle", m |-> Nothing, todo |-> {}]

Task == [op : {"say", "find", "leave"}, s : Sessions, m : Line]
        \cup [op : {"enter"}, s : Sessions, m : {Nothing}]
        \cup [op : {"closeAll"}, s : {None}, m : {Nothing}]

FlowTypeOK ==
    /\ asked \in 0..MaxAsks
    /\ failed \in [Sessions -> SUBSET {"read", "write"}]
    /\ last \in [Sessions -> 0..MaxAsks]
    /\ listed \subseteq Sessions
    /\ members \subseteq Sessions
    /\ handler \in [Sessions -> Handler]
    /\ strand \in Seq(Task)
    /\ running \in Line \cup {Nothing}
    /\ answers \subseteq [m : Line, to : Sessions \cup {None}]
    /\ answering \subseteq Line
    /\ posted \in [Sessions -> Seq([hop : {1, 2}, m : Line])]
    /\ delivered \in [Sessions -> Seq(Line)]
    /\ dropped \in [Sessions -> SUBSET Line]
    /\ history \in {"held", "reset", "crashed"}
    /\ log \in Seq(Line)
    /\ unlogged \subseteq Line
    /\ stopped \in BOOLEAN

FlowInit ==
    /\ asked = 0
    /\ failed = [s \in Sessions |-> {}]
    /\ last = [s \in Sessions |-> 0]
    /\ listed = Sessions
    /\ members \in {{}, Sessions}
    /\ handler = [s \in Sessions |-> NoHandler]
    /\ strand = <<>>
    /\ running = Nothing
    /\ answers = {}
    /\ answering = {}
    /\ posted = [s \in Sessions |-> <<>>]
    /\ delivered = [s \in Sessions |-> <<>>]
    /\ dropped = [s \in Sessions |-> {}]
    /\ history = "held"
    /\ log = <<>>
    /\ unlogged = {}
    /\ stopped = FALSE

-----------------------------------------------------------------------------
(* What happens to a connection: a line is read (process_message), or it     *)
(* fails.                                                                  *)

Asks(s) ==
    /\ s \in Senders /\ handler[s] = NoHandler
    /\ asked < MaxAsks /\ asked' = asked + 1

\* A message has arrived.  After a failed write nothing more arrives than the one
\* that may have been there already.
Hears(s) ==
    /\ Asks(s) /\ "read" \notin failed[s]
    /\ \/ "write" \notin failed[s] /\ UNCHANGED last
       \/ "write" \in failed[s] /\ last[s] = 0 /\ last' = [last EXCEPT ![s] = asked']

\* Faulty variant: a task runs before those that wait.
QueueFirst(op, s, m) == strand' = <<[op |-> op, s |-> s, m |-> m]>> \o strand

Queue(op, s, m) == strand' = Append(strand, [op |-> op, s |-> s, m |-> m])

\* broadcast, when the session is in no room: posted to strand_.
SayGlobal(s) ==
    /\ Hears(s) /\ s \notin members
    /\ IF stopped THEN UNCHANGED strand ELSE Queue("say", s, LineOf("global", s, None))
    /\ UNCHANGED <<failed, listed, members, handler, running, answers, answering, queueVars,
                   historyVars, stopped>>

\* broadcast_to_room, when it is in the room: on this thread.
SayRoom(s) ==
    /\ Hears(s) /\ s \in members
    /\ handler' = IF stopped THEN handler ELSE
           [handler EXCEPT ![s] = [op |-> "walk", m |-> LineOf("room", s, None),
                                   todo |-> members \ {s}]]
    /\ UNCHANGED <<failed, listed, members, strand, running, answers, answering, queueVars,
                   historyVars, stopped>>

\* send_private_message: the receiver is looked up on strand_.
SayPrivate(s, to) ==
    /\ Hears(s) /\ s # to
    /\ IF stopped THEN UNCHANGED strand ELSE Queue("find", s, LineOf("private", s, to))
    /\ UNCHANGED <<failed, listed, members, handler, running, answers, answering, queueVars,
                   historyVars, stopped>>

\* /join of the room.  The notices about rooms are left out.
AskEnter(s) ==
    /\ Hears(s) /\ s \notin members
    /\ IF stopped THEN UNCHANGED strand ELSE Queue("enter", s, Nothing)
    /\ UNCHANGED <<failed, listed, members, handler, running, answers, answering, queueVars,
                   historyVars, stopped>>

\* /leave of the room, on this thread.  That it may change the set another
\* thread walks is ChatServer's WalkUndisturbed; here it waits.
NoWalk == \A s \in Sessions : handler[s].op # "walk"

ExitRoom(s) ==
    /\ Hears(s) /\ s \in members /\ NoWalk
    /\ members' = IF stopped THEN members ELSE members \ {s}
    /\ UNCHANGED <<failed, listed, handler, strand, running, answers, answering, queueVars,
                   historyVars, stopped>>

\* A read or a write has failed: on_read and on_write each call leave().
Disconnect(s, what) ==
    /\ Asks(s) /\ what \notin failed[s]
    /\ failed' = [failed EXCEPT ![s] = @ \cup {what}]
    /\ Queue("leave", s, LeftNotice(s))
    /\ UNCHANGED <<last, listed, members, handler, running, answers, answering, queueVars,
                   historyVars, stopped>>

-----------------------------------------------------------------------------
(* deliver, and the queues of the sessions' strands.                       *)

\* deliver() posts to the session's strand; broadcast_impl posts the call of
\* deliver() there first, so that its messages take two turns.
Post(q, s, hop, m) == [q EXCEPT ![s] = Append(@, [hop |-> hop, m |-> m])]

\* Faulty variant: the messages of a broadcast are not queued behind others.
PostsUrgent(to, m) ==
    [s \in Sessions |-> IF s \in to THEN <<[hop |-> 1, m |-> m]>> \o posted[s] ELSE posted[s]]

\* broadcast_impl: a copy of sessions_ without the sender.
PostsToAll(to, m) ==
    [s \in Sessions |-> IF s \in to THEN Append(posted[s], [hop |-> 1, m |-> m]) ELSE posted[s]]

\* A function object of a session's strand runs: it calls deliver, or it puts
\* the message into the write queue, unless that is full.
RunPosted(s) ==
    /\ posted[s] # <<>>
    /\ LET p == Head(posted[s])
           rest == [posted EXCEPT ![s] = Tail(@)]
       IN  \/ /\ p.hop = 1
              /\ posted' = Post(rest, s, 2, p.m)
              /\ UNCHANGED <<delivered, dropped>>
           \/ /\ p.hop = 2
              /\ posted' = rest
              /\ delivered' = [delivered EXCEPT ![s] = Append(@, p.m)]
              /\ UNCHANGED dropped
           \/ /\ p.hop = 2 /\ s \in Slow
              /\ posted' = rest
              /\ dropped' = [dropped EXCEPT ![s] = @ \cup {p.m}]
              /\ UNCHANGED delivered
    /\ UNCHANGED <<asked, connVars, listed, members, handler, strand, running, answers,
                   answering, historyVars, stopped>>

-----------------------------------------------------------------------------
(* Room lines.                                                             *)

\* history_ is used: the line is written, or the exception of a failed write is
\* swallowed.  When it was reset since it was looked at, the line may also be
\* lost, or the process may crash.
Write(m) ==
    \/ log' = Append(log, m) /\ UNCHANGED <<history, unlogged>>
    \/ m.kind \in Unsafe /\ unlogged' = unlogged \cup {m} /\ UNCHANGED <<history, log>>
    \/ history = "reset" /\ history' \in {"reset", "crashed"} /\ UNCHANGED <<log, unlogged>>

\* ChatRoom::broadcast: the next participant, in the order of the set.
WalkStep(s, to) ==
    /\ handler[s].op = "walk" /\ to \in handler[s].todo
    /\ posted' = Post(posted, to, 2, handler[s].m)
    /\ handler' = [handler EXCEPT ![s].todo = @ \ {to}]
    /\ UNCHANGED <<asked, connVars, listed, members, strand, running, answers, answering,
                   delivered, dropped, historyVars, stopped>>

\* The walk is over: history_ is looked at ...
WalkEnd(s) ==
    /\ handler[s].op = "walk" /\ handler[s].todo = {}
    /\ handler' = [handler EXCEPT ![s] = IF history = "held" THEN [@ EXCEPT !.op = "log"]
                                         ELSE NoHandler]
    /\ UNCHANGED <<asked, connVars, listed, members, strand, running, answers, answering,
                   queueVars, historyVars, stopped>>

\* ... and used.
LogRoom(s) ==
    /\ handler[s].op = "log"
    /\ Write(handler[s].m)
    /\ handler' = [handler EXCEPT ![s] = NoHandler]
    /\ UNCHANGED <<asked, connVars, listed, members, strand, running, answers, answering,
                   queueVars, stopped>>

-----------------------------------------------------------------------------
(* Tasks of strand_, one at a time.                                        *)

\* Faulty variant: a task queued before stop() is done all the same.
RefusesNone == FALSE

\* A task looks at stopped_ again.
Refuses == stopped

Take(op) ==
    /\ running = Nothing /\ strand # <<>>
    /\ Head(strand).op = op
    /\ strand' = Tail(strand)
Current == Head(strand)

\* Faulty variant: a notice takes one turn only, like deliver().
BroadcastDirect(m, to) ==
    /\ posted' = [s \in Sessions |->
                     IF s \notin to THEN posted[s]
                     ELSE Append(posted[s], [hop |-> IF m.kind = "left" THEN 2 ELSE 1, m |-> m])]
    /\ running' = IF history = "held" THEN m ELSE Nothing

\* Faulty variant: only members of the room are given the message.
BroadcastToRoom(m, to) ==
    /\ posted' = PostsToAll(to \cap members, m)
    /\ running' = IF history = "held" THEN m ELSE Nothing

\* broadcast_impl: posts, then looks at history_.
Broadcast(m, to) ==
    /\ posted' = PostsToAll(to, m)
    /\ running' = IF history = "held" THEN m ELSE Nothing

\* The task of broadcast(): stopped_ is looked at again.
StrandSay ==
    /\ Take("say")
    /\ IF Refuses THEN UNCHANGED <<posted, running>>
       ELSE Broadcast(Current.m, listed \ {Current.s})
    /\ UNCHANGED <<asked, connVars, listed, members, handler, answers, answering, delivered,
                   dropped, historyVars, stopped>>

\* The history of a global line.
StrandLog ==
    /\ running # Nothing
    /\ Write(running)
    /\ running' = Nothing
    /\ UNCHANGED <<asked, connVars, listed, members, handler, strand, answers, answering,
                   queueVars, stopped>>

\* join_room, in the same way.
StrandEnter ==
    /\ Take("enter") /\ NoWalk
    /\ members' = IF Refuses THEN members ELSE members \cup {Current.s}
    /\ UNCHANGED <<asked, connVars, listed, handler, running, answers, answering, queueVars,
                   historyVars, stopped>>

\* leave: out of the room, out of both registries, and a notice to the others
\* when it was listed.
StrandLeave ==
    /\ Take("leave") /\ NoWalk
    /\ LET s == Current.s
       IN  IF Refuses THEN UNCHANGED <<listed, members, posted, running>>
           ELSE /\ members' = members \ {s}
                /\ listed' = listed \ {s}
                /\ IF s \in listed THEN Broadcast(Current.m, listed \ {s})
                   ELSE UNCHANGED <<posted, running>>
    /\ UNCHANGED <<asked, connVars, handler, answers, answering, delivered, dropped,
                   historyVars, stopped>>

\* find_session_by_nickname_async: the answer is posted to the io_context.
StrandFind ==
    /\ Take("find")
    /\ LET m == Current.m
       IN  answers' = answers \cup {[m |-> m, to |-> IF m.to \in listed THEN m.to ELSE None]}
    /\ UNCHANGED <<asked, connVars, listed, members, handler, running, answering, queueVars,
                   historyVars, stopped>>

-----------------------------------------------------------------------------
(* Private messages.                                                       *)

\* The callback: to the receiver, a confirmation to the sender, then history_ is
\* looked at; or an error to the sender.  The sender's copy is the line itself.
RunAnswer(a) ==
    /\ a \in answers
    /\ answers' = answers \ {a}
    /\ \/ /\ Refuses
          /\ UNCHANGED <<posted, answering>>
       \/ /\ ~Refuses /\ a.to = None
          /\ posted' = Post(posted, a.m.from, 2, a.m)
          /\ UNCHANGED answering
       \/ /\ ~Refuses /\ a.to # None
          /\ posted' = Post(Post(posted, a.to, 2, a.m), a.m.from, 2, a.m)
          /\ answering' = IF history = "held" THEN answering \cup {a.m} ELSE answering
    /\ UNCHANGED <<asked, connVars, listed, members, handler, strand, running, delivered,
                   dropped, historyVars, stopped>>

LogPrivate(m) ==
    /\ m \in answering
    /\ answering' = answering \ {m}
    /\ Write(m)
    /\ UNCHANGED <<asked, connVars, listed, members, handler, strand, running, answers, queueVars,
                   stopped>>

-----------------------------------------------------------------------------
\* A thread picks a handler that is ready ...
Reads(s) ==
    \/ SayGlobal(s) \/ SayRoom(s) \/ \E to \in Sessions : SayPrivate(s, to)
    \/ AskEnter(s) \/ ExitRoom(s) \/ \E what \in {"read", "write"} : Disconnect(s, what)
StrandStarts == StrandSay \/ StrandEnter \/ StrandLeave \/ StrandFind
AnswerStarts == \E a \in answers : RunAnswer(a)

\* ... or goes on with the one it is in.
GoesOn(s) == (\E to \in Sessions : WalkStep(s, to)) \/ WalkEnd(s) \/ LogRoom(s)
PrivateGoesOn == \E m \in answering : LogPrivate(m)

FlowNext ==
    \/ \E s \in Sessions : Reads(s) \/ RunPosted(s) \/ GoesOn(s)
    \/ StrandStarts \/ StrandLog
    \/ AnswerStarts \/ PrivateGoesOn

FlowSpec == FlowInit /\ [][FlowNext]_flowVars

-----------------------------------------------------------------------------
(* Order.                                                                  *)

Before(q, m1, m2) == \E i, j \in DOMAIN q : i < j /\ q[i] = m1 /\ q[j] = m2
OfKinds(q, kinds) == {q[i] : i \in {j \in DOMAIN q : q[j].kind \in kinds}}

\* Everybody sees the global lines and the notices of departures in the same
\* order, which is the order of the history.
GlobalOrder ==
    \A s \in Sessions :
        \A m1, m2 \in OfKinds(delivered[s], {"global", "left"}) :
            Before(delivered[s], m1, m2) =>
                /\ \A r \in Sessions : ~Before(delivered[r], m2, m1)
                /\ ~Before(log, m2, m1)

\* The room lines of a sender, and the global ones, arrive in the order in which
\* they were sent, at everybody and in the history, each at most once.
SenderOrder ==
    \A s \in Sessions \cup {None} :
        LET q == IF s = None THEN log ELSE delivered[s]
        IN  \A i, j \in DOMAIN q :
              i < j /\ q[i].kind = q[j].kind /\ q[i].kind \in {"room", "global"}
                    /\ q[i].from = q[j].from => q[i].n < q[j].n

\* After the notice that a session has left nobody is told so again, nor gets a
\* global or a room line of it any more, but for the one that had arrived when
\* on_write called leave().
LeftIsLast ==
    \A s \in Sessions : \A i, j \in DOMAIN delivered[s] :
        LET q == delivered[s]
        IN  i < j /\ q[i].kind = "left" /\ q[j].from = q[i].from =>
              \/ q[j].kind = "private"
              \/ q[j].kind # "left" /\ q[j].n = last[q[j].from]

\* A line of the history was sent on before: whoever was to get it has it, or
\* has it queued, or had no room for it.  (Listed now: a session never comes
\* back.)
LoggedWasSent ==
    \A i \in DOMAIN log :
        LET m == log[i]
            to == IF m.kind = "private" THEN {m.to, m.from}
                  ELSE (IF m.kind = "room" THEN {} ELSE listed) \ {m.from}
        IN  \A s \in to :
              \/ \E j \in DOMAIN delivered[s] : delivered[s][j] = m
              \/ \E j \in DOMAIN posted[s] : posted[s][j].m = m
              \/ m \in dropped[s]

\* A global line that reached strand_ gets to everybody who stays listed, where
\* only a full write queue drops it, unless the server is stopped.
Reached(m) ==
    \/ stopped
    \/ \A s \in listed \ {m.from} :
         m \in dropped[s] \/ \E j \in DOMAIN delivered[s] : delivered[s][j] = m
GlobalArrives ==
    \A s \in Senders : \A n \in 1..MaxAsks :
        LET m == [kind |-> "global", from |-> s, n |-> n, to |-> None]
        IN  (\E i \in DOMAIN strand : strand[i].m = m) ~> Reached(m)
=============================================================================
