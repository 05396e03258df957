----------------------------- MODULE ChatServer -----------------------------
(***************************************************************************)
(* The chat server: the registry of sessions, nicknames and rooms that     *)
(* every WebSocketSession shares.                                          *)
(*                                                                         *)
(* Four threads run one io_context.  The handlers of one session exclude   *)
(* each other (the socket's executor is a strand), tasks dispatched to the *)
(* server's strand_ run one after the other in FIFO order, and everything  *)
(* else runs in parallel.  A step below is one handler, or one stretch of  *)
(* a handler between two points where another thread can get in: a lock    *)
(* taken or released, or a call that only queues work.                     *)
(***************************************************************************)
EXTENDS Naturals, Sequences, FiniteSets

CONSTANTS
    Sessions,        \* the WebSocket sessions the listener may accept
    Nicks,           \* the nicknames clients ask for
    Reserved,        \* those the pre-check refuses ("Server", "system", bad form)
    Rooms,           \* the room names clients use
    MaxParticipants, \* ChatRoom::max_participants_ (100 in the code)
    MaxCmds,         \* bound on the commands all clients send together
    Patient,         \* clients send no command before the one before it is answered
    WriteFaults,     \* a write to the peer may fail
    ForeignLeave,    \* clients may name any room in /leave, not only their own
    StopAllowed,     \* stop() may be called
    None             \* no nickname yet (remote_id), no room (""), no session

ASSUME ConstantsAssumption ==
    /\ Reserved \subseteq Nicks
    /\ None \notin Sessions \cup Nicks \cup Rooms
    /\ IsFiniteSet(Sessions)
    /\ MaxParticipants \in Nat \ {0}
    /\ MaxCmds \in Nat
    /\ {Patient, WriteFaults, ForeignLeave, StopAllowed} \subseteq BOOLEAN

VARIABLES
    conn,        \* connection of each session, as the session sees it
    handler,     \* the session handler that is part way through, per session
    nick,        \* nickname_
    room,        \* current_room_
    results,     \* nickname answers posted to the session's strand; None is a refusal
    replies,     \* answers posted to the io_context whose callback holds a bare this
    cmds,        \* commands sent so far, by all clients
    writeFailed, \* on_write has reported an error
    sessions,    \* sessions_
    nicknames,   \* nicknames_: nickname -> session, None when there is no entry
    rooms,       \* the keys of rooms_
    members,     \* participants_ of each room
    stopPhase,   \* how far stop() has got
    strand,      \* tasks queued on strand_
    running,     \* the task of strand_ that is part way through
    closing,     \* sessions with a stop_session call queued on their strand
    fault        \* what undefined behaviour has done to the process

clientVars == <<conn, cmds, writeFailed>>
answerVars == <<results, replies>>
roomVars   == <<rooms, members>>
stopVars   == <<stopPhase, closing>>
vars == <<conn, handler, nick, room, results, replies, cmds, writeFailed, sessions,
          nicknames, rooms, members, stopPhase, strand, running, closing, fault>>

-----------------------------------------------------------------------------
(* Values.                                                                 *)

ConnStates == {"new", "open", "closed", "ended", "gone"}
StopPhases == {"running", "posted", "queued", "done"}
Faults     == {"none", "endDeref", "dangling", "iteration"}

NickOrNone == Nicks \cup {None}
RoomOrNone == Rooms \cup {None}

\* A handler between its checks and its dispatch, between the two halves of
\* leave_room, or on its way through the participants it found (seen).
Handler ==
    [op : {"idle", "join", "list"}, arg : {None}, seen : SUBSET Sessions] \cup
    [op : {"nick"}, arg : Nicks, seen : SUBSET Sessions] \cup
    [op : {"joinRoom", "clear", "say"}, arg : Rooms, seen : SUBSET Sessions]

\* A function object queued on strand_ and what it captured.
Task ==
    [op : {"join", "list"}, s : Sessions, arg : {None}] \cup
    [op : {"leave"}, s : Sessions, arg : NickOrNone] \cup
    [op : {"nick"}, s : Sessions, arg : Nicks] \cup
    [op : {"joinRoom"}, s : Sessions, arg : Rooms] \cup
    [op : {"closeAll"}, s : {None}, arg : {None}]

\* The task under way: the session, the room it is leaving and its argument.
Running ==
    [op : {"idle"}, s : {None}, old : {None}, arg : {None}, seen : SUBSET Sessions] \cup
    [op : {"joinLock", "announce"}, s : Sessions, old : RoomOrNone, arg : Rooms,
     seen : SUBSET Sessions] \cup
    [op : {"leaveLock", "leaveEnd"}, s : Sessions, old : RoomOrNone, arg : NickOrNone,
     seen : SUBSET Sessions]

NoHandler == [op |-> "idle", arg |-> None, seen |-> {}]
NoTask    == [op |-> "idle", s |-> None, old |-> None, arg |-> None, seen |-> {}]

TypeOK ==
    /\ conn \in [Sessions -> ConnStates]
    /\ handler \in [Sessions -> Handler]
    /\ nick \in [Sessions -> NickOrNone]
    /\ room \in [Sessions -> RoomOrNone]
    /\ results \in [Sessions -> Seq(NickOrNone)]
    /\ replies \in [Sessions -> Nat]
    /\ cmds \in 0..MaxCmds
    /\ writeFailed \in [Sessions -> BOOLEAN]
    /\ sessions \subseteq Sessions
    /\ nicknames \in [Nicks -> Sessions \cup {None}]
    /\ rooms \subseteq Rooms
    /\ members \in [Rooms -> SUBSET Sessions]
    /\ stopPhase \in StopPhases
    /\ strand \in Seq(Task)
    /\ running \in Running
    /\ closing \subseteq Sessions
    /\ fault \in Faults

Init ==
    /\ conn = [s \in Sessions |-> "new"]
    /\ handler = [s \in Sessions |-> NoHandler]
    /\ nick = [s \in Sessions |-> None]
    /\ room = [s \in Sessions |-> None]
    /\ results = [s \in Sessions |-> <<>>]
    /\ replies = [s \in Sessions |-> 0]
    /\ cmds = 0
    /\ writeFailed = [s \in Sessions |-> FALSE]
    /\ sessions = {}
    /\ nicknames = [n \in Nicks |-> None]
    /\ rooms = {}
    /\ members = [r \in Rooms |-> {}]
    /\ stopPhase = "running"
    /\ strand = <<>>
    /\ running = NoTask
    /\ closing = {}
    /\ fault = "none"

-----------------------------------------------------------------------------
(* Who holds a session, and what is outstanding for it.                    *)

\* Nothing happens in a process that undefined behaviour brought down.
Alive == fault = "none"
Stopped == stopPhase # "running"
Idle(s) == handler[s].op = "idle"
Queued(ops, s) == \E i \in DOMAIN strand : strand[i].op \in ops /\ strand[i].s = s

\* No command of the client waits for its answer.
Answered(s) ==
    /\ results[s] = <<>> /\ replies[s] = 0
    /\ ~Queued({"nick", "list", "joinRoom"}, s)
    /\ ~(running.op \in {"joinLock", "announce"} /\ running.s = s)

\* Nothing that was done for s is still under way.
Settled(s) ==
    /\ Idle(s) /\ Answered(s)
    /\ ~Queued({"join", "leave"}, s) /\ running.s # s

\* No shared_ptr to s is left: nickname tasks and bare-this callbacks hold none.
Unreferenced(s) ==
    /\ conn[s] = "ended" /\ Idle(s)
    /\ s \notin sessions \cup closing
    /\ \A r \in Rooms : s \notin members[r]
    /\ ~Queued({"join", "leave", "joinRoom"}, s)
    /\ running.s # s
    /\ s \notin running.seen

Enqueue(op, s, arg) == strand' = Append(strand, [op |-> op, s |-> s, arg |-> arg])

\* Faulty variant: only a session with a nickname is reported.
RequestLeaveNamed(s) ==
    IF nick[s] = None THEN UNCHANGED strand ELSE Enqueue("leave", s, nick[s])

\* ChatServer::leave reads the nickname when it is called, not when its task runs.
RequestLeave(s) == Enqueue("leave", s, nick[s])

-----------------------------------------------------------------------------
(* The session: accept, read loop, callbacks, teardown.                    *)

MayAct(s) == Idle(s) /\ (Patient => Answered(s))
Begin(s, op, arg, seen) ==
    handler' = [handler EXCEPT ![s] = [op |-> op, arg |-> arg, seen |-> seen]]
Finish(s) == handler' = [handler EXCEPT ![s] = NoHandler]

\* A message is read: on_read, then process_message.  After a failed write the
\* stream still hands over a message it had complete, and fails the next read.
Command(s) ==
    /\ Alive /\ conn[s] = "open" /\ MayAct(s) /\ cmds < MaxCmds
    /\ cmds' = cmds + 1
    /\ conn' = IF writeFailed[s] THEN [conn EXCEPT ![s] = "closed"] ELSE conn
    /\ UNCHANGED writeFailed

\* An answer whose callback captured a bare this is posted to the io_context.
PostReply(s) == replies' = [replies EXCEPT ![s] = @ + 1]

\* on_accept succeeds; join() refuses new sessions once the server is stopped.
OnAccept(s) ==
    /\ Alive /\ conn[s] = "new"
    /\ conn' = [conn EXCEPT ![s] = "open"]
    /\ IF Stopped THEN UNCHANGED handler ELSE Begin(s, "join", None, {})
    /\ UNCHANGED <<nick, room, answerVars, cmds, writeFailed, sessions, nicknames,
                   roomVars, stopVars, strand, running, fault>>

\* on_accept fails: nothing holds the session and it goes.
OnAcceptFail(s) ==
    /\ Alive /\ conn[s] = "new"
    /\ conn' = [conn EXCEPT ![s] = "gone"]
    /\ UNCHANGED <<handler, nick, room, answerVars, cmds, writeFailed, sessions,
                   nicknames, roomVars, stopVars, strand, running, fault>>

\* /nick: the pre-checks answer at once, otherwise the request is dispatched.
OnReadNick(s, n) ==
    /\ Command(s)
    /\ IF Stopped \/ n \in Reserved
       THEN PostReply(s) /\ UNCHANGED handler
       ELSE Begin(s, "nick", n, {}) /\ UNCHANGED replies
    /\ UNCHANGED <<nick, room, results, sessions, nicknames, roomVars, stopVars,
                   strand, running, fault>>

\* /list.
OnReadList(s) ==
    /\ Command(s)
    /\ IF Stopped
       THEN PostReply(s) /\ UNCHANGED handler
       ELSE Begin(s, "list", None, {}) /\ UNCHANGED replies
    /\ UNCHANGED <<nick, room, results, sessions, nicknames, roomVars, stopVars,
                   strand, running, fault>>

\* /join, of a well-formed room name: the callback keeps the session alive.
OnReadJoin(s, r) ==
    /\ Command(s) /\ ~Stopped
    /\ Begin(s, "joinRoom", r, {})
    /\ UNCHANGED <<nick, room, answerVars, sessions, nicknames, roomVars, stopVars,
                   strand, running, fault>>

\* The request passed its checks; only now does it reach the strand.
Dispatch(s) ==
    /\ Alive /\ handler[s].op \in {"join", "nick", "list", "joinRoom"}
    /\ Enqueue(handler[s].op, s, handler[s].arg)
    /\ Finish(s)
    /\ UNCHANGED <<clientVars, nick, room, answerVars, sessions, nicknames, roomVars,
                   stopVars, running, fault>>

\* Faulty variant: the room that became empty stays in rooms_.
RemoveKeepsRoom(s, r) ==
    /\ members' = [members EXCEPT ![r] = @ \ {s}]
    /\ room' = IF s \in members[r] THEN [room EXCEPT ![s] = None] ELSE room
    /\ UNCHANGED rooms

\* leave_room under rooms_mutex_: ChatRoom::leave clears current_room_ of a
\* participant it really removed; a room left empty is erased from rooms_.
RemoveFromRoom(s, r) ==
    /\ members' = [members EXCEPT ![r] = @ \ {s}]
    /\ rooms' = IF members[r] \subseteq {s} THEN rooms \ {r} ELSE rooms
    /\ room' = IF s \in members[r] THEN [room EXCEPT ![s] = None] ELSE room

\* /leave runs leave_room on the session's own thread, not on strand_.
OnReadLeave(s, r) ==
    /\ Command(s) /\ ~Stopped /\ r \in rooms
    /\ ~ForeignLeave => r = room[s]
    /\ RemoveFromRoom(s, r)
    /\ Begin(s, "clear", r, {})
    /\ UNCHANGED <<nick, answerVars, sessions, nicknames, stopVars, strand, running, fault>>

\* ... and clears current_room_ again once rooms_mutex_ is released.
ClearRoom(s) ==
    /\ Alive /\ handler[s].op = "clear"
    /\ room' = [room EXCEPT ![s] = None]
    /\ Finish(s)
    /\ UNCHANGED <<clientVars, nick, answerVars, sessions, nicknames, roomVars, stopVars,
                   strand, running, fault>>

\* A chat line in a room: broadcast_to_room finds the room under the mutex ...
OnReadSay(s) ==
    /\ Command(s) /\ ~Stopped /\ room[s] \in rooms
    /\ Begin(s, "say", room[s], members[room[s]])
    /\ UNCHANGED <<nick, room, answerVars, sessions, nicknames, roomVars, stopVars,
                   strand, running, fault>>

\* ... and walks participants_ without it.  A set that changed meanwhile may
\* leave the walk on a freed node.
SayDone(s) ==
    /\ Alive /\ handler[s].op = "say"
    /\ Finish(s)
    /\ \/ UNCHANGED fault
       \/ /\ members[handler[s].arg] # handler[s].seen
          /\ fault' = "iteration"
    /\ UNCHANGED <<clientVars, nick, room, answerVars, sessions, nicknames, roomVars,
                   stopVars, strand, running>>

\* The read fails or the peer closes, whatever is under way for the client:
\* on_read calls leave() and reads no more.
OnReadEnd(s) ==
    /\ Alive /\ conn[s] \in {"open", "closed"} /\ Idle(s)
    /\ conn' = [conn EXCEPT ![s] = "ended"]
    /\ RequestLeave(s)
    /\ UNCHANGED <<handler, nick, room, answerVars, cmds, writeFailed, sessions,
                   nicknames, roomVars, stopVars, running, fault>>

\* A write fails: on_write calls leave() too, and the read loop goes on until
\* its own next read fails.
OnWriteFail(s) ==
    /\ Alive /\ WriteFaults /\ conn[s] \in {"open", "closed", "ended"} /\ Idle(s) /\ ~writeFailed[s]
    /\ writeFailed' = [writeFailed EXCEPT ![s] = TRUE]
    /\ RequestLeave(s)
    /\ UNCHANGED <<conn, handler, nick, room, answerVars, cmds, sessions, nicknames,
                   roomVars, stopVars, running, fault>>

\* A callback holding a bare this runs after the session is gone: it may or
\* may not bring the process down.
Dangling(s) == \/ UNCHANGED fault
               \/ conn[s] = "gone" /\ fault' = "dangling"

\* The /nick callback, on the session's strand.
RunResult(s) ==
    /\ Alive /\ Idle(s) /\ results[s] # <<>>
    /\ results' = [results EXCEPT ![s] = Tail(@)]
    /\ nick' = IF Head(results[s]) = None THEN nick
               ELSE [nick EXCEPT ![s] = Head(results[s])]
    /\ Dangling(s)
    /\ UNCHANGED <<clientVars, handler, room, replies, sessions, nicknames, roomVars,
                   stopVars, strand, running>>

\* The /list callback, or a /nick callback refused by a pre-check.
RunReply(s) ==
    /\ Alive /\ replies[s] > 0
    /\ replies' = [replies EXCEPT ![s] = @ - 1]
    /\ Dangling(s)
    /\ UNCHANGED <<clientVars, handler, nick, room, results, sessions, nicknames,
                   roomVars, stopVars, strand, running>>

\* stop_session: a synchronous close; the pending read will then fail.
StopSession(s) ==
    /\ Alive /\ s \in closing /\ Idle(s)
    /\ closing' = closing \ {s}
    /\ conn' = IF conn[s] = "open" THEN [conn EXCEPT ![s] = "closed"] ELSE conn
    /\ UNCHANGED <<handler, nick, room, answerVars, cmds, writeFailed, sessions,
                   nicknames, roomVars, stopPhase, strand, running, fault>>

\* The last shared_ptr goes: the entries of nicknames_ for s expire.
Destroy(s) ==
    /\ Alive /\ Unreferenced(s)
    /\ conn' = [conn EXCEPT ![s] = "gone"]
    /\ UNCHANGED <<handler, nick, room, answerVars, cmds, writeFailed, sessions,
                   nicknames, roomVars, stopVars, strand, running, fault>>

-----------------------------------------------------------------------------
(* Tasks of strand_, one at a time.                                        *)

Take(op) ==
    /\ Alive /\ running.op = "idle" /\ strand # <<>>
    /\ Head(strand).op = op
    /\ strand' = Tail(strand)
Current == Head(strand)
Run(op, s, old, arg, seen) ==
    running' = [op |-> op, s |-> s, old |-> old, arg |-> arg, seen |-> seen]

\* Faulty variant: stopped_ is not looked at again on the strand.
JoinIgnoresStop ==
    /\ Take("join")
    /\ sessions' = sessions \cup {Current.s}
    /\ UNCHANGED <<clientVars, handler, nick, room, answerVars, nicknames, roomVars,
                   stopVars, running, fault>>

\* join: stopped_ may have been set since the call.
StrandJoin ==
    /\ Take("join")
    /\ sessions' = IF Stopped THEN sessions ELSE sessions \cup {Current.s}
    /\ UNCHANGED <<clientVars, handler, nick, room, answerVars, nicknames, roomVars,
                   stopVars, running, fault>>

\* try_register_nickname_impl: free, expired, or already this session's.
Expired(n) == nicknames[n] # None /\ conn[nicknames[n]] = "gone"
CanRegisterAnyone(n, s) == TRUE \* faulty variant: no owner check
CanRegister(n, s) == nicknames[n] \in {None, s} \/ Expired(n)

\* The entry of the nickname s goes by now is dropped when it is s's or expired.
WithoutOld(s) == [nicknames EXCEPT ![nick[s]] = IF @ = s \/ Expired(nick[s]) THEN None ELSE @]
RegisteredKeepingOld(n, s) == [nicknames EXCEPT ![n] = s] \* faulty variant
Registered(n, s) ==
    [IF nick[s] \in {None, n} THEN nicknames ELSE WithoutOld(s) EXCEPT ![n] = s]

\* The lookup of the old nickname is dereferenced even when it found nothing.
DerefsEnd(n, s) == nick[s] \notin {None, n} /\ nicknames[nick[s]] = None

StrandNick ==
    /\ Take("nick")
    /\ LET s == Current.s
           n == Current.arg
           answer(a) == results' = [results EXCEPT ![s] = Append(@, a)]
       IN  \/ conn[s] = "gone" /\ PostReply(s) /\ UNCHANGED <<nicknames, results, fault>>
           \/ /\ conn[s] # "gone" /\ ~CanRegister(n, s)
              /\ answer(None)
              /\ UNCHANGED <<nicknames, replies, fault>>
           \/ /\ conn[s] # "gone" /\ CanRegister(n, s)
              /\ nicknames' = Registered(n, s)
              /\ answer(n)
              /\ UNCHANGED <<replies, fault>>
           \/ /\ conn[s] # "gone" /\ CanRegister(n, s) /\ DerefsEnd(n, s)
              /\ fault' = "endDeref"
              /\ UNCHANGED <<nicknames, answerVars>>
    /\ UNCHANGED <<clientVars, handler, nick, room, sessions, roomVars, stopVars, running>>

\* Faulty variant: the entries of live sessions are the ones erased.
ListPrunesLive ==
    /\ Take("list")
    /\ nicknames' = [n \in Nicks |-> IF Expired(n) THEN nicknames[n] ELSE None]
    /\ PostReply(Current.s)
    /\ UNCHANGED <<clientVars, handler, nick, room, results, sessions, roomVars, stopVars,
                   running, fault>>

\* get_user_list_async: expired entries are pruned on the way.
StrandList ==
    /\ Take("list")
    /\ nicknames' = [n \in Nicks |-> IF Expired(n) THEN None ELSE nicknames[n]]
    /\ PostReply(Current.s)
    /\ UNCHANGED <<clientVars, handler, nick, room, results, sessions, roomVars, stopVars,
                   running, fault>>

\* join_room reads current_room_ before it takes rooms_mutex_ ...
StrandJoinRoom ==
    /\ Take("joinRoom")
    /\ IF Stopped THEN UNCHANGED running
       ELSE Run("joinLock", Current.s, room[Current.s], Current.arg, {})
    /\ UNCHANGED <<clientVars, handler, nick, room, answerVars, sessions, nicknames,
                   roomVars, stopVars, fault>>

\* ChatRoom::join turns a newcomer away from a full room.
AdmitOneMore(m, r, s) == IF Cardinality(m[r]) > MaxParticipants THEN m
                         ELSE [m EXCEPT ![r] = @ \cup {s}] \* faulty variant
Admit(m, r, s) == IF Cardinality(m[r]) >= MaxParticipants THEN m
                  ELSE [m EXCEPT ![r] = @ \cup {s}]

Moves(old, r) == old # r /\ old \in rooms
StaysInOld(s, old, r) == members \* faulty variant
LeftOld(s, old, r) ==
    IF Moves(old, r) THEN [members EXCEPT ![old] = @ \ {s}] ELSE members

\* ... and under it leaves the old room, erasing it when that empties it,
\* finds or creates the new one, joins it and sets current_room_.
JoinRoomLocked ==
    /\ Alive /\ running.op = "joinLock"
    /\ LET s == running.s
           r == running.arg
           old == running.old
           left == LeftOld(s, old, r)
       IN  /\ members' = Admit(left, r, s)
           /\ rooms' = {r} \cup
                       (IF Moves(old, r) /\ left[old] = {} THEN rooms \ {old} ELSE rooms)
           /\ room' = [room EXCEPT ![s] = r]
           /\ Run("announce", s, None, r, members'[r])
    /\ UNCHANGED <<clientVars, handler, nick, answerVars, sessions, nicknames, stopVars,
                   strand, fault>>

\* The member list and the notice walk participants_ after the unlock.
JoinRoomAnnounce ==
    /\ Alive /\ running.op = "announce"
    /\ running' = NoTask
    /\ \/ UNCHANGED fault
       \/ /\ members[running.arg] # running.seen
          /\ fault' = "iteration"
    /\ UNCHANGED <<clientVars, handler, nick, room, answerVars, sessions, nicknames,
                   roomVars, stopVars, strand>>

\* Faulty variant: nickname and room are passed in the wrong order.
LeaveSwapped ==
    /\ Take("leave")
    /\ IF Stopped THEN UNCHANGED running
       ELSE Run("leaveLock", Current.s, Current.arg, room[Current.s], {})
    /\ UNCHANGED <<clientVars, handler, nick, room, answerVars, sessions, nicknames,
                   roomVars, stopVars, fault>>

\* leave: leave_all_rooms_impl reads current_room_ ...
StrandLeave ==
    /\ Take("leave")
    /\ IF Stopped THEN UNCHANGED running
       ELSE Run("leaveLock", Current.s, room[Current.s], Current.arg, {})
    /\ UNCHANGED <<clientVars, handler, nick, room, answerVars, sessions, nicknames,
                   roomVars, stopVars, fault>>

\* ... leave_room takes the mutex and removes the session from that room ...
LeaveLocked ==
    /\ Alive /\ running.op = "leaveLock"
    /\ IF ~Stopped /\ running.old \in rooms
       THEN /\ RemoveFromRoom(running.s, running.old)
            /\ Run("leaveEnd", running.s, running.old, running.arg, {})
       ELSE /\ UNCHANGED <<room, roomVars>>
            /\ Run("leaveEnd", running.s, None, running.arg, {})
    /\ UNCHANGED <<clientVars, handler, nick, answerVars, sessions, nicknames, stopVars,
                   strand, fault>>

\* unregister_nickname: whoever the entry belongs to.
Unregistered(n) == IF n = None THEN nicknames ELSE [nicknames EXCEPT ![n] = None]
NotDeregistered(s) == sessions \* faulty variant
Deregistered(s) == sessions \ {s}

\* ... clears current_room_, drops the nickname captured by the call and
\* erases the session.
LeaveEnd ==
    /\ Alive /\ running.op = "leaveEnd"
    /\ room' = IF running.old = None THEN room ELSE [room EXCEPT ![running.s] = None]
    /\ nicknames' = Unregistered(running.arg)
    /\ sessions' = Deregistered(running.s)
    /\ running' = NoTask
    /\ UNCHANGED <<clientVars, handler, nick, answerVars, roomVars, stopVars, strand, fault>>

\* The task stop() queues: forget everything, ask every session to close.
StrandCloseAll ==
    /\ Take("closeAll")
    /\ sessions' = {}
    /\ nicknames' = [n \in Nicks |-> None]
    /\ rooms' = {}
    /\ members' = [r \in Rooms |-> {}]
    /\ closing' = closing \cup sessions
    /\ stopPhase' = "done"
    /\ UNCHANGED <<clientVars, handler, nick, room, answerVars, running, fault>>

\* stop(): the flag is set, then a function is posted to the io_context ...
Stop ==
    /\ Alive /\ StopAllowed /\ ~Stopped
    /\ stopPhase' = "posted"
    /\ UNCHANGED <<clientVars, handler, nick, room, answerVars, sessions, nicknames,
                   roomVars, strand, running, closing, fault>>

\* ... which posts the closing task to strand_.
StopPosted ==
    /\ Alive /\ stopPhase = "posted"
    /\ stopPhase' = "queued"
    /\ Enqueue("closeAll", None, None)
    /\ UNCHANGED <<clientVars, handler, nick, room, answerVars, sessions, nicknames,
                   roomVars, running, closing, fault>>

-----------------------------------------------------------------------------
ClientStep(s) ==
    \/ OnAccept(s) \/ OnAcceptFail(s)
    \/ \E n \in Nicks : OnReadNick(s, n)
    \/ OnReadList(s)
    \/ \E r \in Rooms : OnReadJoin(s, r)
    \/ \E r \in Rooms : OnReadLeave(s, r)
    \/ OnReadSay(s)
    \/ OnReadEnd(s) \/ OnWriteFail(s)

HandlerStep(s) == Dispatch(s) \/ ClearRoom(s) \/ SayDone(s)

SessionStep(s) ==
    \/ ClientStep(s) \/ HandlerStep(s)
    \/ RunResult(s) \/ RunReply(s) \/ StopSession(s) \/ Destroy(s)

StrandStep ==
    \/ StrandJoin \/ StrandNick \/ StrandList
    \/ StrandJoinRoom \/ JoinRoomLocked \/ JoinRoomAnnounce
    \/ StrandLeave \/ LeaveLocked \/ LeaveEnd
    \/ StrandCloseAll

Next ==
    \/ \E s \in Sessions : SessionStep(s)
    \/ StrandStep
    \/ Stop
    \/ StopPosted

Spec == Init /\ [][Next]_vars

\* The threads keep running ready handlers while the server runs: main stops the
\* io_context right after stop(), and what is queued then need never run.  Clients
\* and failures owe nothing; a session goes when its last shared_ptr does.
Fairness ==
    /\ WF_vars(~Stopped /\ StrandStep)
    /\ \A s \in Sessions :
         /\ WF_vars(~Stopped /\ HandlerStep(s))
         /\ WF_vars(~Stopped /\ RunResult(s))
         /\ WF_vars(~Stopped /\ RunReply(s))
         /\ WF_vars(Destroy(s))

FairSpec == Spec /\ Fairness

-----------------------------------------------------------------------------
(* Safety that every client, every failure and a stop leave intact.        *)

\* A room is in rooms_ exactly as long as it has a participant: join_room and
\* leave_room never leave an empty room behind nor lose one that is in use.
RoomsInUse == \A r \in Rooms : r \in rooms <=> members[r] # {}

\* No interleaving of joins overfills a room.
CapacityRespected == \A r \in Rooms : Cardinality(members[r]) <= MaxParticipants

\* Once a connection has ended and its leave task has run, the session is not
\* in sessions_ and never gets back in: its join cannot overtake its leave.
DepartedNotListed ==
    \A s \in Sessions :
        conn[s] \in {"ended", "gone"} /\ ~Queued({"leave"}, s) /\ running.s # s /\ ~Stopped
            => s \notin sessions

\* Why: the four facts about a session's join and leave that every step keeps.
JoinDue(s) == handler[s].op = "join"
LeaveUnderWay(s) == running.op \in {"leaveLock", "leaveEnd"} /\ running.s = s
LeaveDue(s) == Queued({"leave"}, s) \/ LeaveUnderWay(s)

\* before the handshake there is nothing,
NewUntouched(s) ==
    conn[s] = "new" => Idle(s) /\ ~Queued({"join", "leave"}, s) /\ ~LeaveUnderWay(s)
                               /\ s \notin sessions
\* join is dispatched once, before any leave can be,
JoinOnce(s) ==
    JoinDue(s) => /\ conn[s] \notin {"new", "ended", "gone"}
                  /\ ~Queued({"join", "leave"}, s) /\ ~LeaveUnderWay(s)
                  /\ s \notin sessions
\* stays ahead of it on strand_,
JoinBeforeLeave(s) ==
    /\ \A i, j \in DOMAIN strand :
         /\ strand[i].op = "join" /\ strand[i].s = s
         /\ strand[j].op = "leave" /\ strand[j].s = s
         => i < j
    /\ Queued({"join"}, s) => ~LeaveUnderWay(s)
\* and a session listed or about to be is followed by its leave.
LeaveFollows(s) ==
    conn[s] \in {"ended", "gone"} /\ ~Stopped /\ (s \in sessions \/ Queued({"join"}, s))
        => LeaveDue(s)
DepartureInv ==
    \A s \in Sessions :
        NewUntouched(s) /\ JoinOnce(s) /\ JoinBeforeLeave(s) /\ LeaveFollows(s)

\* After the closing task nothing puts a session or a room back, whatever was
\* queued before it or is dispatched after it.
ShutdownEmpties == stopPhase = "done" => sessions = {} /\ rooms = {}

\* A nickname held by a session that still exists never passes to another one
\* in one step: it is refused, or first released.
LiveNickNotTaken ==
    [][\A n \in Nicks :
        nicknames[n] # None /\ ~Expired(n) => nicknames'[n] \in {nicknames[n], None}]_vars

-----------------------------------------------------------------------------
(* Safety under clients that wait for the answer to each command and leave *)
(* no room but their own.  They may hang up at any moment, and writes to   *)
(* them may fail.                                                          *)

\* At every moment, also in the middle of a join, a rename or a teardown: a session
\* takes part in no room but the one it is told it is in, and one whose connection
\* is over takes part in a room only as long as a leave of it is still to come.
NoGhostParticipant ==
    \A s \in Sessions, r \in Rooms :
        s \in members[r] =>
            /\ room[s] = r
            /\ conn[s] \in {"ended", "gone"} => LeaveDue(s) \/ Stopped

-----------------------------------------------------------------------------
(* Liveness, while the server runs.                                        *)

\* A session whose connection ended is eventually erased from sessions_.
DepartureCompletes ==
    \A s \in Sessions : conn[s] = "ended" ~> s \notin sessions \/ Stopped \/ ~Alive

\* A session that still takes part in a room when nothing is under way for it any
\* more: a /leave of a room it was not in made it forget the one it is in.
Ghost(s) == conn[s] = "ended" /\ Settled(s) /\ \E r \in Rooms : s \in members[r]

\* A session whose connection ended is eventually freed, whatever was queued for it:
\* sessions_, the rooms and the tasks let go of it, ghosts apart.
SessionFreed ==
    \A s \in Sessions :
        conn[s] = "ended" ~> conn[s] = "gone" \/ Ghost(s) \/ Stopped \/ ~Alive

-----------------------------------------------------------------------------
(* What comments in the code say and the code does not do.                 *)

\* try_register_nickname_impl: "Check if the old nickname exists and points to
\* the same session".
OldNickExists == fault # "endDeref"

\* ChatServer: "all concurrency is managed through strand_, which prevents data
\* races": nobody changes participants_ while another thread walks it.
WalkUndisturbed ==
    [][\A s \in Sessions :
        handler[s].op = "say" => members'[handler[s].arg] = members[handler[s].arg]]_vars

=============================================================================
