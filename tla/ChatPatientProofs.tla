-------------------------- MODULE ChatPatientProofs --------------------------
(* Proofs about clients that wait for their answers but hang up whenever   *)
(* they like: the rooms and nicknames_ hold of a session what it was told. *)
EXTENDS ChatNames, ChatServerProofs

-----------------------------------------------------------------------------
(* The invariant for rooms, one session at a time.                         *)

\* Who takes part in a room.
Lodged == {s \in Sessions : \E r \in Rooms : s \in members[r]}
Over(s) == conn[s] \in {"ended", "gone"}
Joining(s) == running.op = "joinLock" /\ running.s = s

\* Nothing happens to a session before it is accepted, nor in its handlers once its
\* connection is over.
Fresh(s) ==
    /\ conn[s] = "new" => /\ Idle(s) /\ s \notin Lodged /\ running.s # s
                          /\ ~Queued({"joinRoom"}, s) /\ ~Queued({"leave"}, s)
    /\ Over(s) => Idle(s)

\* s takes part in no room but the one it is told it is in; and while current_room_
\* is about to be cleared in none, with no room join of s on its way.
InItsRoom(s) == \A r \in Rooms : s \in members[r] => room[s] = r
ClearsWhenOut(s) ==
    /\ handler[s].op = "clear" => s \notin Lodged /\ ~Queued({"joinRoom"}, s) /\ ~Joining(s)
    /\ running.op = "leaveEnd" /\ running.s = s =>
         s \notin Lodged \/ (running.old = None /\ Stopped)

\* The room a task read before it took the mutex is still the one.
OldIsCurrent(s) ==
    /\ Joining(s) => running.old = room[s]
    /\ running.op = "leaveLock" /\ running.s = s => running.old = room[s] \/ s \notin Lodged

\* A leave comes behind whatever may put s into a room after its connection is over.
Behind(s) ==
    \A i \in DOMAIN strand :
        strand[i].op = "joinRoom" /\ strand[i].s = s =>
            \E j \in DOMAIN strand : i < j /\ strand[j].op = "leave" /\ strand[j].s = s
LeaveComes(s) ==
    Over(s) => /\ s \in Lodged => LeaveDue(s) \/ Stopped
               /\ Joining(s) => Queued({"leave"}, s)
               /\ Behind(s)

Lodging(s) ==
    Fresh(s) /\ InItsRoom(s) /\ ClearsWhenOut(s) /\ OldIsCurrent(s) /\ LeaveComes(s)
GhostInv == \A s \in Sessions : Lodging(s)

-----------------------------------------------------------------------------
(* Queueing and taking tasks.                                              *)

LEMMA EnqueueBehind ==
    ASSUME TypeOK, NEW op, NEW s, NEW arg, Enqueue(op, s, arg), NEW t
    PROVE  /\ Behind(t) /\ ~(op = "joinRoom" /\ s = t) => Behind(t)'
           /\ op = "leave" /\ s = t => Behind(t)'
<1> DEFINE n == Len(strand) + 1
<1>1. /\ \A i \in DOMAIN strand : i \in DOMAIN strand' /\ strand'[i] = strand[i]
      /\ DOMAIN strand' = DOMAIN strand \cup {n}
      /\ strand'[n].op = op /\ strand'[n].s = s
  BY EnqueueShape
<1>2. \A i \in DOMAIN strand : i \in Nat /\ n \in Nat /\ i < n
  BY DEF TypeOK
<1> HIDE DEF n
<1>3. ASSUME Behind(t), ~(op = "joinRoom" /\ s = t) PROVE Behind(t)'
  BY <1>1, <1>3 DEF Behind
<1>4. ASSUME op = "leave", s = t PROVE Behind(t)'
  BY <1>1, <1>2, <1>4 DEF Behind
<1> QED BY <1>3, <1>4

LEMMA TakeBehind ==
    ASSUME TypeOK, NEW op, Take(op), NEW t, Behind(t)
    PROVE  Behind(t)' /\ (op = "joinRoom" /\ Current.s = t => Queued({"leave"}, t)')
<1>1. /\ strand \in Seq(Task) /\ strand # <<>> /\ strand' = Tail(strand) /\ Current.op = op
  BY DEF TypeOK, Take, Current
<1>2. /\ Current = strand[1] /\ 1 \in DOMAIN strand
      /\ DOMAIN strand \subseteq Nat \ {0} /\ DOMAIN strand' \subseteq Nat \ {0}
      /\ \A i \in DOMAIN strand' : i + 1 \in DOMAIN strand /\ strand'[i] = strand[i + 1]
      /\ \A j \in DOMAIN strand : j # 1 => j - 1 \in DOMAIN strand' /\ strand'[j - 1] = strand[j]
  BY <1>1 DEF Current
<1>3. ASSUME NEW i \in DOMAIN strand', strand'[i].op = "joinRoom", strand'[i].s = t
      PROVE  \E j \in DOMAIN strand' : i < j /\ strand'[j].op = "leave" /\ strand'[j].s = t
  <2>1. PICK j \in DOMAIN strand : i + 1 < j /\ strand[j].op = "leave" /\ strand[j].s = t
    BY <1>2, <1>3 DEF Behind
  <2>2. i \in Nat /\ j \in Nat /\ j # 1 /\ i < j - 1
    BY <1>2, <2>1
  <2> QED BY <1>2, <2>1, <2>2
<1>4. ASSUME op = "joinRoom", Current.s = t PROVE Queued({"leave"}, t)'
  <2>1. PICK j \in DOMAIN strand : 1 < j /\ strand[j].op = "leave" /\ strand[j].s = t
    BY <1>1, <1>2, <1>4 DEF Behind
  <2>2. j # 1
    BY <1>2, <2>1
  <2> QED BY <1>2, <2>1, <2>2 DEF Queued
<1> QED BY <1>3, <1>4 DEF Behind

\* What a task queued or taken means for one session.
LEMMA EnqueueOne ==
    ASSUME TypeOK, NEW op, NEW s, NEW arg, Enqueue(op, s, arg), NEW t
    PROVE  /\ Queued({"joinRoom"}, t)' <=> Queued({"joinRoom"}, t) \/ (op = "joinRoom" /\ s = t)
           /\ Queued({"leave"}, t)' <=> Queued({"leave"}, t) \/ (op = "leave" /\ s = t)
<1>1. Queued({"joinRoom"}, t)' <=> Queued({"joinRoom"}, t) \/ (op \in {"joinRoom"} /\ s = t)
  BY EnqueueQueued
<1>2. Queued({"leave"}, t)' <=> Queued({"leave"}, t) \/ (op \in {"leave"} /\ s = t)
  BY EnqueueQueued
<1> QED BY <1>1, <1>2

LEMMA TakeOne ==
    ASSUME TypeOK, NEW op, Take(op), NEW t
    PROVE  /\ Queued({"joinRoom"}, t)
                <=> Queued({"joinRoom"}, t)' \/ (op = "joinRoom" /\ Current.s = t)
           /\ Queued({"leave"}, t) <=> Queued({"leave"}, t)' \/ (op = "leave" /\ Current.s = t)
<1>1. \A ops, q : Queued(ops, q) <=> Queued(ops, q)' \/ (op \in ops /\ Current.s = q)
  BY TakeQueued
<1>2. Queued({"joinRoom"}, t)
        <=> Queued({"joinRoom"}, t)' \/ (op \in {"joinRoom"} /\ Current.s = t)
  BY <1>1
<1>3. Queued({"leave"}, t) <=> Queued({"leave"}, t)' \/ (op \in {"leave"} /\ Current.s = t)
  BY <1>1
<1> QED BY <1>2, <1>3

-----------------------------------------------------------------------------
(* Steps that leave a session where it is.                                 *)

\* Nothing new befalls t: it stays where it is, or is put out of its room.
Apart(t) ==
    /\ conn'[t] = conn[t] /\ handler'[t] = handler[t] /\ room'[t] = room[t]
    /\ Queued({"joinRoom"}, t)' => Queued({"joinRoom"}, t)
    /\ Queued({"leave"}, t)' <=> Queued({"leave"}, t)
    /\ Behind(t) => Behind(t)'
    /\ running' = running \/ (running.s # t /\ running'.s # t)
    /\ \A r \in Rooms : t \in members'[r] => t \in members[r]
    /\ Stopped => Stopped'

LEMMA ApartKept ==
    ASSUME NEW t \in Sessions, Lodging(t), Apart(t)
    PROVE  Lodging(t)'
<1> USE DEF Apart, Lodging
<1>1. t \in Lodged' => t \in Lodged
  BY DEF Lodged
<1>2. (Idle(t)' <=> Idle(t)) /\ (Over(t)' <=> Over(t)) /\ (Joining(t)' <=> Joining(t))
  BY DEF Idle, Over, Joining
<1>3. Fresh(t)'
  BY <1>1, <1>2 DEF Fresh
<1>4. InItsRoom(t)'
  BY DEF InItsRoom
<1>5. ClearsWhenOut(t)'
  BY <1>1, <1>2 DEF ClearsWhenOut
<1>6. OldIsCurrent(t)'
  BY <1>1, <1>2 DEF OldIsCurrent, Joining
<1>7. LeaveComes(t)'
  BY <1>1, <1>2 DEF LeaveComes, LeaveDue, LeaveUnderWay
<1> QED BY <1>3, <1>4, <1>5, <1>6, <1>7

\* A step of s is one that leaves the others alone.
LEMMA OnlyOne ==
    ASSUME GhostInv, NEW s \in Sessions, \A t \in Sessions : t # s => Apart(t), Lodging(s)'
    PROVE  GhostInv'
<1>1. \A t \in Sessions : Lodging(t)
  BY DEF GhostInv
<1>2. \A t \in Sessions : Lodging(t)'
  BY <1>1, ApartKept
<1> QED BY <1>2 DEF GhostInv

LEMMA AllApart == ASSUME GhostInv, \A t \in Sessions : Apart(t) PROVE GhostInv'
<1>1. \A t \in Sessions : Lodging(t)
  BY DEF GhostInv
<1> QED BY <1>1, ApartKept DEF GhostInv

\* Steps of a session's own handlers leave strand_ alone, and the other sessions.
LEMMA OwnStep ==
    ASSUME NEW s \in Sessions, UNCHANGED <<strand, running, stopPhase>>,
           \A t \in Sessions : t # s => /\ conn'[t] = conn[t] /\ handler'[t] = handler[t]
                                        /\ room'[t] = room[t],
           \A t \in Sessions, r \in Rooms : t # s /\ t \in members'[r] => t \in members[r]
    PROVE  /\ \A t \in Sessions : t # s => Apart(t)
           /\ Queued({"joinRoom"}, s)' <=> Queued({"joinRoom"}, s)
           /\ Queued({"leave"}, s)' <=> Queued({"leave"}, s)
           /\ Behind(s)' <=> Behind(s)
           /\ Joining(s)' <=> Joining(s)
           /\ LeaveDue(s)' <=> LeaveDue(s)
           /\ Stopped' <=> Stopped
BY DEF Apart, Queued, Behind, Joining, LeaveDue, LeaveUnderWay, Stopped

-----------------------------------------------------------------------------
(* Steps of a session.                                                     *)

\* A session is accepted, or is not, or is told to close, or goes.
LEMMA ConnLodging ==
    ASSUME TypeOK, GhostInv, NEW s \in Sessions,
           OnAccept(s) \/ OnAcceptFail(s) \/ StopSession(s) \/ Destroy(s)
    PROVE  GhostInv'
<1> USE DEF clientVars, answerVars, roomVars, stopVars
<1>1. conn \in [Sessions -> ConnStates] /\ handler \in [Sessions -> Handler]
  BY DEF TypeOK
<1>2. Fresh(s) /\ InItsRoom(s) /\ ClearsWhenOut(s) /\ OldIsCurrent(s) /\ LeaveComes(s)
  BY DEF GhostInv, Lodging
<1>3. UNCHANGED <<room, members, strand, running, stopPhase>>
  BY DEF OnAccept, OnAcceptFail, StopSession, Destroy
<1>4. /\ \A t \in Sessions : t # s => conn'[t] = conn[t] /\ handler'[t] = handler[t]
      /\ \/ conn[s] = "new" /\ conn'[s] = "open" /\ handler'[s].op \in {"join", handler[s].op}
         \/ conn[s] = "new" /\ conn'[s] = "gone" /\ handler'[s] = handler[s]
         \/ conn'[s] = conn[s] /\ handler'[s] = handler[s]
         \/ conn[s] = "open" /\ conn'[s] = "closed" /\ handler'[s] = handler[s]
         \/ conn[s] = "ended" /\ conn'[s] = "gone" /\ handler'[s] = handler[s]
  BY <1>1 DEF OnAccept, OnAcceptFail, StopSession, Destroy, Begin, Unreferenced
<1>5. /\ \A t \in Sessions : t # s => Apart(t)
      /\ Queued({"joinRoom"}, s)' <=> Queued({"joinRoom"}, s)
      /\ Queued({"leave"}, s)' <=> Queued({"leave"}, s)
      /\ Behind(s)' <=> Behind(s)
      /\ Joining(s)' <=> Joining(s)
      /\ LeaveDue(s)' <=> LeaveDue(s)
      /\ Stopped' <=> Stopped
  BY <1>3, <1>4, OwnStep
<1>6. Lodged' = Lodged
  BY <1>3 DEF Lodged
<1>7. Fresh(s)'
  BY <1>2, <1>3, <1>4, <1>5, <1>6 DEF Fresh, Idle, Over
<1>8. InItsRoom(s)' /\ OldIsCurrent(s)'
  BY <1>2, <1>3, <1>5, <1>6 DEF InItsRoom, OldIsCurrent
<1>9. ClearsWhenOut(s)'
  BY <1>2, <1>3, <1>4, <1>5, <1>6 DEF ClearsWhenOut, Fresh, Idle
<1>10. Behind(s) \/ Over(s) \/ conn[s] # "new"
  BY <1>2 DEF Fresh, Queued, Behind
<1>11. LeaveComes(s)'
  BY <1>2, <1>4, <1>5, <1>6, <1>10 DEF LeaveComes, Over, Fresh, Joining
<1> QED BY <1>5, <1>7, <1>8, <1>9, <1>11, OnlyOne DEF Lodging

\* A command is read from a connection that is not over.
LEMMA CommandConn ==
    ASSUME TypeOK, NEW s \in Sessions, Command(s)
    PROVE  /\ conn[s] = "open" /\ conn'[s] \in {"open", "closed"}
           /\ \A t \in Sessions : t # s => conn'[t] = conn[t]
BY DEF Command, TypeOK

\* One that starts a handler, or is answered at once.
LEMMA ReadLodging ==
    ASSUME TypeOK, GhostInv, NEW s \in Sessions,
           \/ \E n \in Nicks : OnReadNick(s, n)
           \/ OnReadList(s) \/ OnReadSay(s)
           \/ \E r \in Rooms : OnReadJoin(s, r)
    PROVE  GhostInv'
<1> USE DEF clientVars, answerVars, roomVars, stopVars
<1>1. handler \in [Sessions -> Handler]
  BY DEF TypeOK
<1>2. Fresh(s) /\ InItsRoom(s) /\ ClearsWhenOut(s) /\ OldIsCurrent(s) /\ LeaveComes(s)
  BY DEF GhostInv, Lodging
<1>3. Command(s) /\ UNCHANGED <<room, members, strand, running, stopPhase>>
  BY DEF OnReadNick, OnReadList, OnReadSay, OnReadJoin
<1>4. /\ conn[s] = "open" /\ conn'[s] \in {"open", "closed"}
      /\ \A t \in Sessions : t # s => conn'[t] = conn[t]
  BY <1>3, CommandConn
<1> DEFINE Started ==
             /\ \A t \in Sessions : t # s => handler'[t] = handler[t]
             /\ handler'[s].op \in {handler[s].op, "nick", "list", "say", "joinRoom"}
<1>5. Started
  <2>1. ASSUME NEW n \in Nicks, OnReadNick(s, n) PROVE Started
    BY <1>1, <2>1 DEF OnReadNick, Begin
  <2>2. CASE OnReadList(s)
    BY <1>1, <2>2 DEF OnReadList, Begin
  <2>3. CASE OnReadSay(s)
    BY <1>1, <2>3 DEF OnReadSay, Begin
  <2>4. ASSUME NEW r \in Rooms, OnReadJoin(s, r) PROVE Started
    BY <1>1, <2>4 DEF OnReadJoin, Begin
  <2> QED BY <2>1, <2>2, <2>3, <2>4
<1>6. /\ \A t \in Sessions : t # s => Apart(t)
      /\ Queued({"joinRoom"}, s)' <=> Queued({"joinRoom"}, s)
      /\ Joining(s)' <=> Joining(s)
      /\ Stopped' <=> Stopped
  BY <1>3, <1>4, <1>5, OwnStep
<1>7. Lodged' = Lodged
  BY <1>3 DEF Lodged
<1>8. Fresh(s)' /\ LeaveComes(s)'
  BY <1>4 DEF Fresh, LeaveComes, Over
<1>9. InItsRoom(s)' /\ OldIsCurrent(s)'
  BY <1>2, <1>3, <1>6, <1>7 DEF InItsRoom, OldIsCurrent
<1>10. ClearsWhenOut(s)'
  BY <1>2, <1>3, <1>5, <1>6, <1>7 DEF ClearsWhenOut
<1> QED BY <1>6, <1>8, <1>9, <1>10, OnlyOne DEF Lodging

\* /leave of the room it is in: the client has no answer to wait for, so that no task
\* of strand_ knows its room but a leave.
LEMMA ReadLeaveLodging ==
    ASSUME TypeOK, GhostInv, Patient, ~ForeignLeave, NEW s \in Sessions, NEW r \in Rooms,
           OnReadLeave(s, r)
    PROVE  GhostInv'
<1> USE DEF clientVars, answerVars, roomVars, stopVars
<1>1. /\ handler \in [Sessions -> Handler] /\ room \in [Sessions -> RoomOrNone]
      /\ members \in [Rooms -> SUBSET Sessions]
  BY DEF TypeOK
<1>2. Fresh(s) /\ InItsRoom(s) /\ ClearsWhenOut(s) /\ OldIsCurrent(s) /\ LeaveComes(s)
  BY DEF GhostInv, Lodging
<1>3. /\ Command(s) /\ UNCHANGED <<strand, running, stopPhase>> /\ r = room[s]
      /\ handler' = [handler EXCEPT ![s] = [op |-> "clear", arg |-> r, seen |-> {}]]
      /\ members' = [members EXCEPT ![r] = @ \ {s}]
      /\ room' = IF s \in members[r] THEN [room EXCEPT ![s] = None] ELSE room
  BY DEF OnReadLeave, Begin, RemoveFromRoom
<1>4. /\ conn[s] = "open" /\ conn'[s] \in {"open", "closed"}
      /\ \A t \in Sessions : t # s => conn'[t] = conn[t]
  BY <1>3, CommandConn
<1>5. Answered(s)
  BY <1>3 DEF Command, MayAct
<1>6. ~Joining(s)
  BY <1>5 DEF Answered, Joining
<1>7. ~Queued({"joinRoom"}, s)
  BY <1>5 DEF Answered, Queued
<1>8. /\ \A t \in Sessions : t # s => handler'[t] = handler[t] /\ room'[t] = room[t]
      /\ \A t \in Sessions, q \in Rooms : t # s /\ t \in members'[q] => t \in members[q]
      /\ handler'[s].op = "clear"
      /\ \A q \in Rooms : s \notin members'[q]
  BY <1>1, <1>2, <1>3 DEF InItsRoom
<1>9. /\ \A t \in Sessions : t # s => Apart(t)
      /\ Queued({"joinRoom"}, s)' <=> Queued({"joinRoom"}, s)
      /\ Joining(s)' <=> Joining(s)
      /\ Stopped' <=> Stopped
  BY <1>3, <1>4, <1>8, OwnStep
<1>10. s \notin Lodged'
  BY <1>8 DEF Lodged
<1>11. Fresh(s)' /\ LeaveComes(s)' /\ InItsRoom(s)'
  BY <1>4, <1>8 DEF Fresh, LeaveComes, Over, InItsRoom
<1>12. ClearsWhenOut(s)'
  BY <1>6, <1>7, <1>9, <1>10 DEF ClearsWhenOut
<1>13. OldIsCurrent(s)'
  BY <1>3, <1>6, <1>9, <1>10 DEF OldIsCurrent
<1> QED BY <1>9, <1>11, <1>12, <1>13, OnlyOne DEF Lodging

\* The handlers' last steps, and the callbacks of answers.
LEMMA HandlerLodging ==
    ASSUME TypeOK, GhostInv, NEW s \in Sessions,
           ClearRoom(s) \/ SayDone(s) \/ RunResult(s) \/ RunReply(s)
    PROVE  GhostInv'
<1> USE DEF clientVars, answerVars, roomVars, stopVars
<1>1. handler \in [Sessions -> Handler] /\ room \in [Sessions -> RoomOrNone]
  BY DEF TypeOK
<1>2. Fresh(s) /\ InItsRoom(s) /\ ClearsWhenOut(s) /\ OldIsCurrent(s) /\ LeaveComes(s)
  BY DEF GhostInv, Lodging
<1>3. UNCHANGED <<conn, members, strand, running, stopPhase>>
  BY DEF ClearRoom, SayDone, RunResult, RunReply
<1>4. /\ \A t \in Sessions : t # s => handler'[t] = handler[t] /\ room'[t] = room[t]
      /\ handler'[s] = handler[s] \/ handler'[s].op = "idle"
      /\ room'[s] = room[s] \/ handler[s].op = "clear"
  BY <1>1 DEF ClearRoom, SayDone, RunResult, RunReply, Finish, NoHandler
<1>5. /\ \A t \in Sessions : t # s => Apart(t)
      /\ Queued({"joinRoom"}, s)' <=> Queued({"joinRoom"}, s)
      /\ Queued({"leave"}, s)' <=> Queued({"leave"}, s)
      /\ Behind(s)' <=> Behind(s)
      /\ Joining(s)' <=> Joining(s)
      /\ LeaveDue(s)' <=> LeaveDue(s)
      /\ Stopped' <=> Stopped
  BY <1>3, <1>4, OwnStep
<1>6. Lodged' = Lodged
  BY <1>3 DEF Lodged
<1>7. room'[s] = room[s] \/ (s \notin Lodged /\ ~Joining(s))
  BY <1>2, <1>4 DEF ClearsWhenOut
<1>8. Fresh(s)' /\ LeaveComes(s)'
  BY <1>2, <1>3, <1>4, <1>5, <1>6 DEF Fresh, Idle, Over, LeaveComes
<1>9. InItsRoom(s)'
  BY <1>2, <1>3, <1>7 DEF InItsRoom, Lodged
<1>10. ClearsWhenOut(s)'
  BY <1>2, <1>3, <1>4, <1>5, <1>6 DEF ClearsWhenOut
<1>11. OldIsCurrent(s)'
  BY <1>2, <1>3, <1>5, <1>6, <1>7 DEF OldIsCurrent
<1> QED BY <1>5, <1>8, <1>9, <1>10, <1>11, OnlyOne DEF Lodging

\* A request is queued, or a leave: behind every room join of the session.
LEMMA QueueLodging ==
    ASSUME TypeOK, GhostInv, NEW s \in Sessions, Dispatch(s) \/ OnReadEnd(s) \/ OnWriteFail(s)
    PROVE  GhostInv'
<1> USE DEF clientVars, answerVars, roomVars, stopVars
<1>1. conn \in [Sessions -> ConnStates] /\ handler \in [Sessions -> Handler]
  BY DEF TypeOK
<1>2. Fresh(s) /\ InItsRoom(s) /\ ClearsWhenOut(s) /\ OldIsCurrent(s) /\ LeaveComes(s)
  BY DEF GhostInv, Lodging
<1>3. UNCHANGED <<room, members, running, stopPhase>>
  BY DEF Dispatch, OnReadEnd, OnWriteFail
<1>4. PICK op, arg : /\ Enqueue(op, s, arg)
                     /\ \/ /\ op = handler[s].op /\ op \in {"join", "nick", "list", "joinRoom"}
                           /\ conn' = conn /\ handler' = [handler EXCEPT ![s] = NoHandler]
                        \/ /\ op = "leave" /\ handler' = handler /\ Idle(s)
                           /\ conn[s] \in {"open", "closed", "ended"}
                           /\ conn' = conn \/ conn' = [conn EXCEPT ![s] = "ended"]
  BY DEF Dispatch, Finish, OnReadEnd, OnWriteFail, RequestLeave
<1>5. \A t : /\ Queued({"joinRoom"}, t)' <=> Queued({"joinRoom"}, t) \/ (op = "joinRoom" /\ s = t)
             /\ Queued({"leave"}, t)' <=> Queued({"leave"}, t) \/ (op = "leave" /\ s = t)
  BY <1>4, EnqueueOne
<1>6. \A t : /\ Behind(t) /\ ~(op = "joinRoom" /\ s = t) => Behind(t)'
             /\ op = "leave" /\ s = t => Behind(t)'
  BY <1>4, EnqueueBehind
<1>7. /\ \A t \in Sessions : t # s => conn'[t] = conn[t] /\ handler'[t] = handler[t]
      /\ conn'[s] = conn[s] \/ (op = "leave" /\ conn'[s] = "ended")
      /\ handler'[s] = handler[s] \/ handler'[s].op = "idle"
  BY <1>1, <1>4 DEF NoHandler
<1>8. \A t \in Sessions : t # s => Apart(t)
  BY <1>3, <1>5, <1>6, <1>7 DEF Apart, Stopped
<1>9. Lodged' = Lodged /\ (Joining(s)' <=> Joining(s)) /\ (Stopped' <=> Stopped)
  BY <1>3 DEF Lodged, Joining, Stopped
<1>10. op = "joinRoom" => conn[s] \notin {"new", "ended", "gone"} /\ handler'[s].op = "idle"
  BY <1>1, <1>2, <1>4 DEF Fresh, Over, Idle, NoHandler
<1>11. conn[s] # "new" /\ (op = "leave" => conn'[s] # "new" /\ Idle(s))
  BY <1>2, <1>4, <1>7 DEF Fresh, Idle
<1>12. Fresh(s)'
  BY <1>2, <1>7, <1>11 DEF Fresh, Idle, Over
<1>13. InItsRoom(s)' /\ OldIsCurrent(s)'
  BY <1>2, <1>3, <1>9 DEF InItsRoom, OldIsCurrent
<1>14. ClearsWhenOut(s)'
  BY <1>2, <1>3, <1>5, <1>7, <1>9, <1>10 DEF ClearsWhenOut
<1>15. LeaveDue(s) \/ op = "leave" => LeaveDue(s)'
  BY <1>3, <1>5 DEF LeaveDue, LeaveUnderWay
<1>16. LeaveComes(s)'
  BY <1>2, <1>5, <1>6, <1>7, <1>9, <1>10, <1>15 DEF LeaveComes, Over
<1> QED BY <1>8, <1>12, <1>13, <1>14, <1>16, OnlyOne DEF Lodging

-----------------------------------------------------------------------------
(* Steps of strand_.                                                       *)

\* Tasks that put nobody into a room and take nobody's leave.
LEMMA QuietLodging ==
    ASSUME TypeOK, GhostInv, StrandJoin \/ StrandNick \/ StrandList \/ StrandCloseAll
    PROVE  GhostInv'
<1> USE DEF clientVars, answerVars, roomVars, stopVars
<1>1. PICK op \in {"join", "nick", "list", "closeAll"} : Take(op)
  BY DEF StrandJoin, StrandNick, StrandList, StrandCloseAll
<1>2. /\ UNCHANGED <<conn, handler, room, running>>
      /\ \A r \in Rooms : members'[r] \subseteq members[r]
      /\ Stopped => Stopped'
  BY DEF StrandJoin, StrandNick, StrandList, StrandCloseAll, Stopped
<1>3. ASSUME NEW t \in Sessions PROVE Apart(t)
  <2>1. /\ Queued({"joinRoom"}, t)' <=> Queued({"joinRoom"}, t)
        /\ Queued({"leave"}, t)' <=> Queued({"leave"}, t)
    BY <1>1, TakeOne
  <2>2. Behind(t) => Behind(t)'
    BY <1>1, TakeBehind
  <2> QED BY <1>2, <2>1, <2>2 DEF Apart
<1> QED BY <1>3, AllApart

\* The start of a room join, and of a leave, which read current_room_.
LEMMA StartLodging ==
    ASSUME TypeOK, GhostInv, StrandJoinRoom \/ StrandLeave
    PROVE  GhostInv'
<1> USE DEF clientVars, answerVars, roomVars, stopVars
<1>1. PICK op \in {"joinRoom", "leave"} :
        /\ Take(op)
        /\ UNCHANGED <<conn, handler, room, members, stopPhase>>
        /\ \/ Stopped /\ running' = running
           \/ /\ ~Stopped
              /\ running'.op = IF op = "leave" THEN "leaveLock" ELSE "joinLock"
              /\ running'.s = Current.s /\ running'.old = room[Current.s]
  BY DEF StrandJoinRoom, StrandLeave, Run
<1>2. Current \in Task /\ Current.op = op
  BY <1>1, TakeType
<1>3. PICK s \in Sessions : s = Current.s
  BY <1>2 DEF Task
<1>4. running.op = "idle" /\ running.s = None /\ \A t \in Sessions : t # None
  BY <1>1, ConstantsAssumption DEF Take, TypeOK, Running, ConstantsAssumption
<1>5. \A t : /\ Queued({"joinRoom"}, t)
                   <=> Queued({"joinRoom"}, t)' \/ (op = "joinRoom" /\ Current.s = t)
             /\ Queued({"leave"}, t) <=> Queued({"leave"}, t)' \/ (op = "leave" /\ Current.s = t)
  BY <1>1, TakeOne
<1>6. \A t : Behind(t) => Behind(t)' /\ (op = "joinRoom" /\ Current.s = t => Queued({"leave"}, t)')
  BY <1>1, TakeBehind
<1>7. \A t \in Sessions : t # s => Apart(t)
  BY <1>1, <1>3, <1>4, <1>5, <1>6 DEF Apart, Stopped
<1>8. Fresh(s) /\ InItsRoom(s) /\ ClearsWhenOut(s) /\ OldIsCurrent(s) /\ LeaveComes(s)
  BY DEF GhostInv, Lodging
<1>9. Lodged' = Lodged /\ (Stopped' <=> Stopped)
  BY <1>1 DEF Lodged, Stopped
<1>10. Queued({"joinRoom"}, s) \/ Queued({"leave"}, s)
  BY <1>1, <1>3, <1>5
<1>11. conn[s] # "new"
  BY <1>8, <1>10 DEF Fresh
<1>12. Fresh(s)'
  BY <1>1, <1>8, <1>11 DEF Fresh, Over, Idle
<1>13. InItsRoom(s)'
  BY <1>1, <1>8 DEF InItsRoom
<1>14. ClearsWhenOut(s)'
  BY <1>1, <1>3, <1>4, <1>5, <1>8, <1>9 DEF ClearsWhenOut, Joining
<1>15. OldIsCurrent(s)'
  BY <1>1, <1>3, <1>4, <1>8 DEF OldIsCurrent, Joining
<1>16. ~LeaveUnderWay(s) /\ (op = "leave" => LeaveUnderWay(s)' \/ Stopped)
  BY <1>1, <1>3, <1>4 DEF LeaveUnderWay
<1>17. LeaveComes(s)'
  BY <1>1, <1>3, <1>4, <1>5, <1>6, <1>8, <1>9, <1>16 DEF LeaveComes, Over, LeaveDue, Joining
<1> QED BY <1>7, <1>12, <1>13, <1>14, <1>15, <1>17, OnlyOne DEF Lodging

\* Between two tasks strand_ itself does not change.
LEMMA SameQueue ==
    ASSUME UNCHANGED strand
    PROVE  \A t : /\ Queued({"joinRoom"}, t)' <=> Queued({"joinRoom"}, t)
                  /\ Queued({"leave"}, t)' <=> Queued({"leave"}, t)
                  /\ Behind(t)' <=> Behind(t)
BY DEF Queued, Behind

\* Under the mutex: out of the old room, which is there since the session is in it,
\* and into the new one.
LEMMA JoinLodging ==
    ASSUME TypeOK, RoomsInUse, GhostInv, JoinRoomLocked
    PROVE  GhostInv'
<1> USE DEF clientVars, answerVars, roomVars, stopVars
<1>1. PICK s \in Sessions, r \in Rooms : s = running.s /\ r = running.arg
  BY DEF JoinRoomLocked, TypeOK, Running
<1> DEFINE left == LeftOld(s, running.old, r)
<1>2. /\ running.op = "joinLock"
      /\ UNCHANGED <<conn, handler, strand, stopPhase>>
      /\ members' = Admit(left, r, s)
      /\ room' = [room EXCEPT ![s] = r]
      /\ running'.op = "announce" /\ running'.s = s
  BY <1>1 DEF JoinRoomLocked, Run
<1>3. Fresh(s) /\ InItsRoom(s) /\ ClearsWhenOut(s) /\ OldIsCurrent(s) /\ LeaveComes(s)
  BY DEF GhostInv, Lodging
<1>4. /\ left \in [Rooms -> SUBSET Sessions] /\ \A q \in Rooms : left[q] \subseteq members[q]
      /\ \A q \in Rooms : s \in left[q] => q = r
  <2>1. running.old = room[s]
    BY <1>1, <1>2, <1>3 DEF OldIsCurrent, Joining
  <2>2. \A q \in Rooms : s \in members[q] => q = running.old /\ q \in rooms
    BY <1>3, <2>1 DEF InItsRoom, RoomsInUse
  <2>3. members \in [Rooms -> SUBSET Sessions]
    BY DEF TypeOK
  <2>4. CASE Moves(running.old, r)
    <3>1. left = [members EXCEPT ![running.old] = @ \ {s}]
      BY <2>4 DEF LeftOld
    <3>2. running.old \in Rooms
      BY <2>4 DEF Moves, TypeOK
    <3> QED BY <2>2, <2>3, <3>1, <3>2
  <2>5. CASE ~Moves(running.old, r)
    <3>1. left = members
      BY <2>5 DEF LeftOld
    <3> QED BY <2>2, <2>3, <2>5, <3>1 DEF Moves
  <2> QED BY <2>4, <2>5
<1> HIDE DEF left
<1>5. \A q \in Rooms : /\ members'[q] \subseteq members[q] \cup {s}
                       /\ s \in members'[q] => q = r
  BY <1>2, <1>4 DEF Admit
<1>6. room \in [Sessions -> RoomOrNone]
  BY DEF TypeOK
<1>7. \A t : /\ Queued({"joinRoom"}, t)' <=> Queued({"joinRoom"}, t)
             /\ Queued({"leave"}, t)' <=> Queued({"leave"}, t)
             /\ Behind(t)' <=> Behind(t)
  BY <1>2, SameQueue
<1>8. ASSUME NEW t \in Sessions, t # s PROVE Apart(t)
  BY <1>1, <1>2, <1>5, <1>6, <1>7, <1>8 DEF Apart, Stopped
<1>9. conn[s] # "new" /\ handler[s].op # "clear" /\ (Over(s) => Queued({"leave"}, s))
  BY <1>1, <1>2, <1>3 DEF Fresh, ClearsWhenOut, LeaveComes, Joining
<1>10. Fresh(s)'
  BY <1>2, <1>3, <1>9 DEF Fresh, Over, Idle
<1>11. InItsRoom(s)'
  BY <1>2, <1>5, <1>6 DEF InItsRoom
<1>12. ClearsWhenOut(s)' /\ OldIsCurrent(s)'
  BY <1>2, <1>9 DEF ClearsWhenOut, OldIsCurrent, Joining
<1>13. LeaveComes(s)'
  BY <1>2, <1>3, <1>7, <1>9 DEF LeaveComes, Over, LeaveDue, Joining
<1> QED BY <1>8, <1>10, <1>11, <1>12, <1>13, OnlyOne DEF Lodging

LEMMA AnnounceLodging ==
    ASSUME TypeOK, GhostInv, JoinRoomAnnounce
    PROVE  GhostInv'
<1> USE DEF clientVars, answerVars, roomVars, stopVars
<1>1. PICK s \in Sessions : s = running.s
  BY DEF JoinRoomAnnounce, TypeOK, Running
<1>2. /\ running.op = "announce" /\ running' = NoTask
      /\ UNCHANGED <<conn, handler, room, members, strand, stopPhase>>
  BY DEF JoinRoomAnnounce
<1>3. Fresh(s) /\ InItsRoom(s) /\ ClearsWhenOut(s) /\ OldIsCurrent(s) /\ LeaveComes(s)
  BY DEF GhostInv, Lodging
<1>4. \A t : /\ Queued({"joinRoom"}, t)' <=> Queued({"joinRoom"}, t)
             /\ Queued({"leave"}, t)' <=> Queued({"leave"}, t)
             /\ Behind(t)' <=> Behind(t)
  BY <1>2, SameQueue
<1>5. running'.op = "idle" /\ running'.s = None /\ \A t \in Sessions : t # None
  BY <1>2, ConstantsAssumption DEF NoTask, ConstantsAssumption
<1>6. ASSUME NEW t \in Sessions, t # s PROVE Apart(t)
  BY <1>1, <1>2, <1>4, <1>5, <1>6 DEF Apart, Stopped
<1>7. Lodged' = Lodged /\ ~Joining(s)' /\ (Stopped' <=> Stopped)
      /\ (LeaveDue(s)' <=> LeaveDue(s))
  BY <1>2, <1>4, <1>5 DEF Lodged, Joining, Stopped, LeaveDue, LeaveUnderWay
<1>8. Fresh(s)' /\ InItsRoom(s)'
  BY <1>2, <1>3, <1>4, <1>5, <1>7 DEF Fresh, InItsRoom, Over, Idle
<1>9. ClearsWhenOut(s)' /\ OldIsCurrent(s)'
  BY <1>2, <1>3, <1>4, <1>5, <1>7 DEF ClearsWhenOut, OldIsCurrent
<1>10. LeaveComes(s)'
  BY <1>2, <1>3, <1>4, <1>7 DEF LeaveComes, Over
<1> QED BY <1>6, <1>8, <1>9, <1>10, OnlyOne DEF Lodging

\* Out of the room the leave read, or it is in none by then.
LEMMA LeaveLodging ==
    ASSUME TypeOK, RoomsInUse, GhostInv, LeaveLocked
    PROVE  GhostInv'
<1> USE DEF clientVars, answerVars, roomVars, stopVars
<1>1. PICK s \in Sessions : s = running.s
  BY DEF LeaveLocked, TypeOK, Running
<1> DEFINE old == running.old
           leaves == ~Stopped /\ old \in rooms
<1>2. /\ running.op = "leaveLock" /\ running'.op = "leaveEnd" /\ running'.s = s
      /\ UNCHANGED <<conn, handler, strand, stopPhase>>
      /\ IF leaves THEN /\ members' = [members EXCEPT ![old] = @ \ {s}]
                        /\ room' = IF s \in members[old] THEN [room EXCEPT ![s] = None] ELSE room
         ELSE members' = members /\ room' = room /\ running'.old = None
  BY <1>1 DEF LeaveLocked, Run, RemoveFromRoom
<1>3. Fresh(s) /\ InItsRoom(s) /\ ClearsWhenOut(s) /\ OldIsCurrent(s) /\ LeaveComes(s)
  BY DEF GhostInv, Lodging
<1>4. /\ room \in [Sessions -> RoomOrNone] /\ members \in [Rooms -> SUBSET Sessions]
      /\ rooms \subseteq Rooms
  BY DEF TypeOK
<1>5. \A q \in Rooms : s \in members[q] => q = old /\ room[s] = q /\ q \in rooms
  BY <1>1, <1>2, <1>3 DEF OldIsCurrent, InItsRoom, Lodged, RoomsInUse
<1> HIDE DEF old
<1>6. /\ \A q \in Rooms : members'[q] \subseteq members[q]
      /\ \A t \in Sessions : t # s => room'[t] = room[t]
      /\ s \in Lodged' => Stopped /\ running'.old = None /\ room' = room
  BY <1>2, <1>4, <1>5 DEF Lodged
<1>7. \A t : /\ Queued({"joinRoom"}, t)' <=> Queued({"joinRoom"}, t)
             /\ Queued({"leave"}, t)' <=> Queued({"leave"}, t)
             /\ Behind(t)' <=> Behind(t)
  BY <1>2, SameQueue
<1>8. ASSUME NEW t \in Sessions, t # s PROVE Apart(t)
  BY <1>1, <1>2, <1>6, <1>7, <1>8 DEF Apart, Stopped
<1>9. (Stopped' <=> Stopped) /\ (s \in Lodged' => s \in Lodged) /\ ~Joining(s)' /\ ~Joining(s)
  BY <1>2, <1>6 DEF Stopped, Lodged, Joining
<1>10. conn[s] # "new"
  BY <1>1, <1>3 DEF Fresh
<1>11. Fresh(s)'
  BY <1>2, <1>3, <1>10 DEF Fresh, Over, Idle
<1>12. InItsRoom(s)'
  BY <1>3, <1>6 DEF InItsRoom, Lodged
<1>13. ClearsWhenOut(s)'
  BY <1>2, <1>3, <1>6, <1>7, <1>9 DEF ClearsWhenOut
<1>14. OldIsCurrent(s)'
  BY <1>2, <1>9 DEF OldIsCurrent
<1>15. LeaveComes(s)'
  BY <1>2, <1>3, <1>7, <1>9 DEF LeaveComes, Over, LeaveDue, LeaveUnderWay
<1> QED BY <1>8, <1>11, <1>12, <1>13, <1>14, <1>15, OnlyOne DEF Lodging

\* When a leave is over, its session is in no room.
LEMMA LeaveEndLodging ==
    ASSUME TypeOK, GhostInv, LeaveEnd
    PROVE  GhostInv'
<1> USE DEF clientVars, answerVars, roomVars, stopVars
<1>1. PICK s \in Sessions : s = running.s
  BY DEF LeaveEnd, TypeOK, Running
<1>2. /\ running.op = "leaveEnd" /\ running' = NoTask
      /\ UNCHANGED <<conn, handler, members, strand, stopPhase>>
      /\ room' = IF running.old = None THEN room ELSE [room EXCEPT ![s] = None]
  BY <1>1 DEF LeaveEnd
<1>3. Fresh(s) /\ InItsRoom(s) /\ ClearsWhenOut(s) /\ OldIsCurrent(s) /\ LeaveComes(s)
  BY DEF GhostInv, Lodging
<1>4. room \in [Sessions -> RoomOrNone]
  BY DEF TypeOK
<1>5. s \in Lodged => running.old = None /\ Stopped
  BY <1>1, <1>2, <1>3 DEF ClearsWhenOut
<1>6. \A t : /\ Queued({"joinRoom"}, t)' <=> Queued({"joinRoom"}, t)
             /\ Queued({"leave"}, t)' <=> Queued({"leave"}, t)
             /\ Behind(t)' <=> Behind(t)
  BY <1>2, SameQueue
<1>7. running'.op = "idle" /\ running'.s = None /\ \A t \in Sessions : t # None
  BY <1>2, ConstantsAssumption DEF NoTask, ConstantsAssumption
<1>8. ASSUME NEW t \in Sessions, t # s PROVE Apart(t)
  BY <1>1, <1>2, <1>4, <1>6, <1>7, <1>8 DEF Apart, Stopped
<1>9. Lodged' = Lodged /\ ~Joining(s)' /\ ~Joining(s) /\ (Stopped' <=> Stopped)
  BY <1>2, <1>7 DEF Lodged, Joining, Stopped
<1>10. Fresh(s)'
  BY <1>2, <1>3, <1>6, <1>7, <1>9 DEF Fresh, Over, Idle
<1>11. InItsRoom(s)'
  BY <1>2, <1>3, <1>4, <1>5 DEF InItsRoom, Lodged
<1>12. ClearsWhenOut(s)' /\ OldIsCurrent(s)'
  BY <1>2, <1>3, <1>6, <1>7, <1>9 DEF ClearsWhenOut, OldIsCurrent
<1>13. LeaveComes(s)'
  BY <1>2, <1>3, <1>5, <1>6, <1>9 DEF LeaveComes, Over
<1> QED BY <1>8, <1>10, <1>11, <1>12, <1>13, OnlyOne DEF Lodging

\* The call of stop().
LEMMA StopLodging == ASSUME TypeOK, GhostInv, Stop \/ StopPosted PROVE GhostInv'
<1> USE DEF clientVars, answerVars, roomVars, stopVars
<1>1. UNCHANGED <<conn, handler, room, members, running>> /\ Stopped'
  BY DEF Stop, StopPosted, Stopped
<1>2. UNCHANGED strand \/ Enqueue("closeAll", None, None)
  BY DEF Stop, StopPosted
<1>3. ASSUME NEW t \in Sessions PROVE Apart(t)
  <2>1. /\ Queued({"joinRoom"}, t)' <=> Queued({"joinRoom"}, t)
        /\ Queued({"leave"}, t)' <=> Queued({"leave"}, t)
        /\ Behind(t) => Behind(t)'
    BY <1>2, SameQueue, EnqueueOne, EnqueueBehind
  <2> QED BY <1>1, <2>1 DEF Apart
<1> QED BY <1>3, AllApart

LEMMA GhostStep ==
    ASSUME TypeOK, RoomsInUse, GhostInv, Patient, ~ForeignLeave, [Next]_vars
    PROVE  GhostInv'
<1>1. CASE UNCHANGED vars
  <2>1. ASSUME NEW t \in Sessions PROVE Apart(t)
    BY <1>1, SameQueue DEF vars, Apart, Stopped
  <2> QED BY <2>1, AllApart
<1>2. ASSUME NEW s \in Sessions, SessionStep(s) PROVE GhostInv'
  <2>1. CASE OnAccept(s) \/ OnAcceptFail(s) \/ StopSession(s) \/ Destroy(s)
    BY <2>1, ConnLodging
  <2>2. CASE \/ \E n \in Nicks : OnReadNick(s, n)
             \/ OnReadList(s) \/ OnReadSay(s)
             \/ \E r \in Rooms : OnReadJoin(s, r)
    BY <2>2, ReadLodging
  <2>3. ASSUME NEW r \in Rooms, OnReadLeave(s, r) PROVE GhostInv'
    BY <2>3, ReadLeaveLodging
  <2>4. CASE ClearRoom(s) \/ SayDone(s) \/ RunResult(s) \/ RunReply(s)
    BY <2>4, HandlerLodging
  <2>5. CASE Dispatch(s) \/ OnReadEnd(s) \/ OnWriteFail(s)
    BY <2>5, QueueLodging
  <2> QED BY <1>2, <2>1, <2>2, <2>3, <2>4, <2>5 DEF SessionStep, ClientStep, HandlerStep
<1>3. CASE StrandStep
  BY <1>3, QuietLodging, StartLodging, JoinLodging, AnnounceLodging, LeaveLodging,
     LeaveEndLodging DEF StrandStep
<1>4. CASE Stop \/ StopPosted
  BY <1>4, StopLodging
<1> QED BY <1>1, <1>2, <1>3, <1>4 DEF Next

\* The inductive invariant for rooms: whatever reads current_room_ before it takes the
\* mutex still knows the room, and behind whatever may put a session into a room after
\* its connection is over a leave of it is queued.
THEOREM LodgingAlways == Patient /\ ~ForeignLeave => (Spec => []GhostInv)
<1> SUFFICES ASSUME Patient, ~ForeignLeave PROVE Spec => []GhostInv
  OBVIOUS
<1>1. Init => GhostInv
  <2> SUFFICES ASSUME Init, NEW s \in Sessions PROVE Lodging(s)
    BY DEF GhostInv
  <2>1. /\ s \notin Lodged /\ Idle(s) /\ ~Over(s) /\ running.op = "idle" /\ running.s = None
        /\ strand = <<>> /\ handler[s].op = "idle" /\ s # None
    BY ConstantsAssumption DEF Init, Lodged, Idle, Over, NoHandler, NoTask, ConstantsAssumption
  <2>2. \A ops : ~Queued(ops, s)
    BY <2>1 DEF Queued
  <2>3. Fresh(s) /\ ClearsWhenOut(s) /\ OldIsCurrent(s) /\ LeaveComes(s)
    BY <2>1, <2>2 DEF Fresh, ClearsWhenOut, OldIsCurrent, LeaveComes, Joining
  <2>4. InItsRoom(s)
    BY <2>1 DEF InItsRoom, Lodged
  <2> QED BY <2>3, <2>4 DEF Lodging
<1>2. TypeOK /\ RoomsInUse /\ GhostInv /\ [Next]_vars => GhostInv'
  BY GhostStep
<1> QED BY <1>1, <1>2, TypeCorrect, RoomsInUseAlways, PTL DEF Spec

\* Of a client that waits for its answers and leaves no room but its own, however it
\* hangs up and whatever write to it fails: it takes part in no room but the one it is
\* told it is in, and once its connection is over only until its leave has run.
THEOREM NeverGhost == Patient /\ ~ForeignLeave => (Spec => []NoGhostParticipant)
<1>1. GhostInv => NoGhostParticipant
  <2> SUFFICES ASSUME GhostInv, NEW s \in Sessions, NEW r \in Rooms, s \in members[r]
               PROVE  /\ room[s] = r
                      /\ conn[s] \in {"ended", "gone"} => LeaveDue(s) \/ Stopped
    BY DEF NoGhostParticipant
  <2>1. InItsRoom(s) /\ LeaveComes(s) /\ s \in Lodged
    BY DEF GhostInv, Lodging, Lodged
  <2> QED BY <2>1 DEF InItsRoom, LeaveComes, Over
<1> QED BY <1>1, LodgingAlways, PTL

-----------------------------------------------------------------------------
(* The invariant for nicknames, one session at a time.                     *)

\* Who has an entry in nicknames_, and the nickname a session shows, or will once the
\* answer on its way to it has come.
Entered == {s \in Sessions : \E n \in Nicks : nicknames[n] = s}
Shown(s) == IF results[s] = <<>> THEN nick[s]
            ELSE IF Head(results[s]) = None THEN nick[s] ELSE Head(results[s])

\* One rename at a time: a handler, a task or an answer.
OneNick(s) ==
    \A i, j \in DOMAIN strand :
        /\ strand[i].op = "nick" /\ strand[i].s = s
        /\ strand[j].op = "nick" /\ strand[j].s = s
        => i = j
OneRename(s) ==
    /\ handler[s].op = "nick" => ~Queued({"nick"}, s) /\ results[s] = <<>>
    /\ Queued({"nick"}, s) => results[s] = <<>>
    /\ results[s] # <<>> => Tail(results[s]) = <<>>
    /\ OneNick(s)

\* Before it is accepted a session has no nickname; and when it is over no handler.
Unnamed(s) ==
    /\ conn[s] = "new" => /\ nick[s] = None /\ results[s] = <<>>
                          /\ Idle(s) /\ ~Queued({"nick"}, s) /\ ~LeaveDue(s)
    /\ Over(s) => Idle(s)
    /\ conn[s] = "closed" => writeFailed[s] \/ Stopped

\* A leave has a reason, and unless that is a failed write it comes behind a rename.
NicksBefore(s) ==
    \A i, j \in DOMAIN strand :
        /\ strand[i].op = "nick" /\ strand[i].s = s
        /\ strand[j].op = "leave" /\ strand[j].s = s
        => i < j
LeaveLast(s) ==
    /\ LeaveDue(s) => Over(s) \/ writeFailed[s]
    /\ ~writeFailed[s] => NicksBefore(s) /\ (LeaveUnderWay(s) => ~Queued({"nick"}, s))

\* nicknames_ has no other entry for s, and has that one until a leave of s runs.
OneName(s) == \A n \in Nicks : nicknames[n] = s => Shown(s) = n
Renaming(s) == conn[s] = "open" \/ (conn[s] # "gone" /\ Queued({"nick"}, s))
Keeps(s) ==
    ~Stopped /\ ~writeFailed[s] /\ s \notin robbed /\ Shown(s) # None /\ Renaming(s)
        => s \in Entered

NameFacts(s) == OneRename(s) /\ Unnamed(s) /\ LeaveLast(s) /\ OneName(s) /\ Keeps(s)
StopKnown ==
    /\ \A s : Queued({"closeAll"}, s) => Stopped
    /\ closing # {} => Stopped
NameInv == \A s \in Sessions : NameFacts(s)
NamesInv == OldNickKnown /\ StopKnown /\ NameInv

-----------------------------------------------------------------------------
(* Queueing and taking, once more.                                         *)

LEMMA EnqueueNicks ==
    ASSUME TypeOK, NEW op, NEW s, NEW arg, Enqueue(op, s, arg), NEW t
    PROVE  /\ Queued({"nick"}, t)' <=> Queued({"nick"}, t) \/ (op = "nick" /\ s = t)
           /\ Queued({"leave"}, t)' <=> Queued({"leave"}, t) \/ (op = "leave" /\ s = t)
           /\ OneNick(t) /\ (op = "nick" /\ s = t => ~Queued({"nick"}, t)) => OneNick(t)'
           /\ NicksBefore(t) /\ (op = "nick" /\ s = t => ~Queued({"leave"}, t))
                => NicksBefore(t)'
<1> DEFINE n == Len(strand) + 1
<1>1. /\ \A i \in DOMAIN strand : i \in DOMAIN strand' /\ strand'[i] = strand[i]
      /\ DOMAIN strand' = DOMAIN strand \cup {n}
      /\ strand'[n].op = op /\ strand'[n].s = s
  BY EnqueueShape
<1>2. \A i \in DOMAIN strand : i \in Nat /\ n \in Nat /\ i < n
  BY DEF TypeOK
<1> HIDE DEF n
<1>3. Queued({"nick"}, t)' <=> Queued({"nick"}, t) \/ (op \in {"nick"} /\ s = t)
  BY EnqueueQueued
<1>4. Queued({"leave"}, t)' <=> Queued({"leave"}, t) \/ (op \in {"leave"} /\ s = t)
  BY EnqueueQueued
<1>5. ASSUME OneNick(t), op = "nick" /\ s = t => ~Queued({"nick"}, t)
      PROVE  OneNick(t)'
  BY <1>1, <1>5 DEF OneNick, Queued
<1>6. ASSUME NicksBefore(t), op = "nick" /\ s = t => ~Queued({"leave"}, t)
      PROVE  NicksBefore(t)'
  BY <1>1, <1>2, <1>6 DEF NicksBefore, Queued
<1> QED BY <1>3, <1>4, <1>5, <1>6

LEMMA TakeNicks ==
    ASSUME TypeOK, NEW op, Take(op), NEW t, OneNick(t)
    PROVE  /\ Queued({"nick"}, t) <=> Queued({"nick"}, t)' \/ (op = "nick" /\ Current.s = t)
           /\ Queued({"leave"}, t) <=> Queued({"leave"}, t)' \/ (op = "leave" /\ Current.s = t)
           /\ OneNick(t)'
           /\ op = "nick" /\ Current.s = t => ~Queued({"nick"}, t)'
           /\ NicksBefore(t) => NicksBefore(t)'
           /\ NicksBefore(t) /\ op = "leave" /\ Current.s = t => ~Queued({"nick"}, t)'
<1>1. /\ Current = strand[1] /\ 1 \in DOMAIN strand /\ Current.op = op
      /\ \A i \in DOMAIN strand' : i + 1 \in DOMAIN strand /\ strand'[i] = strand[i + 1]
      /\ DOMAIN strand \subseteq Nat /\ DOMAIN strand' \subseteq Nat \ {0}
      /\ \A ops, q : Queued(ops, q) <=> Queued(ops, q)' \/ (op \in ops /\ Current.s = q)
  BY TakeQueued
<1>2. Queued({"nick"}, t) <=> Queued({"nick"}, t)' \/ (op \in {"nick"} /\ Current.s = t)
  BY <1>1
<1>3. Queued({"leave"}, t) <=> Queued({"leave"}, t)' \/ (op \in {"leave"} /\ Current.s = t)
  BY <1>1
<1>4. OneNick(t)'
  <2> SUFFICES ASSUME NEW i \in DOMAIN strand', NEW j \in DOMAIN strand',
                      strand'[i].op = "nick", strand'[i].s = t,
                      strand'[j].op = "nick", strand'[j].s = t
               PROVE  i = j
    BY DEF OneNick
  <2>1. i + 1 = j + 1
    BY <1>1 DEF OneNick
  <2> QED BY <1>1, <2>1
<1>5. ASSUME op = "nick", Current.s = t, Queued({"nick"}, t)' PROVE FALSE
  <2>1. PICK i \in DOMAIN strand' : strand'[i].op = "nick" /\ strand'[i].s = t
    BY <1>5 DEF Queued
  <2>2. i + 1 = 1
    BY <1>1, <1>5, <2>1 DEF OneNick
  <2> QED BY <1>1, <2>1, <2>2
<1>6. ASSUME NicksBefore(t) PROVE NicksBefore(t)'
  <2> SUFFICES ASSUME NEW i \in DOMAIN strand', NEW j \in DOMAIN strand',
                      strand'[i].op = "nick", strand'[i].s = t,
                      strand'[j].op = "leave", strand'[j].s = t
               PROVE  i < j
    BY DEF NicksBefore
  <2>1. i + 1 < j + 1
    BY <1>1, <1>6 DEF NicksBefore
  <2> QED BY <1>1, <2>1
<1>7. ASSUME NicksBefore(t), op = "leave", Current.s = t, Queued({"nick"}, t)' PROVE FALSE
  <2>1. PICK i \in DOMAIN strand' : strand'[i].op = "nick" /\ strand'[i].s = t
    BY <1>7 DEF Queued
  <2>2. i + 1 < 1
    BY <1>1, <1>7, <2>1 DEF NicksBefore
  <2> QED BY <1>1, <2>1, <2>2
<1> QED BY <1>2, <1>3, <1>4, <1>5, <1>6, <1>7

-----------------------------------------------------------------------------
(* Steps that leave the nickname of a session alone.                       *)

\* Nothing new befalls t but, at most, that its entry goes: because the server stopped,
\* because t is over and renames itself no more, or because it is robbed.
Calm(t) ==
    /\ conn'[t] = conn[t] /\ nick'[t] = nick[t]
    /\ handler'[t] = handler[t] \/ handler'[t].op = "idle"
    /\ results'[t] = results[t] /\ writeFailed'[t] = writeFailed[t]
    /\ Queued({"nick"}, t)' => Queued({"nick"}, t)
    /\ OneNick(t) => OneNick(t)'
    /\ NicksBefore(t) => NicksBefore(t)'
    /\ LeaveDue(t)' => LeaveDue(t)
    /\ LeaveUnderWay(t)' => LeaveUnderWay(t)
    /\ \A n \in Nicks : nicknames'[n] = t => nicknames[n] = t
    /\ Stopped => Stopped'
    /\ t \in robbed => t \in robbed' \cup Entered'
    /\ \/ t \in Entered => t \in robbed' \cup Entered'
       \/ Stopped' \/ conn[t] = "gone" \/ writeFailed[t]
       \/ Over(t) /\ ~Queued({"nick"}, t)

LEMMA CalmKept ==
    ASSUME NEW t \in Sessions, NameFacts(t), Calm(t)
    PROVE  NameFacts(t)'
<1> USE DEF Calm, NameFacts
<1>1. (Idle(t) => Idle(t)') /\ (Over(t)' <=> Over(t)) /\ Shown(t)' = Shown(t)
  BY DEF Idle, Over, Shown
<1>2. OneRename(t)'
  BY DEF OneRename
<1>3. Unnamed(t)'
  BY <1>1 DEF Unnamed
<1>4. LeaveLast(t)'
  BY <1>1 DEF LeaveLast
<1>5. OneName(t)'
  BY <1>1 DEF OneName
<1>6. Keeps(t)'
  BY <1>1 DEF Keeps, Renaming, Over
<1> QED BY <1>2, <1>3, <1>4, <1>5, <1>6

\* What is remembered of a robbery.
LEMMA RememberIs ==
    ASSUME Remember, NEW t \in Sessions
    PROVE  /\ t \in robbed => t \in robbed' \cup Entered'
           /\ running.op = "leaveEnd" /\ running.s # t /\ t \in Entered
                => t \in robbed' \cup Entered'
BY DEF Remember, Robbed, Entered

\* A step of s is one that leaves the nicknames of the others alone.
LEMMA OneNamed ==
    ASSUME NameInv, NEW s \in Sessions, \A t \in Sessions : t # s => Calm(t), NameFacts(s)'
    PROVE  NameInv'
<1>1. \A t \in Sessions : NameFacts(t)
  BY DEF NameInv
<1>2. \A t \in Sessions : NameFacts(t)'
  BY <1>1, CalmKept
<1> QED BY <1>2 DEF NameInv

LEMMA AllCalm == ASSUME NameInv, \A t \in Sessions : Calm(t) PROVE NameInv'
<1>1. \A t \in Sessions : NameFacts(t)
  BY DEF NameInv
<1> QED BY <1>1, CalmKept DEF NameInv

\* While strand_ and its task stay, so does what is queued or under way.
LEMMA SameTasks ==
    ASSUME UNCHANGED <<strand, running>>
    PROVE  \A t : /\ Queued({"nick"}, t)' <=> Queued({"nick"}, t)
                  /\ OneNick(t)' <=> OneNick(t)
                  /\ NicksBefore(t)' <=> NicksBefore(t)
                  /\ LeaveDue(t)' <=> LeaveDue(t)
                  /\ LeaveUnderWay(t)' <=> LeaveUnderWay(t)
BY DEF Queued, OneNick, NicksBefore, LeaveDue, LeaveUnderWay

\* Whoever neither renames itself nor loses its entry is left alone.
LEMMA CalmIs ==
    ASSUME Remember, UNCHANGED <<strand, running, nicknames>>, Stopped => Stopped',
           NEW t \in Sessions,
           conn'[t] = conn[t], nick'[t] = nick[t], results'[t] = results[t],
           writeFailed'[t] = writeFailed[t], handler'[t] = handler[t] \/ handler'[t].op = "idle"
    PROVE  Calm(t)
<1>1. Entered' = Entered
  BY DEF Entered
<1>2. t \in robbed => t \in robbed' \cup Entered'
  BY RememberIs
<1> QED BY <1>1, <1>2, SameTasks DEF Calm

\* ... and keeps its entry, whatever else its step does.
LEMMA EntryStays ==
    ASSUME Remember, UNCHANGED nicknames, NEW s \in Sessions, OneName(s), Keeps(s),
           Shown(s)' = Shown(s), Stopped => Stopped', writeFailed[s] => writeFailed'[s],
           Renaming(s)' => Renaming(s) \/ writeFailed'[s]
    PROVE  OneName(s)' /\ Keeps(s)'
<1>1. Entered' = Entered
  BY DEF Entered
<1>2. s \in robbed => s \in robbed' \cup Entered'
  BY RememberIs
<1>3. OneName(s)'
  BY DEF OneName
<1>4. Keeps(s)'
  BY <1>1, <1>2 DEF Keeps
<1> QED BY <1>3, <1>4

-----------------------------------------------------------------------------
(* Steps of a session.                                                     *)

LEMMA ConnNames ==
    ASSUME TypeOK, NameInv, closing # {} => Stopped, Remember, NEW s \in Sessions,
           OnAccept(s) \/ OnAcceptFail(s) \/ StopSession(s) \/ Destroy(s)
    PROVE  NameInv'
<1> USE DEF clientVars, answerVars, roomVars, stopVars
<1>1. conn \in [Sessions -> ConnStates] /\ handler \in [Sessions -> Handler]
  BY DEF TypeOK
<1>2. OneRename(s) /\ Unnamed(s) /\ LeaveLast(s) /\ OneName(s) /\ Keeps(s)
  BY DEF NameInv, NameFacts
<1>3. UNCHANGED <<nick, results, writeFailed, nicknames, stopPhase, strand, running>>
  BY DEF OnAccept, OnAcceptFail, StopSession, Destroy
<1>4. /\ \A t \in Sessions : t # s => conn'[t] = conn[t] /\ handler'[t] = handler[t]
      /\ \/ conn[s] = "new" /\ conn'[s] = "open" /\ handler'[s].op \in {"join", handler[s].op}
         \/ conn[s] = "new" /\ conn'[s] = "gone" /\ handler'[s] = handler[s]
         \/ conn'[s] = conn[s] /\ handler'[s] = handler[s]
         \/ conn[s] = "open" /\ conn'[s] = "closed" /\ handler'[s] = handler[s] /\ Stopped
         \/ conn[s] = "ended" /\ conn'[s] = "gone" /\ handler'[s] = handler[s]
  BY <1>1 DEF OnAccept, OnAcceptFail, StopSession, Destroy, Begin, Unreferenced
<1>5. Stopped' <=> Stopped
  BY <1>3 DEF Stopped
<1>6. \A t \in Sessions : t # s => Calm(t)
  BY <1>3, <1>4, <1>5, CalmIs
<1>7. /\ Queued({"nick"}, s)' <=> Queued({"nick"}, s)
      /\ OneNick(s)' <=> OneNick(s)
      /\ NicksBefore(s)' <=> NicksBefore(s)
      /\ LeaveDue(s)' <=> LeaveDue(s)
      /\ LeaveUnderWay(s)' <=> LeaveUnderWay(s)
  BY <1>3, SameTasks
<1>8. Shown(s)' = Shown(s) /\ (conn[s] = "new" => Shown(s) = None)
  BY <1>2, <1>3 DEF Shown, Unnamed
<1>9. OneRename(s)'
  BY <1>2, <1>3, <1>4, <1>7 DEF OneRename
<1>10. Unnamed(s)'
  BY <1>2, <1>3, <1>4, <1>5, <1>7 DEF Unnamed, Over, Idle
<1>11. LeaveLast(s)'
  BY <1>2, <1>3, <1>4, <1>7 DEF LeaveLast, Over, Unnamed
<1>12. OneName(s)'
  BY <1>2, <1>3, <1>8 DEF OneName
<1>13. Keeps(s)'
  <2>1. CASE conn[s] = "new"
    BY <1>8, <2>1 DEF Keeps
  <2>2. CASE conn[s] # "new"
    <3>1. Renaming(s)' => Renaming(s)
      BY <1>4, <1>7, <2>2 DEF Renaming
    <3> QED BY <1>2, <1>3, <1>5, <1>8, <3>1, EntryStays
  <2> QED BY <2>1, <2>2
<1> QED BY <1>6, <1>9, <1>10, <1>11, <1>12, <1>13, OneNamed DEF NameFacts

\* A command: a /nick only when the one before it is answered.
LEMMA ReadNames ==
    ASSUME TypeOK, NameInv, Patient, Remember, NEW s \in Sessions,
           \/ \E n \in Nicks : OnReadNick(s, n)
           \/ OnReadList(s) \/ OnReadSay(s)
           \/ \E r \in Rooms : OnReadJoin(s, r) \/ OnReadLeave(s, r)
    PROVE  NameInv'
<1> USE DEF clientVars, answerVars, roomVars, stopVars
<1>1. conn \in [Sessions -> ConnStates] /\ handler \in [Sessions -> Handler]
  BY DEF TypeOK
<1>2. OneRename(s) /\ Unnamed(s) /\ LeaveLast(s) /\ OneName(s) /\ Keeps(s)
  BY DEF NameInv, NameFacts
<1>3. /\ Command(s)
      /\ UNCHANGED <<nick, results, writeFailed, nicknames, stopPhase, strand, running>>
  BY DEF OnReadNick, OnReadList, OnReadSay, OnReadJoin, OnReadLeave, Command
<1>4. /\ conn[s] = "open" /\ (conn'[s] = "open" \/ (conn'[s] = "closed" /\ writeFailed[s]))
      /\ \A t \in Sessions : t # s => conn'[t] = conn[t]
      /\ Answered(s)
  BY <1>1, <1>3 DEF Command, MayAct
<1>5. \A t \in Sessions : t # s => handler'[t] = handler[t]
  BY <1>1 DEF OnReadNick, OnReadList, OnReadSay, OnReadJoin, OnReadLeave, Begin
<1>6. (Stopped' <=> Stopped) /\ ~Over(s) /\ ~Over(s)'
  BY <1>3, <1>4 DEF Stopped, Over
<1>7. \A t \in Sessions : t # s => Calm(t)
  BY <1>3, <1>4, <1>5, <1>6, CalmIs
<1>8. /\ Queued({"nick"}, s)' <=> Queued({"nick"}, s)
      /\ OneNick(s)' <=> OneNick(s)
      /\ NicksBefore(s)' <=> NicksBefore(s)
      /\ LeaveDue(s)' <=> LeaveDue(s)
      /\ LeaveUnderWay(s)' <=> LeaveUnderWay(s)
  BY <1>3, SameTasks
<1>9. results[s] = <<>> /\ ~Queued({"nick"}, s)
  BY <1>4 DEF Answered, Queued
<1>10. OneRename(s)'
  BY <1>2, <1>3, <1>8, <1>9 DEF OneRename
<1>11. Unnamed(s)' /\ LeaveLast(s)'
  BY <1>2, <1>3, <1>4, <1>6, <1>8 DEF Unnamed, LeaveLast
<1>12. Shown(s)' = Shown(s) /\ Renaming(s)
  BY <1>3, <1>4 DEF Shown, Renaming
<1>13. OneName(s)' /\ Keeps(s)'
  BY <1>2, <1>3, <1>6, <1>12, EntryStays
<1> QED BY <1>7, <1>10, <1>11, <1>13, OneNamed DEF NameFacts

\* A request is queued: a rename behind no other one and no leave.
LEMMA DispatchNames ==
    ASSUME TypeOK, NameInv, Remember, NEW s \in Sessions, Dispatch(s)
    PROVE  NameInv'
<1> USE DEF clientVars, answerVars, roomVars, stopVars
<1>1. OneRename(s) /\ Unnamed(s) /\ LeaveLast(s) /\ OneName(s) /\ Keeps(s)
  BY DEF NameInv, NameFacts
<1> DEFINE op == handler[s].op
<1>2. /\ op \in {"join", "nick", "list", "joinRoom"} /\ Enqueue(op, s, handler[s].arg)
      /\ handler' = [handler EXCEPT ![s] = NoHandler]
      /\ UNCHANGED <<conn, nick, results, writeFailed, nicknames, stopPhase, running>>
  BY DEF Dispatch, Finish
<1>3. /\ handler'[s].op = "idle"
      /\ \A t \in Sessions : t # s => handler'[t] = handler[t]
  BY <1>2 DEF TypeOK, NoHandler
<1>4. \A t : /\ Queued({"nick"}, t)' <=> Queued({"nick"}, t) \/ (op = "nick" /\ s = t)
             /\ Queued({"leave"}, t)' <=> Queued({"leave"}, t) \/ (op = "leave" /\ s = t)
             /\ OneNick(t) /\ (op = "nick" /\ s = t => ~Queued({"nick"}, t)) => OneNick(t)'
             /\ NicksBefore(t) /\ (op = "nick" /\ s = t => ~Queued({"leave"}, t))
                  => NicksBefore(t)'
  BY <1>2, EnqueueNicks
<1>5. (Stopped' <=> Stopped) /\ Entered' = Entered
  BY <1>2 DEF Stopped, Entered
<1>6. \A t : (LeaveDue(t)' <=> LeaveDue(t)) /\ (LeaveUnderWay(t)' <=> LeaveUnderWay(t))
  BY <1>2, <1>4 DEF LeaveDue, LeaveUnderWay
<1>7. ASSUME NEW t \in Sessions, t # s PROVE Calm(t)
  <2>1. t \in robbed => t \in robbed' \cup Entered'
    BY RememberIs
  <2> QED BY <1>2, <1>3, <1>4, <1>5, <1>6, <1>7, <2>1 DEF Calm
<1>8. conn[s] # "new" /\ ~Over(s) /\ (LeaveDue(s) => writeFailed[s])
  BY <1>1, <1>2 DEF Unnamed, LeaveLast, Idle
<1>9. op = "nick" => results[s] = <<>> /\ ~Queued({"nick"}, s)
  BY <1>1 DEF OneRename
<1>10. OneRename(s)'
  BY <1>1, <1>2, <1>3, <1>4, <1>9 DEF OneRename
<1>11. Unnamed(s)'
  BY <1>1, <1>2, <1>5, <1>8 DEF Unnamed, Over
<1>12. LeaveLast(s)'
  BY <1>1, <1>2, <1>4, <1>6, <1>8 DEF LeaveLast, Over, LeaveDue
<1>13. Shown(s)' = Shown(s) /\ OneName(s)'
  BY <1>1, <1>2 DEF Shown, OneName
<1>14. conn[s] \in {"open", "closed"}
  BY <1>8 DEF TypeOK, ConnStates, Over
<1>15. Keeps(s)'
  <2>1. CASE Stopped \/ writeFailed[s]
    BY <1>2, <1>5, <2>1 DEF Keeps
  <2>2. CASE ~Stopped /\ ~writeFailed[s]
    <3>1. Renaming(s)
      BY <1>1, <1>14, <2>2 DEF Unnamed, Renaming
    <3> QED BY <1>1, <1>2, <1>5, <1>13, <3>1, EntryStays
  <2> QED BY <2>1, <2>2
<1> QED BY <1>7, <1>10, <1>11, <1>12, <1>13, <1>15, OneNamed DEF NameFacts

\* A leave is queued, behind the rename that may be on its way.
LEMMA EndNames ==
    ASSUME TypeOK, NameInv, Remember, NEW s \in Sessions, OnReadEnd(s) \/ OnWriteFail(s)
    PROVE  NameInv'
<1> USE DEF clientVars, answerVars, roomVars, stopVars
<1>1. OneRename(s) /\ Unnamed(s) /\ LeaveLast(s) /\ OneName(s) /\ Keeps(s)
  BY DEF NameInv, NameFacts
<1>2. /\ Enqueue("leave", s, nick[s]) /\ Idle(s) /\ conn[s] \in {"open", "closed", "ended"}
      /\ UNCHANGED <<handler, nick, results, nicknames, stopPhase, running>>
      /\ \/ conn'[s] = "ended" /\ conn[s] # "ended" /\ writeFailed' = writeFailed
         \/ conn' = conn /\ writeFailed'[s]
      /\ \A t \in Sessions : t # s => conn'[t] = conn[t] /\ writeFailed'[t] = writeFailed[t]
  BY DEF OnReadEnd, OnWriteFail, RequestLeave, TypeOK
<1>3. \A t : /\ Queued({"nick"}, t)' <=> Queued({"nick"}, t) \/ ("leave" = "nick" /\ s = t)
             /\ Queued({"leave"}, t)' <=> Queued({"leave"}, t) \/ ("leave" = "leave" /\ s = t)
             /\ OneNick(t) /\ ("leave" = "nick" /\ s = t => ~Queued({"nick"}, t)) => OneNick(t)'
             /\ NicksBefore(t) /\ ("leave" = "nick" /\ s = t => ~Queued({"leave"}, t))
                  => NicksBefore(t)'
  BY <1>2, EnqueueNicks
<1>4. \A t : /\ Queued({"nick"}, t)' <=> Queued({"nick"}, t)
             /\ Queued({"leave"}, t)' <=> Queued({"leave"}, t) \/ s = t
             /\ OneNick(t) => OneNick(t)'
             /\ NicksBefore(t) => NicksBefore(t)'
  BY <1>3
<1>5. (Stopped' <=> Stopped) /\ Entered' = Entered
  BY <1>2 DEF Stopped, Entered
<1>6. \A t : /\ t # s => (LeaveDue(t)' <=> LeaveDue(t))
             /\ LeaveUnderWay(t)' <=> LeaveUnderWay(t)
  BY <1>2, <1>4 DEF LeaveDue, LeaveUnderWay
<1>7. ASSUME NEW t \in Sessions, t # s PROVE Calm(t)
  <2>1. t \in robbed => t \in robbed' \cup Entered'
    BY RememberIs
  <2> QED BY <1>2, <1>4, <1>5, <1>6, <1>7, <2>1 DEF Calm
<1>8. OneRename(s)'
  BY <1>1, <1>2, <1>4 DEF OneRename
<1>9. Unnamed(s)'
  BY <1>1, <1>2, <1>5 DEF Unnamed, Over, Idle
<1>10. LeaveLast(s)'
  BY <1>1, <1>2, <1>4, <1>6 DEF LeaveLast, Over
<1>11. Shown(s)' = Shown(s) /\ (Renaming(s)' => Renaming(s))
  BY <1>2, <1>4 DEF Shown, Renaming
<1>12. writeFailed[s] => writeFailed'[s]
  BY <1>2
<1>13. OneName(s)' /\ Keeps(s)'
  BY <1>1, <1>2, <1>5, <1>11, <1>12, EntryStays
<1> QED BY <1>7, <1>8, <1>9, <1>10, <1>13, OneNamed DEF NameFacts

\* The answer of a rename arrives: what the session was about to show it now shows.
LEMMA ResultNames ==
    ASSUME TypeOK, NameInv, Remember, NEW s \in Sessions, RunResult(s)
    PROVE  NameInv'
<1> USE DEF clientVars, answerVars, roomVars, stopVars
<1>1. OneRename(s) /\ Unnamed(s) /\ LeaveLast(s) /\ OneName(s) /\ Keeps(s)
  BY DEF NameInv, NameFacts
<1>2. /\ results[s] # <<>> /\ Idle(s)
      /\ results' = [results EXCEPT ![s] = Tail(@)]
      /\ nick' = IF Head(results[s]) = None THEN nick
                 ELSE [nick EXCEPT ![s] = Head(results[s])]
      /\ UNCHANGED <<conn, handler, writeFailed, nicknames, stopPhase, strand, running>>
  BY DEF RunResult
<1>3. /\ results \in [Sessions -> Seq(NickOrNone)] /\ nick \in [Sessions -> NickOrNone]
  BY DEF TypeOK
<1>4. /\ results'[s] = <<>> /\ ~Queued({"nick"}, s) /\ handler[s].op = "idle"
      /\ conn[s] # "new"
      /\ \A t \in Sessions : t # s => nick'[t] = nick[t] /\ results'[t] = results[t]
  BY <1>1, <1>2, <1>3 DEF OneRename, Unnamed, Idle
<1>5. Stopped' <=> Stopped
  BY <1>2 DEF Stopped
<1>6. \A t \in Sessions : t # s => Calm(t)
  BY <1>2, <1>4, <1>5, CalmIs
<1>7. /\ Queued({"nick"}, s)' <=> Queued({"nick"}, s)
      /\ OneNick(s)' <=> OneNick(s)
      /\ NicksBefore(s)' <=> NicksBefore(s)
      /\ LeaveDue(s)' <=> LeaveDue(s)
      /\ LeaveUnderWay(s)' <=> LeaveUnderWay(s)
  BY <1>2, SameTasks
<1>8. OneRename(s)'
  BY <1>1, <1>2, <1>4, <1>7 DEF OneRename
<1>9. Unnamed(s)' /\ LeaveLast(s)'
  BY <1>1, <1>2, <1>4, <1>5, <1>7 DEF Unnamed, LeaveLast, Over, Idle
<1>10. Shown(s)' = Shown(s)
  BY <1>2, <1>3, <1>4 DEF Shown
<1>11. Renaming(s)' => Renaming(s)
  BY <1>2, <1>7 DEF Renaming
<1>12. OneName(s)' /\ Keeps(s)'
  BY <1>1, <1>2, <1>5, <1>10, <1>11, EntryStays
<1> QED BY <1>6, <1>8, <1>9, <1>12, OneNamed DEF NameFacts

-----------------------------------------------------------------------------
(* Steps of strand_, of stop(), and those that change nobody's nickname.   *)

LEMMA QuietNames ==
    ASSUME TypeOK, NameInv, Remember,
           \/ Stop
           \/ \E s \in Sessions : ClearRoom(s) \/ SayDone(s) \/ RunReply(s)
    PROVE  NameInv'
<1> USE DEF clientVars, answerVars, roomVars, stopVars
<1>1. /\ UNCHANGED <<conn, nick, results, writeFailed, strand, running, nicknames>>
      /\ Stopped => Stopped'
  BY DEF Stop, ClearRoom, SayDone, RunReply, Stopped
<1>2. \A t \in Sessions : handler'[t] = handler[t] \/ handler'[t].op = "idle"
  <2>1. handler \in [Sessions -> Handler]
    BY DEF TypeOK
  <2> QED BY <2>1 DEF Stop, ClearRoom, SayDone, RunReply, Finish, NoHandler
<1>3. \A t \in Sessions : Calm(t)
  BY <1>1, <1>2, CalmIs
<1> QED BY <1>3, AllCalm

\* The closing task is queued.
LEMMA PostedNames == ASSUME TypeOK, NameInv, Remember, StopPosted PROVE NameInv'
<1> USE DEF clientVars, answerVars, roomVars, stopVars
<1>1. /\ UNCHANGED <<conn, handler, nick, results, writeFailed, running, nicknames>>
      /\ Stopped' /\ Enqueue("closeAll", None, None)
  BY DEF StopPosted, Stopped
<1>2. \A t : /\ Queued({"nick"}, t)' <=> Queued({"nick"}, t) \/ ("closeAll" = "nick" /\ None = t)
             /\ Queued({"leave"}, t)' <=> Queued({"leave"}, t) \/ ("closeAll" = "leave" /\ None = t)
             /\ OneNick(t) /\ ("closeAll" = "nick" /\ None = t => ~Queued({"nick"}, t))
                  => OneNick(t)'
             /\ NicksBefore(t) /\ ("closeAll" = "nick" /\ None = t => ~Queued({"leave"}, t))
                  => NicksBefore(t)'
  BY <1>1, EnqueueNicks
<1>3. \A t : (LeaveDue(t)' <=> LeaveDue(t)) /\ (LeaveUnderWay(t)' <=> LeaveUnderWay(t))
  BY <1>1, <1>2 DEF LeaveDue, LeaveUnderWay
<1>4. \A t \in Sessions : t \in robbed => t \in robbed' \cup Entered'
  BY RememberIs
<1>5. \A t \in Sessions : Calm(t)
  BY <1>1, <1>2, <1>3, <1>4 DEF Calm
<1> QED BY <1>5, AllCalm

\* Tasks of strand_ that neither rename nor take leave: the entries that go are those of
\* sessions that are gone, or all of them when the server closes.
LEMMA TaskNames ==
    ASSUME TypeOK, NameInv, StopKnown, Remember,
           StrandJoin \/ StrandList \/ StrandJoinRoom \/ StrandCloseAll
    PROVE  NameInv'
<1> USE DEF clientVars, answerVars, roomVars, stopVars
<1>1. PICK op \in {"join", "list", "joinRoom", "closeAll"} :
        Take(op) /\ (op = "closeAll" => StrandCloseAll)
  BY DEF StrandJoin, StrandList, StrandJoinRoom, StrandCloseAll
<1>2. /\ UNCHANGED <<conn, handler, nick, results, writeFailed>>
      /\ \/ running' = running
         \/ running'.op = "joinLock"
  BY DEF StrandJoin, StrandList, StrandJoinRoom, StrandCloseAll, Run
<1>3. Stopped => Stopped'
  BY DEF StrandJoin, StrandList, StrandJoinRoom, StrandCloseAll, Stopped
<1>4. /\ nicknames \in [Nicks -> Sessions \cup {None}] /\ \A t \in Sessions : t # None
  BY ConstantsAssumption DEF TypeOK, ConstantsAssumption
<1>5. \A n \in Nicks : nicknames'[n] \in {nicknames[n], None}
  BY <1>4 DEF StrandJoin, StrandList, StrandJoinRoom, StrandCloseAll
<1>6. \/ Stopped'
      \/ \A n \in Nicks : nicknames'[n] = nicknames[n] \/ Expired(n)
  BY <1>4 DEF StrandJoin, StrandList, StrandJoinRoom, StrandCloseAll, Stopped
<1>7. ASSUME NEW t \in Sessions PROVE Calm(t)
  <2>1. NameFacts(t)
    BY DEF NameInv
  <2>2. OneNick(t)
    BY <2>1 DEF NameFacts, OneRename
  <2>3. /\ Queued({"nick"}, t) <=> Queued({"nick"}, t)'
        /\ Queued({"leave"}, t) <=> Queued({"leave"}, t)'
        /\ OneNick(t)' /\ (NicksBefore(t) => NicksBefore(t)')
    BY <1>1, <2>2, TakeNicks
  <2>4. (LeaveDue(t)' => LeaveDue(t)) /\ (LeaveUnderWay(t)' => LeaveUnderWay(t))
    BY <1>2, <2>3 DEF LeaveDue, LeaveUnderWay
  <2>5. \A n \in Nicks : nicknames'[n] = t => nicknames[n] = t
    BY <1>4, <1>5
  <2>6. t \in Entered => t \in Entered' \/ Stopped' \/ conn[t] = "gone"
    BY <1>6 DEF Entered, Expired
  <2>7. t \in robbed => t \in robbed' \cup Entered'
    BY RememberIs
  <2> QED BY <1>2, <1>3, <2>3, <2>4, <2>5, <2>6, <2>7 DEF Calm
<1> QED BY <1>7, AllCalm

\* The rest of a task.  The last step of a leave may erase an entry of another session,
\* which is remembered, or the one of its own, which renames itself no more.
LEMMA BetweenNames ==
    ASSUME TypeOK, NameInv, Remember,
           JoinRoomLocked \/ JoinRoomAnnounce \/ LeaveLocked \/ LeaveEnd
    PROVE  NameInv'
<1> USE DEF clientVars, answerVars, roomVars, stopVars
<1>1. /\ UNCHANGED <<conn, handler, nick, results, writeFailed, strand, stopPhase>>
      /\ UNCHANGED nicknames \/ (LeaveEnd /\ running.op = "leaveEnd")
  BY DEF JoinRoomLocked, JoinRoomAnnounce, LeaveLocked, LeaveEnd
<1>2. \/ running'.op \in {"announce", "idle"}
      \/ running'.op = "leaveEnd" /\ running.op = "leaveLock" /\ running'.s = running.s
  BY DEF JoinRoomLocked, JoinRoomAnnounce, LeaveLocked, LeaveEnd, Run, NoTask
<1>3. nicknames \in [Nicks -> Sessions \cup {None}] /\ \A t \in Sessions : t # None
  BY ConstantsAssumption DEF TypeOK, ConstantsAssumption
<1>4. \A n \in Nicks : nicknames'[n] \in {nicknames[n], None}
  BY <1>1, <1>3 DEF LeaveEnd, Unregistered
<1>5. Stopped' <=> Stopped
  BY <1>1 DEF Stopped
<1>6. \A t : /\ Queued({"nick"}, t)' <=> Queued({"nick"}, t)
             /\ Queued({"leave"}, t)' <=> Queued({"leave"}, t)
             /\ OneNick(t)' <=> OneNick(t)
             /\ NicksBefore(t)' <=> NicksBefore(t)
  BY <1>1 DEF Queued, OneNick, NicksBefore
<1>7. ASSUME NEW t \in Sessions PROVE Calm(t)
  <2>1. LeaveLast(t)
    BY DEF NameInv, NameFacts
  <2>2. (LeaveDue(t)' => LeaveDue(t)) /\ (LeaveUnderWay(t)' => LeaveUnderWay(t))
    BY <1>2, <1>6 DEF LeaveDue, LeaveUnderWay
  <2>3. \A n \in Nicks : nicknames'[n] = t => nicknames[n] = t
    BY <1>3, <1>4
  <2>4. t \in robbed => t \in robbed' \cup Entered'
    BY RememberIs
  <2>5. t \in Entered => \/ t \in robbed' \cup Entered' \/ writeFailed[t]
                         \/ Over(t) /\ ~Queued({"nick"}, t)
    <3>1. CASE UNCHANGED nicknames
      BY <3>1 DEF Entered
    <3>2. CASE running.op = "leaveEnd" /\ running.s # t
      BY <3>2, RememberIs
    <3>3. CASE running.op = "leaveEnd" /\ running.s = t
      BY <2>1, <3>3 DEF LeaveLast, LeaveDue, LeaveUnderWay
    <3> QED BY <1>1, <3>1, <3>2, <3>3
  <2> QED BY <1>1, <1>5, <1>6, <2>2, <2>3, <2>4, <2>5 DEF Calm
<1> QED BY <1>7, AllCalm

\* A leave starts: no rename of its session is left behind it.
LEMMA LeaveNames ==
    ASSUME TypeOK, NameInv, Remember, StrandLeave
    PROVE  NameInv'
<1> USE DEF clientVars, answerVars, roomVars, stopVars
<1>1. /\ Take("leave")
      /\ UNCHANGED <<conn, handler, nick, results, writeFailed, nicknames, stopPhase>>
      /\ running' = running \/ (running'.op = "leaveLock" /\ running'.s = Current.s)
  BY DEF StrandLeave, Run
<1>2. PICK s \in Sessions : s = Current.s
  BY <1>1, TakeType DEF Task
<1>3. (Stopped' <=> Stopped) /\ Entered' = Entered
  BY <1>1 DEF Stopped, Entered
<1>4. ASSUME NEW t \in Sessions
      PROVE  /\ Queued({"nick"}, t)' <=> Queued({"nick"}, t)
             /\ Queued({"leave"}, t) <=> Queued({"leave"}, t)' \/ s = t
             /\ OneNick(t)' /\ (NicksBefore(t) => NicksBefore(t)')
             /\ NicksBefore(t) /\ s = t => ~Queued({"nick"}, t)'
  <2>1. OneNick(t)
    BY DEF NameInv, NameFacts, OneRename
  <2>2. /\ Queued({"nick"}, t) <=> Queued({"nick"}, t)' \/ ("leave" = "nick" /\ Current.s = t)
        /\ Queued({"leave"}, t) <=> Queued({"leave"}, t)' \/ ("leave" = "leave" /\ Current.s = t)
        /\ OneNick(t)' /\ (NicksBefore(t) => NicksBefore(t)')
        /\ NicksBefore(t) /\ "leave" = "leave" /\ Current.s = t => ~Queued({"nick"}, t)'
    BY <1>1, <2>1, TakeNicks
  <2> QED BY <1>2, <2>2
<1>5. ASSUME NEW t \in Sessions, t # s PROVE Calm(t)
  <2>1. (LeaveDue(t)' => LeaveDue(t)) /\ (LeaveUnderWay(t)' => LeaveUnderWay(t))
    BY <1>1, <1>2, <1>4, <1>5 DEF LeaveDue, LeaveUnderWay
  <2>2. t \in robbed => t \in robbed' \cup Entered'
    BY RememberIs
  <2> QED BY <1>1, <1>3, <1>4, <2>1, <2>2 DEF Calm
<1>6. OneRename(s) /\ Unnamed(s) /\ LeaveLast(s) /\ OneName(s) /\ Keeps(s)
  BY DEF NameInv, NameFacts
<1>7. LeaveDue(s) /\ conn[s] # "new"
  BY <1>4, <1>6 DEF LeaveDue, Unnamed
<1>8. OneRename(s)'
  BY <1>1, <1>4, <1>6 DEF OneRename
<1>9. Unnamed(s)'
  BY <1>1, <1>3, <1>6, <1>7 DEF Unnamed, Over, Idle
<1>10. LeaveLast(s)'
  BY <1>1, <1>4, <1>6, <1>7 DEF LeaveLast, Over
<1>11. Shown(s)' = Shown(s) /\ (Renaming(s)' => Renaming(s))
  BY <1>1, <1>4 DEF Shown, Renaming
<1>12. OneName(s)' /\ Keeps(s)'
  BY <1>1, <1>3, <1>6, <1>11, EntryStays
<1> QED BY <1>5, <1>8, <1>9, <1>10, <1>12, OneNamed DEF NameFacts

\* Who may lose an entry to the registration of a name for s: s itself, and the gone.
LEMMA RegisteredEntries ==
    ASSUME TypeOK, NEW s \in Sessions, NEW n \in Nicks, CanRegister(n, s), OneName(s),
           Shown(s) = nick[s], nicknames' = Registered(n, s)
    PROVE  /\ \A m \in Nicks : nicknames'[m] = s <=> m = n
           /\ \A t \in Sessions, m \in Nicks : t # s =>
                /\ nicknames'[m] = t => nicknames[m] = t
                /\ nicknames[m] = t => nicknames'[m] = t \/ conn[t] = "gone"
<1>1. /\ nicknames \in [Nicks -> Sessions \cup {None}] /\ s # None /\ None \notin Nicks
      /\ \A t \in Sessions : t # None
  BY ConstantsAssumption DEF TypeOK, ConstantsAssumption
<1> DEFINE base == IF nick[s] \in {None, n} THEN nicknames ELSE WithoutOld(s)
<1>2. /\ base \in [Nicks -> Sessions \cup {None}]
      /\ \A m \in Nicks : /\ base[m] \in {nicknames[m], None}
                          /\ base[m] # nicknames[m] => nicknames[m] = s \/ Expired(m)
                          /\ base[m] = s => m = n
  <2>1. CASE nick[s] \in {None, n}
    BY <1>1, <2>1 DEF OneName
  <2>2. CASE nick[s] \notin {None, n}
    <3>1. base = [nicknames EXCEPT ![nick[s]] =
                    IF nicknames[nick[s]] = s \/ Expired(nick[s]) THEN None
                    ELSE nicknames[nick[s]]]
      BY <2>2 DEF WithoutOld
    <3>2. nick[s] \in Nicks
      BY <2>2 DEF TypeOK, NickOrNone
    <3> HIDE DEF base
    <3> QED BY <1>1, <3>1, <3>2 DEF OneName
  <2> QED BY <2>1, <2>2
<1>3. nicknames' = [base EXCEPT ![n] = s]
  BY DEF Registered
<1> HIDE DEF base
<1>4. nicknames'[n] = s /\ \A m \in Nicks : m # n => nicknames'[m] = base[m]
  BY <1>2, <1>3
<1>5. nicknames[n] \in {None, s} \/ Expired(n)
  BY DEF CanRegister
<1>6. \A m \in Nicks : nicknames'[m] = s <=> m = n
  BY <1>2, <1>4
<1>7. ASSUME NEW t \in Sessions, NEW m \in Nicks, t # s
      PROVE  /\ nicknames'[m] = t => nicknames[m] = t
             /\ nicknames[m] = t => nicknames'[m] = t \/ conn[t] = "gone"
  <2>1. CASE m = n
    BY <1>1, <1>4, <1>5, <1>7, <2>1 DEF Expired
  <2>2. CASE m # n
    BY <1>1, <1>2, <1>4, <1>7, <2>2 DEF Expired
  <2> QED BY <2>1, <2>2
<1> QED BY <1>6, <1>7

\* A rename runs: it is the only one of its session, whose leaves all come later.
LEMMA NickNames ==
    ASSUME TypeOK, NameInv, Remember, StrandNick
    PROVE  NameInv' /\ OldNickKnown'
<1> USE DEF clientVars, answerVars, roomVars, stopVars
<1>1. /\ Take("nick")
      /\ UNCHANGED <<conn, handler, nick, writeFailed, stopPhase, running>>
  BY DEF StrandNick
<1>2. PICK s \in Sessions, n \in Nicks : s = Current.s /\ n = Current.arg
  BY <1>1, TakeType DEF Task
<1>3. OneRename(s) /\ Unnamed(s) /\ LeaveLast(s) /\ OneName(s) /\ Keeps(s)
  BY DEF NameInv, NameFacts
<1>4. \/ conn[s] = "gone" /\ UNCHANGED <<nicknames, results, fault>>
      \/ /\ results' = [results EXCEPT ![s] = Append(@, None)]
         /\ UNCHANGED <<nicknames, fault>>
      \/ /\ conn[s] # "gone" /\ CanRegister(n, s) /\ nicknames' = Registered(n, s)
         /\ results' = [results EXCEPT ![s] = Append(@, n)]
         /\ UNCHANGED fault
      \/ /\ conn[s] # "gone" /\ DerefsEnd(n, s) /\ UNCHANGED <<nicknames, results>>
  BY <1>2 DEF StrandNick
<1>5. (Stopped' <=> Stopped) /\ Alive /\ running.op = "idle"
  BY <1>1 DEF Stopped, Take
<1>6. ASSUME NEW t \in Sessions
      PROVE  /\ Queued({"nick"}, t) <=> Queued({"nick"}, t)' \/ s = t
             /\ Queued({"leave"}, t)' <=> Queued({"leave"}, t)
             /\ OneNick(t)' /\ (NicksBefore(t) => NicksBefore(t)')
             /\ s = t => ~Queued({"nick"}, t)'
  <2>1. OneNick(t)
    BY DEF NameInv, NameFacts, OneRename
  <2>2. /\ Queued({"nick"}, t) <=> Queued({"nick"}, t)' \/ ("nick" = "nick" /\ Current.s = t)
        /\ Queued({"leave"}, t) <=> Queued({"leave"}, t)' \/ ("nick" = "leave" /\ Current.s = t)
        /\ OneNick(t)' /\ (NicksBefore(t) => NicksBefore(t)')
        /\ "nick" = "nick" /\ Current.s = t => ~Queued({"nick"}, t)'
    BY <1>1, <2>1, TakeNicks
  <2> QED BY <1>2, <2>2
<1>7. \A t \in Sessions : (LeaveDue(t)' <=> LeaveDue(t)) /\ (LeaveUnderWay(t)' <=> LeaveUnderWay(t))
  BY <1>1, <1>6 DEF LeaveDue, LeaveUnderWay
<1>8. results[s] = <<>> /\ Queued({"nick"}, s)
  BY <1>3, <1>6 DEF OneRename
<1>9. conn[s] # "new" /\ Shown(s) = nick[s]
  BY <1>3, <1>8 DEF Unnamed, Shown
<1>10. results \in [Sessions -> Seq(NickOrNone)] /\ None \notin Nicks /\ s # None
  BY ConstantsAssumption DEF TypeOK, ConstantsAssumption
<1>11. \A t \in Sessions : t \in robbed => t \in robbed' \cup Entered'
  BY RememberIs
<1>12. \/ /\ nicknames' = nicknames
          /\ results' \in {results, [results EXCEPT ![s] = Append(@, None)]}
       \/ /\ \A m \in Nicks : nicknames'[m] = s <=> m = n
          /\ \A t \in Sessions, m \in Nicks : t # s =>
               /\ nicknames'[m] = t => nicknames[m] = t
               /\ nicknames[m] = t => nicknames'[m] = t \/ conn[t] = "gone"
          /\ results' = [results EXCEPT ![s] = Append(@, n)]
  <2>1. CASE conn[s] # "gone" /\ CanRegister(n, s) /\ nicknames' = Registered(n, s)
             /\ results' = [results EXCEPT ![s] = Append(@, n)]
    BY <1>3, <1>9, <2>1, RegisteredEntries
  <2>2. CASE nicknames' = nicknames /\ results' = results
    BY <2>2
  <2>3. CASE nicknames' = nicknames /\ results' = [results EXCEPT ![s] = Append(@, None)]
    BY <2>3
  <2> QED BY ONLY <1>4, <2>1, <2>2, <2>3, Zenon
<1>13. ASSUME NEW t \in Sessions, t # s PROVE Calm(t)
  <2>1. results'[t] = results[t]
    BY <1>4, <1>10, <1>13
  <2>2. \A m \in Nicks : /\ nicknames'[m] = t => nicknames[m] = t
                         /\ nicknames[m] = t => nicknames'[m] = t \/ conn[t] = "gone"
    BY <1>12, <1>13
  <2>3. t \in Entered => t \in Entered' \/ conn[t] = "gone"
    BY <2>2 DEF Entered
  <2> QED BY <1>1, <1>5, <1>6, <1>7, <1>11, <1>13, <2>1, <2>2, <2>3 DEF Calm
<1>14. \/ nicknames' = nicknames /\ results'[s] \in {<<>>, <<None>>}
       \/ (\A m \in Nicks : nicknames'[m] = s <=> m = n) /\ results'[s] = <<n>>
  BY <1>8, <1>10, <1>12
<1>15. OneRename(s)'
  <2>1. handler[s].op # "nick"
    BY <1>3, <1>8 DEF OneRename
  <2>2. Tail(<<None>>) = <<>> /\ Tail(<<n>>) = <<>>
    OBVIOUS
  <2>3. results'[s] # <<>> => Tail(results'[s]) = <<>>
    BY ONLY <1>14, <2>2, Zenon
  <2> QED BY <1>1, <1>6, <2>1, <2>3 DEF OneRename
<1>16. Unnamed(s)'
  BY <1>1, <1>3, <1>5, <1>9 DEF Unnamed, Over, Idle
<1>17. LeaveLast(s)'
  BY <1>1, <1>3, <1>6, <1>7 DEF LeaveLast, Over
<1>18. OneName(s)' /\ Keeps(s)'
  <2>1. CASE nicknames' = nicknames /\ results'[s] \in {<<>>, <<None>>}
    <3>1. Shown(s)' = Shown(s)
      BY <1>1, <1>9, <2>1 DEF Shown
    <3>2. (Renaming(s)' => Renaming(s)) /\ (writeFailed[s] => writeFailed'[s])
      BY <1>1, <1>8 DEF Renaming
    <3> QED BY <1>3, <1>5, <2>1, <3>1, <3>2, EntryStays
  <2>2. CASE (\A m \in Nicks : nicknames'[m] = s <=> m = n) /\ results'[s] = <<n>>
    <3>1. Shown(s)' = n
      BY <1>10, <2>2 DEF Shown
    <3> QED BY <2>2, <3>1 DEF OneName, Keeps, Entered
  <2> QED BY <1>14, <2>1, <2>2
<1>19. NameInv'
  BY <1>13, <1>15, <1>16, <1>17, <1>18, OneNamed DEF NameFacts
<1>20. OldNickKnown'
  <2> SUFFICES ASSUME fault' = "endDeref", robbed' = {}, ~Stopped', ~writeFailed'[s]
               PROVE  FALSE
    BY DEF OldNickKnown
  <2>1. conn[s] # "gone" /\ DerefsEnd(n, s) /\ nicknames' = nicknames
    BY <1>4, <1>5 DEF Alive
  <2>2. nick[s] # None /\ nicknames[nick[s]] = None /\ Entered' = Entered
    BY <2>1 DEF DerefsEnd, Entered
  <2>3. s \in Entered
    BY <1>1, <1>3, <1>5, <1>8, <1>9, <1>11, <2>1, <2>2 DEF Keeps, Renaming
  <2>4. PICK m \in Nicks : nicknames[m] = s
    BY <2>3 DEF Entered
  <2>5. m = nick[s]
    BY <1>3, <1>9, <2>4 DEF OneName
  <2> QED BY <1>10, <2>2, <2>4, <2>5
<1> QED BY <1>19, <1>20

-----------------------------------------------------------------------------
(* The invariant for nicknames.                                            *)

\* The closing task is queued, and sessions are told to close, by stop() only.
LEMMA StopKnownStep == ASSUME TypeOK, StopKnown, [Next]_vars PROVE StopKnown'
<1> USE DEF clientVars, answerVars, roomVars, stopVars
<1>1. CASE UNCHANGED vars
  BY <1>1 DEF vars, StopKnown, Queued, Stopped
<1>2. ASSUME NEW s \in Sessions, SessionStep(s) PROVE StopKnown'
  <2>1. UNCHANGED stopPhase /\ closing' \subseteq closing
    BY <1>2 DEF SessionStep, ClientStep, HandlerStep, OnAccept, OnAcceptFail, OnReadNick,
         OnReadList, OnReadJoin, OnReadLeave, OnReadSay, OnReadEnd, OnWriteFail, Dispatch,
         ClearRoom, SayDone, RunResult, RunReply, StopSession, Destroy
  <2>2. \/ UNCHANGED strand
        \/ \E op \in {"join", "nick", "list", "joinRoom", "leave"} : \E arg : Enqueue(op, s, arg)
    BY <1>2 DEF SessionStep, ClientStep, HandlerStep, OnAccept, OnAcceptFail, OnReadNick,
         OnReadList, OnReadJoin, OnReadLeave, OnReadSay, OnReadEnd, OnWriteFail, Dispatch,
         ClearRoom, SayDone, RunResult, RunReply, StopSession, Destroy, RequestLeave
  <2>3. \A q : Queued({"closeAll"}, q)' => Queued({"closeAll"}, q)
    <3>1. CASE UNCHANGED strand
      BY <3>1 DEF Queued
    <3>2. ASSUME NEW op \in {"join", "nick", "list", "joinRoom", "leave"}, NEW arg,
                 Enqueue(op, s, arg), NEW q
          PROVE  Queued({"closeAll"}, q)' => Queued({"closeAll"}, q)
      <4>1. Queued({"closeAll"}, q)' <=> Queued({"closeAll"}, q) \/ (op \in {"closeAll"} /\ s = q)
        BY <3>2, EnqueueQueued
      <4> QED BY <4>1
    <3> QED BY <2>2, <3>1, <3>2
  <2> QED BY <2>1, <2>3 DEF StopKnown, Stopped
<1>3. CASE StrandStep
  <2>1. \A q : Queued({"closeAll"}, q)' => Queued({"closeAll"}, q)
    <3>1. UNCHANGED strand \/ \E op : Take(op)
      BY <1>3 DEF StrandStep, StrandJoin, StrandNick, StrandList, StrandJoinRoom,
           JoinRoomLocked, JoinRoomAnnounce, StrandLeave, LeaveLocked, LeaveEnd, StrandCloseAll
    <3>2. CASE UNCHANGED strand
      BY <3>2 DEF Queued
    <3>3. ASSUME NEW op, Take(op), NEW q PROVE Queued({"closeAll"}, q)' => Queued({"closeAll"}, q)
      <4>1. \A ops, p : Queued(ops, p) <=> Queued(ops, p)' \/ (op \in ops /\ Current.s = p)
        BY <3>3, TakeQueued
      <4> QED BY <4>1
    <3> QED BY <3>1, <3>2, <3>3
  <2>2. Stopped' \/ (UNCHANGED <<stopPhase, closing>>)
    BY <1>3 DEF StrandStep, StrandJoin, StrandNick, StrandList, StrandJoinRoom, Stopped,
         JoinRoomLocked, JoinRoomAnnounce, StrandLeave, LeaveLocked, LeaveEnd, StrandCloseAll
  <2> QED BY <2>1, <2>2 DEF StopKnown, Stopped
<1>4. CASE Stop \/ StopPosted
  BY <1>4 DEF Stop, StopPosted, StopKnown, Stopped
<1> QED BY <1>1, <1>2, <1>3, <1>4 DEF Next

\* Only a rename dereferences the end of the map, and nothing happens after that.
LEMMA OnlyRenames == ASSUME Next, ~StrandNick PROVE fault' # "endDeref"
<1> USE DEF clientVars, answerVars, roomVars, stopVars, Alive
<1>1. ASSUME NEW s \in Sessions, SessionStep(s) PROVE fault' # "endDeref"
  BY <1>1 DEF SessionStep, ClientStep, HandlerStep, OnAccept, OnAcceptFail, OnReadNick,
       OnReadList, OnReadJoin, OnReadLeave, OnReadSay, OnReadEnd, OnWriteFail, Dispatch,
       ClearRoom, SayDone, RunResult, RunReply, StopSession, Destroy, Command, Dangling
<1>2. StrandStep => fault' # "endDeref"
  BY DEF StrandStep, StrandJoin, StrandList, StrandJoinRoom, JoinRoomLocked, JoinRoomAnnounce,
         StrandLeave, LeaveLocked, LeaveEnd, StrandCloseAll, Take
<1>3. Stop \/ StopPosted => fault' # "endDeref"
  BY DEF Stop, StopPosted
<1> QED BY <1>1, <1>2, <1>3 DEF Next

LEMMA NamesStep ==
    ASSUME TypeOK, NamesInv, Patient, [NamesNext]_nameVars
    PROVE  NamesInv'
<1> USE DEF NamesInv
<1>1. CASE UNCHANGED nameVars
  <2>1. NameInv'
    BY <1>1 DEF nameVars, vars, NameInv, NameFacts, OneRename, Unnamed, LeaveLast, OneName,
         Keeps, Renaming, Shown, Entered, Over, Stopped, Idle, OneNick, NicksBefore, LeaveDue,
         LeaveUnderWay, Queued
  <2>2. OldNickKnown' /\ StopKnown'
    BY <1>1 DEF nameVars, vars, OldNickKnown, StopKnown, Stopped, Queued
  <2> QED BY <2>1, <2>2
<1>2. CASE Next /\ Remember
  <2>1. StopKnown'
    BY <1>2, StopKnownStep
  <2>2. ~StrandNick => OldNickKnown'
    BY <1>2, OnlyRenames DEF OldNickKnown
  <2>3. CASE StrandNick
    BY <1>2, <2>1, <2>3, NickNames
  <2>4. ASSUME NEW s \in Sessions, SessionStep(s) PROVE NameInv'
    <3>1. CASE OnAccept(s) \/ OnAcceptFail(s) \/ StopSession(s) \/ Destroy(s)
      BY <1>2, <3>1, ConnNames DEF StopKnown
    <3>2. CASE \/ \E n \in Nicks : OnReadNick(s, n)
               \/ OnReadList(s) \/ OnReadSay(s)
               \/ \E r \in Rooms : OnReadJoin(s, r) \/ OnReadLeave(s, r)
      BY <1>2, <3>2, ReadNames
    <3>3. CASE Dispatch(s)
      BY <1>2, <3>3, DispatchNames
    <3>4. CASE OnReadEnd(s) \/ OnWriteFail(s)
      BY <1>2, <3>4, EndNames
    <3>5. CASE RunResult(s)
      BY <1>2, <3>5, ResultNames
    <3>6. CASE ClearRoom(s) \/ SayDone(s) \/ RunReply(s)
      BY <1>2, <3>6, QuietNames
    <3> QED BY <2>4, <3>1, <3>2, <3>3, <3>4, <3>5, <3>6 DEF SessionStep, ClientStep, HandlerStep
  <2>5. CASE StrandStep
    BY <1>2, <2>3, <2>5, TaskNames, BetweenNames, LeaveNames, <2>1, <2>2 DEF StrandStep
  <2>6. CASE Stop
    BY <1>2, <2>1, <2>2, <2>3, <2>6, QuietNames
  <2>7. CASE StopPosted
    BY <1>2, <2>1, <2>2, <2>3, <2>7, PostedNames
  <2> QED BY <1>2, <2>1, <2>2, <2>3, <2>4, <2>5, <2>6, <2>7 DEF Next
<1> QED BY <1>1, <1>2 DEF NamesNext

\* The inductive invariant for nicknames: what a session shows, or will show once the
\* answer on its way has come, is the one entry it may have, and it keeps that entry as
\* long as its connection is there or its rename is to run.
THEOREM NamesAlways == Patient => (NamesSpec => []NamesInv)
<1> SUFFICES ASSUME Patient PROVE NamesSpec => []NamesInv
  OBVIOUS
<1>1. NamesInit => NamesInv
  <2> SUFFICES ASSUME NamesInit PROVE NamesInv
    OBVIOUS
  <2>1. /\ Init /\ robbed = {} /\ strand = <<>> /\ closing = {} /\ fault = "none"
        /\ running.op = "idle" /\ \A ops, q : ~Queued(ops, q)
    BY DEF NamesInit, Init, NoTask, Queued
  <2>2. ASSUME NEW s \in Sessions PROVE NameFacts(s)
    <3>1. /\ conn[s] = "new" /\ handler[s].op = "idle" /\ nick[s] = None /\ results[s] = <<>>
          /\ Idle(s) /\ ~Over(s) /\ ~LeaveDue(s) /\ ~LeaveUnderWay(s) /\ s # None
      BY <2>1, ConstantsAssumption DEF Init, NoHandler, Idle, Over, LeaveDue, LeaveUnderWay,
           ConstantsAssumption
    <3>2. OneRename(s) /\ Unnamed(s) /\ LeaveLast(s)
      BY <2>1, <3>1 DEF OneRename, OneNick, Unnamed, LeaveLast, NicksBefore
    <3>3. OneName(s) /\ Keeps(s)
      BY <2>1, <3>1 DEF Init, OneName, Keeps, Shown
    <3> QED BY <3>2, <3>3 DEF NameFacts
  <2> QED BY <2>1, <2>2 DEF NamesInv, NameInv, OldNickKnown, StopKnown
<1>2. TypeOK /\ NamesInv /\ [NamesNext]_nameVars => NamesInv'
  BY NamesStep
<1>3. NamesInit => Init
  BY DEF NamesInit
<1>4. [NamesNext]_nameVars => [Next]_vars
  BY DEF NamesNext, nameVars
<1> QED BY <1>1, <1>2, <1>3, <1>4, TypeCorrect, PTL DEF NamesSpec, Spec

\* Of a client that waits for its answers, however it hangs up: nicknames_ holds nothing
\* for it but the nickname it was told, and does hold that while its connection is there,
\* unless a write to it failed or the leave of another session erased it.
THEOREM NicksAlwaysAgree == Patient => (NamesSpec => []NicksAgree)
<1>1. NamesInv => NicksAgree
  <2> SUFFICES ASSUME NameInv, ~Stopped, NEW s \in Sessions, NEW n \in Nicks, results[s] = <<>>
               PROVE  /\ nicknames[n] = s => nick[s] = n
                      /\ nick[s] = n /\ conn[s] = "open" /\ ~writeFailed[s] /\ s \notin robbed
                           => nicknames[n] = s
    BY DEF NicksAgree, NamesInv
  <2>1. OneName(s) /\ Keeps(s) /\ Shown(s) = nick[s]
    BY DEF NameInv, NameFacts, Shown
  <2>2. n # None
    BY ConstantsAssumption DEF ConstantsAssumption
  <2>3. ASSUME nick[s] = n, conn[s] = "open", ~writeFailed[s], s \notin robbed
        PROVE  nicknames[n] = s
    BY <2>1, <2>2, <2>3 DEF OneName, Keeps, Renaming, Entered
  <2> QED BY <2>1, <2>3 DEF OneName
<1> QED BY <1>1, NamesAlways, PTL

\* With clients that wait for their answers the end of the map is dereferenced only after
\* a leave erased the nickname of another session, a write failed or stop() was called.
THEOREM OldNickAlwaysKnown == Patient => (NamesSpec => []OldNickKnown)
<1>1. NamesInv => OldNickKnown
  BY DEF NamesInv
<1> QED BY <1>1, NamesAlways, PTL

=============================================================================
