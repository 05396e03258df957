-------------------------- MODULE ChatServerProofs --------------------------
(* Proofs about ChatServer, for every value of its constants and whatever  *)
(* the clients do: types, rooms, shutdown, nicknames, departures.          *)
EXTENDS ChatServer, FiniteSetTheorems, TLAPS

-----------------------------------------------------------------------------
(* Type correctness.                                                       *)

\* What a step takes off strand_ is a task, and what stays is a queue of tasks.
LEMMA TakeType ==
    ASSUME TypeOK, NEW op, Take(op)
    PROVE  /\ Current \in Task /\ Current.op = op
           /\ strand' \in Seq(Task)
  BY DEF TypeOK, Take, Current

\* Queueing a task keeps strand_ a queue of tasks.
LEMMA EnqueueType ==
    ASSUME TypeOK, NEW op, NEW s, NEW arg,
           [op |-> op, s |-> s, arg |-> arg] \in Task,
           Enqueue(op, s, arg)
    PROVE  strand' \in Seq(Task)
  BY DEF TypeOK, Enqueue

\* Starting or ending a handler keeps the handlers well formed.
LEMMA HandlerType ==
    ASSUME TypeOK, NEW s \in Sessions
    PROVE  /\ Finish(s) => handler' \in [Sessions -> Handler]
           /\ \A op, arg, seen :
                [op |-> op, arg |-> arg, seen |-> seen] \in Handler /\ Begin(s, op, arg, seen)
                    => handler' \in [Sessions -> Handler]
<1>1. NoHandler \in Handler
  BY DEF NoHandler, Handler
<1>2. Finish(s) => handler' \in [Sessions -> Handler]
  BY <1>1 DEF TypeOK, Finish
<1>3. ASSUME NEW op, NEW arg, NEW seen,
             [op |-> op, arg |-> arg, seen |-> seen] \in Handler, Begin(s, op, arg, seen)
      PROVE  handler' \in [Sessions -> Handler]
  BY <1>3 DEF TypeOK, Begin
<1> QED BY <1>2, <1>3

\* Removing a participant keeps the rooms well formed.
LEMMA RemoveType ==
    ASSUME TypeOK, NEW s \in Sessions, NEW r \in Rooms, RemoveFromRoom(s, r)
    PROVE  /\ members' \in [Rooms -> SUBSET Sessions]
           /\ rooms' \subseteq Rooms
           /\ room' \in [Sessions -> RoomOrNone]
  BY DEF TypeOK, RemoveFromRoom, RoomOrNone

LEMMA InitType == ASSUME ConstantsAssumption PROVE Init => TypeOK
  BY ConstantsAssumption DEF ConstantsAssumption, Init, TypeOK, ConnStates, Handler, NoHandler, NickOrNone, RoomOrNone,
         Task, Running, NoTask, StopPhases, Faults

\* Reading a message counts it, and closes the connection whose write failed.
LEMMA CommandType ==
    ASSUME TypeOK, NEW s \in Sessions, Command(s)
    PROVE  /\ conn' \in [Sessions -> ConnStates]
           /\ cmds' \in 0..MaxCmds
           /\ writeFailed' \in [Sessions -> BOOLEAN]
  BY ConstantsAssumption DEF ConstantsAssumption, TypeOK, Command, ConnStates

LEMMA ClientType ==
    ASSUME TypeOK, NEW s \in Sessions, ClientStep(s)
    PROVE  TypeOK'
<1> USE ConstantsAssumption DEF ConstantsAssumption, clientVars, answerVars, roomVars, stopVars
<1>1. CASE OnAccept(s)
  <2>1. handler' \in [Sessions -> Handler]
    BY <1>1, HandlerType DEF OnAccept, Handler, TypeOK
  <2> QED BY <1>1, <2>1 DEF OnAccept, TypeOK, ConnStates
<1>2. CASE OnAcceptFail(s)
  BY <1>2 DEF OnAcceptFail, TypeOK, ConnStates
<1>3. ASSUME NEW n \in Nicks, OnReadNick(s, n) PROVE TypeOK'
  <2>1. handler' \in [Sessions -> Handler]
    BY <1>3, HandlerType DEF OnReadNick, Handler, TypeOK
  <2>2. replies' \in [Sessions -> Nat]
    BY <1>3 DEF OnReadNick, TypeOK, PostReply
  <2>3. /\ conn' \in [Sessions -> ConnStates]
        /\ cmds' \in 0..MaxCmds
        /\ writeFailed' \in [Sessions -> BOOLEAN]
    BY <1>3, CommandType DEF OnReadNick
  <2> QED BY <1>3, <2>1, <2>2, <2>3 DEF OnReadNick, TypeOK
<1>4. CASE OnReadList(s)
  <2>1. handler' \in [Sessions -> Handler]
    BY <1>4, HandlerType DEF OnReadList, Handler, TypeOK
  <2>2. replies' \in [Sessions -> Nat]
    <3>1. replies' = replies \/ replies' = [replies EXCEPT ![s] = replies[s] + 1]
      BY <1>4 DEF OnReadList, PostReply
    <3>2. replies \in [Sessions -> Nat] /\ replies[s] + 1 \in Nat
      BY DEF TypeOK
    <3>3. [replies EXCEPT ![s] = replies[s] + 1] \in [Sessions -> Nat]
      BY <3>2
    <3> QED BY <3>1, <3>2, <3>3
  <2>3. /\ conn' \in [Sessions -> ConnStates]
        /\ cmds' \in 0..MaxCmds
        /\ writeFailed' \in [Sessions -> BOOLEAN]
    BY <1>4, CommandType DEF OnReadList
  <2> QED BY <1>4, <2>1, <2>2, <2>3 DEF OnReadList, TypeOK
<1>5. ASSUME NEW r \in Rooms, OnReadJoin(s, r) PROVE TypeOK'
  <2>1. handler' \in [Sessions -> Handler]
    BY <1>5, HandlerType DEF OnReadJoin, Handler, TypeOK
  <2>2. /\ conn' \in [Sessions -> ConnStates]
        /\ cmds' \in 0..MaxCmds
        /\ writeFailed' \in [Sessions -> BOOLEAN]
    BY <1>5, CommandType DEF OnReadJoin
  <2> QED BY <1>5, <2>1, <2>2 DEF OnReadJoin, TypeOK
<1>6. ASSUME NEW r \in Rooms, OnReadLeave(s, r) PROVE TypeOK'
  <2>1. handler' \in [Sessions -> Handler]
    BY <1>6, HandlerType DEF OnReadLeave, Handler, TypeOK
  <2>2. /\ conn' \in [Sessions -> ConnStates]
        /\ cmds' \in 0..MaxCmds
        /\ writeFailed' \in [Sessions -> BOOLEAN]
    BY <1>6, CommandType DEF OnReadLeave
  <2> QED BY <1>6, <2>1, RemoveType, <2>2 DEF OnReadLeave, TypeOK
<1>7. CASE OnReadSay(s)
  <2>1. room[s] \in Rooms /\ members[room[s]] \subseteq Sessions
    BY <1>7 DEF OnReadSay, TypeOK
  <2>2. handler' \in [Sessions -> Handler]
    BY <1>7, <2>1, HandlerType DEF OnReadSay, Handler
  <2>3. /\ conn' \in [Sessions -> ConnStates]
        /\ cmds' \in 0..MaxCmds
        /\ writeFailed' \in [Sessions -> BOOLEAN]
    BY <1>7, CommandType DEF OnReadSay
  <2> QED BY <1>7, <2>2, <2>3 DEF OnReadSay, TypeOK
<1>8. CASE OnReadEnd(s)
  <2>1. strand' \in Seq(Task)
    BY <1>8, EnqueueType DEF OnReadEnd, RequestLeave, Task, TypeOK
  <2> QED BY <1>8, <2>1 DEF OnReadEnd, TypeOK, ConnStates
<1>9. CASE OnWriteFail(s)
  <2>1. strand' \in Seq(Task)
    BY <1>9, EnqueueType DEF OnWriteFail, RequestLeave, Task, TypeOK
  <2> QED BY <1>9, <2>1 DEF OnWriteFail, TypeOK
<1> QED BY <1>1, <1>2, <1>3, <1>4, <1>5, <1>6, <1>7, <1>8, <1>9 DEF ClientStep

LEMMA HandlerStepType ==
    ASSUME TypeOK, NEW s \in Sessions,
           HandlerStep(s) \/ RunResult(s) \/ RunReply(s) \/ StopSession(s) \/ Destroy(s)
    PROVE  TypeOK'
<1> USE ConstantsAssumption DEF ConstantsAssumption, clientVars, answerVars, roomVars, stopVars
<1>1. CASE Dispatch(s)
  <2>1. handler' \in [Sessions -> Handler]
    BY <1>1, HandlerType DEF Dispatch
  <2>2. [op |-> handler[s].op, s |-> s, arg |-> handler[s].arg] \in Task
    BY <1>1 DEF Dispatch, TypeOK, Handler, Task
  <2>3. strand' \in Seq(Task)
    BY <1>1, <2>2, EnqueueType DEF Dispatch
  <2> QED BY <1>1, <2>1, <2>3 DEF Dispatch, TypeOK
<1>2. CASE ClearRoom(s)
  BY <1>2, HandlerType DEF ClearRoom, TypeOK, RoomOrNone
<1>3. CASE SayDone(s)
  BY <1>3, HandlerType DEF SayDone, TypeOK, Faults
<1>4. CASE RunResult(s)
  <2>1. Head(results[s]) \in NickOrNone /\ Tail(results[s]) \in Seq(NickOrNone)
    BY <1>4 DEF RunResult, TypeOK
  <2>2. nick' \in [Sessions -> NickOrNone] /\ results' \in [Sessions -> Seq(NickOrNone)]
    BY <1>4, <2>1 DEF RunResult, TypeOK
  <2> QED BY <1>4, <2>2 DEF RunResult, TypeOK, Dangling, Faults
<1>5. CASE RunReply(s)
  BY <1>5 DEF RunReply, TypeOK, Dangling, Faults
<1>6. CASE StopSession(s)
  BY <1>6 DEF StopSession, TypeOK, ConnStates
<1>7. CASE Destroy(s)
  BY <1>7 DEF Destroy, TypeOK, ConnStates
<1> QED BY <1>1, <1>2, <1>3, <1>4, <1>5, <1>6, <1>7 DEF HandlerStep

\* Starting a task, or a later half of it, keeps running well formed.
LEMMA NoTaskType == NoTask \in Running
  BY DEF NoTask, Running

\* The nickname table after a registration.
LEMMA RegisteredType ==
    ASSUME TypeOK, NEW n \in Nicks, NEW s \in Sessions
    PROVE  Registered(n, s) \in [Nicks -> Sessions \cup {None}]
<1> DEFINE kept == IF nicknames[nick[s]] = s \/ Expired(nick[s]) THEN None
                    ELSE nicknames[nick[s]]
<1>1. WithoutOld(s) = [nicknames EXCEPT ![nick[s]] = kept]
  BY DEF WithoutOld
<1>2. nick[s] \in Nicks => kept \in Sessions \cup {None}
  BY DEF TypeOK
<1> HIDE DEF kept
<1>3. WithoutOld(s) \in [Nicks -> Sessions \cup {None}]
  BY <1>1, <1>2 DEF TypeOK
<1>4. nicknames \in [Nicks -> Sessions \cup {None}]
  BY DEF TypeOK
<1>5. PICK f \in [Nicks -> Sessions \cup {None}] : Registered(n, s) = [f EXCEPT ![n] = s]
  BY <1>3, <1>4 DEF Registered
<1> QED BY <1>5

\* Posting an answer to a session's strand.
LEMMA AnswerType ==
    ASSUME TypeOK, NEW s \in Sessions, NEW a \in NickOrNone
    PROVE  [results EXCEPT ![s] = Append(@, a)] \in [Sessions -> Seq(NickOrNone)]
<1>1. Append(results[s], a) \in Seq(NickOrNone)
  BY DEF TypeOK
<1> QED BY <1>1 DEF TypeOK

\* Leaving the old room and joining the new one keep participants sessions.
LEMMA AdmitType ==
    ASSUME TypeOK, NEW s \in Sessions, NEW old, NEW r \in Rooms
    PROVE  /\ LeftOld(s, old, r) \in [Rooms -> SUBSET Sessions]
           /\ Admit(LeftOld(s, old, r), r, s) \in [Rooms -> SUBSET Sessions]
<1>1. LeftOld(s, old, r) \in [Rooms -> SUBSET Sessions]
  BY DEF LeftOld, TypeOK
<1> QED BY <1>1 DEF Admit

LEMMA StrandType == ASSUME TypeOK, StrandStep PROVE TypeOK'
<1> USE ConstantsAssumption DEF ConstantsAssumption, clientVars, answerVars, roomVars, stopVars
<1>1. CASE StrandJoin
  <2>1. Current.s \in Sessions /\ strand' \in Seq(Task)
    BY <1>1, TakeType DEF StrandJoin, Task
  <2> QED BY <1>1, <2>1 DEF StrandJoin, TypeOK
<1>2. CASE StrandNick
  <2>1. Current.s \in Sessions /\ Current.arg \in Nicks /\ strand' \in Seq(Task)
    BY <1>2, TakeType DEF StrandNick, Task
  <2>2. Registered(Current.arg, Current.s) \in [Nicks -> Sessions \cup {None}]
    BY <2>1, RegisteredType
  <2>3. nicknames' \in [Nicks -> Sessions \cup {None}]
    BY <1>2, <2>2 DEF StrandNick, TypeOK
  <2>4. \/ UNCHANGED results
        \/ \E a \in NickOrNone : results' = [results EXCEPT ![Current.s] = Append(@, a)]
    BY <1>2, <2>1 DEF StrandNick, NickOrNone
  <2>5. results' \in [Sessions -> Seq(NickOrNone)]
    <3>1. CASE UNCHANGED results
      BY <3>1 DEF TypeOK
    <3>2. ASSUME NEW a \in NickOrNone, results' = [results EXCEPT ![Current.s] = Append(@, a)]
          PROVE  results' \in [Sessions -> Seq(NickOrNone)]
      <4>1. [results EXCEPT ![Current.s] = Append(@, a)] \in [Sessions -> Seq(NickOrNone)]
        BY <2>1, AnswerType
      <4> QED BY <3>2, <4>1
    <3> QED BY <2>4, <3>1, <3>2
  <2>6. replies' \in [Sessions -> Nat] /\ fault' \in Faults
    BY <1>2 DEF StrandNick, PostReply, TypeOK, Faults
  <2> QED BY <1>2, <2>1, <2>3, <2>5, <2>6 DEF StrandNick, TypeOK
<1>3. CASE StrandList
  <2>1. Current.s \in Sessions /\ strand' \in Seq(Task)
    BY <1>3, TakeType DEF StrandList, Task
  <2> QED BY <1>3, <2>1 DEF StrandList, PostReply, TypeOK
<1>4. CASE StrandJoinRoom
  <2>1. Current.s \in Sessions /\ Current.arg \in Rooms /\ strand' \in Seq(Task)
    BY <1>4, TakeType DEF StrandJoinRoom, Task
  <2>2. running' \in Running
    BY <1>4, <2>1 DEF StrandJoinRoom, Run, Running, TypeOK
  <2> QED BY <1>4, <2>1, <2>2 DEF StrandJoinRoom, TypeOK
<1>5. CASE JoinRoomLocked
  <2>1. running.s \in Sessions /\ running.arg \in Rooms
    BY <1>5 DEF JoinRoomLocked, TypeOK, Running
  <2>2. members' \in [Rooms -> SUBSET Sessions]
    BY <1>5, <2>1, AdmitType DEF JoinRoomLocked
  <2>3. running' \in Running
    BY <1>5, <2>1, <2>2 DEF JoinRoomLocked, Run, Running, RoomOrNone
  <2>4. room' \in [Sessions -> RoomOrNone]
    BY <1>5, <2>1 DEF JoinRoomLocked, TypeOK, RoomOrNone
  <2>5. rooms' \subseteq Rooms
    BY <1>5, <2>1 DEF JoinRoomLocked, TypeOK
  <2> QED BY <1>5, <2>2, <2>3, <2>4, <2>5 DEF JoinRoomLocked, TypeOK
<1>6. CASE JoinRoomAnnounce
  BY <1>6, NoTaskType DEF JoinRoomAnnounce, TypeOK, Faults
<1>7. CASE StrandLeave
  <2>1. Current.s \in Sessions /\ Current.arg \in NickOrNone /\ strand' \in Seq(Task)
    BY <1>7, TakeType DEF StrandLeave, Task
  <2>2. running' \in Running
    BY <1>7, <2>1 DEF StrandLeave, Run, Running, TypeOK
  <2> QED BY <1>7, <2>1, <2>2 DEF StrandLeave, TypeOK
<1>8. CASE LeaveLocked
  <2>1. running.s \in Sessions /\ running.old \in RoomOrNone /\ running.arg \in NickOrNone
    BY <1>8 DEF LeaveLocked, TypeOK, Running
  <2>2. running' \in Running
    BY <1>8, <2>1 DEF LeaveLocked, Run, Running, RoomOrNone
  <2>3. CASE ~Stopped /\ running.old \in rooms
    <3>1. running.old \in Rooms
      BY <2>3 DEF TypeOK
    <3> QED BY <1>8, <2>1, <2>2, <2>3, <3>1, RemoveType DEF LeaveLocked, TypeOK
  <2>4. CASE ~(~Stopped /\ running.old \in rooms)
    BY <1>8, <2>2, <2>4 DEF LeaveLocked, TypeOK
  <2> QED BY <2>3, <2>4
<1>9. CASE LeaveEnd
  <2>1. running.s \in Sessions
    BY <1>9 DEF LeaveEnd, TypeOK, Running
  <2>2. nicknames' \in [Nicks -> Sessions \cup {None}]
    BY <1>9 DEF LeaveEnd, Unregistered, TypeOK
  <2> QED BY <1>9, <2>1, <2>2, NoTaskType DEF LeaveEnd, Deregistered, TypeOK, RoomOrNone
<1>10. CASE StrandCloseAll
  <2>1. strand' \in Seq(Task)
    BY <1>10, TakeType DEF StrandCloseAll
  <2> QED BY <1>10, <2>1 DEF StrandCloseAll, TypeOK, StopPhases
<1> QED BY <1>1, <1>2, <1>3, <1>4, <1>5, <1>6, <1>7, <1>8, <1>9, <1>10 DEF StrandStep

LEMMA StopType == ASSUME TypeOK, Stop \/ StopPosted PROVE TypeOK'
<1> USE ConstantsAssumption DEF ConstantsAssumption, clientVars, answerVars, roomVars, stopVars
<1>1. CASE Stop
  BY <1>1 DEF Stop, TypeOK, StopPhases
<1>2. CASE StopPosted
  <2>1. strand' \in Seq(Task)
    BY <1>2, EnqueueType DEF StopPosted, Task
  <2> QED BY <1>2, <2>1 DEF StopPosted, TypeOK, StopPhases
<1> QED BY <1>1, <1>2

LEMMA NextType == ASSUME TypeOK, [Next]_vars PROVE TypeOK'
<1>1. ASSUME NEW s \in Sessions, SessionStep(s) PROVE TypeOK'
  BY <1>1, ClientType, HandlerStepType DEF SessionStep
<1>2. CASE UNCHANGED vars
  BY <1>2 DEF vars, TypeOK
<1> QED BY <1>1, <1>2, StrandType, StopType DEF Next

\* Every variable keeps its type: in particular a task, a handler and the task
\* under way carry arguments that fit what they do.
THEOREM TypeCorrect == Spec => []TypeOK
<1>1. Init => TypeOK
  BY InitType, ConstantsAssumption
<1>2. TypeOK /\ [Next]_vars => TypeOK'
  BY NextType
<1> QED BY <1>1, <1>2, PTL DEF Spec

-----------------------------------------------------------------------------
(* Rooms.                                                                  *)

\* Every step leaves rooms_ and the participants alone, takes one session out
\* of one room, joins one session to a room, or forgets all rooms.
LEMMA RoomSteps ==
    ASSUME TypeOK, [Next]_vars
    PROVE  \/ UNCHANGED roomVars
           \/ \E s \in Sessions, r \in rooms : RemoveFromRoom(s, r)
           \/ JoinRoomLocked
           \/ rooms' = {} /\ members' = [r \in Rooms |-> {}]
<1> USE DEF roomVars
<1>1. ASSUME NEW s \in Sessions, SessionStep(s)
      PROVE  UNCHANGED roomVars \/ \E q \in Sessions, r \in rooms : RemoveFromRoom(q, r)
  <2>1. ASSUME NEW r \in Rooms, OnReadLeave(s, r) PROVE r \in rooms /\ RemoveFromRoom(s, r)
    BY <2>1 DEF OnReadLeave
  <2>2. \/ UNCHANGED roomVars
        \/ \E r \in Rooms : OnReadLeave(s, r)
    BY <1>1 DEF SessionStep, ClientStep, HandlerStep, OnAccept, OnAcceptFail, OnReadNick,
         OnReadList, OnReadJoin, OnReadSay, OnReadEnd, OnWriteFail, Dispatch, ClearRoom,
         SayDone, RunResult, RunReply, StopSession, Destroy
  <2> QED BY <2>1, <2>2
<1>2. CASE StrandStep
  <2>1. CASE LeaveLocked
    <3>1. running.s \in Sessions
      BY <2>1 DEF LeaveLocked, TypeOK, Running
    <3> QED BY <2>1, <3>1 DEF LeaveLocked
  <2>2. CASE StrandStep /\ ~LeaveLocked
    BY <2>2 DEF StrandStep, StrandJoin, StrandNick, StrandList, StrandJoinRoom,
         JoinRoomAnnounce, StrandLeave, LeaveEnd, StrandCloseAll
  <2> QED BY <1>2, <2>1, <2>2
<1>3. CASE Stop \/ StopPosted
  BY <1>3 DEF Stop, StopPosted
<1>4. CASE UNCHANGED vars
  BY <1>4 DEF vars
<1> QED BY <1>1, <1>2, <1>3, <1>4 DEF Next

\* The participants after a join: the old room lost s or is as it was, the new
\* room has a participant, and no room but the new one gained any.
LEMMA JoinEffect ==
    ASSUME TypeOK, JoinRoomLocked
    PROVE  LET left == LeftOld(running.s, running.old, running.arg) IN
           /\ running.s \in Sessions /\ running.arg \in Rooms
           /\ left \in [Rooms -> SUBSET Sessions]
           /\ members' = Admit(left, running.arg, running.s)
           /\ members'[running.arg] # {}
           /\ \A q \in Rooms : q # running.arg => members'[q] = left[q]
           /\ \A q \in Rooms :
                left[q] = IF q = running.old /\ Moves(running.old, running.arg)
                          THEN members[q] \ {running.s} ELSE members[q]
<1> DEFINE s == running.s
           r == running.arg
           left == LeftOld(s, running.old, r)
<1>1. s \in Sessions /\ r \in Rooms
  BY DEF JoinRoomLocked, TypeOK, Running
<1>2. members' = Admit(left, r, s)
  BY DEF JoinRoomLocked
<1>3. left \in [Rooms -> SUBSET Sessions]
  BY <1>1, AdmitType
<1>4. \A q \in Rooms : left[q] = IF q = running.old /\ Moves(running.old, r)
                                 THEN members[q] \ {s} ELSE members[q]
  BY DEF LeftOld, TypeOK
<1>5. left[r] = {} => ~(Cardinality(left[r]) >= MaxParticipants)
  BY FS_EmptySet, ConstantsAssumption DEF ConstantsAssumption
<1> HIDE DEF left, s, r
<1>6. members'[r] # {} /\ \A q \in Rooms : q # r => members'[q] = left[q]
  BY <1>1, <1>2, <1>3, <1>5 DEF Admit
<1> QED BY <1>1, <1>2, <1>3, <1>4, <1>6 DEF left, s, r

LEMMA RoomsInUseStep == ASSUME TypeOK, RoomsInUse, [Next]_vars PROVE RoomsInUse'
<1>1. CASE UNCHANGED roomVars
  BY <1>1 DEF roomVars, RoomsInUse
<1>2. ASSUME NEW s \in Sessions, NEW r \in rooms, RemoveFromRoom(s, r) PROVE RoomsInUse'
  BY <1>2 DEF RemoveFromRoom, RoomsInUse, TypeOK
<1>3. CASE JoinRoomLocked
  <2> DEFINE s == running.s
             r == running.arg
             old == running.old
             left == LeftOld(s, old, r)
  <2>1. s \in Sessions /\ r \in Rooms
    BY <1>3 DEF JoinRoomLocked, TypeOK, Running
  <2>2. /\ members' = Admit(left, r, s)
        /\ rooms' = {r} \cup
                    (IF Moves(old, r) /\ left[old] = {} THEN rooms \ {old} ELSE rooms)
    BY <1>3 DEF JoinRoomLocked
  <2>3. /\ members'[r] # {}
        /\ \A q \in Rooms : q # r => members'[q] = left[q]
        /\ \A q \in Rooms : left[q] = IF q = old /\ Moves(old, r)
                                      THEN members[q] \ {s} ELSE members[q]
    BY <1>3, JoinEffect
  <2> HIDE DEF left, s, r, old
  <2>4. ASSUME NEW q \in Rooms PROVE q \in rooms' <=> members'[q] # {}
    <3>1. q \in rooms <=> members[q] # {}
      BY DEF RoomsInUse
    <3>2. CASE q = r
      BY <2>2, <2>3, <3>2
    <3>3. CASE q # r /\ q = old /\ Moves(old, r)
      BY <2>2, <2>3, <3>1, <3>3 DEF Moves
    <3>4. CASE q # r /\ ~(q = old /\ Moves(old, r))
      BY <2>2, <2>3, <3>1, <3>4
    <3> QED BY <3>2, <3>3, <3>4
  <2> QED BY <2>4 DEF RoomsInUse
<1>4. CASE rooms' = {} /\ members' = [r \in Rooms |-> {}]
  BY <1>4 DEF RoomsInUse
<1> QED BY <1>1, <1>2, <1>3, <1>4, RoomSteps

\* rooms_ holds a room exactly while it has a participant, whatever sessions
\* join, move, leave or are dropped, on whichever thread.
THEOREM RoomsInUseAlways == Spec => []RoomsInUse
<1>1. Init => RoomsInUse
  BY DEF Init, RoomsInUse
<1>2. TypeOK /\ RoomsInUse /\ [Next]_vars => RoomsInUse'
  BY RoomsInUseStep
<1> QED BY <1>1, <1>2, TypeCorrect, PTL DEF Spec

LEMMA CapacityStep ==
    ASSUME TypeOK, CapacityRespected, [Next]_vars
    PROVE  CapacityRespected'
<1> USE ConstantsAssumption DEF ConstantsAssumption
<1>1. \A r \in Rooms : IsFiniteSet(members[r]) /\ Cardinality(members[r]) \in Nat
  BY FS_Subset, FS_CardinalityType DEF TypeOK
<1>2. \A r \in Rooms, s \in Sessions : Cardinality(members[r] \ {s}) <= MaxParticipants
  <2> SUFFICES ASSUME NEW r \in Rooms, NEW s \in Sessions
               PROVE  Cardinality(members[r] \ {s}) <= MaxParticipants
    OBVIOUS
  <2>1. IsFiniteSet(members[r]) /\ members[r] \ {s} \subseteq members[r]
    BY <1>1
  <2>2. IsFiniteSet(members[r] \ {s}) /\ Cardinality(members[r] \ {s}) <= Cardinality(members[r])
    BY <2>1, FS_Subset
  <2>3. Cardinality(members[r] \ {s}) \in Nat
    BY <2>2, FS_CardinalityType
  <2> QED BY <1>1, <2>2, <2>3 DEF CapacityRespected
<1>3. CASE UNCHANGED roomVars
  BY <1>3 DEF roomVars, CapacityRespected
<1>4. ASSUME NEW s \in Sessions, NEW r \in rooms, RemoveFromRoom(s, r)
      PROVE  CapacityRespected'
  <2>1. \A q \in Rooms : members'[q] = IF q = r THEN members[q] \ {s} ELSE members[q]
    BY <1>4 DEF RemoveFromRoom, TypeOK
  <2> QED BY <1>2, <2>1 DEF CapacityRespected
<1>5. CASE JoinRoomLocked
  <2> DEFINE s == running.s
             r == running.arg
             old == running.old
             left == LeftOld(s, old, r)
  <2>1. s \in Sessions /\ r \in Rooms
    BY <1>5 DEF JoinRoomLocked, TypeOK, Running
  <2>2. members' = Admit(left, r, s)
    BY <1>5 DEF JoinRoomLocked
  <2>3. /\ \A q \in Rooms : q # r => members'[q] = left[q]
        /\ \A q \in Rooms : left[q] = IF q = old /\ Moves(old, r)
                                      THEN members[q] \ {s} ELSE members[q]
    BY <1>5, JoinEffect
  <2>4. left \in [Rooms -> SUBSET Sessions]
    BY <2>1, AdmitType
  <2> HIDE DEF left, s, r, old
  <2>5. \A q \in Rooms : Cardinality(left[q]) <= MaxParticipants
    BY <1>2, <2>1, <2>3 DEF CapacityRespected
  <2>6. IsFiniteSet(left[r]) /\ Cardinality(left[r]) \in Nat
    BY <2>1, <2>4, FS_Subset, FS_CardinalityType
  <2>7. Cardinality(members'[r]) <= MaxParticipants
    <3>1. CASE Cardinality(left[r]) >= MaxParticipants
      BY <2>1, <2>2, <2>5, <3>1 DEF Admit
    <3>2. CASE ~(Cardinality(left[r]) >= MaxParticipants)
      <4>1. members'[r] = left[r] \cup {s}
        BY <2>1, <2>2, <2>4, <3>2 DEF Admit
      <4>2. Cardinality(left[r] \cup {s}) \in {Cardinality(left[r]), Cardinality(left[r]) + 1}
        BY <2>6, FS_AddElement
      <4> QED BY <2>6, <3>2, <4>1, <4>2
    <3> QED BY <3>1, <3>2
  <2> QED BY <2>3, <2>5, <2>7 DEF CapacityRespected
<1>6. CASE rooms' = {} /\ members' = [r \in Rooms |-> {}]
  BY <1>6, FS_EmptySet DEF CapacityRespected
<1> QED BY <1>3, <1>4, <1>5, <1>6, RoomSteps

\* No room ever holds more than MaxParticipants sessions.
THEOREM CapacityAlways == Spec => []CapacityRespected
<1>1. Init => CapacityRespected
  BY FS_EmptySet, ConstantsAssumption DEF Init, CapacityRespected, ConstantsAssumption
<1>2. TypeOK /\ CapacityRespected /\ [Next]_vars => CapacityRespected'
  BY CapacityStep
<1> QED BY <1>1, <1>2, TypeCorrect, PTL DEF Spec

-----------------------------------------------------------------------------
(* The end of the server.                                                  *)

\* After the closing task the registries are empty, and no task that might fill
\* them again is part way through: each of those looks at stopped_ first.
ClosedInv ==
    stopPhase = "done" => sessions = {} /\ rooms = {} /\ running.op # "joinLock"

\* The closing task comes once, and nothing after it lists a session.
LEMMA ClosedStep == ASSUME ClosedInv, [Next]_vars PROVE ClosedInv'
<1> USE DEF clientVars, answerVars, roomVars, stopVars
<1>1. CASE UNCHANGED vars
  BY <1>1 DEF vars, ClosedInv
<1>2. CASE StrandCloseAll
  BY <1>2 DEF StrandCloseAll, Take, ClosedInv
<1>3. CASE Stop \/ StopPosted
  BY <1>3 DEF Stop, StopPosted, ClosedInv, Stopped
<1>4. ASSUME NEW s \in Sessions, SessionStep(s) PROVE ClosedInv'
  <2>1. UNCHANGED <<stopPhase, sessions, running>>
    BY <1>4 DEF SessionStep, ClientStep, HandlerStep, OnAccept, OnAcceptFail, OnReadNick,
         OnReadList, OnReadJoin, OnReadLeave, OnReadSay, OnReadEnd, OnWriteFail, Dispatch,
         ClearRoom, SayDone, RunResult, RunReply, StopSession, Destroy
  <2>2. stopPhase = "done" => rooms' = rooms
    BY <1>4 DEF SessionStep, ClientStep, HandlerStep, OnAccept, OnAcceptFail, OnReadNick,
         OnReadList, OnReadJoin, OnReadLeave, OnReadSay, OnReadEnd, OnWriteFail, Dispatch,
         ClearRoom, SayDone, RunResult, RunReply, StopSession, Destroy, Stopped
  <2> QED BY <2>1, <2>2 DEF ClosedInv
<1>5. CASE StrandStep /\ ~StrandCloseAll
  <2>1. stopPhase' = stopPhase
    BY <1>5 DEF StrandStep, StrandJoin, StrandNick, StrandList, StrandJoinRoom,
         JoinRoomLocked, JoinRoomAnnounce, StrandLeave, LeaveLocked, LeaveEnd
  <2>2. ASSUME stopPhase = "done"
        PROVE  /\ sessions' \subseteq sessions /\ rooms' = rooms
               /\ running' = running \/ running'.op # "joinLock"
    BY <1>5, <2>2 DEF StrandStep, StrandJoin, StrandNick, StrandList, StrandJoinRoom,
         JoinRoomLocked, JoinRoomAnnounce, StrandLeave, LeaveLocked, LeaveEnd, Stopped,
         Run, NoTask, ClosedInv, Deregistered
  <2> QED BY <2>1, <2>2 DEF ClosedInv
<1> QED BY <1>1, <1>2, <1>3, <1>4, <1>5 DEF Next

\* Once the closing task has run nothing puts a session or a room back, whatever
\* joins were queued before it or are dispatched after it.
THEOREM ShutdownStaysEmpty == Spec => []ShutdownEmpties
<1>1. Init => ClosedInv
  BY DEF Init, ClosedInv
<1>2. ClosedInv /\ [Next]_vars => ClosedInv'
  BY ClosedStep
<1>3. ClosedInv => ShutdownEmpties
  BY DEF ClosedInv, ShutdownEmpties
<1> QED BY <1>1, <1>2, <1>3, PTL DEF Spec

-----------------------------------------------------------------------------
(* Nicknames of live sessions.                                             *)

\* What LiveNickNotTaken says of one step.
NoneTaken ==
    \A n \in Nicks :
        nicknames[n] # None /\ ~Expired(n) => nicknames'[n] \in {nicknames[n], None}

LEMMA NoneTakenStep == ASSUME TypeOK, [Next]_vars PROVE NoneTaken
<1>1. nicknames \in [Nicks -> Sessions \cup {None}]
  BY DEF TypeOK
<1>2. CASE UNCHANGED nicknames
  BY <1>2 DEF NoneTaken
<1>3. CASE StrandNick
  <2> SUFFICES ASSUME NEW m \in Nicks, NEW s, CanRegister(m, s), nicknames' = Registered(m, s)
               PROVE  NoneTaken
    BY <1>2, <1>3, TakeType DEF StrandNick, Task
  <2> SUFFICES ASSUME NEW n \in Nicks, nicknames[n] # None, ~Expired(n)
               PROVE  Registered(m, s)[n] \in {nicknames[n], None}
    BY DEF NoneTaken
  <2> DEFINE base == IF nick[s] \in {None, m} THEN nicknames ELSE WithoutOld(s)
  <2>1. /\ DOMAIN base = Nicks
        /\ base[n] \in {nicknames[n], None}
    BY <1>1 DEF WithoutOld
  <2>2. Registered(m, s) = [base EXCEPT ![m] = s]
    BY DEF Registered
  <2> HIDE DEF base
  <2>3. CASE n = m
    BY <2>1, <2>2, <2>3 DEF CanRegister
  <2>4. CASE n # m
    BY <2>1, <2>2, <2>4
  <2> QED BY <2>3, <2>4
<1>4. CASE StrandList \/ StrandCloseAll
  BY <1>4 DEF StrandList, StrandCloseAll, NoneTaken
<1>5. CASE LeaveEnd
  BY <1>1, <1>5 DEF LeaveEnd, Unregistered, NoneTaken
<1>6. ASSUME NEW s \in Sessions, SessionStep(s) PROVE UNCHANGED nicknames
  BY <1>6 DEF SessionStep, ClientStep, HandlerStep, OnAccept, OnAcceptFail, OnReadNick, OnReadList,
              OnReadJoin, OnReadLeave, OnReadSay, OnReadEnd, OnWriteFail, Dispatch, ClearRoom,
              SayDone, RunResult, RunReply, StopSession, Destroy
<1>7. StrandJoin \/ StrandJoinRoom \/ JoinRoomLocked \/ JoinRoomAnnounce \/ StrandLeave
      \/ LeaveLocked \/ Stop \/ StopPosted => UNCHANGED nicknames
  BY DEF StrandJoin, StrandJoinRoom, JoinRoomLocked, JoinRoomAnnounce, StrandLeave, LeaveLocked,
         Stop, StopPosted
<1>8. UNCHANGED vars => UNCHANGED nicknames
  BY DEF vars
<1> QED BY <1>2, <1>3, <1>4, <1>5, <1>6, <1>7, <1>8 DEF Next, StrandStep

\* A nickname held by a session that still exists is never handed to another one in
\* one step: a request for it is refused until it is released.
THEOREM LiveNickKept == Spec => LiveNickNotTaken
<1>1. TypeOK /\ [Next]_vars => [NoneTaken]_vars
  BY NoneTakenStep
<1>2. TypeOK /\ [Next]_vars =>
        [\A n \in Nicks : nicknames[n] # None /\ ~Expired(n)
             => nicknames'[n] \in {nicknames[n], None}]_vars
  BY <1>1 DEF NoneTaken
<1> QED BY <1>2, TypeCorrect, PTL DEF Spec, LiveNickNotTaken

-----------------------------------------------------------------------------
(* The queue of strand_.                                                   *)

\* Appending a task leaves the others where they are.
LEMMA EnqueueShape ==
    ASSUME TypeOK, NEW op, NEW s, NEW arg, Enqueue(op, s, arg)
    PROVE  /\ \A i \in DOMAIN strand : i \in DOMAIN strand' /\ strand'[i] = strand[i]
           /\ DOMAIN strand' = DOMAIN strand \cup {Len(strand) + 1}
           /\ strand'[Len(strand) + 1].op = op /\ strand'[Len(strand) + 1].s = s
<1> DEFINE e == [op |-> op, s |-> s, arg |-> arg]
           n == Len(strand) + 1
<1>1. strand \in Seq(Task) /\ strand' = Append(strand, e)
  BY DEF TypeOK, Enqueue
<1>2. /\ DOMAIN strand' = DOMAIN strand \cup {n}
      /\ \A i \in DOMAIN strand : i \in DOMAIN strand' /\ strand'[i] = strand[i]
      /\ strand'[n] = e
  BY <1>1
<1>3. e.op = op /\ e.s = s
  OBVIOUS
<1> HIDE DEF e
<1> QED BY <1>2, <1>3

\* ... and adds itself to what is queued.
LEMMA EnqueueQueued ==
    ASSUME TypeOK, NEW op, NEW s, NEW arg, Enqueue(op, s, arg), NEW ops, NEW t
    PROVE  Queued(ops, t)' <=> Queued(ops, t) \/ (op \in ops /\ s = t)
<1> DEFINE n == Len(strand) + 1
<1>1. /\ \A i \in DOMAIN strand : i \in DOMAIN strand' /\ strand'[i] = strand[i]
      /\ DOMAIN strand' = DOMAIN strand \cup {n}
      /\ strand'[n].op = op /\ strand'[n].s = s
  BY EnqueueShape
<1> HIDE DEF n
<1> QED BY <1>1 DEF Queued

\* Taking a task off removes the first one and shifts the rest.
LEMMA TakeQueued ==
    ASSUME TypeOK, NEW op, Take(op)
    PROVE  /\ \A ops, t : Queued(ops, t) <=> Queued(ops, t)' \/ (op \in ops /\ Current.s = t)
           /\ Current = strand[1] /\ 1 \in DOMAIN strand /\ Current.op = op
           /\ \A i \in DOMAIN strand' : i + 1 \in DOMAIN strand /\ strand'[i] = strand[i + 1]
           /\ DOMAIN strand \subseteq Nat /\ DOMAIN strand' \subseteq Nat \ {0}
<1>1. strand \in Seq(Task) /\ strand # <<>> /\ strand' = Tail(strand) /\ Current.op = op
  BY DEF TypeOK, Take, Current
<1>2. /\ Current = strand[1]
      /\ 1 \in DOMAIN strand
      /\ DOMAIN strand = 1..Len(strand)
      /\ DOMAIN strand' = 1..(Len(strand) - 1)
      /\ Len(strand) \in Nat \ {0}
      /\ \A i \in DOMAIN strand' : i + 1 \in DOMAIN strand /\ strand'[i] = strand[i + 1]
  BY <1>1 DEF Current
<1>3. \A i \in DOMAIN strand : i = 1 \/ (i - 1 \in DOMAIN strand' /\ strand'[i - 1] = strand[i])
  BY <1>1, <1>2
<1>4. \A ops, t : Queued(ops, t) <=> Queued(ops, t)' \/ (op \in ops /\ Current.s = t)
  <2> SUFFICES ASSUME NEW ops, NEW t
               PROVE  Queued(ops, t) <=> Queued(ops, t)' \/ (op \in ops /\ Current.s = t)
    OBVIOUS
  <2>1. Queued(ops, t) => Queued(ops, t)' \/ (op \in ops /\ Current.s = t)
    BY <1>1, <1>2, <1>3 DEF Queued
  <2>2. Queued(ops, t)' => Queued(ops, t)
    BY <1>2 DEF Queued
  <2>3. op \in ops /\ Current.s = t => Queued(ops, t)
    BY <1>1, <1>2 DEF Queued
  <2> QED BY <2>1, <2>2, <2>3
<1> QED BY <1>1, <1>2, <1>4

\* The order of joins and leaves of s on strand_, the first half of JoinBeforeLeave.
Ordered(s) ==
    \A i, j \in DOMAIN strand :
        /\ strand[i].op = "join" /\ strand[i].s = s
        /\ strand[j].op = "leave" /\ strand[j].s = s
        => i < j

\* A queued task keeps the order unless it is a join queued after a leave.
LEMMA EnqueueOrdered ==
    ASSUME TypeOK, NEW op, NEW s, NEW arg, Enqueue(op, s, arg), NEW t, Ordered(t),
           op = "join" /\ s = t => ~Queued({"join", "leave"}, t)
    PROVE  Ordered(t)'
<1> DEFINE n == Len(strand) + 1
<1>1. /\ \A i \in DOMAIN strand : i \in DOMAIN strand' /\ strand'[i] = strand[i]
      /\ DOMAIN strand' = DOMAIN strand \cup {n}
      /\ strand'[n].op = op /\ strand'[n].s = s
  BY EnqueueShape
<1>2. \A i \in DOMAIN strand : i \in Nat /\ n \in Nat /\ i < n
  BY DEF TypeOK
<1> HIDE DEF n
<1>3. ASSUME NEW i \in DOMAIN strand', NEW j \in DOMAIN strand',
             strand'[i].op = "join", strand'[i].s = t,
             strand'[j].op = "leave", strand'[j].s = t
      PROVE  i < j
  <2>1. CASE i = n
    <3>1. op = "join" /\ s = t /\ j \in DOMAIN strand
      BY <1>1, <1>3, <2>1
    <3>2. Queued({"join", "leave"}, t)
      BY <1>1, <1>3, <3>1 DEF Queued
    <3> QED BY <3>1, <3>2
  <2>2. CASE i # n /\ j = n
    BY <1>1, <1>2, <2>2
  <2>3. CASE i # n /\ j # n
    BY <1>1, <1>3, <2>3 DEF Ordered
  <2> QED BY <2>1, <2>2, <2>3
<1> QED BY <1>3 DEF Ordered

\* Taking the first task keeps the order; when it is a leave of t, no join of t
\* is left behind it.
LEMMA TakeOrdered ==
    ASSUME TypeOK, NEW op, Take(op), NEW t, Ordered(t)
    PROVE  Ordered(t)' /\ (op = "leave" /\ Current.s = t => ~Queued({"join"}, t)')
<1>1. /\ Current = strand[1] /\ 1 \in DOMAIN strand /\ Current.op = op
      /\ \A i \in DOMAIN strand' : i + 1 \in DOMAIN strand /\ strand'[i] = strand[i + 1]
      /\ DOMAIN strand \subseteq Nat /\ DOMAIN strand' \subseteq Nat \ {0}
  BY TakeQueued
<1>2. Ordered(t)'
  <2> SUFFICES ASSUME NEW i \in DOMAIN strand', NEW j \in DOMAIN strand',
                      strand'[i].op = "join", strand'[i].s = t,
                      strand'[j].op = "leave", strand'[j].s = t
               PROVE  i < j
    BY DEF Ordered
  <2>1. i + 1 < j + 1
    BY <1>1 DEF Ordered
  <2> QED BY <1>1, <2>1
<1>3. ASSUME op = "leave", Current.s = t, Queued({"join"}, t)' PROVE FALSE
  <2>1. PICK i \in DOMAIN strand' : strand'[i].op = "join" /\ strand'[i].s = t
    BY <1>3 DEF Queued
  <2>2. i + 1 < 1
    BY <1>1, <1>3, <2>1 DEF Ordered
  <2> QED BY <1>1, <2>1, <2>2
<1> QED BY <1>2, <1>3

-----------------------------------------------------------------------------
(* Steps that touch none of it.                                            *)

\* A step that leaves strand_, sessions_ and stop alone, at most closes open
\* connections, and starts no join and no handler of a session that is not
\* accepted yet.
Neutral ==
    /\ UNCHANGED <<strand, sessions, running, stopPhase>>
    /\ \A t \in Sessions :
         /\ conn'[t] = conn[t] \/ (conn[t] = "open" /\ conn'[t] = "closed")
         /\ handler'[t] = handler[t] \/ (conn[t] # "new" /\ handler'[t].op # "join")

LEMMA NeutralStep == ASSUME DepartureInv, Neutral PROVE DepartureInv'
<1> SUFFICES ASSUME NEW t \in Sessions
             PROVE (NewUntouched(t) /\ JoinOnce(t) /\ JoinBeforeLeave(t) /\ LeaveFollows(t))'
  BY DEF DepartureInv
<1>1. NewUntouched(t) /\ JoinOnce(t) /\ JoinBeforeLeave(t) /\ LeaveFollows(t)
  BY DEF DepartureInv
<1>2. (NewUntouched(t) /\ JoinOnce(t) /\ LeaveFollows(t))'
  BY <1>1 DEF Neutral, NewUntouched, JoinOnce, LeaveFollows, LeaveDue, LeaveUnderWay,
              Queued, Idle, JoinDue, Stopped
<1>3. JoinBeforeLeave(t)'
  BY <1>1 DEF Neutral, JoinBeforeLeave, LeaveUnderWay, Queued
<1> QED BY <1>2, <1>3

LEMMA SessionNeutral ==
    ASSUME TypeOK, DepartureInv, NEW s \in Sessions,
           \/ \E n \in Nicks : OnReadNick(s, n)
           \/ OnReadList(s)
           \/ \E r \in Rooms : OnReadJoin(s, r) \/ OnReadLeave(s, r)
           \/ OnReadSay(s) \/ ClearRoom(s) \/ SayDone(s) \/ RunResult(s) \/ RunReply(s)
    PROVE  Neutral
<1> USE DEF clientVars, answerVars, roomVars, stopVars
<1>1. handler \in [Sessions -> Handler] /\ conn \in [Sessions -> ConnStates]
  BY DEF TypeOK
<1>2. NewUntouched(s)
  BY DEF DepartureInv
<1>3. ASSUME NEW n \in Nicks, OnReadNick(s, n) PROVE Neutral
  BY <1>1, <1>3 DEF OnReadNick, Command, Begin, Neutral
<1>4. CASE OnReadList(s)
  BY <1>1, <1>4 DEF OnReadList, Command, Begin, Neutral
<1>5. ASSUME NEW r \in Rooms, OnReadJoin(s, r) PROVE Neutral
  BY <1>1, <1>5 DEF OnReadJoin, Command, Begin, Neutral
<1>6. ASSUME NEW r \in Rooms, OnReadLeave(s, r) PROVE Neutral
  BY <1>1, <1>6 DEF OnReadLeave, Command, Begin, Neutral
<1>7. CASE OnReadSay(s)
  BY <1>1, <1>7 DEF OnReadSay, Command, Begin, Neutral
<1>8. CASE ClearRoom(s)
  BY <1>1, <1>2, <1>8 DEF ClearRoom, Finish, NoHandler, NewUntouched, Idle, Neutral
<1>9. CASE SayDone(s)
  BY <1>1, <1>2, <1>9 DEF SayDone, Finish, NoHandler, NewUntouched, Idle, Neutral
<1>10. CASE RunResult(s) \/ RunReply(s)
  BY <1>10 DEF RunResult, RunReply, Neutral
<1> QED BY <1>3, <1>4, <1>5, <1>6, <1>7, <1>8, <1>9, <1>10

-----------------------------------------------------------------------------
(* Steps of a session that matter.                                         *)

\* The parts of DepartureInv for one session, with the order named.
Facts(t) == /\ NewUntouched(t) /\ JoinOnce(t) /\ LeaveFollows(t)
            /\ Ordered(t)
            /\ Queued({"join"}, t) => ~LeaveUnderWay(t)

LEMMA FactsEquiv == DepartureInv <=> \A t \in Sessions : Facts(t)
  BY DEF DepartureInv, Facts, JoinBeforeLeave, Ordered

LEMMA AllFacts == DepartureInv => \A t \in Sessions : Facts(t)
  BY FactsEquiv

\* Queues of one session read through the two-element sets.
LEMMA QueuedBoth ==
    \A s : Queued({"join", "leave"}, s) <=> Queued({"join"}, s) \/ Queued({"leave"}, s)
  BY DEF Queued

LEMMA FactsPrime ==
    ASSUME \A t \in Sessions : Facts(t)'
    PROVE  DepartureInv'
  BY DEF DepartureInv, Facts, JoinBeforeLeave, Ordered

\* Steps that change only the connection of s.
LEMMA ConnSteps ==
    ASSUME TypeOK, DepartureInv, NEW s \in Sessions,
           OnAccept(s) \/ OnAcceptFail(s) \/ StopSession(s) \/ Destroy(s)
    PROVE  DepartureInv'
<1> USE DEF clientVars, answerVars, roomVars, stopVars
<1> SUFFICES ASSUME NEW t \in Sessions PROVE Facts(t)'
  BY FactsPrime
<1>1. Facts(t)
  BY AllFacts
<1>2. UNCHANGED <<strand, running, sessions, stopPhase>>
  BY DEF OnAccept, OnAcceptFail, StopSession, Destroy
<1>3. /\ UNCHANGED stopPhase /\ (Ordered(t)' <=> Ordered(t)) /\ (Stopped' <=> Stopped)
      /\ \A ops, q : Queued(ops, q)' <=> Queued(ops, q)
      /\ LeaveUnderWay(t)' <=> LeaveUnderWay(t)
  BY <1>2 DEF Ordered, Queued, LeaveUnderWay, Stopped
<1>4. conn \in [Sessions -> ConnStates] /\ handler \in [Sessions -> Handler]
  BY DEF TypeOK
<1>5. CASE OnAccept(s)
  <2>1. conn[s] = "new" /\ conn' = [conn EXCEPT ![s] = "open"]
        /\ (handler' = handler
            \/ handler' = [handler EXCEPT ![s] = [op |-> "join", arg |-> None, seen |-> {}]])
    BY <1>5 DEF OnAccept, Begin
  <2> QED BY <1>1, <1>2, <1>3, <1>4, <2>1 DEF Facts, NewUntouched, JoinOnce, LeaveFollows,
             LeaveDue, Idle, JoinDue
<1>6. CASE OnAcceptFail(s)
  <2>1. conn[s] = "new" /\ conn' = [conn EXCEPT ![s] = "gone"] /\ handler' = handler
    BY <1>6 DEF OnAcceptFail
  <2> QED BY <1>1, <1>2, <1>3, <1>4, <2>1, QueuedBoth DEF Facts, NewUntouched, JoinOnce,
             LeaveFollows, LeaveDue, Idle, JoinDue
<1>7. CASE StopSession(s)
  <2>1. /\ handler' = handler
        /\ conn' = conn \/ (conn[s] = "open" /\ conn' = [conn EXCEPT ![s] = "closed"])
    BY <1>7 DEF StopSession
  <2> QED BY <1>1, <1>2, <1>3, <1>4, <2>1 DEF Facts, NewUntouched, JoinOnce, LeaveFollows,
             LeaveDue, Idle, JoinDue
<1>8. CASE Destroy(s)
  <2>1. /\ handler' = handler
        /\ conn[s] = "ended" /\ conn' = [conn EXCEPT ![s] = "gone"]
    BY <1>8 DEF Destroy, Unreferenced
  <2> QED BY <1>1, <1>2, <1>3, <1>4, <2>1 DEF Facts, NewUntouched, JoinOnce, LeaveFollows,
             LeaveDue, Idle, JoinDue
<1> QED BY <1>5, <1>6, <1>7, <1>8

\* Steps that queue a task.
LEMMA EnqueueSteps ==
    ASSUME TypeOK, DepartureInv,
           \/ \E s \in Sessions : Dispatch(s) \/ OnReadEnd(s) \/ OnWriteFail(s)
           \/ StopPosted
    PROVE  DepartureInv'
<1> USE DEF clientVars, answerVars, roomVars, stopVars
<1> SUFFICES ASSUME NEW t \in Sessions PROVE Facts(t)'
  BY FactsPrime
<1>1. Facts(t)
  BY AllFacts
<1>2. conn \in [Sessions -> ConnStates] /\ handler \in [Sessions -> Handler]
      /\ t # None
  BY ConstantsAssumption DEF TypeOK, ConstantsAssumption
<1>3. ASSUME NEW s \in Sessions, Dispatch(s) PROVE Facts(t)'
  <2> DEFINE op == handler[s].op
  <2>1. /\ Enqueue(op, s, handler[s].arg) /\ op \in {"join", "nick", "list", "joinRoom"}
        /\ handler' = [handler EXCEPT ![s] = NoHandler]
        /\ UNCHANGED <<conn, running, sessions, stopPhase>>
    BY <1>3 DEF Dispatch, Finish
  <2>2. \A ops, q : Queued(ops, q)' <=> Queued(ops, q) \/ (op \in ops /\ s = q)
    BY <2>1, EnqueueQueued
  <2>3. op = "join" /\ s = t => JoinDue(t)
    BY DEF JoinDue
  <2>4. op = "join" /\ s = t => ~Queued({"join", "leave"}, t)
    BY <1>1, <2>3 DEF Facts, JoinOnce
  <2>5. Ordered(t)'
    BY <1>1, <2>1, <2>4, EnqueueOrdered DEF Facts
  <2>6. (LeaveUnderWay(t)' <=> LeaveUnderWay(t)) /\ (Stopped' <=> Stopped)
    BY <2>1 DEF LeaveUnderWay, Stopped
  <2>7. s = t => conn[t] # "new"
    BY <1>1, <2>1 DEF Facts, NewUntouched, Idle
  <2>8. handler'[t] = handler[t] \/ (s = t /\ handler'[t].op = "idle")
    BY <1>2, <2>1 DEF NoHandler
  <2> HIDE DEF op
  <2>9. NewUntouched(t)'
    BY <1>1, <2>1, <2>2, <2>6, <2>7, <2>8 DEF Facts, NewUntouched, Idle
  <2>10. JoinOnce(t)'
    BY <1>1, <1>2, <2>1, <2>2, <2>6, <2>8 DEF Facts, JoinOnce, JoinDue, op, NoHandler
  <2>11. LeaveFollows(t)'
    BY <1>1, <2>1, <2>2, <2>3, <2>6 DEF Facts, LeaveFollows, LeaveDue, JoinOnce
  <2>12. (Queued({"join"}, t) => ~LeaveUnderWay(t))'
    BY <1>1, <2>2, <2>3, <2>6 DEF Facts, JoinOnce
  <2> QED BY <2>5, <2>9, <2>10, <2>11, <2>12 DEF Facts
<1>4. ASSUME NEW s \in Sessions, OnReadEnd(s) \/ OnWriteFail(s) PROVE Facts(t)'
  <2>1. /\ Enqueue("leave", s, nick[s])
        /\ conn[s] # "new" /\ handler[s].op # "join"
        /\ conn' = conn \/ conn' = [conn EXCEPT ![s] = "ended"]
        /\ UNCHANGED <<handler, running, sessions, stopPhase>>
    BY <1>4 DEF OnReadEnd, OnWriteFail, RequestLeave, MayAct, Idle
  <2>2. \A ops, q : Queued(ops, q)' <=> Queued(ops, q) \/ ("leave" \in ops /\ s = q)
    BY <2>1, EnqueueQueued
  <2>3. Ordered(t)'
    BY <1>1, <2>1, EnqueueOrdered DEF Facts
  <2>4. (LeaveUnderWay(t)' <=> LeaveUnderWay(t)) /\ (Stopped' <=> Stopped)
    BY <2>1 DEF LeaveUnderWay, Stopped
  <2>5. /\ conn'[t] = conn[t] \/ (s = t /\ conn'[t] = "ended")
        /\ Queued({"join"}, t)' <=> Queued({"join"}, t)
        /\ s # t => \A ops : Queued(ops, t)' <=> Queued(ops, t)
        /\ s = t => Queued({"leave"}, t)'
        /\ Queued({"leave"}, t) => Queued({"leave"}, t)'
    BY <1>2, <2>1, <2>2
  <2>6. (NewUntouched(t) /\ JoinOnce(t))'
    BY <1>1, <2>1, <2>4, <2>5 DEF Facts, NewUntouched, JoinOnce, Idle, JoinDue
  <2>7. LeaveFollows(t)'
    BY <1>1, <2>1, <2>4, <2>5 DEF Facts, LeaveFollows, LeaveDue
  <2> QED BY <1>1, <2>3, <2>4, <2>5, <2>6, <2>7 DEF Facts
<1>5. CASE StopPosted
  <2>1. /\ Enqueue("closeAll", None, None) /\ Stopped /\ Stopped'
        /\ UNCHANGED <<conn, handler, running, sessions>>
    BY <1>5 DEF StopPosted, Stopped
  <2>2. \A ops : Queued(ops, t)' <=> Queued(ops, t)
    BY <1>2, <2>1, EnqueueQueued
  <2>3. Ordered(t)'
    BY <1>1, <2>1, EnqueueOrdered DEF Facts
  <2>4. LeaveUnderWay(t)' <=> LeaveUnderWay(t)
    BY <2>1 DEF LeaveUnderWay
  <2> QED BY <1>1, <2>1, <2>2, <2>3, <2>4 DEF Facts, NewUntouched, JoinOnce, LeaveFollows,
             Idle, JoinDue
<1> QED BY <1>3, <1>4, <1>5

-----------------------------------------------------------------------------
(* Steps of strand_.                                                       *)

\* What the start of any task does to the queue, read for one session: only
\* the taken task goes, and behind a leave of t there is no join of t.
LEMMA TakeFacts ==
    ASSUME TypeOK, NEW op, Take(op), NEW t, Facts(t)
    PROVE  /\ Queued({"join"}, t)' => Queued({"join"}, t)
           /\ Queued({"leave"}, t)' => Queued({"leave"}, t)
           /\ Queued({"join", "leave"}, t)' => Queued({"join", "leave"}, t)
           /\ Queued({"join"}, t) => Queued({"join"}, t)' \/ (op = "join" /\ Current.s = t)
           /\ Queued({"leave"}, t) => Queued({"leave"}, t)' \/ (op = "leave" /\ Current.s = t)
           /\ op = "join" /\ Current.s = t => Queued({"join"}, t)
           /\ op = "leave" /\ Current.s = t => Queued({"leave"}, t) /\ ~Queued({"join"}, t)'
           /\ Ordered(t)'
           /\ running.op = "idle"
<1>1. \A ops, q : Queued(ops, q) <=> Queued(ops, q)' \/ (op \in ops /\ Current.s = q)
  BY TakeQueued
<1>2. Queued({"join"}, t) <=> Queued({"join"}, t)' \/ (op \in {"join"} /\ Current.s = t)
  BY <1>1
<1>3. Queued({"leave"}, t) <=> Queued({"leave"}, t)' \/ (op \in {"leave"} /\ Current.s = t)
  BY <1>1
<1>4. Queued({"join", "leave"}, t)
        <=> Queued({"join", "leave"}, t)' \/ (op \in {"join", "leave"} /\ Current.s = t)
  BY <1>1
<1>5. Ordered(t)' /\ (op = "leave" /\ Current.s = t => ~Queued({"join"}, t)')
  BY TakeOrdered DEF Facts
<1>6. running.op = "idle"
  BY DEF Take
<1> QED BY <1>2, <1>3, <1>4, <1>5, <1>6

\* The start of a task, when sessions_ gains at most the session of a join.
LEMMA TakeSteps ==
    ASSUME TypeOK, DepartureInv,
           \/ StrandJoin \/ StrandNick \/ StrandList
           \/ StrandJoinRoom \/ StrandLeave \/ StrandCloseAll
    PROVE  DepartureInv'
<1> USE DEF clientVars, answerVars, roomVars, stopVars
<1> SUFFICES ASSUME NEW t \in Sessions PROVE Facts(t)'
  BY FactsPrime
<1>1. Facts(t)
  BY AllFacts
<1>2. conn'[t] = conn[t] /\ handler'[t] = handler[t] /\ (Stopped => Stopped')
  BY DEF StrandJoin, StrandNick, StrandList, StrandJoinRoom, StrandLeave, StrandCloseAll, Stopped
<1>3. ASSUME NEW op, Take(op), op # "leave",
             ~LeaveUnderWay(t)',
             t \in sessions' => t \in sessions \/ (op = "join" /\ Current.s = t)
      PROVE  Facts(t)'
  <2>1. /\ Queued({"join"}, t)' => Queued({"join"}, t)
        /\ Queued({"leave"}, t)' => Queued({"leave"}, t)
        /\ Queued({"join", "leave"}, t)' => Queued({"join", "leave"}, t)
        /\ Queued({"leave"}, t) => Queued({"leave"}, t)'
        /\ op = "join" /\ Current.s = t => Queued({"join"}, t)
        /\ Ordered(t)'
        /\ running.op = "idle"
    BY <1>1, <1>3, TakeFacts
  <2>2. ~LeaveUnderWay(t)
    BY <2>1 DEF LeaveUnderWay
  <2>3. Queued({"join"}, t) => Queued({"join", "leave"}, t)
    BY QueuedBoth
  <2>4. NewUntouched(t)'
    BY <1>1, <1>2, <1>3, <2>1, <2>3 DEF Facts, NewUntouched, Idle
  <2>5. JoinOnce(t)'
    BY <1>1, <1>2, <1>3, <2>1, <2>3 DEF Facts, JoinOnce, JoinDue
  <2>6. LeaveFollows(t)'
    BY <1>1, <1>2, <1>3, <2>1, <2>2 DEF Facts, LeaveFollows, LeaveDue
  <2> QED BY <1>3, <2>1, <2>4, <2>5, <2>6 DEF Facts
<1>4. CASE StrandLeave
  <2>1. /\ Take("leave") /\ sessions' = sessions
        /\ ~Stopped /\ Current.s = t => LeaveUnderWay(t)'
        /\ LeaveUnderWay(t)' => Current.s = t \/ LeaveUnderWay(t)
        /\ Stopped' <=> Stopped
    BY <1>4 DEF StrandLeave, Run, LeaveUnderWay, Stopped
  <2>2. /\ Queued({"join"}, t)' => Queued({"join"}, t)
        /\ Queued({"leave"}, t)' => Queued({"leave"}, t)
        /\ Queued({"join", "leave"}, t)' => Queued({"join", "leave"}, t)
        /\ Queued({"leave"}, t) => Queued({"leave"}, t)' \/ Current.s = t
        /\ Current.s = t => Queued({"leave"}, t) /\ ~Queued({"join"}, t)'
        /\ Ordered(t)'
        /\ running.op = "idle"
    BY <1>1, <2>1, TakeFacts
  <2>3. ~LeaveUnderWay(t)
    BY <2>2 DEF LeaveUnderWay
  <2>4. Queued({"leave"}, t) => Queued({"join", "leave"}, t)
    BY QueuedBoth
  <2>5. NewUntouched(t)'
    BY <1>1, <1>2, <2>1, <2>2, <2>3, <2>4 DEF Facts, NewUntouched, Idle
  <2>6. JoinOnce(t)'
    BY <1>1, <1>2, <2>1, <2>2, <2>3, <2>4 DEF Facts, JoinOnce, JoinDue
  <2>7. LeaveFollows(t)'
    BY <1>1, <1>2, <2>1, <2>2, <2>3 DEF Facts, LeaveFollows, LeaveDue
  <2> QED BY <2>1, <2>2, <2>3, <2>5, <2>6, <2>7 DEF Facts
<1>5. CASE StrandJoin
  <2>1. Take("join") /\ running' = running
        /\ (t \in sessions' => t \in sessions \/ Current.s = t)
    BY <1>5 DEF StrandJoin
  <2> QED BY <1>3, <2>1 DEF Take, LeaveUnderWay
<1>6. CASE StrandNick
  <2>1. Take("nick") /\ running' = running /\ sessions' = sessions
    BY <1>6 DEF StrandNick
  <2> QED BY <1>3, <2>1 DEF Take, LeaveUnderWay
<1>7. CASE StrandList
  <2>1. Take("list") /\ running' = running /\ sessions' = sessions
    BY <1>7 DEF StrandList
  <2> QED BY <1>3, <2>1 DEF Take, LeaveUnderWay
<1>8. CASE StrandJoinRoom
  <2>1. Take("joinRoom") /\ sessions' = sessions
        /\ (running' = running \/ running'.op = "joinLock")
    BY <1>8 DEF StrandJoinRoom, Run
  <2> QED BY <1>3, <2>1 DEF Take, LeaveUnderWay
<1>9. CASE StrandCloseAll
  <2>1. Take("closeAll") /\ running' = running /\ sessions' = {}
    BY <1>9 DEF StrandCloseAll
  <2> QED BY <1>3, <2>1 DEF Take, LeaveUnderWay
<1> QED BY <1>4, <1>5, <1>6, <1>7, <1>8, <1>9

\* The rest of a task already begun, and the call of stop().
LEMMA RunningSteps ==
    ASSUME TypeOK, DepartureInv,
           JoinRoomLocked \/ JoinRoomAnnounce \/ LeaveLocked \/ LeaveEnd \/ Stop
    PROVE  DepartureInv'
<1> USE DEF clientVars, answerVars, roomVars, stopVars
<1> SUFFICES ASSUME NEW t \in Sessions PROVE Facts(t)'
  BY FactsPrime
<1>1. Facts(t)
  BY AllFacts
<1>2. UNCHANGED <<conn, handler, strand>> /\ (Stopped => Stopped')
  BY DEF JoinRoomLocked, JoinRoomAnnounce, LeaveLocked, LeaveEnd, Stop, Stopped
<1>3. /\ Queued({"join"}, t)' <=> Queued({"join"}, t)
      /\ Queued({"leave"}, t)' <=> Queued({"leave"}, t)
      /\ Queued({"join", "leave"}, t)' <=> Queued({"join", "leave"}, t)
      /\ Ordered(t)' <=> Ordered(t)
  BY <1>2 DEF Queued, Ordered
<1>4. CASE sessions' = sessions /\ (LeaveUnderWay(t)' <=> LeaveUnderWay(t))
  BY <1>1, <1>2, <1>3, <1>4 DEF Facts, NewUntouched, JoinOnce, LeaveFollows, LeaveDue,
     Idle, JoinDue
<1>5. CASE LeaveEnd
  <2>1. /\ running.op = "leaveEnd" /\ sessions' = sessions \ {running.s}
        /\ running'.op = "idle"
    BY <1>5 DEF LeaveEnd, Deregistered, NoTask
  <2>2. /\ ~LeaveUnderWay(t)'
        /\ t \in sessions' => t \in sessions /\ ~LeaveUnderWay(t)
        /\ Queued({"join"}, t) => ~LeaveUnderWay(t)
    BY <1>1, <2>1 DEF LeaveUnderWay, Facts
  <2> QED BY <1>1, <1>2, <1>3, <2>2 DEF Facts, NewUntouched, JoinOnce, LeaveFollows, LeaveDue,
         Idle, JoinDue
<1>6. CASE JoinRoomLocked \/ JoinRoomAnnounce
  BY <1>4, <1>6 DEF JoinRoomLocked, JoinRoomAnnounce, Run, NoTask, LeaveUnderWay
<1>7. CASE LeaveLocked
  BY <1>4, <1>7 DEF LeaveLocked, Run, LeaveUnderWay
<1>8. CASE Stop
  BY <1>4, <1>8 DEF Stop, LeaveUnderWay
<1> QED BY <1>5, <1>6, <1>7, <1>8

-----------------------------------------------------------------------------
(* The invariant and what it is for.                                       *)

LEMMA DepartureStep == ASSUME TypeOK, DepartureInv, [Next]_vars PROVE DepartureInv'
<1>1. CASE UNCHANGED vars
  <2>1. Neutral
    BY <1>1 DEF vars, Neutral
  <2> QED BY <2>1, NeutralStep
<1>2. ASSUME NEW s \in Sessions, SessionStep(s) PROVE DepartureInv'
  <2>1. CASE OnAccept(s) \/ OnAcceptFail(s) \/ StopSession(s) \/ Destroy(s)
    BY <2>1, ConnSteps
  <2>2. CASE Dispatch(s) \/ OnReadEnd(s) \/ OnWriteFail(s)
    BY <2>2, EnqueueSteps
  <2>3. CASE \/ \E n \in Nicks : OnReadNick(s, n)
             \/ OnReadList(s)
             \/ \E r \in Rooms : OnReadJoin(s, r) \/ OnReadLeave(s, r)
             \/ OnReadSay(s) \/ ClearRoom(s) \/ SayDone(s) \/ RunResult(s) \/ RunReply(s)
    BY <2>3, SessionNeutral, NeutralStep
  <2> QED BY <1>2, <2>1, <2>2, <2>3 DEF SessionStep, ClientStep, HandlerStep
<1>3. CASE StrandStep
  BY <1>3, TakeSteps, RunningSteps DEF StrandStep
<1>4. CASE Stop
  BY <1>4, RunningSteps
<1>5. CASE StopPosted
  BY <1>5, EnqueueSteps
<1> QED BY <1>1, <1>2, <1>3, <1>4, <1>5 DEF Next

\* The join and leave of every session keep their order in every behaviour.
THEOREM DepartureAlways == Spec => []DepartureInv
<1>1. Init => DepartureInv
  BY DEF Init, DepartureInv, NewUntouched, JoinOnce, JoinBeforeLeave, LeaveFollows,
     LeaveUnderWay, JoinDue, Idle, NoHandler, NoTask, Queued
<1>2. TypeOK /\ DepartureInv /\ [Next]_vars => DepartureInv'
  BY DepartureStep
<1> QED BY <1>1, <1>2, TypeCorrect, PTL DEF Spec

\* A session whose connection ended and whose leave task has run is not in
\* sessions_: ChatServer::join can never put it back behind ChatServer::leave.
THEOREM DepartedAlways == Spec => []DepartedNotListed
<1>1. DepartureInv => DepartedNotListed
  BY DEF DepartureInv, DepartedNotListed, LeaveFollows, LeaveDue, LeaveUnderWay
<1> QED BY <1>1, DepartureAlways, PTL

=============================================================================
