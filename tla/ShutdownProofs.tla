---------------------------- MODULE ShutdownProofs ----------------------------
(***************************************************************************)
(* Proofs about the end of the process, for any number of sessions, lines  *)
(* and threads: no handler sets out to write to the history once the       *)
(* server is stopped, and a process that ends with its history unharmed    *)
(* leaves behind nobody who was given a line that the history lacks, but   *)
(* for a write that failed.                                                *)
(***************************************************************************)
EXTENDS Shutdown, MessageFlowProofs, FiniteSetTheorems

-----------------------------------------------------------------------------
(* Steps.                                                                  *)

\* The steps that are Shutdown's own.
Ends ==
    \/ Signal \/ HttpStopped \/ StopChat \/ StopIoc \/ MainExits
    \/ RunStopTask \/ ResetHistory \/ CloseAll \/ CloseAllEnds
    \/ \E s \in Sessions : Dispatch(s) \/ CloseLater(s) \/ CloseReturns(s)

\* A handler starts, for which there has to be a thread; it may be of any kind.
Starts == MayStart /\ ((\E s \in Sessions : Reads(s) \/ RunPosted(s)) \/ StrandStarts \/ AnswerStarts)
Continues == (\E s \in Sessions : GoesOn(s)) \/ StrandLog \/ PrivateGoesOn

\* Every step is a step of MessageFlow that leaves the rest alone, or one of these.
LEMMA StepIs ==
    ASSUME Next
    PROVE  ((Starts \/ Continues) /\ UNCHANGED stopVars) \/ Ends
BY DEF Next, SignalOn, StopOn, CloseOn, StrandTask, StrandOn, Answer, AnswerOn, Read, Deliver,
       SessionOn, Closed, Start, GoOn, Starts, Continues, Ends

LEMMA FlowStepIs ==
    ASSUME Starts \/ Continues
    PROVE  FlowNext
BY DEF Starts, Continues, FlowNext

-----------------------------------------------------------------------------
(* Types.                                                                  *)

\* What Shutdown adds to the types of MessageFlow.
OwnTypes ==
    /\ sig \in {"waiting", "http", "chat", "ioc", "done"}
    /\ stopTask \in {"none", "posted", "resetting", "done"}
    /\ iocStopped \in BOOLEAN /\ closing \in BOOLEAN
    /\ todo \subseteq Sessions /\ closeAt \in Sessions \cup {None}
    /\ later \subseteq Sessions /\ elsewhere \subseteq Sessions /\ closed \subseteq Sessions
    /\ main \in {"joining", "exited"}

LEMMA TypesAre == ShutdownTypeOK <=> FlowTypeOK /\ OwnTypes
BY DEF ShutdownTypeOK, OwnTypes

\* The steps of the end keep the types of what handlers use.
LEMMA EndsFlowTypes ==
    ASSUME ShutdownTypeOK, Ends
    PROVE  FlowTypeOK'
<1>1. FlowTypeOK /\ OwnTypes
  BY TypesAre
<1>2. CASE StopChat
  BY <1>1, <1>2 DEF StopChat, FlowTypeOK, connVars, queueVars, historyVars
<1>3. CASE RunStopTask
  <2>1. [op |-> "closeAll", s |-> None, m |-> Nothing] \in Task
    BY DEF Task
  <2>2. strand' \in Seq(Task)
    BY <1>1, <1>3, <2>1, StrandTypes DEF RunStopTask, FlowTypeOK
  <2> QED
    BY <1>1, <1>3, <2>2 DEF RunStopTask, FlowTypeOK, connVars, queueVars, historyVars
<1>4. CASE ResetHistory
  BY <1>1, <1>4 DEF ResetHistory, FlowTypeOK, connVars, queueVars, historyVars
<1>5. CASE CloseAll
  <2>1. strand' \in Seq(Task)
    BY <1>1, <1>5, StrandTypes DEF CloseAll, FlowTypeOK
  <2> QED
    BY <1>1, <1>5, <2>1 DEF CloseAll, FlowTypeOK, connVars, queueVars, historyVars
<1>6. CASE CloseAllEnds
  BY <1>1, <1>6 DEF CloseAllEnds, FlowTypeOK, connVars, queueVars, historyVars
<1>7. CASE UNCHANGED flowVars
  BY <1>1, <1>7, FlowTypesStep
<1> QED
  BY <1>2, <1>3, <1>4, <1>5, <1>6, <1>7
     DEF Ends, Signal, HttpStopped, StopIoc, MainExits, Dispatch, CloseLater, CloseReturns

LEMMA EndsOwnTypes ==
    ASSUME ShutdownTypeOK, Ends
    PROVE  OwnTypes'
<1>1. FlowTypeOK /\ OwnTypes
  BY TypesAre
<1>2. CASE Signal \/ HttpStopped \/ StopChat \/ StopIoc \/ MainExits
  BY <1>1, <1>2 DEF Signal, HttpStopped, StopChat, StopIoc, MainExits, OwnTypes
<1>3. CASE RunStopTask \/ ResetHistory
  BY <1>1, <1>3 DEF RunStopTask, ResetHistory, OwnTypes
<1>4. CASE CloseAll \/ CloseAllEnds
  <2>1. listed \subseteq Sessions
    BY <1>1 DEF FlowTypeOK
  <2> QED
    BY <1>1, <1>4, <2>1 DEF CloseAll, CloseAllEnds, OwnTypes
<1>5. ASSUME NEW s \in Sessions, Dispatch(s) \/ CloseLater(s) \/ CloseReturns(s)
      PROVE  OwnTypes'
  BY <1>1, <1>5 DEF Dispatch, CloseLater, CloseReturns, OwnTypes
<1> QED
  BY <1>2, <1>3, <1>4, <1>5 DEF Ends

\* Every reachable state of the end has the types its declarations give it.
THEOREM ShutdownTypeCorrect == Spec => []ShutdownTypeOK
<1>1. Init => ShutdownTypeOK
  BY FlowTypesStart DEF Init, ShutdownTypeOK
<1>2. ShutdownTypeOK /\ [Next]_vars => ShutdownTypeOK'
  <2> SUFFICES ASSUME ShutdownTypeOK, [Next]_vars
               PROVE  FlowTypeOK' /\ OwnTypes'
    BY TypesAre, FlowTypeOK' /\ OwnTypes' => ShutdownTypeOK' DEF ShutdownTypeOK, OwnTypes
  <2>1. FlowTypeOK /\ OwnTypes
    BY TypesAre
  <2>2. CASE UNCHANGED vars
    BY <2>1, <2>2, FlowTypesStep DEF vars, stopVars, OwnTypes
  <2>3. CASE (Starts \/ Continues) /\ UNCHANGED stopVars
    BY <2>1, <2>3, FlowStepIs, FlowTypesStep DEF stopVars, OwnTypes
  <2>4. CASE Ends
    BY <2>4, EndsFlowTypes, EndsOwnTypes
  <2> QED
    BY <2>2, <2>3, <2>4, StepIs
<1> QED
  BY <1>1, <1>2, PTL DEF Spec

-----------------------------------------------------------------------------
(* Nobody sets out to write late.                                          *)

LEMMA LoggersShrink ==
    ASSUME InHandler' \subseteq InHandler, answering' \subseteq answering,
           running' \in {running, Nothing}
    PROVE  Loggers' \subseteq Loggers
BY DEF Loggers

\* A session's broadcast that goes on is one that was under way.
LEMMA GoesOnInHandler ==
    ASSUME FlowTypeOK, NEW s \in Sessions, GoesOn(s)
    PROVE  InHandler' \subseteq InHandler /\ UNCHANGED <<answering, running>>
<1>1. handler \in [Sessions -> Handler] /\ handler[s] # NoHandler
  <2>1. handler[s].op \in {"walk", "log"}
    BY DEF GoesOn, WalkStep, WalkEnd, LogRoom
  <2> QED
    BY <2>1 DEF FlowTypeOK, NoHandler
<1>2. \A r \in Sessions : r # s => handler'[r] = handler[r]
  BY <1>1 DEF GoesOn, WalkStep, WalkEnd, LogRoom
<1>3. UNCHANGED <<answering, running>>
  BY DEF GoesOn, WalkStep, WalkEnd, LogRoom
<1> QED
  BY <1>1, <1>2, <1>3 DEF InHandler

\* Once stopped_ is set no handler sets out to write to the history, by whatever
\* interleaving of stop() and the handlers.
THEOREM LateNever == Spec => LateNeverLogs
<1>1. ShutdownTypeOK /\ [Next]_vars => [stopped => Loggers' \subseteq Loggers]_vars
  <2> SUFFICES ASSUME ShutdownTypeOK, Next, stopped
               PROVE  Loggers' \subseteq Loggers
    OBVIOUS
  <2>1. FlowTypeOK
    BY TypesAre
  <2>2. CASE Ends
    <3>1. UNCHANGED <<handler, answering, running>>
      BY <2>2 DEF Ends, Signal, HttpStopped, StopChat, StopIoc, MainExits, RunStopTask,
                  ResetHistory, CloseAll, CloseAllEnds, Dispatch, CloseLater, CloseReturns,
                  flowVars
    <3> QED
      BY <3>1, LoggersShrink DEF InHandler
  <2>3. ASSUME NEW s \in Sessions, Reads(s)
        PROVE  UNCHANGED <<handler, answering, running>>
    BY <2>3 DEF Reads, SayGlobal, SayRoom, SayPrivate, AskEnter, ExitRoom, Disconnect
  <2>4. ASSUME NEW s \in Sessions, RunPosted(s)
        PROVE  UNCHANGED <<handler, answering, running>>
    BY <2>4 DEF RunPosted
  <2>5. CASE StrandStarts
    <3>1. UNCHANGED <<handler, answering, running>>
      BY <2>5 DEF StrandStarts, StrandSay, StrandEnter, StrandLeave, StrandFind, Refuses
    <3> QED
      BY <3>1, LoggersShrink DEF InHandler
  <2>6. CASE AnswerStarts
    <3>1. UNCHANGED <<handler, answering, running>>
      BY <2>6 DEF AnswerStarts, RunAnswer, Refuses
    <3> QED
      BY <3>1, LoggersShrink DEF InHandler
  <2>7. ASSUME NEW s \in Sessions, GoesOn(s)
        PROVE  Loggers' \subseteq Loggers
    BY <2>1, <2>7, GoesOnInHandler, LoggersShrink
  <2>8. CASE StrandLog
    BY <2>8, LoggersShrink DEF StrandLog, InHandler
  <2>9. CASE PrivateGoesOn
    <3>1. answering' \subseteq answering /\ UNCHANGED <<handler, running>>
      BY <2>9 DEF PrivateGoesOn, LogPrivate
    <3> QED
      BY <3>1, LoggersShrink DEF InHandler
  <2>10. (\E s \in Sessions : Reads(s) \/ RunPosted(s)) => Loggers' \subseteq Loggers
    BY <2>3, <2>4, LoggersShrink DEF InHandler
  <2> QED
    BY <2>2, <2>5, <2>6, <2>7, <2>8, <2>9, <2>10, StepIs DEF Starts, Continues
<1> QED
  BY <1>1, ShutdownTypeCorrect, PTL DEF Spec, LateNeverLogs

-----------------------------------------------------------------------------
(* What was delivered is in the history, or still on its way there.        *)

\* The lines of the handlers that are going to write, and those with the lines the
\* history was given.
Writing ==
    answering \cup ({running} \ {Nothing}) \cup {handler[s].m : s \in InHandler}
Settled == {log[i] : i \in DOMAIN log} \cup unlogged \cup Writing

\* While the history is held, whatever a session has of others is in it, was given
\* to it in vain, or is in the hands of somebody who is going to write it.
Kept ==
    history = "held" =>
        \A s \in Sessions : \A m \in Got(s) : m.from # s => m \in Settled

\* Nothing is under way any more when main is back.
Over == main = "exited" => iocStopped /\ InHandler = {} /\ answering = {} /\ running = Nothing

EndInv == ShutdownTypeOK /\ IsFiniteSet(answering) /\ Kept /\ Over

\* A step that keeps the invariant: nothing is forgotten, and what is new somewhere
\* is its own line or settled.
Keeps ==
    history' = "held" =>
        /\ history = "held"
        /\ Settled \subseteq Settled'
        /\ \A r \in Sessions : \A m \in Got(r)' : m \in Got(r) \/ m.from = r \/ m \in Settled'

LEMMA KeepsKept ==
    ASSUME Kept, Keeps
    PROVE  Kept'
BY DEF Kept, Keeps

LEMMA SettledSame ==
    ASSUME UNCHANGED <<handler, running, answering, log, unlogged>>
    PROVE  Settled' = Settled
BY DEF Settled, Writing, InHandler

\* A line that is given to the history is settled after as before.
LEMMA WrittenIs ==
    ASSUME FlowTypeOK, NEW m \in Line, Write(m), history' = "held"
    PROVE  /\ history = "held"
           /\ {log'[i] : i \in DOMAIN log'} \cup unlogged'
                = {log[i] : i \in DOMAIN log} \cup unlogged \cup {m}
<1>1. /\ history = "held" /\ log \in Seq(Line)
      /\ \/ log' = Append(log, m) /\ unlogged' = unlogged
         \/ log' = log /\ unlogged' = unlogged \cup {m}
  BY DEF Write, FlowTypeOK
<1>2. log' = Append(log, m) =>
        /\ Len(log) \in Nat /\ DOMAIN log' = DOMAIN log \cup {Len(log) + 1}
        /\ (\A i \in DOMAIN log : log'[i] = log[i]) /\ log'[Len(log) + 1] = m
  BY <1>1, AppendIs
<1> QED
  BY <1>1, <1>2

\* Only where the history is held does a step have to keep anything.
LEMMA KeepsIf ==
    ASSUME history' = "held" => Keeps
    PROVE  Keeps
BY Zenon DEF Keeps

\* Nothing is delivered and nothing written: a line may be taken up.
LEMMA QuietKeeps ==
    ASSUME history' = "held" => history = "held",
           UNCHANGED <<posted, delivered>>, Settled \subseteq Settled'
    PROVE  Keeps
BY DEF Keeps, Got

\* A line is read.
LEMMA ReadsKeeps ==
    ASSUME FlowTypeOK, NEW s \in Sessions, Reads(s)
    PROVE  Keeps /\ UNCHANGED answering
<1>1. /\ UNCHANGED <<running, answering, posted, delivered, history, log, unlogged>>
      /\ handler[s] = NoHandler /\ handler \in [Sessions -> Handler]
  BY DEF Reads, SayGlobal, SayRoom, SayPrivate, AskEnter, ExitRoom, Disconnect, Hears, Asks,
         FlowTypeOK, queueVars, historyVars
<1>2. \A r \in Sessions : r # s => handler'[r] = handler[r]
  BY <1>1 DEF Reads, SayGlobal, SayRoom, SayPrivate, AskEnter, ExitRoom, Disconnect
<1>3. \A r \in InHandler : r \in InHandler' /\ handler'[r].m = handler[r].m
  BY <1>1, <1>2 DEF InHandler
<1>4. Settled \subseteq Settled'
  BY <1>1, <1>3 DEF Settled, Writing
<1> QED
  BY <1>1, <1>4, QuietKeeps

\* A message takes its turn.
LEMMA RunKeeps ==
    ASSUME FlowTypeOK, NEW s \in Sessions, RunPosted(s)
    PROVE  Keeps /\ UNCHANGED answering
<1>1. UNCHANGED <<handler, running, answering, history, log, unlogged>>
  BY DEF RunPosted, historyVars
<1>2. \A r \in Sessions : Got(r)' \subseteq Got(r)
  BY TurnGot
<1> QED
  BY <1>1, <1>2, SettledSame DEF Keeps

\* A broadcast that goes on is that of the same line.
LEMMA HandlerFields ==
    ASSUME NEW h \in Handler, h.op # "idle"
    PROVE  /\ [h EXCEPT !.op = "log"].op = "log" /\ [h EXCEPT !.op = "log"].m = h.m
           /\ \A S : [h EXCEPT !.todo = S].op = h.op /\ [h EXCEPT !.todo = S].m = h.m
BY DEF Handler

\* A room broadcast goes on.
LEMMA GoesOnKeeps ==
    ASSUME FlowTypeOK, NEW s \in Sessions, GoesOn(s)
    PROVE  Keeps /\ UNCHANGED answering
<1>1. handler \in [Sessions -> Handler] /\ handler[s].op \in {"walk", "log"}
  BY DEF FlowTypeOK, GoesOn, WalkStep, WalkEnd, LogRoom
<1>2. /\ handler[s] # NoHandler /\ handler[s].m \in Line /\ handler[s].todo \subseteq Sessions
      /\ s \in InHandler
  BY <1>1, HandlerParts DEF NoHandler, InHandler
<1>3. \A r \in Sessions : r # s => handler'[r] = handler[r]
  BY <1>1 DEF GoesOn, WalkStep, WalkEnd, LogRoom
<1>4. \A r \in InHandler : r # s => r \in InHandler' /\ handler'[r].m = handler[r].m
  BY <1>3 DEF InHandler
<1>5. ASSUME NEW to \in Sessions, WalkStep(s, to)
      PROVE  Keeps
  <2>1. handler'[s] = [handler[s] EXCEPT !.todo = handler[s].todo \ {to}]
        /\ UNCHANGED <<running, answering, delivered, history, log, unlogged>>
        /\ posted' = Post(posted, to, 2, handler[s].m)
    BY <1>1, <1>5 DEF WalkStep, historyVars
  <2>2. handler'[s].op = handler[s].op /\ handler'[s].m = handler[s].m
    BY <1>1, <1>5, <2>1, HandlerFields DEF WalkStep
  <2>3. s \in InHandler'
    BY <1>1, <2>2 DEF InHandler, NoHandler
  <2>4. Settled \subseteq Settled' /\ handler[s].m \in Settled'
    BY <1>4, <2>1, <2>2, <2>3 DEF Settled, Writing
  <2>5. Sends({to}, 2, handler[s].m)
    BY <2>1, PostSends
  <2>6. \A r \in Sessions : Got(r)' = IF r \in {to} THEN Got(r) \cup {handler[s].m} ELSE Got(r)
    BY <1>2, <2>5, SentGot
  <2> QED
    BY <2>1, <2>4, <2>6 DEF Keeps
<1>6. ASSUME WalkEnd(s)
      PROVE  Keeps
  <2>1. SUFFICES ASSUME history' = "held"
                 PROVE  Keeps
    BY KeepsIf
  <2>2. handler'[s] = [handler[s] EXCEPT !.op = "log"]
        /\ UNCHANGED <<running, answering, delivered, posted, history, log, unlogged>>
    BY <1>1, <1>6, <2>1 DEF WalkEnd, queueVars, historyVars
  <2>3. handler'[s].op = "log" /\ handler'[s].m = handler[s].m
    <3>1. handler[s] \in Handler /\ handler[s].op # "idle"
      BY <1>1
    <3> QED
      BY <2>2, <3>1, HandlerFields
  <2>4. s \in InHandler'
    BY <2>3 DEF InHandler, NoHandler
  <2>5. Settled \subseteq Settled'
    BY <1>4, <2>2, <2>3, <2>4 DEF Settled, Writing
  <2> QED
    BY <2>2, <2>5, QuietKeeps
<1>7. ASSUME LogRoom(s)
      PROVE  Keeps
  <2>1. SUFFICES ASSUME history' = "held"
                 PROVE  Keeps
    BY KeepsIf
  <2>2. /\ history = "held"
        /\ {log'[i] : i \in DOMAIN log'} \cup unlogged'
             = {log[i] : i \in DOMAIN log} \cup unlogged \cup {handler[s].m}
        /\ UNCHANGED <<running, answering, delivered, posted>>
    BY <1>2, <1>7, <2>1, WrittenIs DEF LogRoom, queueVars
  <2>3. Settled \subseteq Settled'
    BY <1>4, <2>2 DEF Settled, Writing
  <2> QED
    BY <2>2, <2>3, QuietKeeps
<1>8. UNCHANGED answering
  BY DEF GoesOn, WalkStep, WalkEnd, LogRoom
<1> QED
  BY <1>5, <1>6, <1>7, <1>8 DEF GoesOn

\* A broadcast to everybody: the line is in the hands of the task that sends it on.
LEMMA BroadcastKeeps ==
    ASSUME FlowTypeOK, NEW m \in Line, NEW to, Broadcast(m, to), running = Nothing,
           UNCHANGED <<handler, answering, delivered, history, log, unlogged>>
    PROVE  Keeps
<1>1. SUFFICES ASSUME history' = "held"
               PROVE  Keeps
  BY KeepsIf
<1>2. running' = m /\ m # Nothing /\ history = "held"
  BY <1>1, GotTypes DEF Broadcast
<1>3. Settled' = Settled \cup {m}
  BY <1>2 DEF Settled, Writing, InHandler
<1>4. Sends(to, 1, m)
  BY BroadcastSends
<1>5. \A r \in Sessions : Got(r)' = IF r \in to THEN Got(r) \cup {m} ELSE Got(r)
  BY <1>4, SentGot
<1> QED
  BY <1>2, <1>3, <1>5 DEF Keeps

\* The tasks of strand_.
LEMMA StrandKeeps ==
    ASSUME FlowTypeOK, StrandStarts \/ StrandLog
    PROVE  Keeps /\ UNCHANGED answering
<1>1. strand \in Seq(Task) /\ asked \in Nat
  BY GotTypes DEF FlowTypeOK
<1>2. CASE StrandSay
  <2>1. /\ Current.m \in Line /\ running = Nothing
        /\ UNCHANGED <<handler, answering, delivered, history, log, unlogged>>
    BY <1>1, <1>2, StrandTypes, TaskTypes DEF StrandSay, Take, Current, historyVars
  <2>2. CASE stopped
    BY <1>2, <2>1, <2>2, SettledSame, QuietKeeps DEF StrandSay, Refuses
  <2>3. CASE ~stopped
    BY <1>2, <2>1, <2>3, BroadcastKeeps DEF StrandSay, Refuses
  <2> QED
    BY <2>1, <2>2, <2>3
<1>3. CASE StrandLeave
  <2>1. /\ Current.m \in Line /\ running = Nothing
        /\ UNCHANGED <<handler, answering, delivered, history, log, unlogged>>
    BY <1>1, <1>3, StrandTypes, TaskTypes DEF StrandLeave, Take, Current, historyVars
  <2>2. CASE UNCHANGED <<posted, running>>
    BY <2>1, <2>2, SettledSame, QuietKeeps
  <2>3. CASE Broadcast(Current.m, listed \ {Current.s})
    BY <2>1, <2>3, BroadcastKeeps
  <2> QED
    BY <1>3, <2>1, <2>2, <2>3 DEF StrandLeave
<1>4. CASE StrandEnter \/ StrandFind
  BY <1>4, SettledSame, QuietKeeps DEF StrandEnter, StrandFind, queueVars, historyVars
<1>5. ASSUME StrandLog
      PROVE  Keeps
  <2>1. running \in Line /\ running' = Nothing
        /\ UNCHANGED <<handler, answering, posted, delivered>>
    BY <1>5 DEF StrandLog, FlowTypeOK, queueVars
  <2>2. SUFFICES ASSUME history' = "held"
                 PROVE  Keeps
    BY KeepsIf
  <2>3. history = "held" /\ {log'[i] : i \in DOMAIN log'} \cup unlogged'
             = {log[i] : i \in DOMAIN log} \cup unlogged \cup {running}
    BY <1>5, <2>1, <2>2, WrittenIs DEF StrandLog
  <2>4. Settled \subseteq Settled'
    BY <2>1, <2>3 DEF Settled, Writing, InHandler
  <2> QED
    BY <2>1, <2>3, <2>4, QuietKeeps
<1>6. StrandLog => UNCHANGED answering
  BY DEF StrandLog
<1> QED
  BY <1>2, <1>3, <1>4, <1>5, <1>6 DEF StrandStarts

\* Queueing a message on the strand of one session adds it to what that one has.
LEMMA PostedLines ==
    ASSUME NEW q \in [Sessions -> Seq(Hop)], NEW m \in Line, NEW s \in Sessions,
           NEW r \in Sessions, NEW d \in Seq(Line)
    PROVE  Lines(d, Post(q, s, 2, m)[r]) \subseteq Lines(d, q[r]) \cup {m}
<1>1. CASE r = s
  <2>1. Queued(q[r], 2, m, Post(q, s, 2, m)[r])
    BY <1>1 DEF Queued, Post
  <2> QED
    BY <2>1, MessageQueued
<1>2. CASE r # s
  BY <1>2 DEF Post
<1> QED
  BY <1>1, <1>2

LEMMA GivenOnce ==
    ASSUME FlowTypeOK, NEW m \in Line, NEW s \in Sessions,
           posted' = Post(posted, s, 2, m), delivered' = delivered
    PROVE  \A r \in Sessions : Got(r)' = IF r = s THEN Got(r) \cup {m} ELSE Got(r)
<1>1. Sends({s}, 2, m)
  BY PostSends
<1>2. \A r \in Sessions : Got(r)' = IF r \in {s} THEN Got(r) \cup {m} ELSE Got(r)
  BY <1>1, SentGot
<1> QED
  BY <1>2

LEMMA GivenTwice ==
    ASSUME FlowTypeOK, NEW m \in Line, NEW s \in Sessions, NEW t \in Sessions,
           posted' = Post(Post(posted, s, 2, m), t, 2, m), delivered' = delivered
    PROVE  \A r \in Sessions : Got(r)' \subseteq Got(r) \cup {m}
<1> DEFINE q == Post(posted, s, 2, m)
<1>1. posted \in [Sessions -> Seq(Hop)] /\ delivered \in [Sessions -> Seq(Line)]
  BY DEF FlowTypeOK, Hop
<1>2. q \in [Sessions -> Seq(Hop)]
  BY <1>1, PostTypes
<1>3. ASSUME NEW r \in Sessions
      PROVE  Lines(delivered[r], q[r]) \subseteq Lines(delivered[r], posted[r]) \cup {m}
  BY <1>1, PostedLines
<1> HIDE DEF q
<1>4. ASSUME NEW r \in Sessions
      PROVE  Lines(delivered[r], Post(q, t, 2, m)[r]) \subseteq Lines(delivered[r], q[r]) \cup {m}
  BY <1>1, <1>2, PostedLines
<1>5. posted' = Post(q, t, 2, m)
  BY DEF q
<1> QED
  BY <1>3, <1>4, <1>5 DEF Got

\* Private messages: one that is given to its receiver is in the hands of its
\* callback, and an error goes to the sender only.
LEMMA AnswerKeeps ==
    ASSUME FlowTypeOK, NEW a \in answers, RunAnswer(a)
    PROVE  /\ Keeps
           /\ answering' = answering \/ \E m \in Line : answering' = answering \cup {m}
<1>1. /\ a.m \in Line /\ a.to \in Sessions \cup {None} /\ a.m.from \in Sessions
      /\ a.m # Nothing /\ UNCHANGED <<handler, running, delivered, history, log, unlogged>>
  <2>1. a.m \in Line /\ a.to \in Sessions \cup {None}
    BY DEF FlowTypeOK
  <2> QED
    BY <2>1, GotTypes DEF RunAnswer, historyVars
<1>2. CASE stopped
  BY <1>1, <1>2, SettledSame, QuietKeeps DEF RunAnswer, Refuses
<1>3. CASE ~stopped /\ a.to = None
  <2>1. posted' = Post(posted, a.m.from, 2, a.m) /\ answering' = answering
    BY <1>3 DEF RunAnswer, Refuses
  <2>3. \A r \in Sessions : Got(r)' = IF r = a.m.from THEN Got(r) \cup {a.m} ELSE Got(r)
    BY <1>1, <2>1, GivenOnce
  <2>4. Settled' = Settled
    BY <1>1, <2>1, SettledSame
  <2>5. ASSUME NEW r \in Sessions, NEW x \in Got(r)'
        PROVE  x \in Got(r) \/ x.from = r
    <3>1. x \in Got(r) \/ (r = a.m.from /\ x = a.m)
      BY <2>3
    <3> QED
      BY <3>1
  <2>6. Keeps
    BY <1>1, <2>4, <2>5 DEF Keeps
  <2> QED
    BY <2>1, <2>6
<1>4. CASE ~stopped /\ a.to # None
  <2>1. /\ posted' = Post(Post(posted, a.to, 2, a.m), a.m.from, 2, a.m)
        /\ answering' = IF history = "held" THEN answering \cup {a.m} ELSE answering
    BY <1>4 DEF RunAnswer, Refuses
  <2>2. \A r \in Sessions : Got(r)' \subseteq Got(r) \cup {a.m}
    BY <1>1, <1>4, <2>1, GivenTwice
  <2>3. history = "held" => Settled' = Settled \cup {a.m}
    BY <1>1, <2>1 DEF Settled, Writing, InHandler
  <2> QED
    BY <1>1, <2>1, <2>2, <2>3 DEF Keeps
<1> QED
  BY <1>2, <1>3, <1>4

LEMMA PrivateGoesOnKeeps ==
    ASSUME FlowTypeOK, NEW m \in answering, LogPrivate(m)
    PROVE  Keeps /\ answering' \subseteq answering
<1>1. /\ m \in Line /\ answering' = answering \ {m}
      /\ UNCHANGED <<handler, running, posted, delivered>>
  BY DEF FlowTypeOK, LogPrivate, queueVars
<1>2. ASSUME history' = "held"
      PROVE  Keeps
  <2>1. history = "held" /\ {log'[i] : i \in DOMAIN log'} \cup unlogged'
             = {log[i] : i \in DOMAIN log} \cup unlogged \cup {m}
    BY <1>1, <1>2, WrittenIs DEF LogPrivate
  <2>2. Settled \subseteq Settled'
    BY <1>1, <2>1 DEF Settled, Writing, InHandler
  <2> QED
    BY <1>1, <2>1, <2>2, QuietKeeps
<1> QED
  BY <1>1, <1>2, KeepsIf

\* The steps of the end.
LEMMA EndsKeeps ==
    ASSUME Ends
    PROVE  Keeps /\ UNCHANGED <<handler, running, answering>>
<1>1. /\ UNCHANGED <<handler, running, answering, log, unlogged, posted, delivered>>
      /\ history' \in {history, "reset"}
  BY DEF Ends, Signal, HttpStopped, StopChat, StopIoc, MainExits, RunStopTask, ResetHistory,
         CloseAll, CloseAllEnds, Dispatch, CloseLater, CloseReturns, flowVars, queueVars, historyVars
<1> QED
  BY <1>1, SettledSame, QuietKeeps

-----------------------------------------------------------------------------
(* The end of main.                                                        *)

\* Threads that are all idle run nothing.
LEMMA NotBusy ==
    ASSUME ShutdownTypeOK, IsFiniteSet(answering), Busy = 0
    PROVE  InHandler = {} /\ answering = {} /\ running = Nothing
<1>1. IsFiniteSet(InHandler) /\ IsFiniteSet(elsewhere)
  BY ShutdownAssumption, FS_Subset DEF InHandler, ShutdownTypeOK
<1>2. /\ Cardinality(InHandler) \in Nat /\ Cardinality(elsewhere) \in Nat
      /\ Cardinality(answering) \in Nat
  BY <1>1, FS_CardinalityType
<1> DEFINE inTask == One(running # Nothing \/ closing)
           inSignal == One(sig \in {"http", "chat", "ioc"})
           inStop == One(stopTask = "resetting")
           walkers == Cardinality(InHandler)
           writers == Cardinality(answering)
           closers == Cardinality(elsewhere)
<1>3. inTask \in Nat /\ inSignal \in Nat /\ inStop \in Nat
  BY DEF One
<1>4. walkers \in Nat /\ writers \in Nat /\ closers \in Nat
  BY <1>2
<1>5. walkers + writers + closers + inTask + inSignal + inStop = 0
  BY DEF Busy
<1>6. inTask = 0 => running = Nothing
  BY DEF One
<1>7. (walkers = 0 => InHandler = {}) /\ (writers = 0 => answering = {})
  BY <1>1, FS_EmptySet
<1> HIDE DEF inTask, inSignal, inStop, walkers, writers, closers
<1>8. walkers = 0 /\ writers = 0 /\ inTask = 0
  BY <1>3, <1>4, <1>5
<1> QED
  BY <1>6, <1>7, <1>8

\* The handlers of a process that is over: none is there to go on, and no thread
\* to start one.
LEMMA OverStays ==
    ASSUME EndInv, Next
    PROVE  Over'
<1>1. ShutdownTypeOK /\ FlowTypeOK /\ Over /\ IsFiniteSet(answering)
  BY TypesAre DEF EndInv
<1>2. CASE Ends
  <2>1. InHandler' = InHandler /\ UNCHANGED <<answering, running>>
    BY <1>2, EndsKeeps DEF InHandler
  <2>2. iocStopped => iocStopped'
    BY <1>2 DEF Ends, Signal, HttpStopped, StopChat, StopIoc, MainExits, RunStopTask,
                ResetHistory, CloseAll, CloseAllEnds, Dispatch, CloseLater, CloseReturns
  <2>3. CASE MainExits
    <3>1. iocStopped /\ Busy = 0
      BY <2>3 DEF MainExits
    <3> QED
      BY <1>1, <2>1, <2>2, <3>1, NotBusy DEF Over
  <2>4. CASE main' = main
    BY <1>1, <2>1, <2>2, <2>4 DEF Over
  <2> QED
    BY <1>2, <2>3, <2>4
       DEF Ends, Signal, HttpStopped, StopChat, StopIoc, RunStopTask, ResetHistory, CloseAll,
           CloseAllEnds, Dispatch, CloseLater, CloseReturns
<1>3. CASE (Starts \/ Continues) /\ UNCHANGED stopVars
  <2>1. UNCHANGED <<main, iocStopped>>
    BY <1>3 DEF stopVars
  <2>2. main = "exited" => ~Starts
    BY <1>1 DEF Starts, MayStart, Over
  <2>3. main = "exited" => ~Continues
    <3>1. ASSUME NEW s \in Sessions, GoesOn(s)
          PROVE  s \in InHandler
      BY <3>1 DEF GoesOn, WalkStep, WalkEnd, LogRoom, InHandler, NoHandler
    <3> QED
      BY <1>1, <3>1 DEF Continues, StrandLog, PrivateGoesOn, Over
  <2> QED
    BY <1>3, <2>1, <2>2, <2>3 DEF Over
<1> QED
  BY <1>2, <1>3, StepIs

-----------------------------------------------------------------------------
(* The theorems.                                                           *)

\* The inductive invariant holds in every reachable state.
THEOREM EndInvAlways == Spec => []EndInv
<1>1. Init => EndInv
  <2> SUFFICES ASSUME Init
               PROVE  EndInv
    OBVIOUS
  <2>1. FlowInit /\ ShutdownTypeOK
    BY FlowTypesStart DEF Init, ShutdownTypeOK
  <2>2. IsFiniteSet(answering)
    BY <2>1, FS_EmptySet DEF FlowInit
  <2>3. \A s \in Sessions : Got(s) = {}
    BY <2>1 DEF FlowInit, Got, Lines
  <2> QED
    BY <2>1, <2>2, <2>3 DEF Init, EndInv, Kept, Over
<1>2. EndInv /\ ShutdownTypeOK' /\ [Next]_vars => EndInv'
  <2> SUFFICES ASSUME EndInv, ShutdownTypeOK', [Next]_vars
               PROVE  IsFiniteSet(answering)' /\ Kept' /\ Over'
    BY DEF EndInv
  <2>1. FlowTypeOK /\ Kept /\ IsFiniteSet(answering)
    BY TypesAre DEF EndInv
  <2>2. CASE UNCHANGED vars
    BY <2>2 DEF vars, flowVars, queueVars, historyVars, stopVars, EndInv, Kept, Over, Got, Settled, Writing, InHandler
  <2>3. CASE Next
    <3>1. /\ Keeps
          /\ answering' \subseteq answering \/ \E m \in Line : answering' = answering \cup {m}
      BY <2>1, <2>3, StepIs, ReadsKeeps, RunKeeps, GoesOnKeeps, StrandKeeps, AnswerKeeps,
         PrivateGoesOnKeeps, EndsKeeps DEF Starts, Continues, AnswerStarts, PrivateGoesOn
    <3>2. IsFiniteSet(answering')
      BY <2>1, <3>1, FS_Subset, FS_AddElement
    <3> QED
      BY <2>1, <2>3, <3>1, <3>2, KeepsKept, OverStays
  <2> QED
    BY <2>2, <2>3
<1> QED
  BY <1>1, <1>2, ShutdownTypeCorrect, PTL DEF Spec

\* Where the process ends with its history unharmed, whatever was delivered to
\* others than its sender is in the history, or its write was tried and failed.
THEOREM DeliveredAlwaysLogged == Spec => []DeliveredIsLogged
<1>1. EndInv => DeliveredIsLogged
  <2> SUFFICES ASSUME EndInv, main = "exited", history = "held", NEW s \in Sessions,
                      NEW i \in DOMAIN delivered[s], delivered[s][i].from # s
               PROVE  \/ delivered[s][i] \in unlogged
                      \/ \E j \in DOMAIN log : log[j] = delivered[s][i]
    BY DEF DeliveredIsLogged
  <2>1. delivered[s][i] \in Got(s)
    BY DEF Got, Lines
  <2>2. Writing = {}
    BY DEF EndInv, Over, Writing
  <2> QED
    BY <2>1, <2>2 DEF EndInv, Kept, Settled
<1> QED
  BY <1>1, EndInvAlways, PTL

=============================================================================
