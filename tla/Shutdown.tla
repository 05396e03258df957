------------------------------ MODULE Shutdown ------------------------------
(***************************************************************************)
(* The end of the process: main's signal handler, ChatServer::stop and the *)
(* closing of the sessions, while the handlers of MessageFlow are under    *)
(* way on the threads of the io_context they all share.                    *)
(*                                                                         *)
(* A handler occupies a thread from its start to its end: main's handler   *)
(* while HttpServer::stop joins its own threads, a handler between two of  *)
(* its steps, and a session's synchronous close until its peer answers.    *)
(***************************************************************************)
EXTENDS MessageFlow

CONSTANT NumThreads \* num_total_threads (4 in main)

ASSUME ShutdownAssumption == NumThreads \in Nat \ {0} /\ IsFiniteSet(Sessions)

VARIABLES
    sig,        \* main's signal handler: not called yet, in the stop() of the HTTP
                \* server, before that of the chat server, before that of ioc, over
    stopTask,   \* the task ChatServer::stop posts: none, posted, before the reset, over
    iocStopped, \* ioc was stopped: no further handler is started
    todo,       \* sessions_copy, as far as the task on strand_ has not got
    closing,    \* that task is under way
    closeAt,    \* the session it closes on its own thread, or None
    later,      \* sessions whose strand was busy: their close is queued there
    elsewhere,  \* sessions that are being closed on a thread of their own
    closed,     \* sessions whose close is over
    main        \* the main thread: joining the others, or back from main()

stopVars == <<sig, stopTask, iocStopped, todo, closing, closeAt, later, elsewhere, closed, main>>
vars == <<flowVars, stopVars>>

ShutdownTypeOK ==
    /\ FlowTypeOK
    /\ sig \in {"waiting", "http", "chat", "ioc", "done"}
    /\ stopTask \in {"none", "posted", "resetting", "done"}
    /\ iocStopped \in BOOLEAN /\ closing \in BOOLEAN
    /\ todo \subseteq Sessions /\ closeAt \in Sessions \cup {None}
    /\ later \subseteq Sessions /\ elsewhere \subseteq Sessions /\ closed \subseteq Sessions
    /\ main \in {"joining", "exited"}

Init ==
    /\ FlowInit
    /\ sig = "waiting"
    /\ stopTask = "none"
    /\ iocStopped = FALSE
    /\ todo = {} /\ closing = FALSE /\ closeAt = None
    /\ later = {} /\ elsewhere = {} /\ closed = {}
    /\ main = "joining"

-----------------------------------------------------------------------------
(* Threads.                                                                *)

One(p) == IF p THEN 1 ELSE 0
InHandler == {s \in Sessions : handler[s] # NoHandler}
Busy ==
    Cardinality(InHandler) + Cardinality(answering) + Cardinality(elsewhere)
    + One(running # Nothing \/ closing) + One(sig \in {"http", "chat", "ioc"})
    + One(stopTask = "resetting")

\* The use of a history that was reset may end the process.
Alive == history # "crashed"

\* A thread is free to start a handler.
MayStart == ~iocStopped /\ Busy < NumThreads

\* The strand of a session runs, or is queued to run, something of it.
StrandBusy(s) == handler[s] # NoHandler \/ posted[s] # <<>>
Closing(s) == s \in elsewhere \/ s = closeAt

-----------------------------------------------------------------------------
(* main's signal handler, on a thread of ioc.                              *)

Signal ==
    /\ sig = "waiting" /\ MayStart
    /\ sig' = "http"
    /\ UNCHANGED <<flowVars, stopTask, iocStopped, todo, closing, closeAt, later, elsewhere,
                   closed, main>>

\* http_server->stop() has returned, which it does when HttpServer's calls do.
HttpStopped ==
    /\ sig = "http"
    /\ sig' = "chat"
    /\ UNCHANGED <<flowVars, stopTask, iocStopped, todo, closing, closeAt, later, elsewhere,
                   closed, main>>

\* ChatServer::stop sets stopped_ and posts the rest ...
StopChat ==
    /\ sig = "chat"
    /\ sig' = "ioc"
    /\ stopped' = TRUE
    /\ stopTask' = "posted"
    /\ UNCHANGED <<asked, connVars, listed, members, handler, strand, running, answers,
                   answering, queueVars, historyVars, iocStopped, todo, closing,
                   closeAt, later, elsewhere, closed, main>>

\* Faulty variant: the shared io_context is left running.
StopIocNot ==
    /\ sig = "ioc"
    /\ sig' = "done"
    /\ UNCHANGED <<flowVars, stopTask, iocStopped, todo, closing, closeAt, later, elsewhere,
                   closed, main>>

\* ... and ioc.stop() follows at once.
StopIoc ==
    /\ sig = "ioc"
    /\ sig' = "done"
    /\ iocStopped' = TRUE
    /\ UNCHANGED <<flowVars, stopTask, todo, closing, closeAt, later, elsewhere, closed, main>>

\* Faulty variant: main does not join the threads.
ExitsAtOnce ==
    /\ main = "joining" /\ iocStopped
    /\ main' = "exited"
    /\ UNCHANGED <<flowVars, sig, stopTask, iocStopped, todo, closing, closeAt, later,
                   elsewhere, closed>>

\* ioc.run() has returned in every thread, and main has joined them all.
MainExits ==
    /\ main = "joining" /\ iocStopped /\ Busy = 0
    /\ main' = "exited"
    /\ UNCHANGED <<flowVars, sig, stopTask, iocStopped, todo, closing, closeAt, later,
                   elsewhere, closed>>

-----------------------------------------------------------------------------
(* What ChatServer::stop posts.                                            *)

\* On any thread: the sessions are left to strand_, then history_ is reset.
RunStopTask ==
    /\ stopTask = "posted" /\ MayStart
    /\ Queue("closeAll", None, Nothing)
    /\ stopTask' = "resetting"
    /\ UNCHANGED <<asked, connVars, listed, members, handler, running, answers, answering,
                   queueVars, historyVars, stopped, sig, iocStopped, todo, closing,
                   closeAt, later, elsewhere, closed, main>>

ResetHistory ==
    /\ stopTask = "resetting"
    /\ stopTask' = "done"
    /\ history' = "reset"
    /\ UNCHANGED <<asked, connVars, listed, members, handler, strand, running, answers,
                   answering, queueVars, log, unlogged, stopped, sig, iocStopped, todo,
                   closing, closeAt, later, elsewhere, closed, main>>

\* On strand_: the registries are emptied ...
CloseAll ==
    /\ Take("closeAll") /\ ~closing /\ MayStart
    /\ closing' = TRUE
    /\ todo' = listed
    /\ listed' = {}
    /\ UNCHANGED <<asked, connVars, members, handler, running, answers, answering,
                   queueVars, historyVars, stopped, sig, stopTask, iocStopped, closeAt, later,
                   elsewhere, closed, main>>

\* ... and each session is closed: dispatch() runs stop_session on this thread
\* when the session's strand is idle, and queues it there when it is not.
Dispatch(s) ==
    /\ closing /\ closeAt = None /\ s \in todo
    /\ todo' = todo \ {s}
    /\ IF StrandBusy(s) THEN later' = later \cup {s} /\ UNCHANGED closeAt
       ELSE closeAt' = s /\ UNCHANGED later
    /\ UNCHANGED <<flowVars, sig, stopTask, iocStopped, closing, elsewhere, closed, main>>

\* The end of the task: rooms_ is emptied too.
CloseAllEnds ==
    /\ closing /\ closeAt = None /\ todo = {}
    /\ closing' = FALSE
    /\ members' = {}
    /\ UNCHANGED <<asked, connVars, listed, handler, strand, running, answers, answering,
                   queueVars, historyVars, stopped, sig, stopTask, iocStopped, todo,
                   closeAt, later, elsewhere, closed, main>>

CloseLater(s) ==
    /\ s \in later /\ handler[s] = NoHandler /\ MayStart
    /\ later' = later \ {s}
    /\ elsewhere' = elsewhere \cup {s}
    /\ UNCHANGED <<flowVars, sig, stopTask, iocStopped, todo, closing, closeAt, closed, main>>

\* ws_.close returns: the peer has answered, or the connection is gone.
CloseReturns(s) ==
    /\ Closing(s)
    /\ closed' = closed \cup {s}
    /\ elsewhere' = elsewhere \ {s}
    /\ closeAt' = IF s = closeAt THEN None ELSE closeAt
    /\ UNCHANGED <<flowVars, sig, stopTask, iocStopped, todo, closing, later, main>>

-----------------------------------------------------------------------------
(* The handlers of MessageFlow, given a thread.  A connection that is closed *)
(* reads no more: the leave() its last read makes would find stopped_ set.  *)

Start(A) == Alive /\ MayStart /\ A /\ UNCHANGED stopVars
GoOn(A) == Alive /\ A /\ UNCHANGED stopVars

Read(s)       == s \notin closed /\ ~Closing(s) /\ Start(Reads(s))
Deliver(s)    == ~Closing(s) /\ Start(RunPosted(s))
StrandTask    == ~closing /\ Start(StrandStarts)
Answer        == Start(AnswerStarts)
SessionOn(s)  == GoOn(GoesOn(s))
StrandOn      == GoOn(StrandLog)
AnswerOn      == GoOn(PrivateGoesOn)

SignalOn == Alive /\ (StopChat \/ StopIoc)
StopOn   == Alive /\ (RunStopTask \/ ResetHistory)
CloseOn  == Alive /\ (CloseAll \/ CloseAllEnds \/ \E s \in Sessions : Dispatch(s))
Closed(s) == Alive /\ CloseReturns(s)

Next ==
    \/ Alive /\ (Signal \/ HttpStopped \/ MainExits \/ \E s \in Sessions : CloseLater(s))
    \/ SignalOn \/ StopOn \/ CloseOn
    \/ StrandTask \/ StrandOn \/ Answer \/ AnswerOn
    \/ \E s \in Sessions : Read(s) \/ Deliver(s) \/ SessionOn(s) \/ Closed(s)

\* A thread goes on with its handler; a free one takes a handler that is ready;
\* main goes on when the threads have ended.  Nothing is owed by the clients:
\* a synchronous close may wait for its peer for good, and so may the calls that
\* HttpServer::stop waits for.  Nor does a signal ever have to come.
Fairness ==
    /\ WF_vars(SignalOn) /\ WF_vars(Alive /\ MainExits) /\ WF_vars(StopOn) /\ WF_vars(CloseOn)
    /\ WF_vars(StrandTask) /\ WF_vars(StrandOn) /\ WF_vars(Answer) /\ WF_vars(AnswerOn)
    /\ \A s \in Sessions :
         WF_vars(Deliver(s)) /\ WF_vars(SessionOn(s))

Spec == Init /\ [][Next]_vars /\ Fairness

-----------------------------------------------------------------------------
(* What the end of the process keeps.                                      *)

\* Handlers that have looked, or will look without asking stopped_ again, at
\* history_.
Loggers == InHandler \cup answering \cup (IF running = Nothing THEN {} ELSE {running})

\* Once stopped_ is set no handler sets out to write to the history: whatever
\* still races with the reset of history_ was under way before.
LateNeverLogs == [][stopped => Loggers' \subseteq Loggers]_vars

\* Where the process ends before the history is reset, nobody has received a
\* line of somebody else that the history lacks, at whatever moment the signal
\* came, but for those whose write to it failed.
DeliveredIsLogged ==
    main = "exited" /\ history = "held" =>
        \A s \in Sessions : \A i \in DOMAIN delivered[s] :
            LET m == delivered[s][i]
            IN  m.from # s => m \in unlogged \/ \E j \in DOMAIN log : log[j] = m

\* A signal ends the process, whatever handlers were under way and whatever the
\* closing of sessions had got to, if each synchronous close that was begun
\* returns and HttpServer::stop does.
ClosesReturn == \A s \in Sessions : []<>~Closing(s)
HttpReturns == []<>(sig # "http")
ProcessExits == ClosesReturn /\ HttpReturns => (sig # "waiting" ~> main = "exited" \/ ~Alive)
=============================================================================
