-------------------------- MODULE HttpServerProofs --------------------------
(***************************************************************************)
(* Proofs about the HTTP server, for any threads, connections and          *)
(* requests: one operation and one handler at a time for each connection,  *)
(* a Places handler for each call, an accept loop that ends only together  *)
(* with a thread, connections kept alive as long as clients ask, and one   *)
(* answer to each request (RequestReply).                                  *)
(***************************************************************************)
EXTENDS PlacesApiProofs, SequenceTheorems, FiniteSetTheorems

-----------------------------------------------------------------------------
(* Queues without duplicates.                                              *)

Distinct(q) == \A i, j \in DOMAIN q : q[i] = q[j] => i = j
Has(q, h)   == \E i \in DOMAIN q : q[i] = h

\* Taking the head off takes exactly the head off.
LEMMA TailDistinct ==
    ASSUME NEW S, NEW q \in Seq(S), q # <<>>, Distinct(q)
    PROVE  /\ Tail(q) \in Seq(S)
           /\ Distinct(Tail(q))
           /\ \A h : Has(Tail(q), h) <=> Has(q, h) /\ h # Head(q)
<1> DEFINE r == Tail(q)
<1>1. /\ r \in Seq(S) /\ Len(r) = Len(q) - 1 /\ \A i \in 1..Len(r) : r[i] = q[i + 1]
      /\ Head(q) = q[1]
  BY HeadTailProperties
<1>2. Len(q) \in Nat \ {0} /\ DOMAIN q = 1..Len(q) /\ DOMAIN r = 1..Len(r)
  BY <1>1, EmptySeq, LenProperties
<1> HIDE DEF r
<1>3. Distinct(r)
  BY <1>1, <1>2 DEF Distinct
<1>4. ASSUME NEW h, Has(r, h) PROVE Has(q, h) /\ h # Head(q)
  <2>1. PICK i \in 1..Len(r) : r[i] = h
    BY <1>2, <1>4 DEF Has
  <2>2. i + 1 \in DOMAIN q /\ 1 \in DOMAIN q /\ i + 1 # 1 /\ q[i + 1] = h
    BY <1>1, <1>2, <2>1
  <2> QED
    BY <1>1, <2>2 DEF Has, Distinct
<1>5. ASSUME NEW h, Has(q, h), h # Head(q) PROVE Has(r, h)
  <2>1. PICK i \in 1..Len(q) : q[i] = h
    BY <1>2, <1>5 DEF Has
  <2>2. i # 1
    BY <1>1, <1>5, <2>1
  <2>3. i - 1 \in 1..Len(r) /\ r[i - 1] = h
    BY <1>1, <1>2, <2>1, <2>2
  <2> QED
    BY <1>2, <2>3 DEF Has
<1> QED
  BY <1>1, <1>3, <1>4, <1>5 DEF r

\* A handler that was not there is put at the end.
LEMMA AppendDistinct ==
    ASSUME NEW S, NEW q \in Seq(S), NEW x \in S, Distinct(q), ~Has(q, x)
    PROVE  /\ Append(q, x) \in Seq(S)
           /\ Distinct(Append(q, x))
           /\ \A h : Has(Append(q, x), h) <=> Has(q, h) \/ h = x
<1> DEFINE r == Append(q, x)
<1>1. /\ r \in Seq(S) /\ Len(r) = Len(q) + 1 /\ r[Len(q) + 1] = x
      /\ \A i \in 1..Len(q) : r[i] = q[i]
  BY AppendProperties
<1>2. Len(q) \in Nat /\ DOMAIN q = 1..Len(q) /\ DOMAIN r = 1..Len(r)
  BY <1>1, LenProperties
<1> HIDE DEF r
<1>3. \A i \in 1..Len(r) : i = Len(q) + 1 \/ i \in 1..Len(q)
  BY <1>1, <1>2
<1>4. Distinct(r)
  BY <1>1, <1>2, <1>3 DEF Distinct, Has
<1>5. \A h : Has(r, h) <=> Has(q, h) \/ h = x
  <2>1. Len(q) + 1 \in DOMAIN r /\ \A i \in DOMAIN q : i \in DOMAIN r
    BY <1>1, <1>2
  <2> QED
    BY <1>1, <1>2, <1>3, <2>1 DEF Has
<1> QED
  BY <1>1, <1>4, <1>5 DEF r

-----------------------------------------------------------------------------
(* Types.                                                                  *)

\* The types of the server's own variables; those of the calls are CallsInv's.
LEMMA HandlerTypes ==
    ASSUME HttpTypeOK, PlacesTypeOK', NEW t \in Threads, ThreadStep(t)
    PROVE  HttpTypeOK'
<1>1. /\ thread \in [Threads -> NotServing \cup Conns]
      /\ ready \in Seq(Conns \cup {"accept"})
      /\ conn \in [Conns -> ConnStates]
      /\ accepted \in Conns \cup {None}
  BY DEF HttpTypeOK
<1>2. \A h : Takes(t, h) => ready # <<>> /\ Tail(ready) \in Seq(Conns \cup {"accept"})
  BY <1>1, HeadTailProperties DEF Takes
<1>3. CASE OnAcceptError(t)
  BY <1>2, <1>3 DEF OnAcceptError, Done, HttpTypeOK, serverVars, acceptVars, clientVars
<1>4. CASE OnAccept(t)
  <2>1. accepted \in Conns /\ ready' \in Seq(Conns \cup {"accept"})
    BY <1>1, <1>2, <1>4, AppendProperties DEF OnAccept, DoneThen
  <2> QED
    BY <1>4, <2>1 DEF OnAccept, HttpTypeOK, serverVars, acceptVars, clientVars, ConnStates, Completed
<1>5. CASE OnAcceptThrows(t)
  BY <1>2, <1>5 DEF OnAcceptThrows, Done, HttpTypeOK, serverVars, acceptVars, clientVars, ConnStates, NotServing
<1>6. ASSUME NEW c \in Conns, OnRun(t, c)
      PROVE  HttpTypeOK'
  BY <1>2, <1>6 DEF OnRun, DoRead, Done, HttpTypeOK, serverVars, acceptVars, clientVars, ConnStates, Pending
<1>7. ASSUME NEW c \in Conns, OnReadLocal(t, c)
      PROVE  HttpTypeOK'
  BY <1>2, <1>7 DEF OnReadLocal, SendResponse, NeedEof, Done, HttpTypeOK, serverVars, acceptVars, clientVars, ConnStates, Pending
<1>8. ASSUME NEW c \in Conns, OnReadPlaces(t, c)
      PROVE  HttpTypeOK'
  BY <1>2, <1>8 DEF OnReadPlaces, Done, HttpTypeOK, serverVars, acceptVars, clientVars, ConnStates
<1>9. CASE PlacesStep(t)
  BY <1>9 DEF PlacesStep, HttpTypeOK, serverVars, acceptVars, clientVars
<1>10. CASE OnAnswer(t)
  BY <1>10 DEF OnAnswer, SendResponse, NeedEof, HttpTypeOK, serverVars, acceptVars, clientVars, ConnStates, Pending, NotServing
<1>11. ASSUME NEW c \in Conns, OnWrite(t, c)
       PROVE  HttpTypeOK'
  BY <1>2, <1>11 DEF OnWrite, DoRead, Done, HttpTypeOK, serverVars, acceptVars, clientVars, ConnStates, Pending
<1>12. ASSUME NEW c \in Conns, OnError(t, c)
       PROVE  HttpTypeOK'
  BY <1>2, <1>12 DEF OnError, Done, HttpTypeOK, serverVars, acceptVars, clientVars, ConnStates
<1>13. CASE LeaveRun(t)
  BY <1>13 DEF LeaveRun, HttpTypeOK, serverVars, acceptVars, clientVars, NotServing
<1> QED
  BY <1>3, <1>4, <1>5, <1>6, <1>7, <1>8, <1>9, <1>10, <1>11, <1>12, <1>13
     DEF ThreadStep, Handle

LEMMA OutsideTypes ==
    ASSUME HttpTypeOK, PlacesTypeOK', NEW c \in Conns,
           AcceptFails \/ NetworkStep(c) \/ ClientStep(c)
    PROVE  HttpTypeOK'
<1>1. /\ ready \in Seq(Conns \cup {"accept"}) /\ inbox[c] \in Seq(Requests)
      /\ MaxRequests \in Nat
  BY HttpAssumption DEF HttpTypeOK
<1>2. \A h \in Conns \cup {"accept"} : Append(ready, h) \in Seq(Conns \cup {"accept"})
  BY <1>1, AppendProperties
<1>3. CASE AcceptFails
  BY <1>2, <1>3 DEF AcceptFails, Completes, HttpTypeOK, serverVars, acceptVars, clientVars
<1>4. CASE AcceptCompletes(c)
  BY <1>2, <1>4 DEF AcceptCompletes, Completes, HttpTypeOK, serverVars, acceptVars, clientVars
<1>5. CASE ReadCompletes(c)
  <2>1. Head(inbox[c]) \in Requests /\ Tail(inbox[c]) \in Seq(Requests)
    BY <1>1, <1>5, HeadTailProperties DEF ReadCompletes
  <2> QED
    BY <1>2, <1>5, <2>1 DEF ReadCompletes, Completes, HttpTypeOK, serverVars, acceptVars, clientVars, ConnStates, Completed
<1>6. CASE ReadFails(c)
  BY <1>2, <1>6 DEF ReadFails, Completes, HttpTypeOK, serverVars, acceptVars, clientVars, ConnStates, Completed
<1>7. CASE WriteEnds(c)
  BY <1>2, <1>7 DEF WriteEnds, Completes, HttpTypeOK, serverVars, acceptVars, clientVars, ConnStates, Completed
<1>8. CASE Dial(c)
  BY <1>8 DEF Dial, HttpTypeOK, serverVars, acceptVars, clientVars, ConnStates
<1>9. ASSUME NEW r \in Requests, Send(c, r)
      PROVE  HttpTypeOK'
  <2>1. Append(inbox[c], r) \in Seq(Requests)
    BY <1>1, AppendProperties
  <2> QED
    BY <1>1, <1>9, <2>1 DEF Send, HttpTypeOK, serverVars, acceptVars, clientVars
<1> QED
  BY <1>3, <1>4, <1>5, <1>6, <1>7, <1>8, <1>9 DEF NetworkStep, ClientStep

LEMMA ServerTypes ==
    ASSUME HttpTypeOK, PlacesTypeOK', RunServer \/ StopServer \/ JoinThreads \/ AcceptFails
    PROVE  HttpTypeOK'
<1>1. ready \in Seq(Conns \cup {"accept"}) /\ Append(ready, "accept") \in Seq(Conns \cup {"accept"})
  BY AppendProperties DEF HttpTypeOK
<1>2. CASE RunServer
  BY <1>2 DEF RunServer, HttpTypeOK, serverVars, acceptVars, clientVars, Phases, Listeners, NotServing
<1>3. CASE StopServer
  BY <1>3 DEF StopServer, HttpTypeOK, serverVars, acceptVars, clientVars, Phases
<1>4. CASE JoinThreads
  BY <1>4 DEF JoinThreads, HttpTypeOK, serverVars, acceptVars, clientVars, Phases, Listeners
<1>5. CASE AcceptFails
  BY <1>1, <1>5 DEF AcceptFails, Completes, HttpTypeOK, serverVars, acceptVars, clientVars
<1> QED
  BY <1>2, <1>3, <1>4, <1>5

\* The server starts with nothing made.
LEMMA HttpStarts == Init => HttpTypeOK
<1>1. \A S : <<>> \in Seq(S)
  BY EmptySeq
<1>2. Init => PlacesTypeOK
  BY StartSound DEF Init, PlacesInit, PlacesTypeOK, Kinds, Sound
<1> QED
  BY <1>1, <1>2, HttpAssumption
     DEF Init, HttpTypeOK, Phases, Listeners, NotServing, ConnStates

\* Every reachable state of the HTTP server has the types its declarations give it.
THEOREM HttpTypeCorrect == Spec => []HttpTypeOK
<1>1. Init => HttpTypeOK
  BY HttpStarts
<1>2. HttpTypeOK /\ PlacesTypeOK' /\ [Next]_vars => HttpTypeOK'
  <2> SUFFICES ASSUME HttpTypeOK, PlacesTypeOK', [Next]_vars
               PROVE  HttpTypeOK'
    OBVIOUS
  <2>1. CASE UNCHANGED vars
    BY <2>1 DEF vars, HttpTypeOK
  <2> QED
    BY <2>1, HandlerTypes, OutsideTypes, ServerTypes DEF Next
<1>3. CallsInv => PlacesTypeOK
  BY DEF CallsInv
<1> QED
  BY <1>1, <1>2, <1>3, CallsAlways, PTL DEF Spec

-----------------------------------------------------------------------------
(* The inductive invariant.                                                *)

\* What is ready to run: each handler once, and exactly for those whose operation
\* has completed.
Turns ==
    /\ Distinct(ready)
    /\ \A c \in Conns : Has(ready, c) <=> conn[c] \in Completed
    /\ Has(ready, "accept") <=> acceptor = "completed"

\* What is running: each call on one thread, for one connection.
Serves ==
    /\ \A t \in Threads : thread[t] \in Conns => conn[thread[t]] = "serving"
    /\ \A t, u \in Threads : thread[t] \in Conns /\ thread[t] = thread[u] => t = u
    /\ \A c \in Conns : conn[c] = "serving" => \E t \in Threads : thread[t] = c
    /\ \A t \in Threads : At(t, "none") <=> thread[t] \notin Conns

\* A connection that was accepted is not known to any session before on_accept.
Accepting == accepted # None => acceptor = "completed" /\ conn[accepted] = "backlog"

\* There are connections only where a listener was made, and before run() nothing
\* at all.
Listening ==
    /\ phase = "new" =>
         /\ listener = "none" /\ accepted = None /\ acceptor = "idle" /\ ready = <<>>
         /\ \A c \in Conns : conn[c] = "none"
         /\ \A t \in Threads : thread[t] = "new"
    /\ phase \in {"running", "stopping"} => listener \in {"listening", "failed"}
    /\ listener = "failed" => \A c \in Conns : conn[c] = "none"
    /\ HandlerPresent

\* A response that ends its connection answers a request that asked for it.
EofAsked == \A c \in Conns : conn[c] \in {"writing", "written"} /\ eof[c] => req[c].close

HttpInv == HttpTypeOK /\ Turns /\ Serves /\ Accepting /\ Listening /\ AcceptEndsWithThread /\ EofAsked

-----------------------------------------------------------------------------
(* The queue of handlers.                                                  *)

\* A connection's handler is taken, and none of it is ready any more.
LEMMA TurnTaken ==
    ASSUME HttpTypeOK, Turns, NEW t, NEW c \in Conns, Takes(t, c), Done,
           NEW x, x \notin Completed, conn' = [conn EXCEPT ![c] = x], acceptor' = acceptor
    PROVE  Turns'
<1>1. ready \in Seq(Conns \cup {"accept"}) /\ ready # <<>> /\ Head(ready) = c
  BY DEF HttpTypeOK, Takes
<1>2. /\ Distinct(ready') /\ \A h : Has(ready', h) <=> Has(ready, h) /\ h # c
  BY <1>1, TailDistinct DEF Turns, Done
<1>3. c # "accept"
  BY HttpAssumption
<1>4. \A d \in Conns : conn'[d] = IF d = c THEN x ELSE conn[d]
  BY DEF HttpTypeOK
<1> QED
  BY <1>2, <1>3, <1>4 DEF Turns

\* The handler of an accept is taken, and no connection's.
LEMMA AcceptTurnTaken ==
    ASSUME HttpTypeOK, Turns, NEW t, Takes(t, "accept"), Done, acceptor' # "completed",
           \A c \in Conns : conn'[c] \in Completed <=> conn[c] \in Completed
    PROVE  Turns'
<1>1. ready \in Seq(Conns \cup {"accept"}) /\ ready # <<>> /\ Head(ready) = "accept"
  BY DEF HttpTypeOK, Takes
<1>2. /\ Distinct(ready') /\ \A h : Has(ready', h) <=> Has(ready, h) /\ h # "accept"
  BY <1>1, TailDistinct DEF Turns, Done
<1>3. \A c \in Conns : c # "accept"
  BY HttpAssumption
<1> QED
  BY <1>2, <1>3 DEF Turns

\* An operation of a connection completes.
LEMMA TurnMade ==
    ASSUME HttpTypeOK, Turns, NEW c \in Conns, conn[c] \notin Completed, Completes(c),
           NEW x \in Completed, conn' = [conn EXCEPT ![c] = x], acceptor' = acceptor
    PROVE  Turns'
<1>1. ready \in Seq(Conns \cup {"accept"}) /\ ~Has(ready, c) /\ ready' = Append(ready, c)
  BY DEF HttpTypeOK, Turns, Completes
<1>2. /\ Distinct(ready') /\ \A h : Has(ready', h) <=> Has(ready, h) \/ h = c
  BY <1>1, AppendDistinct DEF Turns
<1>3. c # "accept"
  BY HttpAssumption
<1>4. \A d \in Conns : conn'[d] = IF d = c THEN x ELSE conn[d]
  BY DEF HttpTypeOK
<1> QED
  BY <1>2, <1>3, <1>4 DEF Turns

\* An accept completes.
LEMMA AcceptTurnMade ==
    ASSUME HttpTypeOK, Turns, acceptor = "pending", Completes("accept"),
           acceptor' = "completed", conn' = conn
    PROVE  Turns'
<1>1. ready \in Seq(Conns \cup {"accept"}) /\ ~Has(ready, "accept") /\ ready' = Append(ready, "accept")
  BY DEF HttpTypeOK, Turns, Completes
<1>2. /\ Distinct(ready') /\ \A h : Has(ready', h) <=> Has(ready, h) \/ h = "accept"
  BY <1>1, AppendDistinct DEF Turns
<1>3. \A c \in Conns : c # "accept"
  BY HttpAssumption
<1> QED
  BY <1>2, <1>3 DEF Turns

\* on_accept: its own handler is taken, the new session's is put at the end.
LEMMA SessionTurnMade ==
    ASSUME HttpTypeOK, Turns, Accepting, NEW t, OnAccept(t)
    PROVE  Turns'
<1> DEFINE S == Conns \cup {"accept"}
           r == Tail(ready)
<1>1. /\ ready \in Seq(S) /\ ready # <<>> /\ Head(ready) = "accept"
      /\ accepted \in Conns /\ accepted \in S /\ conn[accepted] = "backlog"
      /\ ready' = Append(r, accepted) /\ acceptor' = "pending"
  BY DEF HttpTypeOK, Takes, OnAccept, DoneThen, Accepting
<1>2. /\ r \in Seq(S) /\ Distinct(r) /\ \A h : Has(r, h) <=> Has(ready, h) /\ h # "accept"
  BY <1>1, TailDistinct DEF Turns
<1>3. ~Has(r, accepted)
  BY <1>1, <1>2 DEF Turns, Completed
<1> HIDE DEF r, S
<1>4. /\ Distinct(ready') /\ \A h : Has(ready', h) <=> Has(r, h) \/ h = accepted
  BY <1>1, <1>2, <1>3, AppendDistinct
<1>5. \A c \in Conns : c # "accept"
  BY HttpAssumption
<1>6. \A d \in Conns : conn'[d] = IF d = accepted THEN "opened" ELSE conn[d]
  BY DEF HttpTypeOK, OnAccept
<1> QED
  BY <1>1, <1>2, <1>4, <1>5, <1>6 DEF Turns, Completed

\* Every step of the server keeps the queue true.
LEMMA TurnsStep ==
    ASSUME HttpTypeOK, HttpTypeOK', Turns, Serves, Accepting, Listening, [Next]_vars
    PROVE  Turns'
<1>1. ASSUME ready' = ready, acceptor' = acceptor,
             \A c \in Conns : conn'[c] \in Completed <=> conn[c] \in Completed
      PROVE  Turns'
  BY <1>1 DEF Turns
<1>2. ASSUME NEW t \in Threads, ThreadStep(t)
      PROVE  Turns'
  <2>1. CASE OnAcceptError(t)
    BY <2>1, AcceptTurnTaken DEF OnAcceptError
  <2>2. CASE OnAccept(t)
    BY <2>2, SessionTurnMade
  <2>3. CASE OnAcceptThrows(t)
    <3>1. accepted \in Conns /\ conn[accepted] = "backlog" /\ acceptor' # "completed"
      BY <2>3 DEF OnAcceptThrows, HttpTypeOK, Accepting
    <3>2. \A c \in Conns : conn'[c] \in Completed <=> conn[c] \in Completed
      BY <2>3, <3>1 DEF OnAcceptThrows, HttpTypeOK, Completed
    <3> QED
      BY <2>3, <3>1, <3>2, AcceptTurnTaken DEF OnAcceptThrows
  <2>4. ASSUME NEW c \in Conns, Handle(t, c)
        PROVE  Turns'
    <3>1. acceptor' = acceptor /\ Takes(t, c) /\ Done
      BY <2>4 DEF Handle, OnRun, OnReadLocal, OnReadPlaces, OnWrite, OnError, acceptVars
    <3>2. \E x : x \notin Completed /\ conn' = [conn EXCEPT ![c] = x]
      <4>1. {"reading", "writing", "serving", "closed"} \cap Completed = {}
        BY DEF Completed
      <4> QED
        BY <2>4, <4>1 DEF Handle, OnRun, OnReadLocal, OnReadPlaces, OnWrite, OnError,
                          DoRead, SendResponse
    <3> QED
      BY <3>1, <3>2, TurnTaken
  <2>5. CASE PlacesStep(t)
    BY <1>1, <2>5 DEF PlacesStep, acceptVars
  <2>6. CASE OnAnswer(t)
    BY <1>1, <2>6 DEF OnAnswer, SendResponse, acceptVars, Serves, HttpTypeOK, Completed
  <2>7. CASE LeaveRun(t)
    BY <1>1, <2>7 DEF LeaveRun, acceptVars
  <2> QED
    BY <1>2, <2>1, <2>2, <2>3, <2>4, <2>5, <2>6, <2>7 DEF ThreadStep
<1>3. CASE RunServer
  BY <1>3 DEF RunServer, Listening, Turns, Distinct, Has, Completed
<1>4. CASE StopServer \/ JoinThreads \/ UNCHANGED vars
  BY <1>1, <1>4 DEF StopServer, JoinThreads, vars, acceptVars
<1>5. CASE AcceptFails
  BY <1>5, AcceptTurnMade DEF AcceptFails
<1>6. ASSUME NEW c \in Conns, NetworkStep(c)
      PROVE  Turns'
  <2>1. CASE AcceptCompletes(c)
    BY <2>1, AcceptTurnMade DEF AcceptCompletes
  <2>2. CASE ReadCompletes(c) \/ ReadFails(c) \/ WriteEnds(c)
    <3>1. /\ conn[c] \notin Completed /\ Completes(c) /\ acceptor' = acceptor
          /\ \E x \in Completed : conn' = [conn EXCEPT ![c] = x]
      BY <2>2 DEF ReadCompletes, ReadFails, WriteEnds, Completed, acceptVars
    <3> QED
      BY <3>1, TurnMade
  <2> QED
    BY <1>6, <2>1, <2>2 DEF NetworkStep
<1>7. ASSUME NEW c \in Conns, ClientStep(c)
      PROVE  Turns'
  BY <1>1, <1>7 DEF ClientStep, Dial, Send, acceptVars, HttpTypeOK, Completed
<1> QED
  BY <1>2, <1>3, <1>4, <1>5, <1>6, <1>7 DEF Next

-----------------------------------------------------------------------------
(* The calls and their threads.                                            *)

\* Whatever way a call is answered, it is at its answer then.
LEMMA AnswersAt ==
    ASSUME NEW c \in Call
    PROVE  /\ \A st : PassUpstream(c, st).at = "answer"
           /\ Caught(c).at = "answer"
           /\ Normal(c).at = "answer"
           /\ \A st : Answered(c, st, FALSE).at = "answer"
<1>1. \A st : createErrorResponse(c, st).at = "answer" /\ Answered(c, st, FALSE).at = "answer"
  BY DEF createErrorResponse, Answered, Call
<1>2. Normal(c).at = "answer"
  BY DEF Normal, Answered, Call
<1> QED
  BY <1>1, <1>2 DEF PassUpstream, Caught

\* A step of a call neither starts nor removes it, and leaves the others alone.
LEMMA UpstreamGoesOn ==
    ASSUME CallsInv, NEW t \in Threads, UpstreamStep(t)
    PROVE  /\ call[t].at # "none" /\ call'[t].at # "none"
           /\ \A u \in Threads \ {t} : call'[u] = call[u]
<1> DEFINE c == call[t]
<1>1. c \in Call /\ call \in [Threads -> Call]
  BY SoundAt DEF CallsInv, PlacesTypeOK
<1>2. c.at # "none"
  BY DEF UpstreamStep, Resolve, Connect, Resume, ExchangeApi, ExchangePhoto, Redirect, At
<1>3. ASSUME NEW d, Set(t, d) PROVE call'[t] = d /\ \A u \in Threads \ {t} : call'[u] = call[u]
  BY <1>1, <1>3 DEF Set
<1>4. ASSUME NEW d \in Call
      PROVE  Caught(d).at # "none" /\ NextAttempt(d).at # "none" /\ Thrown(d).at # "none"
  <2> DEFINE next == [d EXCEPT !.retry = @ + 1]
  <2>1. Caught(d).at = "answer"
    BY AnswersAt
  <2>2. NextAttempt(d).at # "none"
    <3>1. CASE next.retry < MaxRetries
      BY <3>1 DEF NextAttempt, Call
    <3>2. CASE ~(next.retry < MaxRetries)
      BY <3>2 DEF NextAttempt, Caught, createErrorResponse, Normal, Answered, Call
    <3> QED
      BY <3>1, <3>2
  <2> QED
    BY <2>1, <2>2 DEF Thrown
<1>5. \E d : d.at # "none" /\ Set(t, d)
  <2>1. CASE Resolve(t)
    <3>1. [c EXCEPT !.at = "connect"].at # "none"
      BY <1>1 DEF Call
    <3>2. Set(t, [c EXCEPT !.at = "connect"]) \/ Set(t, Caught(c))
      BY <2>1 DEF Resolve, Goto
    <3>3. Caught(c).at # "none"
      BY <1>1, <1>4
    <3> QED
      BY <3>1, <3>2, <3>3
  <2>2. CASE Connect(t)
    <3> DEFINE d == [c EXCEPT !.tries = @ + 1]
    <3>1. d \in Call
      <4>1. c.tries + 1 \in Nat
        BY <1>1 DEF Call
      <4>2. \A n \in Nat : [c EXCEPT !.tries = n] \in Call
        BY <1>1 DEF Call
      <4> QED
        BY <4>1, <4>2
    <3>2. Connect(t) =>
            \/ Set(t, [d EXCEPT !.linked = TRUE, !.at = "exchange"])
            \/ Set(t, Caught(d)) \/ Set(t, Thrown(d))
            \/ Set(t, [d EXCEPT !.at = "pause"])
      BY DEF Connect
    <3> HIDE DEF d
    <3>3. [d EXCEPT !.linked = TRUE, !.at = "exchange"].at # "none"
          /\ [d EXCEPT !.at = "pause"].at # "none"
      BY <3>1 DEF Call
    <3> QED
      BY <1>4, <2>2, <3>1, <3>2, <3>3
  <2>3. CASE Resume(t)
    <3>1. [c EXCEPT !.linked = FALSE] \in Call
      BY <1>1, LinkedTyped
    <3> QED
      BY <1>4, <2>3, <3>1 DEF Resume
  <2>4. CASE ExchangeApi(t) \/ ExchangePhoto(t) \/ Redirect(t)
    <3>1. ASSUME NEW st \in Statuses, NEW p
          PROVE  ApiAnswer(c, st, p).at # "none" /\ FetchedPhoto(c, st).at # "none"
      <4> DEFINE got == [c EXCEPT !.up = st]
      <4>1. got \in Call
        BY <1>1 DEF Call
      <4>2. /\ ApiAnswer(c, st, p) \in {PassUpstream(got, st), Caught(got), Normal(got)}
            /\ FetchedPhoto(c, st) \in
                   {Normal(got), Answered(got, st, FALSE), Answered(got, 0, FALSE)}
        BY DEF ApiAnswer, FetchedPhoto
      <4> HIDE DEF got
      <4> QED
        BY <4>1, <4>2, AnswersAt
    <3>2. [c EXCEPT !.up = 302, !.at = "redirect"].at # "none" /\ Caught(c).at # "none"
      BY <1>1, <1>4 DEF Call
    <3>3. \A u \in Upstream : u[1] \in Statuses
      BY DEF Upstream
    <3>4. \A st \in Statuses : Caught(CutOff(c, st)).at # "none"
      BY <1>1, <1>4, CutOffTyped
    <3> QED
      BY <2>4, <3>1, <3>2, <3>3, <3>4 DEF ExchangeApi, ExchangePhoto, Redirect
  <2> QED
    BY <2>1, <2>2, <2>3, <2>4 DEF UpstreamStep
<1> QED
  BY <1>2, <1>3, <1>5

\* A step that leaves calls and threads alone and only touches connections that
\* no thread serves.
LEMMA ServesSame ==
    ASSUME Serves, call' = call, thread' = thread,
           \A c \in Conns : conn'[c] = "serving" <=> conn[c] = "serving"
    PROVE  Serves'
BY DEF Serves, At

LEMMA ServesStep ==
    ASSUME HttpInv, CallsInv, HttpTypeOK', [Next]_vars
    PROVE  Serves'
<1>1. /\ conn \in [Conns -> ConnStates] /\ thread \in [Threads -> NotServing \cup Conns]
      /\ call \in [Threads -> Call]
      /\ \A c \in Conns : c \notin NotServing
  BY HttpAssumption DEF HttpInv, HttpTypeOK, PlacesTypeOK, NotServing
<1>2. Serves /\ Accepting /\ Listening
  BY DEF HttpInv
<1>3. ASSUME NEW c \in Conns, NEW x, conn[c] # "serving", x # "serving",
             conn' = [conn EXCEPT ![c] = x], call' = call, thread' = thread
      PROVE  Serves'
  BY <1>1, <1>2, <1>3, ServesSame
<1>4. ASSUME NEW t \in Threads, thread[t] \notin Conns, thread' = [thread EXCEPT ![t] = "out"],
             call' = call, \A c \in Conns : conn'[c] = "serving" <=> conn[c] = "serving"
      PROVE  Serves'
  BY <1>1, <1>2, <1>4 DEF Serves, At, NotServing
<1>5. ASSUME NEW t \in Threads, ThreadStep(t)
      PROVE  Serves'
  <2>1. CASE OnAcceptError(t)
    BY <1>2, <2>1, ServesSame DEF OnAcceptError
  <2>2. CASE OnAccept(t) \/ OnAcceptThrows(t)
    <3>1. accepted \in Conns /\ conn[accepted] # "serving"
      BY <1>2, <2>2 DEF OnAccept, OnAcceptThrows, Accepting, HttpInv, HttpTypeOK
    <3>2. CASE OnAccept(t)
      BY <1>3, <3>1, <3>2 DEF OnAccept
    <3>3. CASE OnAcceptThrows(t)
      <4>1. thread[t] \notin Conns
        BY <1>1, <3>3 DEF OnAcceptThrows, Takes, NotServing
      <4>2. \A c \in Conns : conn'[c] = "serving" <=> conn[c] = "serving"
        BY <1>1, <3>1, <3>3 DEF OnAcceptThrows
      <4> QED
        BY <1>4, <3>3, <4>1, <4>2 DEF OnAcceptThrows
    <3> QED
      BY <2>2, <3>2, <3>3
  <2>3. ASSUME NEW c \in Conns, OnRun(t, c) \/ OnReadLocal(t, c) \/ OnWrite(t, c) \/ OnError(t, c)
        PROVE  Serves'
    <3>1. \E x : x # "serving" /\ conn' = [conn EXCEPT ![c] = x]
      BY <2>3 DEF OnRun, OnReadLocal, OnWrite, OnError, DoRead, SendResponse
    <3>2. conn[c] # "serving" /\ call' = call /\ thread' = thread
      BY <2>3 DEF OnRun, OnReadLocal, OnWrite, OnError
    <3> QED
      BY <1>3, <3>1, <3>2
  <2>4. ASSUME NEW c \in Conns, OnReadPlaces(t, c)
        PROVE  Serves'
    <3>1. /\ conn[c] = "read" /\ thread[t] = "waiting" /\ thread[t] \notin Conns
          /\ conn' = [conn EXCEPT ![c] = "serving"] /\ thread' = [thread EXCEPT ![t] = c]
      BY <1>1, <2>4 DEF OnReadPlaces, Takes, NotServing
    <3>2. \E d : d.at # "none" /\ Set(t, d)
      <4>1. \A kind \in Kinds : Calling(kind).at # "none" /\ Refused(kind).at # "none"
        <5>1. ASSUME NEW kind \in Kinds PROVE Calling(kind).at = "resolve" /\ Calling(kind) \in Call
          <6>1. Calling(kind).at = "resolve"
            BY DEF Calling, NoCall
          <6> QED
            BY <6>1, StartSound DEF Sound
        <5>2. \A d \in Call : createErrorResponse(d, 400).at = "answer"
          BY DEF createErrorResponse, Answered, Call
        <5> QED
          BY <5>1, <5>2 DEF Refused
      <4> QED
        BY <2>4, <4>1 DEF OnReadPlaces, Kinds, handleNearbySearch, handleTextSearch,
                          handlePlaceDetails, handlePlacePhoto
    <3>3. call'[t].at # "none" /\ \A u \in Threads \ {t} : call'[u] = call[u]
      BY <1>1, <3>2 DEF Set
    <3>4. \A u \in Threads : thread[u] # c
      BY <1>2, <3>1 DEF Serves
    <3>5. \A u \in Threads : thread'[u] = IF u = t THEN c ELSE thread[u]
      BY <1>1, <3>1
    <3>6. \A d \in Conns : conn'[d] = IF d = c THEN "serving" ELSE conn[d]
      BY <1>1, <3>1
    <3> QED
      BY <1>2, <3>1, <3>3, <3>4, <3>5, <3>6 DEF Serves, At
  <2>5. CASE PlacesStep(t)
    <3>1. call[t].at # "none" /\ call'[t].at # "none"
          /\ \A u \in Threads \ {t} : call'[u] = call[u]
      BY <2>5, UpstreamGoesOn DEF PlacesStep
    <3> QED
      BY <1>2, <2>5, <3>1 DEF PlacesStep, Serves, At
  <2>6. CASE OnAnswer(t)
    <3> DEFINE c == thread[t]
    <3>1. /\ c \in Conns /\ conn' = [conn EXCEPT ![c] = "writing"]
          /\ thread' = [thread EXCEPT ![t] = "waiting"] /\ call' = [call EXCEPT ![t] = NoCall]
      BY <2>6 DEF OnAnswer, SendResponse, Set
    <3>2. NoCall.at = "none" /\ "waiting" \notin Conns
      BY <1>1 DEF NoCall, NotServing
    <3>3. \A u \in Threads : thread'[u] = IF u = t THEN "waiting" ELSE thread[u]
      BY <1>1, <3>1
    <3>4. \A d \in Conns : conn'[d] = IF d = c THEN "writing" ELSE conn[d]
      BY <1>1, <3>1
    <3>5. \A u \in Threads : call'[u] = IF u = t THEN NoCall ELSE call[u]
      BY <1>1, <3>1
    <3> QED
      BY <1>2, <3>1, <3>2, <3>3, <3>4, <3>5 DEF Serves, At
  <2>7. CASE LeaveRun(t)
    BY <1>1, <1>4, <2>7 DEF LeaveRun, NotServing
  <2> QED
    BY <1>5, <2>1, <2>2, <2>3, <2>4, <2>5, <2>6, <2>7 DEF ThreadStep, Handle
<1>6. CASE RunServer
  BY <1>1, <1>2, <1>6 DEF RunServer, Listening, Serves, At, NotServing
<1>7. CASE StopServer \/ JoinThreads \/ AcceptFails \/ UNCHANGED vars
  BY <1>2, <1>7, ServesSame DEF StopServer, JoinThreads, AcceptFails, vars
<1>8. ASSUME NEW c \in Conns, NetworkStep(c) \/ ClientStep(c)
      PROVE  Serves'
  <2>1. CASE conn' = conn
    BY <1>2, <1>8, <2>1, ServesSame DEF NetworkStep, ClientStep, AcceptCompletes, ReadCompletes,
                                       ReadFails, WriteEnds, Dial, Send
  <2>2. CASE conn' # conn
    <3>1. \E x : x # "serving" /\ conn' = [conn EXCEPT ![c] = x]
      BY <1>8, <2>2 DEF NetworkStep, ClientStep, AcceptCompletes, ReadCompletes, ReadFails,
                        WriteEnds, Dial, Send
    <3>2. conn[c] # "serving" /\ call' = call /\ thread' = thread
      BY <1>8, <2>2 DEF NetworkStep, ClientStep, AcceptCompletes, ReadCompletes, ReadFails,
                        WriteEnds, Dial, Send
    <3> QED
      BY <1>3, <3>1, <3>2
  <2> QED
    BY <2>1, <2>2
<1> QED
  BY <1>5, <1>6, <1>7, <1>8 DEF Next

-----------------------------------------------------------------------------
(* Accepting, the listener, and the answers that end a connection.         *)

LEMMA AcceptingStep ==
    ASSUME HttpInv, [Next]_vars
    PROVE  Accepting'
<1>1. /\ conn \in [Conns -> ConnStates] /\ accepted \in Conns \cup {None}
      /\ None \notin Conns
      /\ Accepting /\ Serves
  BY HttpAssumption DEF HttpInv, HttpTypeOK
<1>2. ASSUME accepted' = accepted, acceptor' = acceptor,
             accepted # None => conn'[accepted] = conn[accepted]
      PROVE  Accepting'
  BY <1>1, <1>2 DEF Accepting
<1>3. ASSUME NEW c \in Conns, conn[c] # "backlog", NEW x, conn' = [conn EXCEPT ![c] = x],
             accepted' = accepted, acceptor' = acceptor
      PROVE  Accepting'
  BY <1>1, <1>2, <1>3 DEF Accepting
<1>4. ASSUME NEW t \in Threads, ThreadStep(t)
      PROVE  Accepting'
  <2>1. CASE OnAcceptError(t) \/ OnAccept(t) \/ OnAcceptThrows(t)
    BY <2>1 DEF OnAcceptError, OnAccept, OnAcceptThrows, Accepting
  <2>2. ASSUME NEW c \in Conns, Handle(t, c)
        PROVE  Accepting'
    <3>1. conn[c] # "backlog" /\ acceptor' = acceptor /\ accepted' = accepted
      BY <2>2 DEF Handle, OnRun, OnReadLocal, OnReadPlaces, OnWrite, OnError, acceptVars
    <3>2. \E x : conn' = [conn EXCEPT ![c] = x]
      BY <2>2 DEF Handle, OnRun, OnReadLocal, OnReadPlaces, OnWrite, OnError, DoRead, SendResponse
    <3> QED
      BY <1>3, <3>1, <3>2
  <2>3. CASE PlacesStep(t) \/ LeaveRun(t)
    BY <1>2, <2>3 DEF PlacesStep, LeaveRun, acceptVars
  <2>4. CASE OnAnswer(t)
    <3>1. thread[t] \in Conns /\ conn[thread[t]] = "serving"
      BY <1>1, <2>4 DEF OnAnswer, Serves
    <3> QED
      BY <1>3, <2>4, <3>1 DEF OnAnswer, SendResponse, acceptVars
  <2> QED
    BY <1>4, <2>1, <2>2, <2>3, <2>4 DEF ThreadStep
<1>5. CASE RunServer
  BY <1>1, <1>5 DEF RunServer, HttpInv, Listening, Accepting
<1>6. CASE StopServer \/ JoinThreads \/ UNCHANGED vars
  BY <1>2, <1>6 DEF StopServer, JoinThreads, vars, acceptVars
<1>7. CASE AcceptFails
  BY <1>1, <1>7 DEF AcceptFails, Accepting
<1>8. ASSUME NEW c \in Conns, NetworkStep(c) \/ ClientStep(c)
      PROVE  Accepting'
  <2>1. CASE AcceptCompletes(c)
    BY <2>1 DEF AcceptCompletes, Accepting
  <2>2. CASE ReadCompletes(c) \/ ReadFails(c) \/ WriteEnds(c) \/ Dial(c)
    <3>1. conn[c] # "backlog" /\ acceptor' = acceptor /\ accepted' = accepted
          /\ \E x : conn' = [conn EXCEPT ![c] = x]
      BY <2>2 DEF ReadCompletes, ReadFails, WriteEnds, Dial, acceptVars
    <3> QED
      BY <1>3, <3>1
  <2>3. CASE \E r \in Requests : Send(c, r)
    BY <1>2, <2>3 DEF Send, acceptVars
  <2> QED
    BY <1>8, <2>1, <2>2, <2>3 DEF NetworkStep, ClientStep
<1> QED
  BY <1>4, <1>5, <1>6, <1>7, <1>8 DEF Next

LEMMA ListeningStep ==
    ASSUME HttpInv, [Next]_vars
    PROVE  Listening'
<1>1. /\ conn \in [Conns -> ConnStates] /\ thread \in [Threads -> NotServing \cup Conns]
      /\ accepted \in Conns \cup {None} /\ None \notin Conns
      /\ \A c \in Conns : c \notin NotServing
      /\ Listening /\ Accepting
  BY HttpAssumption DEF HttpInv, HttpTypeOK, NotServing
\* The server's own state stays, no connection appears, no thread sets out to serve.
<1>2. ASSUME phase' = phase, listener' = listener, phase # "new",
             \A c \in Conns : conn[c] = "none" => conn'[c] = "none",
             \A t \in Threads : thread'[t] \in Conns => thread[t] \in Conns
      PROVE  Listening'
  BY <1>1, <1>2 DEF Listening, HandlerPresent
<1>3. ASSUME NEW t \in Threads, ThreadStep(t)
      PROVE  Listening'
  <2>1. CASE OnAcceptError(t) \/ OnAccept(t) \/ OnAcceptThrows(t)
    <3>1. phase = "running" /\ phase' = phase /\ listener' = listener
      BY <2>1 DEF OnAcceptError, OnAccept, OnAcceptThrows, Takes, serverVars
    <3>2. \A c \in Conns : conn[c] = "none" => conn'[c] = "none"
      BY <1>1, <2>1 DEF OnAcceptError, OnAccept, OnAcceptThrows, Accepting
    <3>3. \A u \in Threads : thread'[u] \in Conns => thread[u] \in Conns
      BY <1>1, <2>1 DEF OnAcceptError, OnAccept, OnAcceptThrows, NotServing
    <3> QED
      BY <1>2, <3>1, <3>2, <3>3
  <2>2. ASSUME NEW c \in Conns, Handle(t, c)
        PROVE  Listening'
    <3>1. /\ phase = "running" /\ phase' = phase /\ listener' = listener /\ conn[c] # "none"
      BY <2>2 DEF Handle, OnRun, OnReadLocal, OnReadPlaces, OnWrite, OnError, Takes, serverVars
    <3>2. \E x : conn' = [conn EXCEPT ![c] = x]
      BY <2>2 DEF Handle, OnRun, OnReadLocal, OnReadPlaces, OnWrite, OnError, DoRead, SendResponse
    <3>3. \A d \in Conns : conn[d] = "none" => conn'[d] = "none"
      BY <1>1, <3>1, <3>2
    <3>4. listener = "listening"
      BY <1>1, <3>1 DEF Listening
    <3> QED
      BY <1>1, <3>1, <3>3, <3>4 DEF Listening, HandlerPresent
  <2>3. CASE PlacesStep(t) \/ OnAnswer(t) \/ LeaveRun(t)
    <3>1. phase # "new" /\ phase' = phase /\ listener' = listener
      BY <1>1, <2>3 DEF PlacesStep, OnAnswer, LeaveRun, serverVars, Listening, NotServing
    <3>2. \A c \in Conns : conn[c] = "none" => conn'[c] = "none"
      <4>1. CASE OnAnswer(t)
        <5>1. thread[t] \in Conns /\ conn[thread[t]] = "serving"
          BY <4>1 DEF OnAnswer, HttpInv, Serves
        <5> QED
          BY <1>1, <4>1, <5>1 DEF OnAnswer, SendResponse
      <4> QED
        BY <2>3, <4>1 DEF PlacesStep, LeaveRun
    <3>3. \A u \in Threads : thread'[u] \in Conns => thread[u] \in Conns
      BY <1>1, <2>3 DEF PlacesStep, OnAnswer, LeaveRun, NotServing
    <3> QED
      BY <1>2, <3>1, <3>2, <3>3
  <2> QED
    BY <1>3, <2>1, <2>2, <2>3 DEF ThreadStep
<1>4. CASE RunServer
  BY <1>1, <1>4 DEF RunServer, Listening, HandlerPresent, NotServing
<1>5. CASE StopServer
  BY <1>1, <1>5 DEF StopServer, Listening, HandlerPresent
<1>6. CASE JoinThreads
  BY <1>1, <1>6 DEF JoinThreads, Listening, HandlerPresent, NotServing
<1>7. CASE AcceptFails
  <2>1. phase # "new"
    BY <1>7 DEF AcceptFails, Completes
  <2> QED
    BY <1>2, <1>7, <2>1 DEF AcceptFails, serverVars
<1>8. ASSUME NEW c \in Conns, NetworkStep(c)
      PROVE  Listening'
  <2>1. phase # "new" /\ phase' = phase /\ listener' = listener /\ thread' = thread
    BY <1>8 DEF NetworkStep, AcceptCompletes, ReadCompletes, ReadFails, WriteEnds, Completes, serverVars
  <2>2. \A d \in Conns : conn[d] = "none" => conn'[d] = "none"
    BY <1>1, <1>8 DEF NetworkStep, AcceptCompletes, ReadCompletes, ReadFails, WriteEnds
  <2> QED
    BY <1>2, <2>1, <2>2
<1>9. ASSUME NEW c \in Conns, ClientStep(c)
      PROVE  Listening'
  <2>1. CASE Dial(c)
    BY <1>1, <2>1 DEF Dial, serverVars, acceptVars, Listening, HandlerPresent
  <2>2. CASE \E r \in Requests : Send(c, r)
    BY <1>1, <2>2 DEF Send, serverVars, acceptVars, Listening, HandlerPresent
  <2> QED
    BY <1>9, <2>1, <2>2 DEF ClientStep
<1>10. CASE UNCHANGED vars
  BY <1>1, <1>10 DEF vars, Listening, HandlerPresent
<1> QED
  BY <1>3, <1>4, <1>5, <1>6, <1>7, <1>8, <1>9, <1>10 DEF Next

LEMMA AcceptEndsStep ==
    ASSUME HttpInv, [Next]_vars
    PROVE  AcceptEndsWithThread'
<1>1. /\ thread \in [Threads -> NotServing \cup Conns]
      /\ \A c \in Conns : c # "out"
      /\ AcceptEndsWithThread
  BY HttpAssumption DEF HttpInv, HttpTypeOK
\* The loop goes on, or the thread that has ended stays so.
<1>2. ASSUME phase' = phase, acceptor' = acceptor,
             \A t \in Threads : thread[t] = "out" => thread'[t] = "out"
      PROVE  AcceptEndsWithThread'
  BY <1>1, <1>2 DEF AcceptEndsWithThread
<1>3. ASSUME NEW t \in Threads, ThreadStep(t)
      PROVE  AcceptEndsWithThread'
  <2>1. CASE OnAcceptError(t) \/ OnAccept(t)
    BY <2>1 DEF OnAcceptError, OnAccept, AcceptEndsWithThread
  <2>2. CASE OnAcceptThrows(t)
    <3>1. thread'[t] = "out"
      BY <1>1, <2>2 DEF OnAcceptThrows
    <3> QED
      BY <3>1 DEF AcceptEndsWithThread
  <2>3. ASSUME NEW c \in Conns, Handle(t, c)
        PROVE  AcceptEndsWithThread'
    <3>1. phase' = phase /\ acceptor' = acceptor /\ thread[t] = "waiting"
      BY <2>3 DEF Handle, OnRun, OnReadLocal, OnReadPlaces, OnWrite, OnError, Takes, serverVars, acceptVars
    <3>2. thread' = thread \/ thread' = [thread EXCEPT ![t] = c]
      BY <2>3 DEF Handle, OnRun, OnReadLocal, OnReadPlaces, OnWrite, OnError
    <3> QED
      BY <1>1, <1>2, <3>1, <3>2
  <2>4. CASE PlacesStep(t) \/ OnAnswer(t) \/ LeaveRun(t)
    <3>1. phase' = phase /\ acceptor' = acceptor
      BY <2>4 DEF PlacesStep, OnAnswer, LeaveRun, serverVars, acceptVars
    <3>2. \A u \in Threads : thread[u] = "out" => thread'[u] = "out"
      BY <1>1, <2>4 DEF PlacesStep, OnAnswer, LeaveRun
    <3> QED
      BY <1>2, <3>1, <3>2
  <2> QED
    BY <1>3, <2>1, <2>2, <2>3, <2>4 DEF ThreadStep
<1>4. CASE RunServer \/ StopServer \/ JoinThreads \/ AcceptFails
  BY <1>4 DEF RunServer, StopServer, JoinThreads, AcceptFails, AcceptEndsWithThread
<1>5. ASSUME NEW c \in Conns, NetworkStep(c) \/ ClientStep(c)
      PROVE  AcceptEndsWithThread'
  <2>1. CASE AcceptCompletes(c)
    BY <2>1 DEF AcceptCompletes, AcceptEndsWithThread
  <2>2. CASE ReadCompletes(c) \/ ReadFails(c) \/ WriteEnds(c) \/ ClientStep(c)
    <3>1. phase' = phase /\ acceptor' = acceptor /\ thread' = thread
      BY <2>2 DEF ReadCompletes, ReadFails, WriteEnds, ClientStep, Dial, Send, serverVars, acceptVars
    <3> QED
      BY <1>2, <3>1
  <2> QED
    BY <1>5, <2>1, <2>2 DEF NetworkStep
<1>6. CASE UNCHANGED vars
  BY <1>2, <1>6 DEF vars
<1> QED
  BY <1>3, <1>4, <1>5, <1>6 DEF Next

LEMMA EofAskedStep ==
    ASSUME HttpInv, [Next]_vars
    PROVE  EofAsked'
<1> DEFINE Answering == {"writing", "written"}
<1>1. /\ conn \in [Conns -> ConnStates] /\ eof \in [Conns -> BOOLEAN]
      /\ req \in [Conns -> Requests \cup {NoRequest}]
      /\ EofAsked
  BY DEF HttpInv, HttpTypeOK
\* Nothing is written that was not written before, of the same request.
<1>2. ASSUME NEW c \in Conns, eof' = eof,
             \A d \in Conns \ {c} : conn'[d] = conn[d] /\ req'[d] = req[d],
             conn'[c] \in Answering => conn[c] \in Answering /\ req'[c] = req[c]
      PROVE  EofAsked'
  BY <1>1, <1>2 DEF EofAsked
<1>3. ASSUME eof' = eof, req' = req, conn' = conn
      PROVE  EofAsked'
  BY <1>1, <1>3 DEF EofAsked
\* A response is sent.
<1>4. ASSUME NEW c \in Conns, NEW follows \in BOOLEAN, SendResponse(c, follows), req' = req
      PROVE  EofAsked'
  <2>1. \A d \in Conns : conn'[d] = IF d = c THEN "writing" ELSE conn[d]
    BY <1>1, <1>4 DEF SendResponse
  <2>2. eof'[c] => req[c].close
    BY <1>1, <1>4 DEF SendResponse, NeedEof
  <2>3. \A d \in Conns \ {c} : eof'[d] = eof[d]
    BY <1>1, <1>4 DEF SendResponse
  <2> QED
    BY <1>1, <1>4, <2>1, <2>2, <2>3 DEF EofAsked
<1>5. ASSUME NEW t \in Threads, ThreadStep(t)
      PROVE  EofAsked'
  <2>1. CASE OnAcceptError(t) \/ PlacesStep(t) \/ LeaveRun(t)
    BY <1>3, <2>1 DEF OnAcceptError, PlacesStep, LeaveRun
  <2>2. CASE OnAccept(t) \/ OnAcceptThrows(t)
    <3>1. accepted \in Conns /\ eof' = eof /\ req' = req
          /\ conn' \in {[conn EXCEPT ![accepted] = "opened"], [conn EXCEPT ![accepted] = "closed"]}
      BY <2>2 DEF OnAccept, OnAcceptThrows, HttpInv, HttpTypeOK
    <3> QED
      BY <1>1, <1>2, <3>1
  <2>3. ASSUME NEW c \in Conns, Handle(t, c)
        PROVE  EofAsked'
    <3>1. CASE OnReadLocal(t, c)
      BY <1>4, <3>1 DEF OnReadLocal
    <3>2. CASE OnRun(t, c) \/ OnReadPlaces(t, c) \/ OnWrite(t, c) \/ OnError(t, c)
      <4>1. /\ eof' = eof
            /\ \E x : x \notin Answering /\ conn' = [conn EXCEPT ![c] = x]
            /\ req' \in {req, [req EXCEPT ![c] = NoRequest]}
        BY <3>2 DEF OnRun, OnReadPlaces, OnWrite, OnError, DoRead
      <4> QED
        BY <1>1, <1>2, <4>1
    <3> QED
      BY <2>3, <3>1, <3>2 DEF Handle
  <2>4. CASE OnAnswer(t)
    <3>1. thread[t] \in Conns /\ call[t].follows \in BOOLEAN
      BY <2>4 DEF OnAnswer, HttpInv, HttpTypeOK, PlacesTypeOK, Call
    <3> QED
      BY <1>4, <2>4, <3>1 DEF OnAnswer
  <2> QED
    BY <1>5, <2>1, <2>2, <2>3, <2>4 DEF ThreadStep
<1>6. CASE RunServer \/ StopServer \/ JoinThreads \/ AcceptFails \/ UNCHANGED vars
  BY <1>3, <1>6 DEF RunServer, StopServer, JoinThreads, AcceptFails, vars
<1>7. ASSUME NEW c \in Conns, NetworkStep(c) \/ ClientStep(c)
      PROVE  EofAsked'
  <2>1. CASE AcceptCompletes(c) \/ \E r \in Requests : Send(c, r)
    BY <1>3, <2>1 DEF AcceptCompletes, Send
  <2>2. CASE ReadCompletes(c)
    BY <1>1, <1>2, <2>2 DEF ReadCompletes
  <2>3. CASE ReadFails(c) \/ WriteEnds(c) \/ Dial(c)
    <3>1. /\ eof' = eof /\ req' = req
          /\ \E x : (x \in Answering => conn[c] \in Answering) /\ conn' = [conn EXCEPT ![c] = x]
      BY <2>3 DEF ReadFails, WriteEnds, Dial
    <3> QED
      BY <1>1, <1>2, <3>1
  <2> QED
    BY <1>7, <2>1, <2>2, <2>3 DEF NetworkStep, ClientStep
<1> QED
  BY <1>5, <1>6, <1>7 DEF Next

-----------------------------------------------------------------------------
(* The theorems.                                                           *)

\* The inductive invariant holds in every reachable state.
THEOREM HttpInvAlways == Spec => []HttpInv
<1>1. Init => HttpInv
  <2> SUFFICES ASSUME Init, HttpTypeOK
               PROVE  HttpInv
    BY HttpStarts
  <2>1. \A h : ~Has(<<>>, h)
    BY DEF Has
  <2>2. Distinct(<<>>)
    BY DEF Distinct
  <2>3. \A t \in Threads : At(t, "none") /\ thread[t] = "new" /\ "new" \notin Conns
    BY HttpAssumption DEF Init, PlacesInit, At, NoCall
  <2> QED
    BY <2>1, <2>2, <2>3
       DEF Init, HttpInv, Turns, Serves, Accepting, Listening, HandlerPresent,
           AcceptEndsWithThread, EofAsked, Completed
<1>2. HttpInv /\ CallsInv /\ HttpTypeOK' /\ [Next]_vars => HttpInv'
  <2> SUFFICES ASSUME HttpInv, CallsInv, HttpTypeOK', [Next]_vars
               PROVE  HttpInv'
    OBVIOUS
  <2>1. HttpTypeOK /\ Turns /\ Serves /\ Accepting /\ Listening
    BY DEF HttpInv
  <2> QED
    BY <2>1, TurnsStep, ServesStep, AcceptingStep, ListeningStep, AcceptEndsStep, EofAskedStep
       DEF HttpInv
<1> QED
  BY <1>1, <1>2, HttpTypeCorrect, CallsAlways, PTL DEF Spec

\* The listener's handler of the Places API exists as long as a thread uses it.
THEOREM HandlerAlwaysPresent == Spec => []HandlerPresent
<1>1. HttpInv => HandlerPresent
  BY DEF HttpInv, Listening
<1> QED
  BY <1>1, HttpInvAlways, PTL

\* While the server runs, its accept loop ends only together with a thread.
THEOREM AcceptLoopEnds == Spec => []AcceptEndsWithThread
<1>1. HttpInv => AcceptEndsWithThread
  BY DEF HttpInv
<1> QED
  BY <1>1, HttpInvAlways, PTL

\* The number of places of a handler in a queue where each handler is once.
LEMMA PlacesCount ==
    ASSUME HttpTypeOK, Turns, NEW h
    PROVE  Cardinality(Places(h)) = IF Has(ready, h) THEN 1 ELSE 0
<1>1. CASE Has(ready, h)
  <2>1. PICK i \in DOMAIN ready : ready[i] = h
    BY <1>1 DEF Has
  <2>2. Places(h) = {i}
    BY <2>1 DEF Places, Turns, Distinct
  <2> QED
    BY <1>1, <2>2, FS_Singleton
<1>2. CASE ~Has(ready, h)
  <2>1. Places(h) = {}
    BY <1>2 DEF Has, Places
  <2> QED
    BY <1>2, <2>1, FS_EmptySet
<1> QED
  BY <1>1, <1>2

\* Every connection and the acceptor have one asynchronous operation or one running
\* handler at a time.
THEOREM AlwaysChained == Spec => []Chained
<1>1. HttpInv => Chained
  <2> SUFFICES ASSUME HttpInv
               PROVE  Chained
    OBVIOUS
  <2>1. HttpTypeOK /\ Turns /\ Serves
    BY DEF HttpInv
  <2>2. ASSUME NEW c \in Conns
        PROVE  Cardinality({t \in Threads : thread[t] = c}) = IF conn[c] = "serving" THEN 1 ELSE 0
    <3>1. CASE conn[c] = "serving"
      <4>1. PICK t \in Threads : thread[t] = c
        BY <2>1, <3>1 DEF Serves
      <4>2. {u \in Threads : thread[u] = c} = {t}
        BY <2>1, <4>1 DEF Serves
      <4> QED
        BY <3>1, <4>2, FS_Singleton
    <3>2. CASE conn[c] # "serving"
      <4>1. {t \in Threads : thread[t] = c} = {}
        BY <2>1, <3>2 DEF Serves
      <4> QED
        BY <3>2, <4>1, FS_EmptySet
    <3> QED
      BY <3>1, <3>2
  <2>3. \A c \in Conns : Cardinality(Places(c)) = IF conn[c] \in Completed THEN 1 ELSE 0
    BY <2>1, PlacesCount DEF Turns
  <2>4. Cardinality(Places("accept")) = IF acceptor = "completed" THEN 1 ELSE 0
    BY <2>1, PlacesCount DEF Turns
  <2> QED
    BY <2>1, <2>2, <2>3, <2>4 DEF Chained, Serves
<1> QED
  BY <1>1, HttpInvAlways, PTL

\* A client that asked to keep its connection has it closed only by an error.
THEOREM AlwaysKeptAlive == Spec => KeptAlive
<1>1. ASSUME HttpInv, [Next]_vars, NEW c \in Conns, conn[c] = "written", conn'[c] = "closed"
      PROVE  req[c].close
  <2>1. /\ conn \in [Conns -> ConnStates] /\ eof \in [Conns -> BOOLEAN]
        /\ Accepting /\ Serves /\ EofAsked
    BY <1>1 DEF HttpInv, HttpTypeOK
  <2>2. conn'[c] # conn[c]
    BY <1>1
  <2>3. PICK t \in Threads : OnWrite(t, c)
    <3>1. ASSUME NEW d, NEW x, conn' = [conn EXCEPT ![d] = x]
          PROVE  d = c /\ x = "closed"
      BY <1>1, <2>1, <3>1
    <3>2. ASSUME NEW t \in Threads, ThreadStep(t)
          PROVE  OnWrite(t, c)
      <4>1. ~(OnAcceptError(t) \/ PlacesStep(t) \/ LeaveRun(t))
        BY <2>2 DEF OnAcceptError, PlacesStep, LeaveRun
      <4>2. ~(OnAccept(t) \/ OnAcceptThrows(t))
        BY <1>1, <2>1, <3>1 DEF OnAccept, OnAcceptThrows, Accepting
      <4>3. ~OnAnswer(t)
        BY <3>1 DEF OnAnswer, SendResponse
      <4>4. ASSUME NEW d \in Conns, Handle(t, d)
            PROVE  OnWrite(t, c)
        <5>1. ~(OnRun(t, d) \/ OnReadLocal(t, d) \/ OnReadPlaces(t, d))
          BY <3>1 DEF OnRun, OnReadLocal, OnReadPlaces, DoRead, SendResponse
        <5>2. ~OnError(t, d)
          BY <1>1, <3>1 DEF OnError
        <5>3. OnWrite(t, d) => d = c
          BY <3>1 DEF OnWrite, DoRead
        <5> QED
          BY <4>4, <5>1, <5>2, <5>3 DEF Handle
      <4> QED
        BY <3>2, <4>1, <4>2, <4>3, <4>4 DEF ThreadStep
    <3>3. ~(RunServer \/ StopServer \/ JoinThreads \/ AcceptFails \/ UNCHANGED vars)
      BY <2>2 DEF RunServer, StopServer, JoinThreads, AcceptFails, vars
    <3>4. ASSUME NEW d \in Conns
          PROVE  ~(NetworkStep(d) \/ ClientStep(d))
      <4>1. ~(AcceptCompletes(d) \/ \E r \in Requests : Send(d, r))
        BY <2>2 DEF AcceptCompletes, Send
      <4>2. ~ReadCompletes(d)
        BY <3>1 DEF ReadCompletes
      <4>3. ~ReadFails(d)
        BY <3>1 DEF ReadFails
      <4>4. ~Dial(d)
        BY <3>1 DEF Dial
      <4>5. ~WriteEnds(d)
        BY <3>1 DEF WriteEnds
      <4> QED
        BY <4>1, <4>2, <4>3, <4>4, <4>5 DEF NetworkStep, ClientStep
    <3> QED
      BY <1>1, <3>2, <3>3, <3>4 DEF Next
  <2>4. eof[c]
    BY <1>1, <2>1, <2>3 DEF OnWrite, DoRead
  <2> QED
    BY <1>1, <2>1, <2>4 DEF EofAsked
<1>2. HttpInv /\ [Next]_vars => [\A c \in Conns : conn[c] = "written" /\ conn'[c] = "closed" => req[c].close]_vars
  BY <1>1
<1> QED
  BY <1>2, HttpInvAlways, PTL DEF Spec, KeptAlive

-----------------------------------------------------------------------------
(* One request, one answer: the server implements RequestReply, for every  *)
(* connection.                                                             *)

Connection(c) == INSTANCE RequestReply WITH state <- Seen(c), serving <- Serving

\* While the threads that have ended are the same, the server serves as it did.
LEMMA ServesOn ==
    ASSUME phase' = phase, \A t \in Threads : thread'[t] = "out" <=> thread[t] = "out"
    PROVE  Serving' = Serving
BY DEF Serving

\* A server that has ceased to serve does not begin again.
LEMMA Ceases ==
    ASSUME \/ phase' = phase /\ \A t \in Threads : thread[t] = "out" => thread'[t] = "out"
           \/ phase' \notin {"new", "running"}
    PROVE  Serving' = Serving \/ (Serving = TRUE /\ Serving' = FALSE)
BY DEF Serving

\* What a client sees of a connection is decided by its state.
LEMMA SeenOf ==
    ASSUME NEW c \in Conns
    PROVE  /\ conn'[c] = conn[c] => Seen(c)' = Seen(c)
           /\ conn[c] \in {"none", "backlog"} => Seen(c) = "none"
           /\ conn[c] \in {"opened", "reading", "readError"} => Seen(c) = "idle"
           /\ conn[c] \in {"read", "serving"} => Seen(c) = "asked"
           /\ conn[c] \in {"writing", "written", "writeError"} => Seen(c) = "answered"
           /\ conn[c] = "closed" => Seen(c) = "closed"
           /\ conn'[c] \in {"none", "backlog"} => Seen(c)' = "none"
           /\ conn'[c] \in {"opened", "reading", "readError"} => Seen(c)' = "idle"
           /\ conn'[c] \in {"read", "serving"} => Seen(c)' = "asked"
           /\ conn'[c] \in {"writing", "written", "writeError"} => Seen(c)' = "answered"
           /\ conn'[c] = "closed" => Seen(c)' = "closed"
BY DEF Seen

\* What a step of the abstract connection comes to, in terms of the mapping.
LEMMA AbstractStep ==
    ASSUME NEW c \in Conns,
           \/ Seen(c)' = Seen(c) /\ (Serving' = Serving \/ (Serving = TRUE /\ Serving' = FALSE))
           \/ /\ Serving' = Serving
              /\ \/ Seen(c) = "none" /\ Seen(c)' = "idle"
                 \/ Seen(c) = "idle" /\ Seen(c)' \in {"asked", "closed"}
                 \/ Seen(c) = "asked" /\ Seen(c)' = "answered"
                 \/ Seen(c) = "answered" /\ Seen(c)' \in {"idle", "closed"}
           \/ /\ Seen(c) = "none" /\ Seen(c)' = "closed"
              /\ Serving' = Serving \/ (Serving = TRUE /\ Serving' = FALSE)
    PROVE  [Connection(c)!Next]_(Connection(c)!vars)
BY DEF Connection!Next, Connection!vars, Connection!Move, Connection!Open, Connection!Refuse,
       Connection!Take, Connection!Hangup, Connection!Answer, Connection!Sent, Connection!Cease

\* A handler of a connection moves what its client sees, and nobody else's.
LEMMA HandlerMoves ==
    ASSUME HttpInv, NEW c \in Conns, NEW t \in Threads, NEW d \in Conns, Handle(t, d)
    PROVE  [Connection(c)!Next]_(Connection(c)!vars)
<1>1. /\ conn \in [Conns -> ConnStates] /\ thread \in [Threads -> NotServing \cup Conns]
      /\ \A e \in Conns : e # "out"
  BY HttpAssumption DEF HttpInv, HttpTypeOK
<1>2. Serving' = Serving
  <2>1. phase' = phase /\ thread[t] = "waiting" /\ thread' \in {thread, [thread EXCEPT ![t] = d]}
    BY DEF Handle, OnRun, OnReadLocal, OnReadPlaces, OnWrite, OnError, Takes, serverVars
  <2>2. \A u \in Threads : thread'[u] = "out" <=> thread[u] = "out"
    BY <1>1, <2>1
  <2> QED
    BY <2>1, <2>2, ServesOn
<1>3. CASE c # d
  <2>1. conn'[c] = conn[c]
    BY <1>1, <1>3 DEF Handle, OnRun, OnReadLocal, OnReadPlaces, OnWrite, OnError, DoRead, SendResponse
  <2> QED
    BY <1>2, <2>1, SeenOf, AbstractStep
<1>4. CASE c = d
  <2>1. \/ conn[c] = "opened" /\ conn'[c] = "reading"
        \/ conn[c] = "read" /\ conn'[c] \in {"writing", "serving"}
        \/ conn[c] = "written" /\ conn'[c] \in {"closed", "reading"}
        \/ conn[c] \in {"readError", "writeError"} /\ conn'[c] = "closed"
    BY <1>1, <1>4 DEF Handle, OnRun, OnReadLocal, OnReadPlaces, OnWrite, OnError, DoRead, SendResponse
  <2>2. \/ Seen(c) = Seen(c)'
        \/ Seen(c) = "asked" /\ Seen(c)' = "answered"
        \/ Seen(c) = "answered" /\ Seen(c)' \in {"idle", "closed"}
        \/ Seen(c) = "idle" /\ Seen(c)' = "closed"
    BY <2>1, SeenOf
  <2> QED
    BY <1>2, <2>2, AbstractStep
<1> QED
  BY <1>3, <1>4

\* Every step of the server is a step of each connection, or none.
LEMMA ConnectionStep ==
    ASSUME HttpInv, NEW c \in Conns, [Next]_vars
    PROVE  [Connection(c)!Next]_(Connection(c)!vars)
<1>1. /\ conn \in [Conns -> ConnStates] /\ thread \in [Threads -> NotServing \cup Conns]
      /\ \A e \in Conns : e \notin NotServing
      /\ Accepting /\ Serves /\ Listening
  BY HttpAssumption DEF HttpInv, HttpTypeOK, NotServing
<1>2. ASSUME conn'[c] = conn[c], Serving' = Serving \/ (Serving = TRUE /\ Serving' = FALSE)
      PROVE  [Connection(c)!Next]_(Connection(c)!vars)
  BY <1>2, SeenOf, AbstractStep
<1>3. ASSUME NEW t \in Threads, ThreadStep(t)
      PROVE  [Connection(c)!Next]_(Connection(c)!vars)
  <2>1. CASE OnAcceptError(t) \/ PlacesStep(t)
    <3>1. phase' = phase /\ thread' = thread /\ conn' = conn
      BY <2>1 DEF OnAcceptError, PlacesStep, serverVars
    <3> QED
      BY <1>2, <3>1, ServesOn
  <2>2. CASE OnAccept(t)
    <3>1. /\ phase' = phase /\ thread' = thread /\ accepted \in Conns /\ conn[accepted] = "backlog"
          /\ conn' = [conn EXCEPT ![accepted] = "opened"]
      BY <1>1, <2>2 DEF OnAccept, Accepting, HttpInv, HttpTypeOK, serverVars
    <3>2. Serving' = Serving
      BY <3>1, ServesOn
    <3>3. conn'[c] = conn[c] \/ (conn[c] = "backlog" /\ conn'[c] = "opened")
      BY <1>1, <3>1
    <3> QED
      BY <1>2, <3>2, <3>3, SeenOf, AbstractStep
  <2>3. CASE OnAcceptThrows(t)
    <3>1. /\ phase' = phase /\ thread' = [thread EXCEPT ![t] = "out"]
          /\ accepted \in Conns /\ conn[accepted] = "backlog"
          /\ conn' = [conn EXCEPT ![accepted] = "closed"]
      BY <1>1, <2>3 DEF OnAcceptThrows, Accepting, HttpInv, HttpTypeOK, serverVars
    <3>2. Serving' = Serving \/ (Serving = TRUE /\ Serving' = FALSE)
      <4>1. \A u \in Threads : thread[u] = "out" => thread'[u] = "out"
        BY <1>1, <3>1
      <4> QED
        BY <3>1, <4>1, Ceases
    <3>3. conn'[c] = conn[c] \/ (conn[c] = "backlog" /\ conn'[c] = "closed")
      BY <1>1, <3>1
    <3> QED
      BY <1>2, <3>2, <3>3, SeenOf, AbstractStep
  <2>4. CASE \E d \in Conns : Handle(t, d)
    BY <2>4, HandlerMoves
  <2>5. CASE OnAnswer(t)
    <3>1. /\ phase' = phase /\ thread[t] \in Conns /\ conn[thread[t]] = "serving"
          /\ thread' = [thread EXCEPT ![t] = "waiting"]
          /\ conn' = [conn EXCEPT ![thread[t]] = "writing"]
      BY <1>1, <2>5 DEF OnAnswer, SendResponse, Serves, serverVars
    <3>2. \A u \in Threads : thread'[u] = "out" <=> thread[u] = "out"
      BY <1>1, <3>1 DEF NotServing
    <3>3. Serving' = Serving
      BY <3>1, <3>2, ServesOn
    <3>4. conn'[c] = conn[c] \/ (conn[c] = "serving" /\ conn'[c] = "writing")
      BY <1>1, <3>1
    <3> QED
      BY <1>2, <3>3, <3>4, SeenOf, AbstractStep
  <2>6. CASE LeaveRun(t)
    <3>1. phase' = phase /\ thread' = [thread EXCEPT ![t] = "out"] /\ conn' = conn
      BY <2>6 DEF LeaveRun, serverVars
    <3>2. \A u \in Threads : thread[u] = "out" => thread'[u] = "out"
      BY <1>1, <3>1
    <3> QED
      BY <1>2, <3>1, <3>2, Ceases
  <2> QED
    BY <1>3, <2>1, <2>2, <2>3, <2>4, <2>5, <2>6 DEF ThreadStep
<1>4. CASE RunServer
  <2>1. /\ phase = "new" /\ phase' = "running" /\ conn' = conn
        /\ \A t \in Threads : thread[t] = "new" /\ thread'[t] = "waiting"
    BY <1>1, <1>4 DEF RunServer, Listening
  <2>2. Serving' = Serving
    BY <2>1 DEF Serving
  <2> QED
    BY <1>2, <2>1, <2>2
<1>5. CASE StopServer \/ JoinThreads
  <2>1. phase' \notin {"new", "running"} /\ conn' = conn
    BY <1>5 DEF StopServer, JoinThreads
  <2> QED
    BY <1>2, <2>1, Ceases
<1>6. CASE AcceptFails \/ UNCHANGED vars
  <2>1. phase' = phase /\ thread' = thread /\ conn' = conn
    BY <1>6 DEF AcceptFails, serverVars, vars
  <2> QED
    BY <1>2, <2>1, ServesOn
<1>7. ASSUME NEW d \in Conns, NetworkStep(d) \/ ClientStep(d)
      PROVE  [Connection(c)!Next]_(Connection(c)!vars)
  <2>1. Serving' = Serving
    <3>1. phase' = phase /\ thread' = thread
      BY <1>7 DEF NetworkStep, AcceptCompletes, ReadCompletes, ReadFails, WriteEnds,
                  ClientStep, Dial, Send, serverVars
    <3> QED
      BY <3>1, ServesOn
  <2>2. \/ conn'[c] = conn[c]
        \/ conn[c] = "none" /\ conn'[c] = "backlog"
        \/ conn[c] = "reading" /\ conn'[c] \in {"read", "readError"}
        \/ conn[c] = "writing" /\ conn'[c] \in {"written", "writeError"}
    BY <1>1, <1>7 DEF NetworkStep, AcceptCompletes, ReadCompletes, ReadFails, WriteEnds,
                      ClientStep, Dial, Send
  <2>3. Seen(c)' = Seen(c) \/ (Seen(c) = "idle" /\ Seen(c)' = "asked")
    BY <2>2, SeenOf
  <2> QED
    BY <2>1, <2>3, AbstractStep
<1> QED
  BY <1>3, <1>4, <1>5, <1>6, <1>7 DEF Next

\* Each connection of the HTTP server is what RequestReply promises: requests are
\* taken one at a time and in turn, each is answered before the next is taken or
\* the connection ends, and a server that has ceased to serve stays so.
THEOREM ImplementsReply == \A c \in Conns : Spec => Connection(c)!Spec
<1> SUFFICES ASSUME NEW CONSTANT c \in Conns
             PROVE  Spec => Connection(c)!Spec
  OBVIOUS
<1>1. Init => Connection(c)!Init
  <2> SUFFICES ASSUME Init
               PROVE  Connection(c)!Init
    OBVIOUS
  <2>1. Seen(c) = "none"
    BY SeenOf DEF Init
  <2>2. Serving = TRUE
    BY HttpAssumption DEF Init, Serving
  <2> QED
    BY <2>1, <2>2 DEF Connection!Init
<1>2. HttpInv /\ [Next]_vars => [Connection(c)!Next]_(Connection(c)!vars)
  BY ConnectionStep
<1> QED
  BY <1>1, <1>2, HttpInvAlways, PTL DEF Spec, Connection!Spec

=============================================================================
