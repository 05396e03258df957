----------------------------- MODULE HttpServer -----------------------------
(***************************************************************************)
(* HttpServer, HttpListener and HttpSession: an io_context of its own, run *)
(* by Threads, which accepts connections and serves requests on them, and  *)
(* the calls of PlacesApi its sessions make on those threads.              *)
(*                                                                         *)
(* ready is the queue of the io_context: completion handlers that a thread *)
(* will run, in order.  The strands of sessions and acceptor need no state *)
(* of their own, because each has one asynchronous operation at a time     *)
(* (Chained, below).  A handler is one step, but for a handler that calls  *)
(* PlacesApi, which keeps its thread until the call is answered.           *)
(***************************************************************************)
EXTENDS PlacesApi, Sequences, FiniteSets

CONSTANTS
    Conns,         \* the connections clients may make
    Requests,      \* the requests they send: [method, target, close]
    MaxRequests,   \* bound on the requests all clients send together
    KeyConfigured, \* GOOGLE_MAPS_API_KEY is set
    None           \* no connection

Targets == {"/health", "/maps/key", "/places/nearby", "/places/search", "/places/details",
            "/places/details/", "/places/details/id", "/place/photo/", "/place/photo/ref",
            "/status", "/"}
Request == [method : {"GET", "POST", "OPTIONS"}, target : Targets, close : BOOLEAN]

\* HttpServer::run starts at least one thread, whatever it was told.
ASSUME HttpAssumption ==
    /\ Threads # {}
    /\ Requests \subseteq Request
    /\ MaxRequests \in Nat
    /\ KeyConfigured \in BOOLEAN
    /\ Conns \cap {None, "accept", "new", "waiting", "out"} = {}

VARIABLES
    phase,    \* of the server: run() not called, running, stop() under way, stopped
    listener, \* of HttpListener: not made, constructed in part, listening, reset
    acceptor, \* async_accept: not outstanding, outstanding, completed
    accepted, \* the connection an accept completed with; None is an error
    thread,   \* what each thread does: not started, waiting, the connection it serves, out
    ready,    \* the handlers that are ready to run, in order: "accept" or a connection
    conn,     \* the state of each connection
    inbox,    \* the requests the client has sent and the session has not read
    req,      \* req_ of each session
    eof,      \* need_eof of the response being written
    sent      \* the number of requests clients have sent

serverVars == <<phase, listener>>
acceptVars == <<acceptor, accepted>>
clientVars == <<inbox, sent>>
vars == <<call, phase, listener, acceptor, accepted, thread, ready, conn, inbox, req, eof, sent>>

-----------------------------------------------------------------------------
Phases     == {"new", "running", "stopping", "stopped"}
Listeners  == {"none", "failed", "listening", "reset"}
\* A session waits for its first handler, for a read or for a write; or the
\* completion of one, well or with an error, is in ready; or it is in a call.
Pending    == {"reading", "writing"}
Completed  == {"opened", "read", "readError", "written", "writeError"}
ConnStates == {"none", "backlog", "serving", "closed"} \cup Pending \cup Completed
NotServing == {"new", "waiting", "out"}
NoRequest  == [method |-> "GET", target |-> "/", close |-> FALSE]

HttpTypeOK ==
    /\ PlacesTypeOK
    /\ phase \in Phases
    /\ listener \in Listeners
    /\ acceptor \in {"idle", "pending", "completed"}
    /\ accepted \in Conns \cup {None}
    /\ thread \in [Threads -> NotServing \cup Conns]
    /\ ready \in Seq(Conns \cup {"accept"})
    /\ conn \in [Conns -> ConnStates]
    /\ inbox \in [Conns -> Seq(Requests)]
    /\ req \in [Conns -> Requests \cup {NoRequest}]
    /\ eof \in [Conns -> BOOLEAN]
    /\ sent \in 0..MaxRequests

Init ==
    /\ PlacesInit
    /\ phase = "new"
    /\ listener = "none"
    /\ acceptor = "idle"
    /\ accepted = None
    /\ thread = [t \in Threads |-> "new"]
    /\ ready = <<>>
    /\ conn = [c \in Conns |-> "none"]
    /\ inbox = [c \in Conns |-> <<>>]
    /\ req = [c \in Conns |-> NoRequest]
    /\ eof = [c \in Conns |-> FALSE]
    /\ sent = 0

-----------------------------------------------------------------------------
(* The server: run, stop, and its threads.                                 *)

\* HttpServer::run.  A listener whose constructor failed half-way has only said
\* so: it accepts like a good one, but its places_handler_ is null.
RunServer ==
    /\ phase = "new"
    /\ phase' = "running"
    /\ listener' \in {"listening", "failed"}
    /\ acceptor' = "pending"
    /\ thread' = [t \in Threads |-> "waiting"]
    /\ UNCHANGED <<call, accepted, ready, conn, clientVars, req, eof>>

\* HttpServer::stop: ioc_.stop() ...
StopServer ==
    /\ phase = "running"
    /\ phase' = "stopping"
    /\ UNCHANGED <<call, listener, acceptVars, thread, ready, conn, clientVars, req, eof>>

\* Faulty variant: the listener is dropped before the threads are joined.
JoinNone ==
    /\ phase = "stopping"
    /\ phase' = "stopped"
    /\ listener' = "reset"
    /\ UNCHANGED <<call, acceptVars, thread, ready, conn, clientVars, req, eof>>

\* ... then every thread is joined, then the listener is dropped.
JoinThreads ==
    /\ phase = "stopping"
    /\ \A t \in Threads : thread[t] = "out"
    /\ phase' = "stopped"
    /\ listener' = "reset"
    /\ UNCHANGED <<call, acceptVars, thread, ready, conn, clientVars, req, eof>>

\* Nothing is outstanding on the io_context: run() has no reason to go on.
NoWork ==
    /\ acceptor = "idle" /\ ready = <<>>
    /\ \A c \in Conns : conn[c] \notin Pending \cup {"serving"}

\* Faulty variant: run() returns when there is no work left, and only then.
LeaveWorkless(t) ==
    /\ thread[t] = "waiting" /\ NoWork
    /\ thread' = [thread EXCEPT ![t] = "out"]
    /\ UNCHANGED <<call, serverVars, acceptVars, ready, conn, clientVars, req, eof>>

\* ioc_.run() returns to a thread that is in no handler.
LeaveRun(t) ==
    /\ thread[t] = "waiting"
    /\ phase = "stopping" \/ NoWork
    /\ thread' = [thread EXCEPT ![t] = "out"]
    /\ UNCHANGED <<call, serverVars, acceptVars, ready, conn, clientVars, req, eof>>

\* A thread takes the first ready handler.
Takes(t, h) ==
    /\ phase = "running" /\ thread[t] = "waiting"
    /\ ready # <<>> /\ Head(ready) = h

-----------------------------------------------------------------------------
(* The listener.                                                           *)

\* A handler that takes itself off the queue, and may put another one there.
Done == ready' = Tail(ready)

\* Faulty variant: the other one is put there twice.
DoneThenTwice(h) == ready' = Tail(ready) \o <<h, h>>

DoneThen(h) == ready' = Append(Tail(ready), h)

\* Faulty variant: an error ends the accept loop.
OnAcceptErrorEnds(t) ==
    /\ Takes(t, "accept") /\ accepted = None
    /\ acceptor' = "idle"
    /\ Done
    /\ UNCHANGED <<call, serverVars, accepted, thread, conn, clientVars, req, eof>>

\* on_accept with an error: reported, and the next accept is started.
OnAcceptError(t) ==
    /\ Takes(t, "accept") /\ accepted = None
    /\ acceptor' = "pending"
    /\ Done
    /\ UNCHANGED <<call, serverVars, accepted, thread, conn, clientVars, req, eof>>

\* Faulty variant: a session is made for an accept that failed, too.
OnAcceptUnchecked(t) ==
    /\ Takes(t, "accept")
    /\ conn' = [conn EXCEPT ![accepted] = "opened"]
    /\ acceptor' = "pending"
    /\ accepted' = None
    /\ DoneThen(accepted)
    /\ UNCHANGED <<call, serverVars, thread, clientVars, req, eof>>

\* on_accept: a session is made, its first handler is dispatched to its strand,
\* and the next accept is started.
OnAccept(t) ==
    /\ Takes(t, "accept") /\ accepted # None
    /\ conn' = [conn EXCEPT ![accepted] = "opened"]
    /\ acceptor' = "pending"
    /\ accepted' = None
    /\ DoneThen(accepted)
    /\ UNCHANGED <<call, serverVars, thread, clientVars, req, eof>>

\* The peer is gone already: remote_endpoint() throws, out of the handler and
\* out of ioc_.run().  No accept is started, and the thread ends.
OnAcceptThrows(t) ==
    /\ Takes(t, "accept") /\ accepted # None
    /\ conn' = [conn EXCEPT ![accepted] = "closed"]
    /\ acceptor' = "idle"
    /\ accepted' = None
    /\ thread' = [thread EXCEPT ![t] = "out"]
    /\ Done
    /\ UNCHANGED <<call, serverVars, clientVars, req, eof>>

-----------------------------------------------------------------------------
(* The session.                                                            *)

\* The order of the conditions of on_read matters for OPTIONS and /status only.
Route(r) ==
    CASE r.method = "OPTIONS"                                      -> "options"
      [] r.method = "GET"  /\ r.target = "/health"                 -> "health"
      [] r.method = "GET"  /\ r.target = "/maps/key"               -> "mapsKey"
      [] r.method = "POST" /\ r.target = "/places/nearby"          -> "nearby"
      [] r.method = "POST" /\ r.target = "/places/search"          -> "text"
      [] r.method = "GET"  /\ r.target = "/places/details/id"      -> "details"
      [] r.method = "GET"  /\ r.target = "/place/photo/ref"        -> "photo"
      [] r.method = "GET"  /\ r.target \in {"/places/details/", "/place/photo/"} -> "badRequest"
      [] r.method # "OPTIONS" /\ r.target = "/status"              -> "status"
      [] OTHER                                                     -> "notFound"

\* handle_bad_request answers HTTP/1.1 whatever the request; so does a missing key.
BadRequest(r) == Route(r) = "badRequest" \/ (Route(r) = "mapsKey" /\ ~KeyConfigured)

\* Faulty variant: a response of a version of its own ends the connection.
OwnEof(c, follows) == ~follows \/ req[c].close

\* need_eof() of a response with a length: whether it is keep-alive.
NeedEof(c, follows) == follows /\ req[c].close

\* Faulty variant: the connection is closed without an answer.
SendNothing(c, follows) ==
    /\ conn' = [conn EXCEPT ![c] = "closed"]
    /\ UNCHANGED eof

\* Faulty variant: a handler returns without a response.
RespondNothing(c, follows) == UNCHANGED <<conn, eof>>

\* send_response: async_write, with a timeout.
SendResponse(c, follows) ==
    /\ conn' = [conn EXCEPT ![c] = "writing"]
    /\ eof' = [eof EXCEPT ![c] = NeedEof(c, follows)]

\* on_run_dispatched, and do_read: req_ is emptied, async_read with a timeout.
DoRead(c) ==
    /\ conn' = [conn EXCEPT ![c] = "reading"]
    /\ req' = [req EXCEPT ![c] = NoRequest]

OnRun(t, c) ==
    /\ Takes(t, c) /\ conn[c] = "opened"
    /\ DoRead(c)
    /\ Done
    /\ UNCHANGED <<call, serverVars, acceptVars, thread, clientVars, eof>>

\* on_read of a request that is answered on the spot.
OnReadLocal(t, c) ==
    /\ Takes(t, c) /\ conn[c] = "read"
    /\ Route(req[c]) \notin Kinds
    /\ SendResponse(c, ~BadRequest(req[c]))
    /\ Done
    /\ UNCHANGED <<call, serverVars, acceptVars, thread, clientVars, req>>

\* on_read of a request for the upstream API: the handler calls it and waits.
OnReadPlaces(t, c) ==
    /\ Takes(t, c) /\ conn[c] = "read"
    /\ \/ Route(req[c]) = "nearby" /\ \E b \in Bodies : Set(t, handleNearbySearch(b))
       \/ Route(req[c]) = "text" /\ \E b \in Bodies : Set(t, handleTextSearch(b))
       \/ Route(req[c]) = "details" /\ Set(t, handlePlaceDetails)
       \/ Route(req[c]) = "photo" /\ Set(t, handlePlacePhoto)
    /\ conn' = [conn EXCEPT ![c] = "serving"]
    /\ thread' = [thread EXCEPT ![t] = c]
    /\ Done
    /\ UNCHANGED <<serverVars, acceptVars, clientVars, req, eof>>

\* A step of the call, on the thread that serves the request.
PlacesStep(t) ==
    /\ thread[t] \in Conns
    /\ UpstreamStep(t)
    /\ UNCHANGED <<serverVars, acceptVars, thread, ready, conn, clientVars, req, eof>>

\* The call is answered: the response is sent, and the handler ends.
OnAnswer(t) ==
    /\ thread[t] \in Conns /\ At(t, "answer")
    /\ SendResponse(thread[t], call[t].follows)
    /\ Set(t, NoCall)
    /\ thread' = [thread EXCEPT ![t] = "waiting"]
    /\ UNCHANGED <<serverVars, acceptVars, ready, clientVars, req>>

\* on_write: close where the response says so, else the next request.
OnWrite(t, c) ==
    /\ Takes(t, c) /\ conn[c] = "written"
    /\ IF eof[c] THEN conn' = [conn EXCEPT ![c] = "closed"] /\ UNCHANGED req
       ELSE DoRead(c)
    /\ Done
    /\ UNCHANGED <<call, serverVars, acceptVars, thread, clientVars, eof>>

\* on_read at the end of the stream or on an error, on_write on an error:
\* do_close, and nothing holds the session any more.
OnError(t, c) ==
    /\ Takes(t, c) /\ conn[c] \in {"readError", "writeError"}
    /\ conn' = [conn EXCEPT ![c] = "closed"]
    /\ Done
    /\ UNCHANGED <<call, serverVars, acceptVars, thread, clientVars, req, eof>>

-----------------------------------------------------------------------------
(* The clients and the network.                                            *)

Dial(c) ==
    /\ conn[c] = "none" /\ listener = "listening"
    /\ conn' = [conn EXCEPT ![c] = "backlog"]
    /\ UNCHANGED <<call, serverVars, acceptVars, thread, ready, clientVars, req, eof>>

\* Clients may send the next request before the answer to the last.
Send(c, r) ==
    /\ conn[c] \notin {"none", "closed"} /\ sent < MaxRequests
    /\ inbox' = [inbox EXCEPT ![c] = Append(@, r)]
    /\ sent' = sent + 1
    /\ UNCHANGED <<call, serverVars, acceptVars, thread, ready, conn, req, eof>>

\* A completion reaches the queue while the io_context runs.
Completes(h) == phase = "running" /\ ready' = Append(ready, h)

AcceptCompletes(c) ==
    /\ acceptor = "pending" /\ conn[c] = "backlog"
    /\ acceptor' = "completed"
    /\ accepted' = c
    /\ Completes("accept")
    /\ UNCHANGED <<call, serverVars, thread, conn, clientVars, req, eof>>

\* An accept fails: always, when the socket does not listen.
AcceptFails ==
    /\ acceptor = "pending"
    /\ acceptor' = "completed"
    /\ Completes("accept")
    /\ UNCHANGED <<call, serverVars, accepted, thread, conn, clientVars, req, eof>>

ReadCompletes(c) ==
    /\ conn[c] = "reading" /\ inbox[c] # <<>>
    /\ req' = [req EXCEPT ![c] = Head(inbox[c])]
    /\ inbox' = [inbox EXCEPT ![c] = Tail(@)]
    /\ conn' = [conn EXCEPT ![c] = "read"]
    /\ Completes(c)
    /\ UNCHANGED <<call, serverVars, acceptVars, thread, eof, sent>>

\* The end of the stream, an error, or the timeout after 30 seconds.
ReadFails(c) ==
    /\ conn[c] = "reading"
    /\ conn' = [conn EXCEPT ![c] = "readError"]
    /\ Completes(c)
    /\ UNCHANGED <<call, serverVars, acceptVars, thread, clientVars, req, eof>>

\* A write completes, or fails, after 30 seconds at the latest.
WriteEnds(c) ==
    /\ conn[c] = "writing"
    /\ \E result \in {"written", "writeError"} : conn' = [conn EXCEPT ![c] = result]
    /\ Completes(c)
    /\ UNCHANGED <<call, serverVars, acceptVars, thread, clientVars, req, eof>>

-----------------------------------------------------------------------------
Handle(t, c) == OnRun(t, c) \/ OnReadLocal(t, c) \/ OnReadPlaces(t, c) \/ OnWrite(t, c) \/ OnError(t, c)

ThreadStep(t) ==
    \/ OnAcceptError(t) \/ OnAccept(t) \/ OnAcceptThrows(t)
    \/ \E c \in Conns : Handle(t, c)
    \/ PlacesStep(t) \/ OnAnswer(t)
    \/ LeaveRun(t)

NetworkStep(c) == AcceptCompletes(c) \/ ReadCompletes(c) \/ ReadFails(c) \/ WriteEnds(c)

ClientStep(c) == Dial(c) \/ \E r \in Requests : Send(c, r)

Next ==
    \/ RunServer \/ StopServer \/ JoinThreads
    \/ \E t \in Threads : ThreadStep(t)
    \/ AcceptFails
    \/ \E c \in Conns : NetworkStep(c) \/ ClientStep(c)

Spec == Init /\ [][Next]_vars

\* A thread waits for the upstream API, or for the network on the way to it.  No
\* timeout is set on resolve, connect, handshake, write and read: a peer that
\* stays silent keeps the thread.
Blocked(t) == call[t].at \in {"resolve", "connect", "exchange", "redirect"}

\* Threads run handlers that are ready and go on with a call that is not Blocked
\* (a pause ends), stop() goes on when the threads have ended, and a write ends:
\* expires_after(30 s) sees to it.  The upstream API, clients, accepts and
\* stop() itself owe nothing.
Fairness ==
    /\ \A t \in Threads : WF_vars(~Blocked(t) /\ ThreadStep(t))
    /\ \A c \in Conns : WF_vars(WriteEnds(c))
    /\ WF_vars(JoinThreads)

FairSpec == Spec /\ Fairness

-----------------------------------------------------------------------------
(* Safety.                                                                 *)

Places(h) == {i \in DOMAIN ready : ready[i] = h}

\* One asynchronous operation at a time: a connection has its next handler in
\* the queue exactly when an operation of it has completed, and then once; a
\* thread runs its handler exactly when it is being served, and then one; the
\* same for accept.  So no two handlers of a session ever run together and
\* req_ and the stream are never used by two operations.
Chained ==
    /\ \A c \in Conns :
         /\ Cardinality(Places(c)) = IF conn[c] \in Completed THEN 1 ELSE 0
         /\ Cardinality({t \in Threads : thread[t] = c}) = IF conn[c] = "serving" THEN 1 ELSE 0
    /\ Cardinality(Places("accept")) = IF acceptor = "completed" THEN 1 ELSE 0
    /\ \A t \in Threads : At(t, "none") <=> thread[t] \notin Conns

\* What a call uses exists as long as the call: places_handler_ was made, which a
\* listener that failed half-way never did, and stop() has not dropped it.
HandlerPresent == \A t \in Threads : thread[t] \in Conns => listener = "listening"

\* While the server runs, its accept loop ends only together with a thread, and
\* a thread that is left serves what was accepted before.
AcceptEndsWithThread ==
    phase = "running" /\ acceptor = "idle" => \E t \in Threads : thread[t] = "out"

\* A client that asked to keep its connection has it closed only by an error,
\* whatever the version and status of the answer.
KeptAlive ==
    [][\A c \in Conns : conn[c] = "written" /\ conn'[c] = "closed" => req[c].close]_vars

-----------------------------------------------------------------------------
(* Liveness and refinement.                                                *)

Serving == phase \in {"new", "running"} /\ \E t \in Threads : thread[t] # "out"

\* What a client sees of its connection.
Seen(c) ==
    CASE conn[c] \in {"none", "backlog"}                 -> "none"
      [] conn[c] \in {"opened", "reading", "readError"}  -> "idle"
      [] conn[c] \in {"read", "serving"}                 -> "asked"
      [] conn[c] \in {"writing", "written", "writeError"} -> "answered"
      [] conn[c] = "closed"                              -> "closed"

\* No call hangs for ever; none of one connection does; a thread is left that no
\* call hangs on.  The code does not see to any of these: they are conditions
\* of what follows and no part of the specification.
CallsReturn == \A t \in Threads : []<>~Blocked(t)
OwnCallReturns(c) == []<>~(\E t \in Threads : thread[t] = c /\ Blocked(t))
ThreadLeft == []<>(\E t \in Threads : thread[t] # "out" /\ ~Blocked(t))

\* A call that hangs is all that can keep stop() from returning: whatever else
\* was under way, in a handler, an accept or a pause of the retry loop, it joins
\* every thread.  (With a call that hangs it does not return, and main hangs.)
StopReturns == CallsReturn => (phase = "stopping" ~> phase = "stopped")
=============================================================================
