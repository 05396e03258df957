---------------------------- MODULE MCHttpServer ----------------------------
(* Values for the constants of HttpServer in the runs of TLC.              *)
EXTENDS HttpServer

CONSTANTS t1, t2, c1, c2

TwoThreads == {t1, t2}
OneThread == {t1}
TwoConns == {c1, c2}

\* A success, a redirect, an error that allows no body, and an error of a status
\* the library has no name for.
SomeStatuses == {200, 302, 304, 520}
NamedStatuses == {200, 302, 304}

Ask(m, tg, cl) == [method |-> m, target |-> tg, close |-> cl]

\* A request answered on the spot, that ends its connection; one for each kind
\* of call; and one that is refused.
MixedRequests ==
    {Ask("GET", "/health", TRUE),
     Ask("POST", "/places/nearby", TRUE), Ask("POST", "/places/search", FALSE),
     Ask("GET", "/places/details/id", FALSE), Ask("GET", "/place/photo/ref", FALSE),
     Ask("GET", "/places/details/", FALSE)}

\* A connection is what RequestReply promises: a request gets one answer, in
\* turn.  Connections are interchangeable, so that one stands for all.
Connection == INSTANCE RequestReply WITH state <- Seen(c1), serving <- Serving
ConnectionSpec == Connection!Spec

\* A call that hangs costs the connection it is for, and the thread it is on: as
\* long as a thread is left that no call hangs on, every request that was taken
\* is answered and every answer is sent, but for that of a call that hangs.
ConnectionAnswers == ThreadLeft /\ OwnCallReturns(c1) => Connection!Fairness
=============================================================================
