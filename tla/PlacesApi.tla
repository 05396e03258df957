------------------------------ MODULE PlacesApi ------------------------------
(***************************************************************************)
(* PlacesApiHandler: the requests the HTTP server forwards to the upstream *)
(* Places API.  A call is synchronous: it runs from its first statement to *)
(* its answer on the thread that made it, and blocks that thread in every  *)
(* step below.  Calls share nothing but the key, so that the state is one  *)
(* record per thread.                                                      *)
(***************************************************************************)
EXTENDS Naturals

CONSTANTS
    Threads,    \* the threads that may be in a call
    Statuses,   \* the HTTP statuses the upstream API answers with
    Registered, \* those of them the HTTP library has a name for
    MaxRetries  \* max_retries of requestGooglePlacesApi (3 in the code)

ASSUME PlacesAssumption ==
    /\ Statuses \subseteq 100..999
    /\ Registered \subseteq Statuses
    /\ MaxRetries \in Nat \ {0}

VARIABLE call \* the call each thread is in

-----------------------------------------------------------------------------
Kinds   == {"nearby", "text", "details", "photo"}
Stages  == {"none", "resolve", "connect", "pause", "exchange", "redirect", "answer"}
\* The body of a client's request: with coordinates, without any, or of
\* another form (no JSON, an integer latitude, no query).
Bodies  == {"coordinates", "plain", "malformed"}
\* The body of an upstream answer: a JSON object with or without "places", JSON
\* that the conversion throws on, or no JSON.
Payload == {"places", "object", "misshapen", "notJson"}

Success  == {st \in Statuses : 200 <= st /\ st < 300}
\* A message with one of these has no body; prepare_payload throws if it has.
Bodiless(st) == st < 200 \/ st \in {204, 304}

Call == [kind    : Kinds,
         at      : Stages,
         retry   : 0..MaxRetries,         \* retry_count
         tries   : Nat,                   \* calls of net::connect so far
         linked  : BOOLEAN,               \* the stream is connected
         up      : {0} \cup Statuses,     \* the last status received, 0 for none
         cut     : BOOLEAN,               \* the TLS shutdown failed after it
         status  : 0..999,                \* the answer
         follows : BOOLEAN]               \* it takes keep-alive from the request

PlacesTypeOK == call \in [Threads -> Call]

NoCall == [kind |-> "nearby", at |-> "none", retry |-> 0, tries |-> 0, linked |-> FALSE,
           up |-> 0, cut |-> FALSE, status |-> 0, follows |-> FALSE]

PlacesInit == call = [t \in Threads |-> NoCall]

-----------------------------------------------------------------------------
(* The answers.  An operator takes the record of a call and returns it     *)
(* with the answer filled in.                                              *)

Searches == {"nearby", "text"}

Answered(c, st, follows) == [c EXCEPT !.at = "answer", !.status = st, !.follows = follows]

\* The response the handlers build last: always 200; only a search copies the
\* version and the keep-alive of the request.
Normal(c) == Answered(c, 200, c.kind \in Searches)

\* createErrorResponse: HTTP/1.1, with a body, hence an exception for a status
\* that allows none; the handler's catch then answers with its own status.
CatchStatus(c) == IF c.kind \in Searches THEN 400 ELSE 500
createErrorResponse(c, st) == Answered(c, IF Bodiless(st) THEN CatchStatus(c) ELSE st, FALSE)

\* Faulty variant: the special fields are not looked for.
ForgetUpstream(c, st) == Normal(c)

\* "__error_status_code" came back: a search wraps the body into an error
\* object, details passes it on as it is (none, where none is allowed).
PassUpstream(c, st) ==
    IF c.kind = "details" THEN Answered(c, st, FALSE) ELSE createErrorResponse(c, st)

\* An exception.  requestGooglePlacesApi turns it into {"error": ...} without a
\* status, which its callers send like a result; handlePlacePhoto catches it.
Caught(c) == IF c.kind = "photo" THEN createErrorResponse(c, 500) ELSE Normal(c)

\* requestGooglePlacesApi after http::read, and its caller: what is not JSON is
\* an error whatever its status.
ApiAnswer(c, st, payload) ==
    LET got == [c EXCEPT !.up = st]
    IN  IF payload = "notJson" \/ st \notin Success THEN PassUpstream(got, st)
        ELSE IF payload = "misshapen" THEN Caught(got)
        ELSE Normal(got)

\* handlePlacePhoto once it follows no (further) redirect.  An error is answered
\* with result(), which is unknown, hence 0, for a status without a name.
FetchedPhoto(c, st) ==
    LET got == [c EXCEPT !.up = st]
    IN  IF st \in Success THEN Normal(got)
        ELSE Answered(got, IF st \in Registered THEN st ELSE 0, FALSE)

-----------------------------------------------------------------------------
(* The start of each call, made by the HTTP session's handler.             *)

Calling(kind) == [NoCall EXCEPT !.kind = kind, !.at = "resolve"]
Refused(kind) == createErrorResponse(Calling(kind), 400)

\* latitude and longitude are required, and must be floating point.
handleNearbySearch(body) ==
    IF body = "coordinates" THEN Calling("nearby") ELSE Refused("nearby")

\* Only the query is required; coordinates default to Seoul.
handleTextSearch(body) ==
    IF body \in {"coordinates", "plain"} THEN Calling("text") ELSE Refused("text")

handlePlaceDetails == Calling("details")
handlePlacePhoto   == Calling("photo")

-----------------------------------------------------------------------------
(* The steps of a call.                                                    *)

At(t, stage) == call[t].at = stage
Set(t, c) == call' = [call EXCEPT ![t] = c]
Goto(t, stage) == Set(t, [call[t] EXCEPT !.at = stage])

\* resolver.resolve, which throws when it fails.
Resolve(t) ==
    /\ At(t, "resolve")
    /\ Goto(t, "connect") \/ Set(t, Caught(call[t]))

\* Faulty variant: retry_count is not incremented.
NextUncounted(c) == [c EXCEPT !.at = "connect"]

\* The bottom of the loop: retry_count is incremented.  Running out of attempts
\* here would meet the check after the loop, which throws.
NextAttempt(c) ==
    LET next == [c EXCEPT !.retry = @ + 1]
    IN  IF next.retry < MaxRetries THEN [next EXCEPT !.at = "connect"] ELSE Caught(next)

\* The error the loop throws is caught by the loop: the last one goes on to
\* the function's own handler, any other is retried at once.
Thrown(c) == IF c.retry >= MaxRetries - 1 THEN Caught(c) ELSE NextAttempt(c)

\* net::connect.  EADDRNOTAVAIL pauses, except in the last attempt; every other
\* error is thrown.  The photo connects once, with the overload that throws.
Connect(t) ==
    /\ At(t, "connect")
    /\ LET c == [call[t] EXCEPT !.tries = @ + 1]
       IN  \/ Set(t, [c EXCEPT !.linked = TRUE, !.at = "exchange"])
           \/ Set(t, IF c.kind = "photo" THEN Caught(c) ELSE Thrown(c))
           \/ /\ c.kind # "photo" /\ c.retry < MaxRetries - 1
              /\ Set(t, [c EXCEPT !.at = "pause"])

\* The pause is over: ioc.restart, a new stream, the next attempt.
Resume(t) ==
    /\ At(t, "pause")
    /\ Set(t, NextAttempt([call[t] EXCEPT !.linked = FALSE]))

\* An answer without a body is not JSON.
Upstream == {u \in Statuses \X Payload : Bodiless(u[1]) => u[2] = "notJson"}

\* The status is there, and is lost: stream.shutdown reports anything but the end
\* of the stream, and that is thrown.
CutOff(c, st) == [c EXCEPT !.up = st, !.cut = TRUE]

\* handshake, write and read, each of which may throw; then shutdown, which may
\* throw too.
ExchangeApi(t) ==
    /\ At(t, "exchange") /\ call[t].kind # "photo"
    /\ \/ Set(t, Caught(call[t]))
       \/ \E st \in Statuses : Set(t, Caught(CutOff(call[t], st)))
       \/ \E u \in Upstream : Set(t, ApiAnswer(call[t], u[1], u[2]))

\* The same for a photo, which ignores what shutdown reports: a 302 with a
\* Location is followed, once.
ExchangePhoto(t) ==
    /\ At(t, "exchange") /\ call[t].kind = "photo"
    /\ \/ Set(t, Caught(call[t]))
       \/ \E st \in Statuses : Set(t, FetchedPhoto(call[t], st))
       \/ 302 \in Statuses /\ Set(t, [call[t] EXCEPT !.up = 302, !.at = "redirect"])

\* The second fetch, from the parsing of the Location (substr throws when it has
\* no path) to the read.
Redirect(t) ==
    /\ At(t, "redirect")
    /\ \/ Set(t, Caught(call[t]))
       \/ \E st \in Statuses : Set(t, FetchedPhoto(call[t], st))

UpstreamStep(t) ==
    Resolve(t) \/ Connect(t) \/ Resume(t) \/ ExchangeApi(t) \/ ExchangePhoto(t) \/ Redirect(t)

-----------------------------------------------------------------------------
(* What a call promises.                                                   *)

InCall(t) == call[t].at \notin {"none", "answer"}
Limit(kind) == IF kind = "photo" THEN 1 ELSE MaxRetries

\* The retry loop: never more connection attempts than allowed, no exchange on
\* a stream that is not connected, and a call gives up on connecting only after
\* the last of its attempts, whatever the mix of pauses and thrown errors.
AttemptsExact ==
    \A t \in Threads :
        LET c == call[t]
        IN  /\ c.tries <= Limit(c.kind)
            /\ c.at \in {"exchange", "redirect"} => c.linked
            /\ c.at = "answer" /\ c.tries > 0 /\ ~c.linked => c.tries = Limit(c.kind)

\* An error status of the upstream API, once the exchange has ended in order,
\* never reaches the client as a success: a search or details passes on the
\* status itself unless no message with a body may carry it, a photo unless
\* the library has no name for it.  (When the TLS shutdown fails the status is
\* lost, and the client is told 200: UpstreamErrorTold, below.)
UpstreamStatusPassed ==
    \A t \in Threads :
        LET c == call[t]
        IN  c.at = "answer" /\ c.up # 0 /\ c.up \notin Success /\ ~c.cut =>
                /\ ~(200 <= c.status /\ c.status < 300)
                /\ \/ c.status = c.up
                   \/ c.kind \in Searches /\ Bodiless(c.up)
                   \/ c.kind = "photo" /\ c.up \notin Registered /\ c.status = 0
                   \/ c.kind = "photo" /\ c.up = 302 \* the second fetch failed

\* requestGooglePlacesApi: "on error the JSON holds __error_status_code and
\* __error_body, and is turned into an HTTP error response".  So no error is
\* answered as a success: neither a call that got no status, nor one that got
\* an error status, whatever came of the connection after it.
UpstreamErrorTold ==
    \A t \in Threads : At(t, "answer") /\ call[t].up \notin Success => call[t].status \notin Success
=============================================================================
