--------------------------- MODULE PlacesApiProofs ---------------------------
(***************************************************************************)
(* Proofs about the upstream calls of the HTTP server: for any threads,    *)
(* statuses, requests and number of retries, the retry loop makes exactly  *)
(* the attempts it may make, and an upstream error status is passed on.    *)
(***************************************************************************)
EXTENDS HttpServer, TLAPS

\* What a call has done when it is at its present stage: how many attempts it
\* has made (the connection of the current one is counted when it returns),
\* whether one of them succeeded, and which status it got.
Progress(c) ==
    /\ c.at \in {"none", "resolve"} => c.tries = 0 /\ c.retry = 0
    /\ c.at \in {"none", "resolve", "connect", "pause"} => ~c.linked
    /\ c.at \in {"none", "resolve", "connect", "pause", "exchange"} => c.up = 0
    /\ c.at = "connect" => c.tries < Limit(c.kind) /\ c.retry < MaxRetries
    /\ c.at = "connect" /\ c.kind # "photo" => c.tries = c.retry
    /\ c.at = "pause" => c.kind # "photo" /\ c.tries = c.retry + 1 /\ c.retry < MaxRetries - 1
    /\ c.at \in {"exchange", "redirect"} => c.linked
    /\ c.at = "redirect" => c.kind = "photo" /\ c.up = 302
    /\ c.at # "answer" => ~c.cut

\* The two promises of one call: it makes all the attempts it may make before it
\* gives up, and an answer with status st tells of an upstream error, unless the
\* end of the exchange has lost it.
Spent(c) ==
    /\ c.tries <= Limit(c.kind)
    /\ c.tries > 0 /\ ~c.linked => c.tries = Limit(c.kind)

Tells(c, st) ==
    c.up # 0 /\ c.up \notin Success /\ ~c.cut =>
        /\ ~(200 <= st /\ st < 300)
        /\ \/ st = c.up
           \/ c.kind \in Searches /\ Bodiless(c.up)
           \/ c.kind = "photo" /\ c.up \notin Registered /\ st = 0
           \/ c.kind = "photo" /\ c.up = 302

Sound(c) ==
    /\ c \in Call
    /\ Progress(c)
    /\ c.tries <= Limit(c.kind)
    /\ c.at = "answer" => Spent(c) /\ Tells(c, c.status)

CallsInv == PlacesTypeOK /\ \A t \in Threads : Sound(call[t])

-----------------------------------------------------------------------------
(* The answers.                                                            *)

\* The call with its answer, for either kind of response, and the statuses of answers.
Codes == 0..999
ErrorCodes == 300..999
Answers(c, st) == {Answered(c, st, b) : b \in BOOLEAN}

\* Filling in the answer keeps what the call has done.
LEMMA AnsweredSound ==
    ASSUME NEW c \in Call, NEW st \in Codes, Spent(c), Tells(c, st),
           NEW a \in Answers(c, st)
    PROVE  Sound(a)
<1>1. a \in Call
  <2> DEFINE d == [c EXCEPT !.at = "answer"]
             e == [d EXCEPT !.status = st]
  <2>1. d \in Call
    BY DEF Call, Stages
  <2> HIDE DEF d
  <2>2. e \in Call
    BY <2>1 DEF Call, Codes
  <2> HIDE DEF e
  <2>3. PICK b \in BOOLEAN : a = Answered(c, st, b)
    BY DEF Answers
  <2>4. [e EXCEPT !.follows = b] \in Call
    BY <2>2 DEF Call
  <2> QED
    BY <2>3, <2>4 DEF Answered, d, e
<1>2. /\ a.at = "answer" /\ a.status = st /\ a.tries = c.tries
      /\ a.linked = c.linked /\ a.up = c.up /\ a.cut = c.cut /\ a.kind = c.kind
  <2>1. PICK b \in BOOLEAN : a = Answered(c, st, b)
    BY DEF Answers
  <2> QED
    BY <2>1 DEF Answered, Call
<1>3. Progress(a)
  BY <1>2 DEF Progress
<1>4. Spent(a) /\ a.tries <= Limit(a.kind)
  BY <1>2 DEF Spent
<1>5. Tells(a, a.status)
  BY <1>2 DEF Tells
<1> QED
  BY <1>1, <1>3, <1>4, <1>5 DEF Sound

\* An answer of the form the handlers build last.
LEMMA NormalSound ==
    ASSUME NEW c \in Call, Spent(c), c.up = 0 \/ c.up \in Success \/ c.cut
    PROVE  Sound(Normal(c))
<1>1. Tells(c, 200)
  BY DEF Tells
<1>2. Normal(c) \in Answers(c, 200)
  <2>1. CASE c.kind \in Searches
    <3>1. (c.kind \in Searches) = TRUE
      BY <2>1
    <3>2. Answered(c, 200, c.kind \in Searches) = Answered(c, 200, TRUE)
      BY <3>1, Zenon
    <3> QED
      BY <3>2, Zenon DEF Normal, Answers
  <2>2. CASE c.kind \notin Searches
    <3>1. (c.kind \in Searches) = FALSE
      BY <2>2
    <3>2. Answered(c, 200, c.kind \in Searches) = Answered(c, 200, FALSE)
      BY <3>1, Zenon
    <3> QED
      BY <3>2, Zenon DEF Normal, Answers
  <2> QED
    BY <2>1, <2>2
<1>3. 200 \in Codes
  BY DEF Codes
<1> QED
  BY <1>1, <1>2, <1>3, AnsweredSound

\* createErrorResponse with an error status, for a call that need tell of that
\* status only or of none.
LEMMA ErrorResponseSound ==
    ASSUME NEW c \in Call, NEW st \in ErrorCodes, Spent(c),
           \/ c.up = 0
           \/ c.up \in Success
           \/ c.cut
           \/ c.up = st /\ c.kind \in Searches
           \/ c.kind = "photo" /\ c.up = 302
    PROVE  Sound(createErrorResponse(c, st))
<1> DEFINE got == IF Bodiless(st) THEN CatchStatus(c) ELSE st
<1>1. got \in Codes /\ (got = st \/ (Bodiless(st) /\ got \in {400, 500}))
  BY DEF CatchStatus, Codes, ErrorCodes
<1>2. Tells(c, got)
  BY <1>1 DEF Tells, CatchStatus, ErrorCodes
<1>3. createErrorResponse(c, st) \in Answers(c, got)
  BY DEF createErrorResponse, Answers
<1> HIDE DEF got
<1>4. got \in Codes
  BY <1>1
<1>5. \A a \in Answers(c, got) : Sound(a)
  BY <1>2, <1>4, AnsweredSound
<1> QED
  BY <1>3, <1>5

\* An exception: a search or details meets one as long as it has no error status
\* to pass on, or loses it then; a photo after its redirect too.
LEMMA CaughtSound ==
    ASSUME NEW c \in Call, Spent(c),
           \/ c.up = 0
           \/ c.up \in Success
           \/ c.cut
           \/ c.kind = "photo" /\ c.up = 302
    PROVE  Sound(Caught(c))
<1>1. CASE c.kind = "photo"
  <2>1. 500 \in ErrorCodes
    BY DEF ErrorCodes
  <2>2. Sound(createErrorResponse(c, 500))
    BY <2>1, ErrorResponseSound
  <2> QED
    BY <1>1, <2>2 DEF Caught
<1>2. CASE c.kind # "photo"
  <2>1. Sound(Normal(c))
    BY <1>2, NormalSound
  <2> QED
    BY <1>2, <2>1 DEF Caught
<1> QED
  BY <1>1, <1>2

\* A search or details passes on the status it has got.
LEMMA PassUpstreamSound ==
    ASSUME NEW c \in Call, c.up \in 100..999, Spent(c), c.kind # "photo"
    PROVE  Sound(PassUpstream(c, c.up))
<1> DEFINE wrapped == IF Bodiless(c.up) THEN CatchStatus(c) ELSE c.up
           told == IF c.kind = "details" THEN c.up ELSE wrapped
<1>1. c.kind # "details" => c.kind \in Searches
  BY DEF Call, Kinds, Searches
<1>2. told \in Codes /\ (c.up \notin Success => Tells(c, told))
  <2>1. CatchStatus(c) \in {400, 500}
    BY DEF CatchStatus
  <2>2. told = c.up \/ (Bodiless(c.up) /\ c.kind \in Searches /\ told \in {400, 500})
    BY <1>1, <2>1
  <2>3. c.up \notin Success => c.up < 200 \/ c.up >= 300
    BY DEF Call, Success
  <2> HIDE DEF told
  <2> QED
    BY <2>2, <2>3 DEF Tells, Codes
<1>3. Tells(c, told)
  BY <1>2 DEF Tells
<1>4. PassUpstream(c, c.up) \in Answers(c, told)
  BY DEF PassUpstream, createErrorResponse, Answers
<1> HIDE DEF told
<1>5. told \in Codes
  BY <1>2
<1>6. \A a \in Answers(c, told) : Sound(a)
  BY <1>3, <1>5, AnsweredSound
<1> QED
  BY <1>4, <1>6

\* What the exchange of a search or details comes to.
LEMMA ApiAnswerSound ==
    ASSUME NEW c \in Call, NEW st \in Statuses, NEW payload, Spent(c), c.kind # "photo"
    PROVE  Sound(ApiAnswer(c, st, payload))
<1> DEFINE got == [c EXCEPT !.up = st]
<1>1. st \in 100..999
  BY PlacesAssumption
<1>2. got \in Call
  BY DEF Call
<1>3. got.up = st /\ got.kind = c.kind /\ Spent(got)
  BY DEF Call, Spent
<1>4. \/ ApiAnswer(c, st, payload) = PassUpstream(got, st)
      \/ st \in Success /\ ApiAnswer(c, st, payload) \in {Caught(got), Normal(got)}
  BY DEF ApiAnswer
<1> HIDE DEF got
<1>5. Sound(PassUpstream(got, st))
  BY <1>1, <1>2, <1>3, PassUpstreamSound
<1>6. st \in Success => Sound(Caught(got)) /\ Sound(Normal(got))
  BY <1>2, <1>3, CaughtSound, NormalSound
<1> QED
  BY <1>4, <1>5, <1>6

\* What comes of a call whose status is lost.
LEMMA CutOffTyped ==
    ASSUME NEW c \in Call, NEW st \in Statuses
    PROVE  LET lost == CutOff(c, st)
           IN  /\ lost \in Call /\ lost.cut
               /\ lost.tries = c.tries /\ lost.linked = c.linked /\ lost.kind = c.kind
<1> DEFINE got == [c EXCEPT !.up = st]
           lost == [got EXCEPT !.cut = TRUE]
<1>1. got \in Call
  BY DEF Call
<1>2. got.tries = c.tries /\ got.linked = c.linked /\ got.kind = c.kind
  BY DEF Call
<1>3. CutOff(c, st) = lost
  BY DEF CutOff
<1> HIDE DEF got
<1>4. lost \in Call
  <2>1. PICK b \in BOOLEAN : b = TRUE
    OBVIOUS
  <2>2. [got EXCEPT !.cut = b] \in Call
    BY <1>1 DEF Call
  <2> QED
    BY <2>1, <2>2
<1>5. lost.cut /\ lost.tries = c.tries /\ lost.linked = c.linked /\ lost.kind = c.kind
  BY <1>1, <1>2 DEF Call
<1> HIDE DEF lost
<1> QED
  BY <1>3, <1>4, <1>5

LEMMA CutOffSound ==
    ASSUME NEW c \in Call, NEW st \in Statuses, Spent(c)
    PROVE  Sound(Caught(CutOff(c, st)))
<1>1. Spent(CutOff(c, st))
  BY CutOffTyped DEF Spent
<1> QED
  BY <1>1, CutOffTyped, CaughtSound

\* The last status a photo gets is its answer.
LEMMA FetchedPhotoSound ==
    ASSUME NEW c \in Call, NEW st \in Statuses, Spent(c), c.kind = "photo"
    PROVE  Sound(FetchedPhoto(c, st))
<1> DEFINE got == [c EXCEPT !.up = st]
<1>1. st \in 100..999 /\ st \in Codes
  BY PlacesAssumption DEF Codes
<1>2. got \in Call
  BY <1>1 DEF Call
<1>3. got.up = st /\ Spent(got)
  BY DEF Call, Spent
<1>4. CASE st \in Success
  <2>1. FetchedPhoto(c, st) = Normal(got)
    BY <1>4 DEF FetchedPhoto
  <2> HIDE DEF got
  <2> QED
    BY <1>2, <1>3, <1>4, <2>1, NormalSound
<1>5. CASE st \notin Success
  <2> DEFINE told == IF st \in Registered THEN st ELSE 0
  <2>1. FetchedPhoto(c, st) \in Answers(got, told)
    BY <1>5 DEF FetchedPhoto, Answers
  <2>2. told \in Codes /\ (told = st \/ (st \notin Registered /\ told = 0))
    BY <1>1 DEF Codes
  <2>3. got.kind = "photo"
    BY DEF Call
  <2> HIDE DEF got, told
  <2>4. Tells(got, told)
    BY <1>1, <1>3, <1>5, <2>2, <2>3 DEF Tells, Success
  <2>5. \A a \in Answers(got, told) : Sound(a)
    BY <1>2, <1>3, <2>2, <2>4, AnsweredSound
  <2> QED
    BY <2>1, <2>5
<1> QED
  BY <1>4, <1>5

-----------------------------------------------------------------------------
(* The retry loop.                                                         *)

\* The record of a call that is not answered yet.
LEMMA UnderWaySound ==
    ASSUME NEW c \in Call, Progress(c), c.tries <= Limit(c.kind), c.at # "answer"
    PROVE  Sound(c)
BY DEF Sound

\* A failed attempt of a search or details that has counted itself: as many
\* attempts as retry_count says, and this one.
Failed(c) ==
    /\ c \in Call /\ c.kind # "photo"
    /\ ~c.linked /\ c.up = 0 /\ ~c.cut
    /\ c.retry < MaxRetries
    /\ c.tries = c.retry + 1

LEMMA NextAttemptSound ==
    ASSUME NEW c, Failed(c)
    PROVE  Sound(NextAttempt(c))
<1> DEFINE next == [c EXCEPT !.retry = @ + 1]
           again == [next EXCEPT !.at = "connect"]
<1>1. MaxRetries \in Nat /\ c \in Call
  BY PlacesAssumption DEF Failed
<1>2. next \in Call
  BY <1>1 DEF Call, Failed
<1>3. /\ next.kind = c.kind /\ ~next.linked /\ next.up = 0 /\ ~next.cut
      /\ next.retry = c.retry + 1 /\ next.tries = next.retry
  BY <1>1 DEF Call, Failed
<1>4. NextAttempt(c) = IF next.retry < MaxRetries THEN again ELSE Caught(next)
  BY DEF NextAttempt
<1>5. c.kind # "photo" /\ c.retry < MaxRetries /\ Limit(c.kind) = MaxRetries
  BY DEF Failed, Limit
<1> HIDE DEF next
<1>6. CASE next.retry < MaxRetries
  <2>1. again \in Call
    BY <1>2 DEF Call, Stages
  <2>2. /\ again.at = "connect" /\ again.kind = c.kind /\ ~again.linked /\ again.up = 0
        /\ ~again.cut /\ again.retry = next.retry /\ again.tries = next.retry
    BY <1>2, <1>3 DEF Call
  <2> HIDE DEF again
  <2>3. Progress(again) /\ again.tries <= Limit(again.kind)
    <3>1. next.retry \in Nat
      BY <1>2, <1>1 DEF Call
    <3> QED
      BY <1>1, <1>5, <1>6, <2>2, <3>1 DEF Progress
  <2> QED
    BY <1>4, <1>6, <2>1, <2>2, <2>3, UnderWaySound
<1>7. CASE ~(next.retry < MaxRetries)
  <2>1. c.retry \in Nat
    BY <1>1 DEF Call
  <2>2. next.tries = MaxRetries
    BY <1>1, <1>3, <1>5, <1>7, <2>1
  <2>3. Spent(next)
    BY <1>1, <1>3, <1>5, <2>2 DEF Spent
  <2> QED
    BY <1>2, <1>3, <1>4, <1>7, <2>3, CaughtSound
<1> QED
  BY <1>6, <1>7

LEMMA ThrownSound ==
    ASSUME NEW c, Failed(c)
    PROVE  Sound(Thrown(c))
<1>1. CASE c.retry >= MaxRetries - 1
  <2>1. MaxRetries \in Nat /\ c \in Call /\ c.retry \in Nat
    BY PlacesAssumption DEF Failed, Call
  <2>2. c.tries = MaxRetries /\ Limit(c.kind) = MaxRetries /\ c.up = 0
    BY <1>1, <2>1 DEF Failed, Limit
  <2>3. Spent(c)
    BY <2>1, <2>2 DEF Spent
  <2> QED
    BY <1>1, <2>1, <2>2, <2>3, CaughtSound DEF Thrown
<1>2. CASE ~(c.retry >= MaxRetries - 1)
  BY <1>2, NextAttemptSound DEF Thrown
<1> QED
  BY <1>1, <1>2

-----------------------------------------------------------------------------
(* The steps of a call.                                                    *)

LEMMA SetSound ==
    ASSUME CallsInv, NEW t \in Threads, NEW c, Sound(c), Set(t, c)
    PROVE  CallsInv'
<1>1. c \in Call
  BY DEF Sound
<1>2. call' \in [Threads -> Call]
  BY <1>1 DEF CallsInv, PlacesTypeOK, Set
<1>3. ASSUME NEW u \in Threads PROVE Sound(call'[u])
  <2>1. call'[u] = IF u = t THEN c ELSE call[u]
    BY DEF CallsInv, PlacesTypeOK, Set
  <2> QED
    BY <2>1 DEF CallsInv
<1>4. PlacesTypeOK'
  BY <1>2 DEF PlacesTypeOK
<1>5. \A u \in Threads : Sound(call[u])'
  BY <1>3
<1> QED
  BY <1>4, <1>5 DEF CallsInv

\* What is known of a call at the start of a step.
LEMMA SoundAt ==
    ASSUME CallsInv, NEW t \in Threads
    PROVE  /\ call[t] \in Call /\ Progress(call[t]) /\ call[t].tries \in Nat
           /\ call[t].tries <= Limit(call[t].kind)
           /\ Limit(call[t].kind) \in Nat \ {0}
<1>1. Sound(call[t])
  BY DEF CallsInv
<1>2. call[t] \in Call /\ call[t].tries \in Nat
  BY <1>1 DEF Sound, Call
<1>3. Limit(call[t].kind) \in Nat \ {0}
  BY PlacesAssumption DEF Limit
<1> QED
  BY <1>1, <1>2, <1>3 DEF Sound

\* Whether a call is connected may be set either way.
LEMMA LinkedTyped ==
    ASSUME NEW c \in Call
    PROVE  [c EXCEPT !.linked = TRUE] \in Call /\ [c EXCEPT !.linked = FALSE] \in Call
<1>1. ASSUME NEW d, \E b \in BOOLEAN : d = [c EXCEPT !.linked = b]
      PROVE  d \in Call
  <2>1. PICK b \in BOOLEAN : d = [c EXCEPT !.linked = b]
    BY <1>1
  <2>2. [c EXCEPT !.linked = b] \in Call
    BY DEF Call
  <2> QED
    BY <2>1, <2>2
<1>2. \E b \in BOOLEAN : [c EXCEPT !.linked = TRUE] = [c EXCEPT !.linked = b]
  BY Zenon
<1>3. \E b \in BOOLEAN : [c EXCEPT !.linked = FALSE] = [c EXCEPT !.linked = b]
  BY Zenon
<1> QED
  BY <1>1, <1>2, <1>3, Zenon

LEMMA ResolveKeeps ==
    ASSUME CallsInv, NEW t \in Threads, Resolve(t)
    PROVE  CallsInv'
<1> DEFINE c == call[t]
           d == [c EXCEPT !.at = "connect"]
<1>1. c.at = "resolve"
  BY DEF Resolve, At
<1>2. /\ c \in Call /\ Progress(c) /\ c.tries <= Limit(c.kind)
      /\ Limit(c.kind) \in Nat \ {0} /\ MaxRetries \in Nat \ {0}
  BY SoundAt, PlacesAssumption
<1>3. c.tries = 0 /\ c.retry = 0 /\ ~c.linked /\ c.up = 0 /\ ~c.cut
  BY <1>1, <1>2 DEF Progress
<1>4. Set(t, d) \/ Set(t, Caught(c))
  BY DEF Resolve, Goto
<1> HIDE DEF c
<1>5. Sound(d)
  <2>1. d \in Call
    BY <1>2 DEF Call, Stages
  <2>2. /\ d.at = "connect" /\ d.kind = c.kind /\ ~d.linked /\ d.up = 0
        /\ ~d.cut /\ d.tries = 0 /\ d.retry = 0
    BY <1>2, <1>3 DEF Call
  <2> HIDE DEF d
  <2>3. Progress(d) /\ d.tries <= Limit(d.kind)
    BY <1>2, <2>2 DEF Progress
  <2> QED
    BY <2>1, <2>2, <2>3, UnderWaySound
<1>6. Sound(Caught(c))
  <2>1. Spent(c)
    BY <1>2, <1>3 DEF Spent
  <2> QED
    BY <1>2, <1>3, <2>1, CaughtSound
<1> QED
  BY <1>4, <1>5, <1>6, SetSound

LEMMA ConnectKeeps ==
    ASSUME CallsInv, NEW t \in Threads, Connect(t)
    PROVE  CallsInv'
<1> DEFINE o == call[t]
           c == [o EXCEPT !.tries = @ + 1]
           linked == [c EXCEPT !.linked = TRUE, !.at = "exchange"]
           paused == [c EXCEPT !.at = "pause"]
<1>1. o.at = "connect"
  BY DEF Connect, At
<1>2. /\ o \in Call /\ Progress(o) /\ o.tries \in Nat
      /\ Limit(o.kind) \in Nat \ {0} /\ MaxRetries \in Nat \ {0}
  BY SoundAt, PlacesAssumption
<1>3. /\ o.tries < Limit(o.kind) /\ o.retry < MaxRetries /\ ~o.linked /\ o.up = 0 /\ ~o.cut
      /\ o.kind # "photo" => o.tries = o.retry
  BY <1>1, <1>2 DEF Progress
<1>4. \/ Set(t, linked)
      \/ c.kind = "photo" /\ Set(t, Caught(c))
      \/ c.kind # "photo" /\ Set(t, Thrown(c))
      \/ c.kind # "photo" /\ c.retry < MaxRetries - 1 /\ Set(t, paused)
  BY DEF Connect
<1> HIDE DEF o
<1>5. /\ c \in Call
      /\ c.at = "connect" /\ c.tries = o.tries + 1 /\ c.kind = o.kind /\ c.retry = o.retry
      /\ ~c.linked /\ c.up = 0 /\ ~c.cut
  BY <1>1, <1>2, <1>3 DEF Call
<1> HIDE DEF c
<1>6. c.tries <= Limit(c.kind)
  BY <1>2, <1>3, <1>5
<1>7. Sound(linked)
  <2> DEFINE d == [c EXCEPT !.linked = TRUE]
  <2>1. d \in Call
    BY <1>5, LinkedTyped
  <2>2. /\ d.linked /\ d.kind = c.kind /\ d.up = 0 /\ ~d.cut /\ d.tries = c.tries
    BY <1>5 DEF Call
  <2>3. linked = [d EXCEPT !.at = "exchange"]
    OBVIOUS
  <2> HIDE DEF d, linked
  <2>4. linked \in Call
    BY <2>1, <2>3 DEF Call, Stages
  <2>5. /\ linked.at = "exchange" /\ linked.linked /\ linked.kind = c.kind
        /\ linked.up = 0 /\ ~linked.cut /\ linked.tries = c.tries
    BY <2>1, <2>2, <2>3 DEF Call
  <2>6. Progress(linked) /\ linked.tries <= Limit(linked.kind)
    BY <1>6, <2>5 DEF Progress
  <2> QED
    BY <2>4, <2>5, <2>6, UnderWaySound
<1>8. ASSUME c.kind = "photo" PROVE Sound(Caught(c))
  <2>1. c.tries = 1 /\ Limit(c.kind) = 1
    BY <1>2, <1>3, <1>5, <1>6, <1>8 DEF Limit
  <2>2. Spent(c)
    BY <2>1 DEF Spent
  <2> QED
    BY <1>5, <2>2, CaughtSound
<1>9. ASSUME c.kind # "photo" PROVE Failed(c)
  BY <1>3, <1>5, <1>9 DEF Failed
<1>10. ASSUME c.kind # "photo", c.retry < MaxRetries - 1 PROVE Sound(paused)
  <2>1. paused \in Call
    BY <1>5 DEF Call, Stages
  <2>2. /\ paused.at = "pause" /\ ~paused.linked /\ paused.kind = c.kind
        /\ paused.up = 0 /\ ~paused.cut /\ paused.tries = c.tries /\ paused.retry = c.retry
    BY <1>5 DEF Call
  <2> HIDE DEF paused
  <2>3. Progress(paused) /\ paused.tries <= Limit(paused.kind)
    BY <1>3, <1>5, <1>6, <1>10, <2>2 DEF Progress
  <2> QED
    BY <2>1, <2>2, <2>3, UnderWaySound
<1> HIDE DEF linked, paused
<1> QED
  BY <1>4, <1>7, <1>8, <1>9, <1>10, ThrownSound, SetSound

LEMMA ResumeKeeps ==
    ASSUME CallsInv, NEW t \in Threads, Resume(t)
    PROVE  CallsInv'
<1> DEFINE o == call[t]
           c == [o EXCEPT !.linked = FALSE]
<1>1. o.at = "pause"
  BY DEF Resume, At
<1>2. o \in Call /\ Progress(o) /\ MaxRetries \in Nat \ {0}
  BY SoundAt, PlacesAssumption
<1>3. /\ o.kind # "photo" /\ o.tries = o.retry + 1 /\ o.retry < MaxRetries - 1 /\ o.up = 0
      /\ ~o.cut
  BY <1>1, <1>2 DEF Progress
<1>4. Set(t, NextAttempt(c))
  BY DEF Resume
<1> HIDE DEF o
<1>5. /\ c \in Call /\ ~c.linked /\ c.kind = o.kind /\ c.tries = o.tries
      /\ c.retry = o.retry /\ c.up = o.up /\ c.cut = o.cut
  <2>1. c \in Call
    BY <1>2, LinkedTyped
  <2> QED
    BY <1>2, <2>1 DEF Call
<1>6. o.retry \in Nat
  BY <1>2 DEF Call
<1> HIDE DEF c
<1>7. Failed(c)
  BY <1>2, <1>3, <1>5, <1>6 DEF Failed
<1> QED
  BY <1>4, <1>7, NextAttemptSound, SetSound

\* A call that is connected may end with any of its answers.
LEMMA ConnectedSpent ==
    ASSUME CallsInv, NEW t \in Threads, call[t].at \in {"exchange", "redirect"}
    PROVE  call[t] \in Call /\ call[t].linked /\ Spent(call[t])
<1>1. call[t] \in Call /\ Progress(call[t]) /\ call[t].tries <= Limit(call[t].kind)
  BY SoundAt
<1>2. call[t].linked
  BY <1>1 DEF Progress
<1> QED
  BY <1>1, <1>2 DEF Spent

LEMMA ExchangeApiKeeps ==
    ASSUME CallsInv, NEW t \in Threads, ExchangeApi(t)
    PROVE  CallsInv'
<1> DEFINE c == call[t]
<1>1. c.at = "exchange" /\ c.kind # "photo"
  BY DEF ExchangeApi, At
<1>2. c \in Call /\ Spent(c) /\ c.up = 0
  BY <1>1, SoundAt, ConnectedSpent DEF Progress
<1>3. \/ Set(t, Caught(c))
      \/ \E st \in Statuses : Set(t, Caught(CutOff(c, st)))
      \/ \E u \in Upstream : Set(t, ApiAnswer(c, u[1], u[2]))
  BY DEF ExchangeApi
<1> HIDE DEF c
<1>4. CASE Set(t, Caught(c))
  BY <1>2, <1>4, CaughtSound, SetSound
<1>5. ASSUME NEW u \in Upstream, Set(t, ApiAnswer(c, u[1], u[2]))
      PROVE  CallsInv'
  <2>1. u[1] \in Statuses
    BY DEF Upstream
  <2>2. Sound(ApiAnswer(c, u[1], u[2]))
    BY <1>1, <1>2, <2>1, ApiAnswerSound
  <2> QED
    BY <1>5, <2>2, SetSound
<1>6. ASSUME NEW st \in Statuses, Set(t, Caught(CutOff(c, st)))
      PROVE  CallsInv'
  <2>1. Sound(Caught(CutOff(c, st)))
    BY <1>2, CutOffSound
  <2> QED
    BY <1>6, <2>1, SetSound
<1> QED
  BY <1>3, <1>4, <1>5, <1>6

LEMMA ExchangePhotoKeeps ==
    ASSUME CallsInv, NEW t \in Threads, ExchangePhoto(t)
    PROVE  CallsInv'
<1> DEFINE c == call[t]
           d == [c EXCEPT !.up = 302]
           followed == [d EXCEPT !.at = "redirect"]
<1>1. c.at = "exchange" /\ c.kind = "photo"
  BY DEF ExchangePhoto, At
<1>2. /\ c \in Call /\ c.linked /\ Spent(c) /\ c.up = 0 /\ ~c.cut /\ c.tries <= Limit(c.kind)
  BY <1>1, SoundAt, ConnectedSpent DEF Progress
<1>3. \/ Set(t, Caught(c))
      \/ \E st \in Statuses : Set(t, FetchedPhoto(c, st))
      \/ 302 \in Statuses /\ Set(t, followed)
  BY DEF ExchangePhoto
<1> HIDE DEF c
<1>4. CASE Set(t, Caught(c))
  BY <1>2, <1>4, CaughtSound, SetSound
<1>5. CASE \E st \in Statuses : Set(t, FetchedPhoto(c, st))
  BY <1>1, <1>2, <1>5, FetchedPhotoSound, SetSound
<1>6. CASE 302 \in Statuses /\ Set(t, followed)
  <2>1. d \in Call
    BY <1>2, <1>6 DEF Call
  <2>2. /\ d.linked /\ d.kind = "photo" /\ d.up = 302 /\ ~d.cut /\ d.tries = c.tries
    BY <1>1, <1>2 DEF Call
  <2> HIDE DEF d
  <2>3. followed \in Call
    BY <2>1 DEF Call, Stages
  <2>4. /\ followed.at = "redirect" /\ followed.linked /\ followed.kind = "photo"
        /\ followed.up = 302 /\ ~followed.cut /\ followed.tries = c.tries
    BY <2>1, <2>2 DEF Call
  <2> HIDE DEF followed
  <2>5. Progress(followed) /\ followed.tries <= Limit(followed.kind)
    BY <1>1, <1>2, <2>4 DEF Progress
  <2> QED
    BY <1>6, <2>3, <2>4, <2>5, UnderWaySound, SetSound
<1> QED
  BY <1>3, <1>4, <1>5, <1>6

LEMMA RedirectKeeps ==
    ASSUME CallsInv, NEW t \in Threads, Redirect(t)
    PROVE  CallsInv'
<1> DEFINE c == call[t]
<1>1. c.at = "redirect"
  BY DEF Redirect, At
<1>2. c \in Call /\ Spent(c) /\ c.kind = "photo" /\ c.up = 302
  BY <1>1, SoundAt, ConnectedSpent DEF Progress
<1>3. Set(t, Caught(c)) \/ \E st \in Statuses : Set(t, FetchedPhoto(c, st))
  BY DEF Redirect
<1> HIDE DEF c
<1>4. CASE Set(t, Caught(c))
  BY <1>2, <1>4, CaughtSound, SetSound
<1>5. CASE \E st \in Statuses : Set(t, FetchedPhoto(c, st))
  BY <1>2, <1>5, FetchedPhotoSound, SetSound
<1> QED
  BY <1>3, <1>4, <1>5

-----------------------------------------------------------------------------
(* The start and the end of a call.                                        *)

LEMMA StartSound ==
    ASSUME NEW kind \in Kinds
    PROVE  /\ Sound(Calling(kind))
           /\ Sound(Refused(kind))
           /\ Sound(NoCall)
<1>1. NoCall \in Call
  BY PlacesAssumption DEF NoCall, Call, Kinds, Stages
<1>2. Limit("nearby") \in Nat \ {0} /\ Limit(kind) \in Nat \ {0}
  BY PlacesAssumption DEF Limit
<1>3. Sound(NoCall)
  <2>1. Progress(NoCall) /\ NoCall.tries <= Limit(NoCall.kind) /\ NoCall.at # "answer"
    BY <1>2 DEF Progress, NoCall
  <2> QED
    BY <1>1, <2>1, UnderWaySound
<1> DEFINE b == [NoCall EXCEPT !.kind = kind]
           c == [b EXCEPT !.at = "resolve"]
<1>4. b \in Call /\ b.tries = 0 /\ b.retry = 0 /\ ~b.linked /\ b.up = 0 /\ ~b.cut /\ b.kind = kind
  <2>1. b \in Call
    BY <1>1 DEF Call
  <2> QED
    BY <2>1 DEF NoCall
<1> HIDE DEF b
<1>5. /\ c \in Call /\ c.tries = 0 /\ c.retry = 0 /\ ~c.linked /\ c.up = 0 /\ ~c.cut /\ c.kind = kind
      /\ c.at = "resolve"
  <2>1. c \in Call
    BY <1>4 DEF Call, Stages
  <2> QED
    BY <1>4, <2>1 DEF Call
<1>6. Calling(kind) = c
  BY DEF Calling, b
<1> HIDE DEF c
<1>7. Sound(c)
  <2>1. Progress(c) /\ c.tries <= Limit(c.kind)
    BY <1>2, <1>5 DEF Progress
  <2> QED
    BY <1>5, <2>1, UnderWaySound
<1>8. Sound(Refused(kind))
  <2>1. Spent(c)
    BY <1>2, <1>5 DEF Spent
  <2>2. 400 \in ErrorCodes
    BY DEF ErrorCodes
  <2>3. Sound(createErrorResponse(c, 400))
    BY <1>5, <2>1, <2>2, ErrorResponseSound
  <2> QED
    BY <1>6, <2>3 DEF Refused
<1> QED
  BY <1>3, <1>6, <1>7, <1>8

LEMMA OnReadPlacesKeeps ==
    ASSUME CallsInv, NEW t \in Threads, NEW k \in Conns, OnReadPlaces(t, k)
    PROVE  CallsInv'
<1>1. \A kind \in {"nearby", "text", "details", "photo"} :
          Sound(Calling(kind)) /\ Sound(Refused(kind))
  BY StartSound DEF Kinds
<1>2. \A b \in Bodies : Sound(handleNearbySearch(b)) /\ Sound(handleTextSearch(b))
  BY <1>1 DEF handleNearbySearch, handleTextSearch
<1>3. Sound(handlePlaceDetails) /\ Sound(handlePlacePhoto)
  BY <1>1 DEF handlePlaceDetails, handlePlacePhoto
<1>4. \E c : Sound(c) /\ Set(t, c)
  BY <1>2, <1>3 DEF OnReadPlaces
<1> QED
  BY <1>4, SetSound

\* What a step of a call keeps, whichever step it is.
LEMMA UpstreamStepKeeps ==
    ASSUME CallsInv, NEW t \in Threads, UpstreamStep(t)
    PROVE  CallsInv'
BY ResolveKeeps, ConnectKeeps, ResumeKeeps, ExchangeApiKeeps, ExchangePhotoKeeps,
   RedirectKeeps DEF UpstreamStep

LEMMA OnAnswerKeeps ==
    ASSUME CallsInv, NEW t \in Threads, OnAnswer(t)
    PROVE  CallsInv'
<1>1. Sound(NoCall)
  BY StartSound DEF Kinds
<1> QED
  BY <1>1, SetSound DEF OnAnswer

-----------------------------------------------------------------------------
(* The theorems.                                                           *)

\* Every call of the HTTP server is sound, at every moment.
THEOREM CallsAlways == Spec => []CallsInv
<1>1. Init => CallsInv
  <2>1. Sound(NoCall) /\ NoCall \in Call
    BY StartSound DEF Kinds, Sound
  <2> QED
    BY <2>1 DEF Init, PlacesInit, CallsInv, PlacesTypeOK
<1>2. CallsInv /\ [Next]_vars => CallsInv'
  <2> SUFFICES ASSUME CallsInv, [Next]_vars
               PROVE  CallsInv'
    OBVIOUS
  <2>1. ASSUME call' = call PROVE CallsInv'
    BY <2>1 DEF CallsInv, PlacesTypeOK
  <2>2. ASSUME NEW t \in Threads, ThreadStep(t) PROVE CallsInv'
    <3>1. CASE \E k \in Conns : OnReadPlaces(t, k)
      BY <3>1, OnReadPlacesKeeps
    <3>2. CASE PlacesStep(t)
      BY <3>2, UpstreamStepKeeps DEF PlacesStep
    <3>3. CASE OnAnswer(t)
      BY <3>3, OnAnswerKeeps
    <3>4. CASE OnAcceptError(t) \/ OnAccept(t) \/ OnAcceptThrows(t) \/ LeaveRun(t)
      BY <2>1, <3>4 DEF OnAcceptError, OnAccept, OnAcceptThrows, LeaveRun
    <3>5. CASE \E k \in Conns : OnRun(t, k) \/ OnReadLocal(t, k) \/ OnWrite(t, k) \/ OnError(t, k)
      BY <2>1, <3>5 DEF OnRun, OnReadLocal, OnWrite, OnError
    <3> QED
      BY <2>2, <3>1, <3>2, <3>3, <3>4, <3>5 DEF ThreadStep, Handle
  <2>3. CASE RunServer \/ StopServer \/ JoinThreads \/ AcceptFails
    BY <2>1, <2>3 DEF RunServer, StopServer, JoinThreads, AcceptFails
  <2>4. ASSUME NEW k \in Conns, NetworkStep(k) \/ ClientStep(k) PROVE CallsInv'
    BY <2>1, <2>4 DEF NetworkStep, ClientStep, AcceptCompletes, ReadCompletes, ReadFails,
                      WriteEnds, Dial, Send
  <2>5. CASE UNCHANGED vars
    BY <2>1, <2>5 DEF vars
  <2> QED
    BY <2>2, <2>3, <2>4, <2>5 DEF Next
<1> QED
  BY <1>1, <1>2, PTL DEF Spec

\* The retry loop of requestGooglePlacesApi: whatever the mix of pauses and thrown
\* errors, no more connection attempts than allowed, and none fewer before a
\* call gives up; no exchange on a stream that is not connected.
THEOREM AttemptsAlways == Spec => []AttemptsExact
<1>1. CallsInv => AttemptsExact
  <2> SUFFICES ASSUME CallsInv, NEW t \in Threads
               PROVE  /\ call[t].tries <= Limit(call[t].kind)
                      /\ call[t].at \in {"exchange", "redirect"} => call[t].linked
                      /\ call[t].at = "answer" /\ call[t].tries > 0 /\ ~call[t].linked
                            => call[t].tries = Limit(call[t].kind)
    BY DEF AttemptsExact
  <2> QED
    BY DEF CallsInv, Sound, Progress, Spent
<1> QED
  BY <1>1, CallsAlways, PTL

\* An error status of the upstream API, once the exchange has ended in order, never
\* reaches the client as a success, and is passed on as far as a message with a
\* body may carry it and the library has a name for it.
THEOREM StatusAlways == Spec => []UpstreamStatusPassed
<1>1. CallsInv => UpstreamStatusPassed
  <2> SUFFICES ASSUME CallsInv, NEW t \in Threads, call[t].at = "answer",
                      call[t].up # 0, call[t].up \notin Success, ~call[t].cut
               PROVE  /\ ~(200 <= call[t].status /\ call[t].status < 300)
                      /\ \/ call[t].status = call[t].up
                         \/ call[t].kind \in Searches /\ Bodiless(call[t].up)
                         \/ /\ call[t].kind = "photo" /\ call[t].up \notin Registered
                            /\ call[t].status = 0
                         \/ call[t].kind = "photo" /\ call[t].up = 302
    BY DEF UpstreamStatusPassed
  <2>1. Tells(call[t], call[t].status)
    BY DEF CallsInv, Sound
  <2> QED
    BY <2>1 DEF Tells
<1> QED
  BY <1>1, CallsAlways, PTL
=============================================================================
