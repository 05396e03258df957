# Verification of the chat and places server

TLA+ specifications of the C++ server in this repository, the TLC runs that
model-check them on small instances, and theorems about them with proofs that
TLAPS checks for every value of the constants.

* [Inventory](#inventory): the parts of the system and what is hard about them
* [Modules](#modules): which module models which part, and how
* [Runs](#runs): what each run of TLC asks and shows, and its bounds
* [Proofs](#proofs): what is proved, from what, and how
* [Disagreements](#disagreements): where the code does not do what it says
* [Not modelled](#not-modelled) and [Plan](#plan)

`PROJECT.json` is the machine-readable index: components, runs, the lines each
definition stands for, the hazards of the code and the properties about them.
Paths below are relative to the repository.

## Inventory

The process runs two `io_context`s. The shared one, with four threads by
default (`src/main.cpp`), serves the WebSocket chat; the other, owned by
`HttpServer`, serves HTTP with threads of its own.

| Component | State | Operations | Talks to |
|---|---|---|---|
| `ChatServer` | `sessions_`, `nicknames_` (weak pointers), `rooms_`, `stopped_`, `strand_`, `rooms_mutex_`, `history_` | `join`, `leave`, `try_register_nickname_async`, `get_user_list_async`, `join_room(_async)`, `leave_room`, `broadcast*`, `send_private_message_async`, `stop` | sessions (`deliver`, setters, `stop_session`), rooms, history |
| `ChatRoom` | `participants_`, at most 100 | `join`, `leave`, `broadcast` | sessions; guarded by `rooms_mutex_` of the server in most places |
| `WebSocketSession` | `nickname_`, `current_room_`, `write_msgs_`, `is_writing_`, the stream | `on_accept`, read loop, `process_message`, `deliver`/`do_write`/`on_write`, `stop_session` | the server, by direct calls from its own thread |
| `WebSocketListener` | the acceptor | accept loop; one strand per socket | makes sessions |
| `MessageHistory` | append-only text files, one mutex | `log_*_message`, `load_*_history` | the file system |
| `HttpServer`, `HttpListener`, `HttpSession` | threads, acceptor, one request and one response per session | accept loop, keep-alive read/write loop, routing, `stop` | `PlacesApiHandler`, synchronously |
| `PlacesApiHandler` | none between calls | four requests to the upstream API, connection retry, status mapping | the upstream API |
| `main` | both servers, signal set | start, signal handler (`stop` of both, `ioc.stop`), join | everything |
| `ChatSession`, `ChatListener` | the TCP ancestors of the WebSocket classes | never constructed | - |

What is hard here, and where (each is a hazard in `PROJECT.json`, at its line):

* **Three regimes of exclusion for one piece of state.** `nicknames_` and
  `sessions_` are touched only by tasks of `strand_`; `rooms_` and
  `participants_` by tasks of `strand_` *and* by handlers on the sessions' own
  threads, under `rooms_mutex_` for part of the way; `nickname_` and
  `current_room_` by handlers of the session, by callbacks, and by `strand_`,
  under nothing.
* **Values captured early and used late.** `leave()` captures the nickname when
  it is called; a nickname request reads the old nickname on `strand_` while
  the callback that sets it is still queued; `join_room` reads `current_room_`
  before it takes the mutex; `stopped_` is looked at before the dispatch.
* **Departure at any moment, and twice.** A client hangs up while a command of its
  own is under way; `on_read` and `on_write` both call `leave()`; and after a failed
  write one more message that had arrived whole is read and done.
* **Callbacks with a bare `this`** for `/nick` and `/list`.
* **A write queue fed from all threads**, with a limit, a flag that must start
  exactly one write, and an error path that stops it for good.
* **Shutdown** while all of this is under way: a flag, a posted function, a
  posted task, and then `ioc.stop()`.
* **Files** appended by several threads in pieces that a failure, a crash or a
  power loss can separate, and read by line.
* **A retry loop** around a connection and synchronous upstream calls on the
  HTTP threads, which have no timeout; with an error that travels as a field of an
  ordinary answer, and an exception that may come after that field was there to fill.
* **Lines that take different ways.** A global line reaches a session in two
  hops through `strand_`, a room line straight from the sender's thread, a
  private message through whatever thread is free; the history is a step of its
  own after each.

What makes each component correct:

* `ChatServer`/`ChatRoom`: the registry agrees with the sessions. A departed
  session is not listed; a nickname belongs to one live session; a room exists
  exactly while it has participants, at most its capacity; a session is in the
  room it is told it is in and in no other; what departed is freed; the closing task
  leaves nothing behind.
* `WebSocketSession`'s writer: a bounded FIFO channel. One write at a time, in
  order, no message lost but at the limit, no lost wakeup, one report of a
  failure.
* `MessageHistory`: acknowledged entries survive whole and in order, records do
  not mix, a load returns the tail, no error path keeps the mutex.
* Messages: everybody sees global lines in one order, a sender's lines of one
  kind in theirs, nothing of a session after the notice that it left but the line
  that had arrived by then, and the history has what was delivered or has tried.
* `HttpServer`: one response per request, then either the next read or the end;
  `stop` waits for every thread before it drops what the handlers use.
* `PlacesApiHandler`: bounded attempts, an error whenever it is not connected,
  the upstream status reaches the client once the exchange has ended in order.
* `main`: a signal ends the process whatever handlers are under way, provided the
  closes it has begun and `HttpServer::stop` return, and nothing new sets out once
  the server is stopped.

## Modules

| Module | Models | Built on |
|---|---|---|
| `ChatServer` | `ChatServer`, `ChatRoom`, the control of `WebSocketSession` | - |
| `ChatNames` | the same, with a memory of whose nickname another session's leave dropped | `ChatServer` |
| `MCChatServer`, `MCChatNames` | constants of their runs | `ChatServer`, `ChatNames` |
| `ChatServerProofs` | theorems about all clients | `ChatServer` |
| `ChatPatientProofs` | theorems about clients that wait for their answers: their rooms and nicknames | `ChatNames` |
| `WriteChannel` | what a session promises about `deliver`: the abstract specification | - |
| `SessionWriteQueue` | `deliver`, `do_write`, `on_write` | `WriteChannel` by `INSTANCE ... WITH` |
| `MCSessionWriteQueue`, `SessionWriteQueueProofs` | constants, theorems | `SessionWriteQueue` |
| `MessageHistory` | the history and its files | - |
| `MCMessageHistory`, `MessageHistoryProofs` | constants, theorems | `MessageHistory` |
| `PlacesApi` | `PlacesApiHandler`: the upstream calls | - |
| `HttpServer` | `HttpServer`, `HttpListener`, `HttpSession`, with the calls on their threads | `PlacesApi` |
| `RequestReply` | what the HTTP server promises about one connection: the abstract specification | - |
| `MCHttpServer` | constants of its runs, the refinement mapping | `HttpServer`, `RequestReply` by `INSTANCE ... WITH` |
| `PlacesApiProofs`, `HttpServerProofs` | theorems: the calls; the rest of the HTTP server and its refinement of `RequestReply` | `HttpServer` |
| `MessageFlow` | the ways of chat lines from sender to receivers and history | - |
| `Shutdown` | the signal handler of `main`, `ChatServer::stop`, the closing of sessions, on a number of threads | `MessageFlow` |
| `MCMessageFlow`, `MCShutdown` | constants of their runs | `MessageFlow`, `Shutdown` |
| `MessageFlowProofs`, `ShutdownProofs` | theorems about them | `MessageFlow`, `Shutdown` |

A definition called "Faulty variant" in a comment is not part of a
specification: it is a plausible bug in the definition below it, and a property
listed for it in `PROJECT.json` ("mutants") must fail when it is put in place.

### ChatServer

State and code:

| Variable | Code |
|---|---|
| `sessions`, `nicknames` | `sessions_`, `nicknames_` (an expired weak pointer is an entry of a session that is `gone`) |
| `rooms`, `members` | keys of `rooms_`, `participants_` of each |
| `strand`, `running` | the queue of `strand_`, and the task that is part way through |
| `handler` | a session's handler that is part way through |
| `nick`, `room` | `nickname_`, `current_room_` of each session (`None`: the remote id, the empty string) |
| `conn` | the connection as its session sees it: `new`, `open`, `closed` (a close was asked for or a write failed, the pending read will fail), `ended` (the read loop is over), `gone` (destroyed) |
| `results`, `replies` | callbacks posted to the session's strand, or to the `io_context` |
| `stopPhase`, `closing` | how far `stop()` is; `stop_session` calls on their way |
| `fault` | what undefined behaviour did |

A step is one handler, or one stretch of a handler between two places where
another thread can get in: a lock taken or released, or a call that only queues
work. So `join_room` is `StrandJoinRoom` (checks, reads `current_room_`),
`JoinRoomLocked` (under the mutex), `JoinRoomAnnounce` (walks the participants
after it); `leave` is `RequestLeave` (captures the nickname), `StrandLeave`,
`LeaveLocked`, `LeaveEnd`; `/leave` is `OnReadLeave` and `ClearRoom`; a chat line
is `OnReadSay` and `SayDone`; a request with checks before its dispatch is
`OnReadNick`, `OnReadList`, `OnReadJoin` and `Dispatch`; `stop` is `Stop`,
`StopPosted`, `StrandCloseAll` and one `StopSession` per session.

How code became model, where a choice was made:

* Handlers of one session exclude each other: the listener gives each socket an
  executor that is a strand, and the session's `strand_` runs on top of it.
  `dispatch` that runs inline is the case in which the queued task is taken next.
* Reads of `nickname_` and `current_room_` by other threads see the old or the
  new value whole. Torn strings are undefined behaviour beyond this model.
* Undefined behaviour is modelled where control can reach it: the iterator
  compared with nothing (`endDeref`: the process dies, or the lookup is taken to
  name somebody else and nothing is erased), the callback on a destroyed session
  (`dangling`), and the walk of a set that another thread changed
  (`iteration`). Each is a choice between "nothing noticed" and "the process is
  down"; after the latter no action is enabled (`Alive`).
* Commands that change no state (unknown ones, malformed names, `/leave` of a
  room that does not exist, any room command once stopped) are left out. Global
  and private messages read the registry and deliver: they are `MessageFlow`.
* A posted `deliver` also keeps its session alive; it is not modelled, since
  `Destroy` may come arbitrarily late anyway.
* After a failed write the stream may hand over one message that had arrived
  whole, then its next read fails. That, and that `on_write` reports an error
  once, is used of the outside here; the second is `ReportedOnce` of
  `SessionWriteQueue`, proved there.
* A nickname equal to some session's remote id ("127.0.0.1:4000") is not
  modelled.

Parameters: `Patient` clients send no command before the one before it is answered
(`Answered`). That is all they refrain from: a connection may end at any moment
(`OnReadEnd`), a command being under way or not, and writes may fail when
`WriteFaults` says so. `ForeignLeave` lets `/leave` name any room; `StopAllowed` turns
`stop()` on. `MaxParticipants` is 100 in the code; `MaxCmds` is the only bound, on
what all clients send together.

`ChatNames` adds one variable and no behaviour. `leave()` captures the nickname when it
is called, and `unregister_nickname` erases the entry of that name whoever has it by
then. A client that hangs up during its own `/nick` captures the name it is giving
up; another session may take that over, and lose it to the leave of the first. `robbed`
is the set of sessions this has happened to and that have no entry since, so that
`NicksAgree` can say of the others what holds of them.

### WriteChannel and SessionWriteQueue

`WriteChannel` says what callers of `deliver` may rely on: a message is accepted
while fewer than `Capacity` wait and lost otherwise; accepted ones go out one by
one in order; the channel may break; nothing waits for ever on a working one.

`SessionWriteQueue` is the code: `posted` tasks, `write_msgs`, `is_writing`,
and the buffers of outstanding `async_write`s as a *sequence*, so that two
writes at a time would be a state and not a modelling impossibility. Its
refinement mapping: `accepted` is what was sent followed by the queue, `done`
the length of what was sent, `broken` is `failed`. `MaxQueue` is
`max_queue_size_` (100 in the code); `MaxCalls` bounds each producer.

### MessageHistory

A record is two pieces, its body and the end of its last line, so that a short
write, an error, a crash or a power loss falls between them. A step is one
system call, or one line read. File names are computed as the code computes
them (`Safe`, `Greater`, `PairName`, `FileOf`), on names that are sequences of
byte values. `acked` is the history of successful log calls; `chatOf` remembers
where each entry was meant to go. `MultiLine` entries hold a line end in their
body.

Assumptions about the outside: `fsync` makes the file *and* its directory entry
durable; a power loss keeps a prefix of each file that includes what was synced;
a plain crash of the process loses nothing that was written; a `write` appends
at the end in one piece per call. A history whose constructor failed does
nothing and has no states. `fs::exists` before the lock decides between "no
file" and a load: an absent file is an empty one here, and both loads return
nothing.

### PlacesApi

A call is synchronous and blocks the thread that makes it, so its state is one
record per thread: the kind of the request, the stage it is at, `retry_count`
(`retry`), the number of `net::connect` calls (`tries`), whether the stream is
connected, the last upstream status (`up`), whether it was lost (`cut`), and the
answer (`status`, and whether it `follows` the keep-alive of the request).

| Step | Code |
|---|---|
| `handleNearbySearch` ... `handlePlacePhoto` | the checks of the client's body before the call |
| `Resolve`, `Connect`, `Resume` | `resolve`, one `net::connect`, the end of the pause after `EADDRNOTAVAIL` |
| `Thrown`, `NextAttempt` | the `catch` inside the loop and the bottom of the loop: two places that count the attempts |
| `ExchangeApi`, `ExchangePhoto`, `Redirect` | handshake, write, read; a photo's 302 is followed once |
| `ApiAnswer`, `PassUpstream`, `Caught` | the parsing of the upstream answer, its error fields, and every exception |
| `createErrorResponse`, `Normal` | the two ways a response is built |

A client's body is reduced to what decides the way: with coordinates, without, or
malformed. An upstream answer is JSON with or without `places`, JSON of a shape
the conversion throws on, or no JSON. The TLS shutdown that follows the read throws on
anything but the end of the stream, and the handler's `catch` then answers without
the status that had been read (`CutOff`). A photo's error goes to the client as the
`result()` of the upstream response, which is 0 for a status the library has no name
for: `Registered` is the set of those it has, `FetchedPhoto` the answer. A response with a status that allows no
body (1xx, 204, 304) makes `prepare_payload` throw, which the handlers' own
`catch` answers with 400 or 500: `Bodiless`, `CatchStatus`.

### HttpServer and RequestReply

| Variable | Code |
|---|---|
| `phase`, `listener` | `run()` and `stop()`; `listener_`: not made, half-way constructed (`failed`), listening, reset |
| `acceptor`, `accepted` | the outstanding `async_accept` and what it completed with |
| `thread`, `ready` | `io_threads_`; the handlers the `io_context` has ready, first in first out |
| `conn`, `req`, `eof` | where each `HttpSession` is in its loop, `req_`, `need_eof()` of the response on its way |
| `inbox`, `sent` | what clients have written and the server has not read; the bound on it |

A handler is one step (`OnAccept`, `OnRun`, `OnReadLocal`, `OnWrite`, `OnError`), but
for one that calls `PlacesApi`: `OnReadPlaces`, any number of `PlacesStep`, `OnAnswer`,
on one thread all the while. Session and acceptor strands carry no state of their
own, because each has one asynchronous operation at a time; `Chained` checks
that this is so. `OnAcceptThrows` is `remote_endpoint()` on a peer that has gone:
the exception leaves the handler before the next accept, and the thread with it.
A listener whose constructor gave up is run all the same; its accepts fail.

A call is `Blocked` while it resolves, connects, exchanges or follows a redirect. None
of these has a timeout, so that each may last for ever, with its thread, its
connection and a `stop()` that waits for the thread. Nothing in the specification
says that a call returns; where a property needs it, it is a condition of the
property (`CallsReturn`, `OwnCallReturns`, `ThreadLeft`).

`RequestReply` is what a client may rely on: requests are taken one at a time,
each gets one answer, then the connection goes on or ends; its `Fairness` is that
neither is put off for ever while the server serves. `MCHttpServer` instantiates it
with `Seen(c1)`, the state of one connection; TLC cannot check a quantified
instance, and connections are interchangeable. The refinement comes in two parts:
`ConnectionSpec`, what may happen, holds outright, and the theorem `ImplementsReply`
says it of all connections; `ConnectionAnswers`, that `RequestReply`'s fairness
follows, holds where the connection's own calls return and a thread is left that no
call hangs on. One silent upstream peer so costs one connection and one thread.

### MessageFlow

The registry is `ChatServer`'s. Here sessions only leave it, and enter and leave the
one room, as far as that decides who receives what. A line is a record: its kind
(global, room, private, or the notice that somebody left), sender, number, receiver.

| Step | Code |
|---|---|
| `SayGlobal`, `StrandSay`, `StrandLog` | `broadcast` posts to `strand_`; `broadcast_impl` posts to every listed session's strand; the history is written after that |
| `SayRoom`, `WalkStep`, `WalkEnd`, `LogRoom` | `broadcast_to_room` on the sender's thread, one participant at a time; the history is looked at, then used |
| `SayPrivate`, `StrandFind`, `RunAnswer`, `LogPrivate` | the receiver is looked up on `strand_`, the answer posted to any thread |
| `Disconnect`, `StrandLeave` | a read or a write fails, and `on_read` or `on_write` calls `leave()`: out of the room and the registries, a notice to the others. The task is queued even when stopped, and refused then |
| `RunPosted` | a function object of a session's strand: the call of `deliver` (hop 1), or its body, which puts the line into the write queue or drops it (hop 2) |

`delivered` is the order in which lines enter a session's write queue; what
becomes of them from there is `SessionWriteQueue`. When the queue is full `deliver()`
drops the line: that happens to the sessions of `Slow`, at any moment, and
`dropped` has what they missed. `failed` says what of a connection has failed.
After a failed read nothing more is heard of the session; after a failed write one
more message may be, the one that had arrived whole (`Hears`), and `last` is its
number: it may be sent on behind the notice that its sender left.

`Write` is the use of `history_`. A failed write of a line throws, the `log_*` calls
swallow that, and nobody hears of it: it happens to lines of the kinds in `Unsafe`,
and `unlogged` has them. The pointer itself may have been reset by another thread:
the line is then written all the same, or lost, or the process crashes. `ExitRoom` and the tasks that change the
participants wait for walks (`NoWalk`): the race itself is `WalkUndisturbed` of
`ChatServer`, and its outcome is undefined.

Left out: notices about rooms and nicknames, which are delivered in the same
two ways.

### Shutdown

`Shutdown` extends `MessageFlow` with threads: a handler occupies one of `NumThreads`
from its start to its end (`Busy`), and a handler starts only on a free thread of an
`io_context` that was not stopped (`MayStart`).

| Step | Code |
|---|---|
| `Signal`, `HttpStopped`, `StopChat`, `StopIoc`, `MainExits` | the handler of the signal set: `http_server->stop()`, `chat_server->stop()`, `ioc.stop()`; the joins of `main` |
| `RunStopTask`, `ResetHistory` | the function `ChatServer::stop` posts: dispatch to `strand_`, then reset `history_` |
| `CloseAll`, `Dispatch`, `CloseAllEnds` | the task on `strand_`: copy and clear `sessions_`, dispatch a `stop_session` to each, clear `rooms_` |
| `CloseLater`, `CloseReturns` | `stop_session` on a thread of its own; the synchronous close returns, if the peer lets it |

`dispatch` runs `stop_session` inline, on `strand_`'s own thread, when the session's
strand is idle (`closeAt`), and queues it otherwise (`later`). Its place among
deliveries queued there is left open, which allows more than the code does.
`HttpStopped` is the return of `HttpServer::stop`, which is owed only if the upstream
calls return (`StopReturns` of `HttpServer`); neither it nor `CloseReturns` is fair.

## Runs

Every run has `CHECK_DEADLOCK FALSE`, and should: commands, calls, lines and
failures are bounded, connections end, and the process may stop.

| Run | Question | Instance | States, time |
|---|---|---|---|
| `ChatNicks` | is the registry of sessions and nicknames safe against every interleaving of pipelined commands, failing writes and double leaves? | 2 sessions, 3 nicknames (1 refused), 3 commands, symmetric | 612k, 15 s |
| `ChatPatient` | is what the registry and the rooms hold of a session what it was told, with hang-ups in the middle of a command and failing writes? | 2 sessions, 2 nicknames, 2 rooms of one place, 5 commands, symmetric | 2.1M, 41 s |
| `ChatLive` | are rooms those in use, does the closing task leave nothing behind, and do departures complete and free their sessions? | 2 hasty sessions, 2 rooms of one place, foreign `/leave`, 3 commands, `stop()` | 589k, 54 s |
| `WriteQueue` | is the writer a bounded FIFO channel? | 3 producers of 2 messages, queue of 2 | 13k, 1 s |
| `History` | do acknowledged entries survive, unmixed, and do calls return? | 2 writers, 1 reader, 2 entries (one of two lines), limits 0 and 1, 2 failures | 91k, 50 s |
| `Http` | does each request get one answer, with the status it should have, and what does an upstream call that hangs keep from happening? | 2 threads, 2 connections, 2 requests out of 6, 4 statuses (one without a name), 2 attempts, no key | 628k, 77 s |
| `Flow` | in what order do lines arrive, and is the history true to it? | 3 sessions, 2 of them sending, the third slow, 3 lines, moves or failures, symmetric senders | 3.4M, 68 s |
| `Shutdown` | what does a signal do to the handlers under way, and does the process exit? | 2 sessions, one sending, the other slow, writes to the history may fail, 2 lines, moves or failures, 3 threads | 278k, 53 s |

The properties, by run:

* `ChatNicks`: `TypeOK`; `DepartedNotListed` (an ended session whose leave has
  run is not listed and never gets back) and the inductive `DepartureInv` behind
  it; `LiveNickNotTaken` (a nickname of a live session passes to another only
  after it was released).
* `ChatPatient`: clients wait for their answers, hang up whenever they like, and writes
  to them fail. `NicksAgree`: `nicknames_` has no entry for a session but the nickname
  it shows, and has that one while its connection is there, no write to it failed and
  no other session's leave erased it. `OldNickKnown`: the end of the map is
  dereferenced only after such a robbery, a failed write, or `stop()`.
  `NoGhostParticipant`, at every moment: a session takes part in no room but the one
  it is told it is in, and once its connection is over only while a leave of it is
  still to come. The exceptions are in the properties because the code has them:
  see [Disagreements](#disagreements), as for what happens to clients that do not
  wait.
* `ChatLive`: clients that do not wait, and name any room in `/leave`. `RoomsInUse`,
  `CapacityRespected`; `ShutdownEmpties` (sessions and rooms; nicknames are left out
  since a request that passed its check before `stop()` still registers);
  `DepartureCompletes` (a session whose connection ended leaves `sessions_`) and
  `SessionFreed` (nothing that was queued for it keeps it in memory), both while the
  server runs. The one exception is a ghost, a participant of a room that nothing
  will remove any more: see [Disagreements](#disagreements).
* `WriteQueue`: `QueueInv` (one write of the head, a waiting message has a write
  under way, the flag tells the truth, the limit, one report of a failure),
  `InOrder`, and the refinement `ChannelFairSpec`.
* `History`: `HistoryInv` (mutual exclusion and types), `AckedKept`,
  `CleanWithoutFaults`, `TailIsSuffix`, `CallsReturn`.
* `Http`: `HttpTypeOK`; `Chained` (one operation and one handler per connection at
  a time); `HandlerPresent` (no call outlives the listener, none is made without
  a Places handler); `AcceptEndsWithThread` (the accept loop survives every error
  but the exception, which takes a thread along); `AttemptsExact`;
  `UpstreamStatusPassed` (unless the TLS shutdown lost it); `KeptAlive` (only an error
  closes a connection whose client asked to keep it, whatever version the answer
  has); the refinement, as
  `ConnectionSpec` and `ConnectionAnswers`; `StopReturns` (if upstream calls do: nothing
  else keeps it).
* `Flow`: `GlobalOrder` (global lines and notices have one order, at
  all sessions and in the history); `SenderOrder` (room lines of a sender in
  theirs, global ones too, each once); `LeftIsLast` (after the notice nothing
  of the session but private messages, and the one line that had arrived when a
  write to it failed); `LoggedWasSent` (what the history has, everybody has, has
  queued, or had no room for).
* `Shutdown`: `ShutdownTypeOK` (with `FlowTypeOK` in it); `LateNeverLogs` (once
  `stopped_` is set no handler sets out for the history, so that only those under way race with its reset);
  `DeliveredIsLogged` (a process that ends before the reset has logged whatever
  anybody received, or has tried and failed); `ProcessExits` (a signal ends the
  process, if each close that was begun returns and `HttpServer::stop` does: no
  handler, queue or task under way keeps it); `GlobalArrives` (a global line on
  `strand_` reaches whoever stays, unless a full queue drops it or the server stops).

Why the bounds are enough. The nickname and room hazards take two sessions, or
one session with two pipelined commands; the third nickname is there so that a
session can change its name while the old one is looked up. In `ChatPatient` a
robbery takes three commands of two sessions and a hang-up, and two commands are
left for what comes of it. With capacity one a full room meets every interleaving,
and the second room is there to be in already when a join is under way, or to name
in a `/leave`. A queue of two has an empty, a partly full and a
full state with a write under way in each. Two entries and two failures give a
torn record followed by an acknowledged one followed by a power loss. Two
HTTP threads can both be in a call while `stop()` waits, or one in a call and one
lost to an exception; two connections compete for them, and two requests
exercise keep-alive and pipelining. The statuses are one of each sort the code
tells apart: a success, a redirect, an error that allows no body, an error the
library has no name for. `Flow` needs two
senders and a third session to compare what two receivers see; two of the three
steps send lines to compare and one fails or changes rooms, or one fails a write
and one is the line that had arrived. With three threads
`Shutdown` has the signal handler, one handler under way and one synchronous
close at a time, or two closes on `strand_` and elsewhere.

Fairness. In `ChatServer`, weak fairness of `strand_`'s tasks, of handlers that are
part way through or ready and of posted callbacks, *while the server is not
stopped*: four threads run ready handlers, until `main` calls `ioc.stop()` right
after `stop()`; what is queued then need never run, and no property says that it
does. A session is freed when its last reference goes (`Destroy`). Reads that fail,
closes and `stop()` are not fair. `Shutdown` drops the idea that threads are always
there and counts them: a handler that has a thread goes on, a ready one is
started once a thread is free. Not fair are the return of a synchronous close
(`CloseReturns`: the timeout of the stream is run by the same `io_context`, which
`ioc.stop()` may have ended) and that of `HttpServer::stop` (`HttpStopped`);
`ProcessExits` has both as conditions, `ClosesReturn` and `HttpReturns`. In `HttpServer`
a waiting thread takes the first ready handler, which is all the fairness of a queue;
the pause of the retry loop ends; a write ends because `expires_after(30 s)` sees to
it; joined threads are joined. A call that is `Blocked` owes nothing. In
`MessageHistory` system calls return, and the lock action is strongly fair: a mutex
does not starve a waiter for ever (`std::mutex` does not promise it; the platforms' do
in practice, and without it `CallsReturn` says nothing about the code). Clients,
failures and signals owe nothing anywhere.

## Proofs

| Module | Theorem | States |
|---|---|---|
| `ChatServerProofs` | `TypeCorrect` | `[]TypeOK` |
| | `RoomsInUseAlways` | a room is in `rooms_` exactly while it has participants |
| | `CapacityAlways` | no room is overfilled |
| | `ShutdownStaysEmpty` | after the closing task `sessions_` and `rooms_` stay empty (`ShutdownEmpties`) |
| | `LiveNickKept` | no nickname passes from a live session to another in one step (`LiveNickNotTaken`) |
| | `DepartureAlways`, `DepartedAlways` | the join/leave order of each session; departed sessions are not listed |
| `ChatPatientProofs` | `LodgingAlways`, `NeverGhost` | the invariant for rooms of clients that wait for their answers; `NoGhostParticipant` |
| | `NamesAlways` | the invariant for their nicknames |
| | `NicksAlwaysAgree`, `OldNickAlwaysKnown` | `NicksAgree`, `OldNickKnown` |
| `SessionWriteQueueProofs` | `QueueAlways` | the invariant of the write queue |
| | `ImplementsChannel` | `SessionWriteQueue!Spec` implements `WriteChannel!Spec` |
| | `OrderAlways`, `InOrderAlways` | messages of one caller arrive in order, each at most once |
| `MessageHistoryProofs` | `HistoryAlways` | mutual exclusion and types of the history |
| | `TailAlways` | a load keeps the end of what it has read, as long as its limit allows |
| | `WritingAlways`, `NeverMixed` | whose record is at the end of a file; records do not mix (`CleanWithoutFaults`) |
| | `AckedAlways` | acknowledged records stay, whole and in order (`AckedKept`) |
| `PlacesApiProofs` | `CallsAlways` | the inductive invariant of the upstream calls in `HttpServer!Spec` |
| | `AttemptsAlways` | the retry loop makes exactly the attempts it may make |
| | `StatusAlways` | an upstream error status is passed on, never answered with a success, unless the TLS shutdown lost it |
| `HttpServerProofs` | `HttpTypeCorrect`, `HttpInvAlways` | types; the inductive invariant of the server |
| | `AlwaysChained`, `HandlerAlwaysPresent`, `AcceptLoopEnds` | `Chained`, `HandlerPresent`, `AcceptEndsWithThread` |
| | `AlwaysKeptAlive` | the action property `KeptAlive` |
| | `ImplementsReply` | each connection of `HttpServer!Spec` implements `RequestReply!Spec`: `ConnectionSpec` for all of them |
| `MessageFlowProofs` | `FlowTypeCorrect`, `FlowInvAlways` | types; the inductive invariant of the flow |
| | `OneOrder`, `SendersInOrder`, `NothingAfterLeft`, `HistoryWasSent` | `GlobalOrder`, `SenderOrder`, `LeftIsLast`, `LoggedWasSent` |
| `ShutdownProofs` | `ShutdownTypeCorrect`, `EndInvAlways` | types; the inductive invariant of the end |
| | `LateNever` | the action property `LateNeverLogs` |
| | `DeliveredAlwaysLogged` | `DeliveredIsLogged` |

So every invariant and every action property that a passing run checks is also a
theorem, and so is the safety part of every refinement. They hold for any number of
sessions, nicknames, rooms, commands, producers, entries, threads, connections,
requests, lines and retries, and any set of statuses, from the assumptions named in
the modules (`ConstantsAssumption`, `QueueAssumption`, `HistoryAssumption`, `PlacesAssumption`, `HttpAssumption`,
`FlowAssumption`, `ShutdownAssumption`): `None` is not a name, the names of
connections are not the words the model uses beside them, the set of sessions is
finite (used for cardinality only), capacities and the number of attempts are
positive, there is a thread, statuses have three digits.

The theorems of `ChatPatientProofs` have a hypothesis of their own, `Patient`: clients
send no command before the last one was answered. They hang up whenever they like,
writes to them fail and the server is stopped. `NeverGhost` adds that they leave only
their own room (`~ForeignLeave`). Both are needed: without `Patient` `OldNickLookup` shows
how a name is lost, and a `/leave` sent while a `/join` is under way makes a ghost, as
a foreign `/leave` does. The theorems about nicknames are about `NamesSpec`, which has the
behaviours of `Spec` and `robbed` beside them.

How they go:

* **Types** first, one lemma per group of actions, since every other proof
  needs the domains of the functions.
* **Rooms.** `RoomsInUse` is inductive: only `RemoveFromRoom`, `JoinRoomLocked` and
  the closing task touch `rooms`/`members`, all in one critical section.
  `CapacityRespected` is inductive with `FS_AddElement` and `FS_Subset`.
* **Departure.** That a departed session is not listed is not inductive: a join
  still queued could put it back. `DepartureInv` adds, per session, that
  nothing exists before the handshake (`NewUntouched`), the join is dispatched
  once and before any leave (`JoinOnce`), stays ahead of it on the strand
  (`JoinBeforeLeave`), and that whoever is listed or about to be, and has ended,
  has a leave due (`LeaveFollows`). The proof classifies steps by what they do to
  the strand: neutral, enqueue, take, and the tasks under way.
* **Shutdown of the chat server.** `ShutdownEmpties` needs `ClosedInv`: a join of a room
  that is part way through when the closing task runs could fill `rooms_` again;
  there is none, because both are tasks of `strand_`.
* **Rooms of patient clients.** `GhostInv` says of each session, beside
  `NoGhostParticipant`: nothing of it is under way before it is accepted, and no
  handler once its connection is over (`Fresh`); what a task read of `current_room_`
  before the mutex is still true under it (`OldIsCurrent`), which takes `Patient`,
  since a second command could move the session meanwhile; `current_room_` is
  cleared only of a session that is out (`ClearsWhenOut`); and behind every join of a
  session that hung up a leave is queued (`LeaveComes`, `Behind`), so that `strand_`
  removes again what it puts in. A step touches one session (`OnlyOne`); the others
  keep their parts because it leaves what they read (`Apart`).
* **Nicknames of patient clients.** `NamesInv`: there is one rename at a time
  (`OneRename`), no entry before the handshake (`Unnamed`), no leave ahead of a rename
  but after a failed write (`LeaveLast`, `NicksBefore`); `nicknames_` has nothing for a
  session but the nickname it shows or is about to be told (`OneName`, `Shown`), and
  has that unless it was robbed (`Keeps`, `Remember`). Then a registration finds the old
  nickname it looks for. Steps that leave a session's facts alone are `Calm`;
  `RegisteredEntries` says what a registration does to all entries.
* **Write queue.** `QueueInv` is inductive; the refinement needs
  `WritingIffWaiting` (what completes is the head) and `QueueBounded`'s guard.
  `OrderInv` strengthens `InOrder` to everything on its way: sent, queued and
  posted messages are increasing and no part overtakes another.
* **History.** `HistoryInv` is inductive as it stands, with one lemma per action;
  `LogMoves` and `LoadMoves` carry the mutex. `TailIsSuffix` follows from
  `PushSuffix`: one more line, and a first line dropped when the deque is full,
  keep it the end of what was read. It holds whatever is in the file, so nothing
  of the log calls is needed but the types. `CleanWithoutFaults` needs `Writing`:
  the call that holds the mutex has the pieces it counts at the end of its file.
  `AckedKept` needs more than that the records are there. `Lasting` says that they
  end before the record being written, so that it takes its place behind them when
  it is acknowledged, and in durable mode within what is synced, so that a power
  loss does not reach them.
* **Upstream calls.** A call is sound (`Sound`) when its record has done what its
  stage says (`Progress`: while it is connecting, `tries` equals `retry_count`; in the
  pause it is one ahead; only a photo is redirected) and its answer, if it has one,
  comes after all attempts (`Spent`) and tells of the status received, unless that
  was `cut` (`Tells`).
  `AnsweredSound` reduces every way of answering to these two; `Failed` is the
  state both counters of attempts, `Thrown` and `NextAttempt`, are entered in. The
  rest of the server leaves `call` alone, or starts and ends calls.
* **HTTP server.** `Chained` counts places in a queue and threads; what is inductive
  is that the queue has no duplicates and who is in it (`Turns`), that a served
  connection has one thread and one call (`Serves`), and that an accepted
  connection is still in the backlog (`Accepting`), so that its first handler cannot
  be a second one. Counting comes last, from those. `Listening` carries that a
  half-made listener never has a connection. With this invariant each step is one
  of `RequestReply`, for every connection: `Seen` and `Serving` change by one of six
  moves (`AbstractStep`), handlers by what they do to `conn` (`HandlerMoves`), and
  `Serving` never comes back (`Ceases`).
* **Message flow.** A line reaches a session in two turns of its strand, so the order
  of arrival is not the order of the queue: a queued second turn is ahead of every
  first turn (`Sooner`). `Ordered` says of what was delivered and of the queue, read
  that way, that nothing is ahead of what it has to follow. What has to follow what
  is `Order`: for lines that went through `strand_`, the order in which `strand_`
  announced them, which is that of the history with the line about to be written
  (`OnRecord`); for room lines of one sender, their numbers. `InTurn` and `Numbered`
  say why a new line is later than all the old ones; `Spent`, that a session with a
  failed connection has one line left to say, and `Lasts`, which lines may so follow a
  notice; `SentOn`, why a line of the history was sent on. A line that is dropped at a
  full queue leaves the order of the others as it was (`TurnTaken`).
* **End of the process.** `LateNeverLogs` follows from the guards and the types.
  `DeliveredIsLogged` needs `EndInv`: while the history is held, what anybody has of
  another is in it, was tried and failed, or is in the hands of a handler that is
  going to write it (`Kept`, `Settled`), and when `main` is back no handler is left
  (`Over`). The latter counts: `Busy` threads are zero only if no handler is under way.

Model-checked only: the liveness properties (`DepartureCompletes`, `SessionFreed`,
`CallsReturn` of the history, `ConnectionAnswers`, `StopReturns`, `ProcessExits`,
`GlobalArrives`), and `ChannelFairSpec` as far as it is about fairness: that and `ENABLED`
are out of the prover's reach. The safety part of the latter is `ImplementsChannel`;
`ConnectionSpec` has no fairness and is `ImplementsReply` for one connection. The
four properties under [Disagreements](#disagreements) are violated, and so have
nothing to prove.

## Disagreements

Each is a run that expects a violation; `PROJECT.json` quotes the line that says
otherwise.

| Run | Property | What happens |
|---|---|---|
| `OldNickLookup` | `OldNickExists` | Two `/nick` pipelined behind a first: the third registration still sees the first nickname, which the second erased, and dereferences `end()` |
| `RoomWalk` | `WalkUndisturbed` | A broadcast walks `participants_` without the lock others hold when they change it |
| `HistoryMix` | `LoadsOwnChat` | Room names that differ only outside `[A-Za-z0-9_-]` share a file: any two Korean names of equal byte length |
| `UpstreamErrorTold` | `UpstreamErrorTold` | A failure to reach the upstream API becomes `{"error": ...}` without the field that carries a status, and the client gets it with status 200; so it does when the TLS shutdown throws after an error status was read |

Met on the way and not kept as runs:

* `leave()` drops the nickname it captured when it was called
  (`src/src/ChatServer.cpp:220`). A client that hangs up while its `/nick` is under way
  captures the old one: the new one stays registered until its entry is found to
  have expired, and by the time the task runs another session may have taken the
  old one, and loses it (`robbed`). Its next `/nick` then dereferences `end()`
  (`src/src/ChatServer.cpp:457`), as one after a failed write does, when `leave()` has
  dropped the name and one more message is read, and one after `stop()`.
* `/leave` of a room one is not in clears `current_room_`, and the participant
  outlives its session's leave, although `src/include/ChatServer.hpp:453` says
  otherwise. A `/leave` of one's own room while a `/join` is under way does the
  same: it clears `current_room_` once more after the mutex, when the join may have set
  it.
* A full room turns the newcomer away, and `join_room` sets `current_room_` and
  reports success (`src/src/ChatServer.cpp:622`, against
  `src/include/ChatServer.hpp:426`).
* An answer to `/nick` or `/list` can run on a destroyed session: its callback holds a
  bare `this` (`src/src/WebSocketSession.cpp:170`, `214`). It takes no more than one
  command and a lost connection.
* After a failed write `on_write` calls `leave()` and the session reads on
  (`src/src/WebSocketSession.cpp:320`): a line that had arrived whole is broadcast
  behind the notice that its sender left, since `broadcast_impl` does not look whether
  the sender is listed.
* A full write queue drops a line for one receiver only
  (`src/src/WebSocketSession.cpp:278`), and nobody is told; and a failed write to the
  history is logged on the console and swallowed (`src/src/MessageHistory.cpp:77`,
  `101`, `120`), so that what everybody received may be missing from it.
* A photo's upstream error with a status the library has no name for is answered with
  status 0 (`src/src/handlers/PlacesApiHandler.cpp:643`).
* Nothing bounds the end of the process: upstream calls have no timeout, so that a
  silent peer holds its thread and `HttpServer::stop`, hence the signal handler, as long
  as it likes; and the synchronous close of `stop_session`
  (`src/src/WebSocketSession.cpp:341`) waits for the client.
* A session accepted before `stop()` whose join task runs after the flag was set
  is never asked to close; a `/nick` that passed its check before `stop()` registers
  after the closing task.
* `ioc.stop()` follows `ChatServer::stop()` at once, so that what the latter posts
  need never run, although its documentation lists it as done
  (`src/src/ChatServer.cpp:103`); what is left to hold is `DeliveredIsLogged`.
* The reset of `history_` races with handlers under way
  (`src/src/ChatServer.cpp:148`; `LateNeverLogs` bounds who they are).
* Private messages of one sender can be reordered, and a sender's global line
  can be overtaken by its later room line: `SenderOrder` speaks of one kind at a
  time, and not of private messages, for this reason.
* The accept loop ends when `remote_endpoint()` throws
  (`src/src/HttpServer.cpp:534`), though the comment at line 542 has it go on.
* `HttpServer::run` goes on with a listener whose constructor failed, against the
  comment at `src/src/HttpServer.cpp:590`.

## Not modelled

* The start of `main`: reading the environment, building the servers; and
  `ChatServer::run` with its own signal set, which `main` never calls.
* `WebSocketListener` beyond the sessions it makes: its accept loop is like the
  one of `HttpListener`, and its errors are pure I/O.
* `ChatSession`, `ChatListener`: dead code, the program never constructs them.
* `load_config`, `save_users` and their like are placeholders that only log;
  `m_cache` of the Places handler is declared and never used.
* The text of messages, logging, CORS headers, and of JSON bodies all but what
  decides a status.
* TLS, the limits of Beast's parsers, and time: a timeout is a failure that may
  come at any moment.
* Build, deployment and operations scripts.

## Plan

1. Core: `ChatServer`, its runs and first theorems. *Done.*
2. The session's writer as an abstract channel and its implementation. *Done.*
3. `MessageHistory` with failures, crashes and power loss. *Done.*
4. `PlacesApi` and `HttpServer`, with `RequestReply` as the abstract promise. *Done.*
5. `MessageFlow`: order of lines and of the history. *Done.*
6. `Shutdown`: signals, threads, the closing of sessions. *Done.*
7. Every invariant and action property of the runs as a theorem, and the safety
   part of the refinements. *Done.*
8. `ChatNames`, `GhostInv` and `NamesInv`: what the registries hold of clients that wait
   for their answers and hang up at any moment. *Done.*
9. What is left is worth less: that `NumThreads` bounds `Busy` in `Shutdown`,
   and an abstract book of sessions, names and rooms, which would have to allow
   everything listed under [Disagreements](#disagreements). Liveness stays with TLC.
