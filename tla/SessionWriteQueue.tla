-------------------------- MODULE SessionWriteQueue --------------------------
(***************************************************************************)
(* The write side of a WebSocketSession: deliver(), which any thread may   *)
(* call, the queue write_msgs_ on the session's strand, and the chain of   *)
(* asynchronous writes that drains it.                                     *)
(*                                                                         *)
(* Handlers of the strand exclude each other, so a step is one call of     *)
(* deliver() or one handler.                                               *)
(***************************************************************************)
EXTENDS Naturals, Sequences

CONSTANTS
    Producers,   \* the threads that call deliver() on this session
    MaxQueue,    \* max_queue_size_ (100 in the code)
    MaxCalls     \* bound on the messages of one producer

ASSUME QueueAssumption == MaxQueue \in Nat \ {0} /\ MaxCalls \in Nat

VARIABLES
    called,      \* how many messages each producer has handed over
    posted,      \* deliver tasks posted to strand_ that have not run
    write_msgs,  \* write_msgs_
    is_writing,  \* is_writing_
    inflight,    \* buffers of the outstanding async_write operations
    sent,        \* messages written to the peer, in order
    failed,      \* an async_write has failed
    leaves       \* calls of ChatServer::leave by on_write

vars == <<called, posted, write_msgs, is_writing, inflight, sent, failed, leaves>>

Messages == [from : Producers, n : 1..MaxCalls]

TypeOK ==
    /\ called \in [Producers -> 0..MaxCalls]
    /\ posted \in Seq(Messages)
    /\ write_msgs \in Seq(Messages)
    /\ is_writing \in BOOLEAN
    /\ inflight \in Seq(Messages)
    /\ sent \in Seq(Messages)
    /\ failed \in BOOLEAN
    /\ leaves \in Nat

Init ==
    /\ called = [p \in Producers |-> 0]
    /\ posted = <<>>
    /\ write_msgs = <<>>
    /\ is_writing = FALSE
    /\ inflight = <<>>
    /\ sent = <<>>
    /\ failed = FALSE
    /\ leaves = 0

-----------------------------------------------------------------------------
\* deliver() only posts.
Deliver(p) ==
    /\ called[p] < MaxCalls
    /\ called' = [called EXCEPT ![p] = @ + 1]
    /\ posted' = Append(posted, [from |-> p, n |-> called[p] + 1])
    /\ UNCHANGED <<write_msgs, is_writing, inflight, sent, failed, leaves>>

\* do_write: nothing to write, or a write under way; else the head is written.
DoWrite(queue, writing, pending) ==
    IF queue = <<>> \/ writing
    THEN is_writing' = writing /\ inflight' = pending
    ELSE is_writing' = TRUE /\ inflight' = Append(pending, Head(queue))

\* Faulty variant: off by one.
FullOneLate == Len(write_msgs) > MaxQueue
Full == Len(write_msgs) >= MaxQueue

\* Faulty variant: the emptiness of the queue is looked at after the push.
StartsAfterPush == FALSE
Starts == write_msgs = <<>> /\ ~is_writing

\* The posted task: a full queue drops the message; a message put into an
\* empty queue starts a write, any other waits for the one under way.
DeliverTask ==
    /\ posted # <<>>
    /\ posted' = Tail(posted)
    /\ IF Full
       THEN UNCHANGED <<write_msgs, is_writing, inflight>>
       ELSE /\ write_msgs' = Append(write_msgs, Head(posted))
            /\ IF Starts THEN DoWrite(write_msgs', is_writing, inflight)
                         ELSE UNCHANGED <<is_writing, inflight>>
    /\ UNCHANGED <<called, sent, failed, leaves>>

\* Faulty variant: the message that was written stays in the queue.
PoppedNone == write_msgs
Popped == Tail(write_msgs)

\* on_write after success: pop, and write the next message if there is one.
OnWriteOk ==
    /\ inflight # <<>>
    /\ sent' = Append(sent, Head(inflight))
    /\ write_msgs' = Popped
    /\ DoWrite(write_msgs', FALSE, Tail(inflight))
    /\ UNCHANGED <<called, posted, failed, leaves>>

\* on_write after an error: the session is reported and its queue left alone.
OnWriteError ==
    /\ inflight # <<>>
    /\ inflight' = Tail(inflight)
    /\ is_writing' = FALSE
    /\ failed' = TRUE
    /\ leaves' = leaves + 1
    /\ UNCHANGED <<called, posted, write_msgs, sent>>

OnWrite == OnWriteOk \/ OnWriteError

Next == (\E p \in Producers : Deliver(p)) \/ DeliverTask \/ OnWrite

Spec == Init /\ [][Next]_vars

\* The strand runs what is posted, and a write completes: the idle timeout of
\* the stream fails a write whose peer does not read.
FairSpec == Spec /\ WF_vars(DeliverTask) /\ WF_vars(OnWrite)

-----------------------------------------------------------------------------
(* Properties.                                                             *)

\* The stream allows one asynchronous write at a time, and the buffer it reads
\* stays alive: it is the message at the head of the queue.
OneWriteOfHead ==
    /\ Len(inflight) <= 1
    /\ inflight # <<>> => write_msgs # <<>> /\ inflight[1] = write_msgs[1]

\* A waiting message always has a write under way to drain it, until a write
\* fails, and after that there is none: no wakeup is lost, and no write is
\* attempted on a broken stream.
WritingIffWaiting == is_writing <=> write_msgs # <<>> /\ ~failed

\* The flag tells the truth, however completions and deliveries interleave.
FlagAgrees == is_writing <=> inflight # <<>>

\* on_write reports a broken connection to the server exactly once: the leave
\* that the registry of sessions counts on, and no second one.
ReportedOnce == leaves = IF failed THEN 1 ELSE 0

\* The queue never outgrows its limit, the message being written included.
QueueBounded == Len(write_msgs) <= MaxQueue

\* The message whose write failed stays at the head, which is what keeps
\* deliver() from starting another write.
FailedKept == failed => write_msgs # <<>>

\* All of it, with the types: inductive.
QueueInv ==
    /\ TypeOK /\ OneWriteOfHead /\ WritingIffWaiting /\ FlagAgrees
    /\ ReportedOnce /\ QueueBounded /\ FailedKept

\* What the peer receives of one producer comes in the order of its calls and
\* without repetition, whatever was dropped.
Increasing(q) == \A i, j \in DOMAIN q : i < j /\ q[i].from = q[j].from => q[i].n < q[j].n
InOrder == Increasing(sent)

\* Why: the same holds of everything on its way, and nothing overtakes.
Before(q, r) ==
    \A i \in DOMAIN q, j \in DOMAIN r : q[i].from = r[j].from => q[i].n < r[j].n
NotAhead(q) == \A i \in DOMAIN q : q[i].n <= called[q[i].from]
OrderInv ==
    /\ Increasing(sent) /\ Increasing(write_msgs) /\ Increasing(posted)
    /\ Before(sent, write_msgs) /\ Before(sent, posted) /\ Before(write_msgs, posted)
    /\ NotAhead(sent) /\ NotAhead(write_msgs) /\ NotAhead(posted)

\* The session is the bounded FIFO channel it promises to be.
Channel == INSTANCE WriteChannel WITH
    Capacity <- MaxQueue, accepted <- sent \o write_msgs, done <- Len(sent), broken <- failed

ChannelSpec == Channel!Spec

\* ... and never keeps a message waiting for ever on a connection that works.
ChannelFairSpec == Channel!FairSpec
=============================================================================
