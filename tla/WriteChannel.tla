---------------------------- MODULE WriteChannel ----------------------------
(***************************************************************************)
(* What a session promises about the messages it is asked to deliver: a    *)
(* bounded FIFO channel.  A message is accepted while fewer than Capacity  *)
(* are waiting and lost otherwise; accepted messages go out one by one, in *)
(* the order of acceptance, each once, until the connection breaks.        *)
(***************************************************************************)
EXTENDS Naturals, Sequences

CONSTANTS
    Messages,  \* what may be sent
    Capacity   \* how many messages may wait, at least one

VARIABLES
    accepted,  \* every message accepted so far, in order
    done,      \* how many of them have gone out
    broken     \* the connection broke

vars == <<accepted, done, broken>>

TypeOK ==
    /\ accepted \in Seq(Messages)
    /\ done \in 0..Len(accepted)
    /\ broken \in BOOLEAN

Waiting == Len(accepted) - done

Init ==
    /\ accepted = <<>>
    /\ done = 0
    /\ broken = FALSE

\* A broken channel still takes messages, until it is full.
Accept(m) ==
    /\ Waiting < Capacity
    /\ accepted' = Append(accepted, m)
    /\ UNCHANGED <<done, broken>>

Transmit ==
    /\ ~broken /\ Waiting > 0
    /\ done' = done + 1
    /\ UNCHANGED <<accepted, broken>>

Break ==
    /\ ~broken /\ Waiting > 0
    /\ broken' = TRUE
    /\ UNCHANGED <<accepted, done>>

Next == (\E m \in Messages : Accept(m)) \/ Transmit \/ Break

Spec == Init /\ [][Next]_vars

\* A message that waits goes out, or the connection breaks.
FairSpec == Spec /\ WF_vars(Transmit \/ Break)
=============================================================================
