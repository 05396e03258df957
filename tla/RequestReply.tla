---------------------------- MODULE RequestReply ----------------------------
(***************************************************************************)
(* What the HTTP server promises a client about one connection: requests   *)
(* are taken one at a time, each gets one answer, and after an answer the  *)
(* connection goes on to the next request or ends.  As long as the server  *)
(* serves, a request that was taken is answered and an answer is not left  *)
(* half sent.                                                              *)
(***************************************************************************)
VARIABLES state,  \* of the connection
          serving \* the server has threads and was not told to stop

vars == <<state, serving>>

TypeOK == state \in {"none", "idle", "asked", "answered", "closed"} /\ serving \in BOOLEAN

Init == state = "none" /\ serving = TRUE

Move(from, to) == state = from /\ state' = to /\ UNCHANGED serving

Open   == Move("none", "idle")
Refuse == state = "none" /\ state' = "closed" /\ serving' \in {serving, FALSE}
Take   == Move("idle", "asked")
Hangup == Move("idle", "closed")
Answer == Move("asked", "answered")
Sent   == Move("answered", "idle") \/ Move("answered", "closed")
Cease  == serving /\ serving' = FALSE /\ UNCHANGED state

Next == Open \/ Refuse \/ Take \/ Hangup \/ Answer \/ Sent \/ Cease

Spec == Init /\ [][Next]_vars

\* Only the server's own moves are owed, and only while it serves.
Fairness == WF_vars(serving /\ Answer) /\ WF_vars(serving /\ Sent)

FairSpec == Spec /\ Fairness
=============================================================================
