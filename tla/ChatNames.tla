------------------------------ MODULE ChatNames ------------------------------
(***************************************************************************)
(* The chat server with a memory of whose nickname was dropped by another  *)
(* session's leave.                                                        *)
(*                                                                         *)
(* leave() captures the nickname when it is called and unregister_nickname *)
(* erases the entry of that name, whoever holds it by then.  A client that *)
(* hangs up while its own /nick is on the way captures the name it is      *)
(* about to give up, and its leave may so erase the entry of the session   *)
(* that took that name over.  This module tells what holds for all the     *)
(* other sessions.                                                         *)
(***************************************************************************)
EXTENDS ChatServer

VARIABLE robbed   \* sessions whose entry the leave of another one erased

nameVars == <<vars, robbed>>

\* Only leave's last step changes nicknames_ while that step is under way.
Robbed(s) ==
    /\ running.op = "leaveEnd" /\ running.s # s
    /\ \E n \in Nicks : nicknames[n] = s

\* A session with an entry again is robbed no more.
Remember ==
    robbed' = {s \in Sessions : /\ s \in robbed \/ Robbed(s)
                                /\ \A n \in Nicks : nicknames'[n] # s}

NamesInit == Init /\ robbed = {}
NamesNext == Next /\ Remember
NamesSpec == NamesInit /\ [][NamesNext]_nameVars

-----------------------------------------------------------------------------
(* Nicknames of clients that wait for their answers.                       *)

\* nicknames_ holds nothing for a session but the nickname it shows, however its
\* connection ends; and it does hold that one while no write to the session failed,
\* unless the leave of another session erased it.
NicksAgree ==
    ~Stopped => \A s \in Sessions, n \in Nicks : results[s] = <<>> =>
        /\ nicknames[n] = s => nick[s] = n
        /\ nick[s] = n /\ conn[s] = "open" /\ ~writeFailed[s] /\ s \notin robbed
             => nicknames[n] = s

\* The old nickname of such a client is looked up in vain, and the end of the map
\* dereferenced, only after a robbery, a failed write or the call of stop().
OldNickKnown ==
    fault = "endDeref" =>
        robbed # {} \/ Stopped \/ \E s \in Sessions : writeFailed[s]

=============================================================================
