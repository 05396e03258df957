----------------------------- MODULE MCShutdown -----------------------------
(* Values for the constants of Shutdown in the runs of TLC.                *)
EXTENDS Shutdown

CONSTANTS s1, s2

TwoSessions == {s1, s2}
OneSender == {s1}
OneListener == {s2}
=============================================================================
