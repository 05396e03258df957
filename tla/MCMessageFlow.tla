--------------------------- MODULE MCMessageFlow ---------------------------
(* Values for the constants of MessageFlow in the runs of TLC.             *)
EXTENDS MessageFlow, TLC

CONSTANTS s1, s2, s3

ThreeSessions == {s1, s2, s3}
TwoSenders == {s1, s2}
Listeners == {s3}
SenderSymmetry == Permutations(TwoSenders)
=============================================================================
