------------------------- MODULE MCSessionWriteQueue -------------------------
(* Values for the constants of SessionWriteQueue in the run of TLC.        *)
EXTENDS SessionWriteQueue

CONSTANTS p1, p2, p3

TwoProducers == {p1, p2}
ThreeProducers == {p1, p2, p3}
=============================================================================
