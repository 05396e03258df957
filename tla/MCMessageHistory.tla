--------------------------- MODULE MCMessageHistory ---------------------------
(* Values for the constants of MessageHistory in the runs of TLC.          *)
EXTENDS MessageHistory, TLC

CONSTANTS w1, w2, r1, m1, m2

TwoWriters == {w1, w2}
OneReader == {r1}
TwoMsgs == {m1, m2}
NoMsgs == {}
OneMsg == {m2}
SomeLimits == {0, 1}
OneLimit == {0}

\* The private chat of "a" and "b", logged and loaded from either side.
PairBothWays == {[dir |-> "private", names |-> p] : p \in {<<<<97>>, <<98>>>>, <<<<98>>, <<97>>>>}}

\* Two rooms whose names are one character outside the kept ones.
OtherRooms == {[dir |-> "rooms", names |-> <<<<200>>>>], [dir |-> "rooms", names |-> <<<<201>>>>]}
=============================================================================
