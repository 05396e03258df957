---------------------------- MODULE MCChatServer ----------------------------
(* Values for the constants of ChatServer in the runs of TLC.              *)
EXTENDS ChatServer, TLC

CONSTANTS s1, s2, s3, A, B, C, R1, R2

OneSession == {s1}
TwoSessions == {s1, s2}
ThreeSessions == {s1, s2, s3}
NoNames == {}
TwoNicks == {A, B}
ThreeNicks == {A, B, C}
OneNick == {A}
ThirdNick == {C}
OneRoom == {R1}
TwoRooms == {R1, R2}

\* Sessions, nicknames and rooms are interchangeable in the safety runs.
SessionSymmetry == Permutations(Sessions)
NickSymmetry == Permutations(Sessions) \cup Permutations(Nicks \ Reserved)
RoomSymmetry == Permutations(Sessions) \cup Permutations(Rooms)
AllSymmetry == RoomSymmetry \cup Permutations(Nicks)
=============================================================================
