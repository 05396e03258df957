----------------------------- MODULE MCChatNames -----------------------------
(* ChatNames with the values of MCChatServer, for the runs of TLC.         *)
EXTENDS ChatNames, MCChatServer
=============================================================================
