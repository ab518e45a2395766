----------------------------- MODULE MCChatRoomMQ -----------------------------
(* Small instances of ChatRoomMQ for TLC.                                  *)
EXTENDS ChatRoomMQ

CONSTANTS c1, c2

TwoClients == {c1, c2}
Nobody == {}
OnlyC1 == {c1}
AllFaults == {"sigint", "kill"}
NoFaults == {}
=============================================================================
