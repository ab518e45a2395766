---------------------------- MODULE MCEchoServers ----------------------------
(* A small instance of EchoServers for TLC.                                *)
EXTENDS EchoServers

CONSTANTS c1, c2, w1, w2

TwoClients == {c1, c2}
OnlyC2 == {c2}
TwoWorkers == {w1, w2}
AllSignals == {"sigint", "kill"}
=============================================================================
