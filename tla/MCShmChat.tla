------------------------------ MODULE MCShmChat ------------------------------
(* Small instances of ShmChat for TLC.                                     *)
EXTENDS ShmChat

CONSTANTS c1, c2

TwoClients == {c1, c2}
Nobody == {}
OnlyC1 == {c1}
=============================================================================
