------------------------------- MODULE MCStores -------------------------------
(* Small instances of Stores for TLC.                                      *)
EXTENDS Stores, TLC

CONSTANTS c1, c2

TwoCustomers == {c1, c2}
Small == 1..2
=============================================================================
