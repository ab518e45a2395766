-------------------------------- MODULE MCPairs --------------------------------
(* Two clients: any two may be there at the same time, left over from earlier *)
(* runs of the server or not.                                                 *)
EXTENDS Pairs

CONSTANTS a, b

MCClients == {a, b}
=============================================================================
