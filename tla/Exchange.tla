-------------------------------- MODULE Exchange --------------------------------
(***************************************************************************)
(* What a server and a client that exchange greetings are for: the client  *)
(* hears the greeting, and then the server may hear the answer.            *)
(***************************************************************************)
VARIABLES client_heard, server_heard

vars == <<client_heard, server_heard>>

Init == client_heard = "" /\ server_heard = ""

ClientHears ==
  /\ client_heard = ""
  /\ client_heard' = "Hi"
  /\ UNCHANGED server_heard

ServerHears ==
  /\ client_heard = "Hi" /\ server_heard = ""
  /\ server_heard' = "Hello"
  /\ UNCHANGED client_heard

Next == ClientHears \/ ServerHears

Spec == Init /\ [][Next]_vars
=============================================================================
