------------------------------ MODULE EchoService ------------------------------
(***************************************************************************)
(* What the servers of Task16/Subtask2 promise, whatever their threads,    *)
(* queues and descriptors: a request that was sent gets at most one        *)
(* answer, its own text in upper case, and no answer changes afterwards.   *)
(***************************************************************************)
CONSTANTS Requests, Upper(_), NoAnswer

VARIABLES asked, answer

vars == <<asked, answer>>

Init == asked = {} /\ answer = [r \in Requests |-> NoAnswer]

Ask(r) ==
  /\ r \notin asked
  /\ asked' = asked \cup {r}
  /\ UNCHANGED answer

Reply(r) ==
  /\ r \in asked
  /\ answer[r] = NoAnswer
  /\ answer' = [answer EXCEPT ![r] = Upper(r)]
  /\ UNCHANGED asked

Next == \E r \in Requests : Ask(r) \/ Reply(r)

Spec == Init /\ [][Next]_vars
=============================================================================
