------------------------------ MODULE EchoServers ------------------------------
(***************************************************************************)
(* The four servers of Task16/Subtask2 with their clients.  Which server   *)
(* runs, which clients connect and then say nothing, and whether clients,  *)
(* network and server fail is chosen in the initial state.                 *)
(***************************************************************************)
EXTENDS SimpleServer, PoolServer, ProducerConsumer, MultiProtocol

vars == <<netVars, arg, mutex, queueVars, multiVars>>

IsUdp(c) == design = "multi_prot" /\ c \in UdpClients
par_client(c) == design # "multi_prot" /\ Client(c)
tcp_cl_inet(c) == design = "multi_prot" /\ c \notin UdpClients /\ Client(c)
TcpClient(c) == par_client(c) \/ tcp_cl_inet(c) \/ (~IsUdp(c) /\ Vanish(c))

ClientStep(c) ==
  \/ TcpClient(c) /\ UNCHANGED <<arg, mutex, queueVars, multiVars>>
  \/ IsUdp(c) /\ udp_cl_inet(c) /\ UNCHANGED <<arg, mutex, queueVars>>

SimpleThread(t) ==
  /\ design = "simple"
  /\ IF t = Main THEN simple_main ELSE t \in Conns /\ simple_handle_request(t)
  /\ UNCHANGED <<mutex, queueVars, multiVars>>

PoolThread(t) ==
  /\ design = "pool"
  /\ t \in Workers /\ pool_handle_request(t)
  /\ UNCHANGED <<arg, queueVars, multiVars>>

ProducerConsumerThread(t) ==
  /\ design = "producer_consumer"
  /\ IF t = Main THEN producer_main ELSE t \in Workers /\ consumer_handle_request(t)
  /\ UNCHANGED <<arg, mutex, multiVars>>

MultiProtThread(t) ==
  /\ design = "multi_prot"
  /\ t = Main /\ multi_main
  /\ UNCHANGED <<arg, mutex, queueVars>>

ThreadStep(t) ==
  \/ SimpleThread(t) \/ PoolThread(t)
  \/ ProducerConsumerThread(t) \/ MultiProtThread(t)

Start ==
  \/ design = "simple" /\ simple_start /\ UNCHANGED <<mutex, queueVars, multiVars>>
  \/ design = "pool" /\ pool_start /\ UNCHANGED <<arg, queueVars, multiVars>>
  \/ /\ design = "producer_consumer"
     /\ producer_start \/ MsggetFails \/ SecondServer
     /\ UNCHANGED <<arg, mutex, multiVars>>
  \/ design = "multi_prot" /\ multi_start /\ UNCHANGED <<arg, mutex, queueVars>>

Exit ==
  \/ design = "simple" /\ simple_exit /\ UNCHANGED <<mutex, queueVars, multiVars>>
  \/ design = "pool" /\ pool_exit /\ UNCHANGED <<arg, queueVars, multiVars>>
  \/ design = "producer_consumer" /\ producer_exit /\ UNCHANGED <<arg, mutex, multiVars>>
  \/ design = "multi_prot" /\ multi_exit /\ UNCHANGED <<arg, mutex, queueVars>>

Init ==
  /\ NetInit
  /\ simple_init /\ pool_init /\ queue_init /\ multi_init

Next ==
  \/ \E c \in Clients : ClientStep(c)
  \/ \E t \in Threads : ThreadStep(t)
  \/ Start \/ Exit

Spec == Init /\ [][Next]_vars

\* Every process and thread that can go on does; nobody has to send a signal or
\* start a server again.
Fairness ==
  /\ \A c \in Clients : WF_vars(ClientStep(c))
  /\ \A t \in Threads : WF_vars(ThreadStep(t))
  /\ WF_vars(Start /\ server = "down")

FairSpec == Spec /\ Fairness

-----------------------------------------------------------------------------
(* Properties.                                                             *)

\* A client reads its own requests, in their order and in upper case, although
\* descriptors are numbers that the next connection takes over and that travel
\* through memory, a queue and several threads.
OwnAnswers ==
  \A c \in Clients : \A n \in DOMAIN got[c] : got[c][n] = toupper(Message(<<c, n>>))

\* The server never writes to or closes a descriptor that it does not have, and
\* ends by itself only for a reason outside it: read and recvfrom, because a client
\* vanished or sent too little; the calls on the queue, because a second start
\* removed it; accept, because the threads hold every descriptor there is, which
\* the servers with a fixed number of threads need not fear.
Needed == CASE design = "pool" -> Cardinality(Workers)
            [] design = "producer_consumer" -> 1 + QueueCap + Cardinality(Workers)
            [] design = "multi_prot" -> 1
            [] design = "simple" -> Cardinality(Conns)
EndsForAReason ==
  /\ server \notin {"write", "close"}
  /\ server \in {"read", "recvfrom"} => \E k \in Conns : inbox[k] = "short"
  /\ server \in {"send", "receive"} => starts > 1
  /\ server = "accept" => MaxFds < Needed

\* Requests and answers as EchoService has them.
Service == INSTANCE EchoService WITH
  Requests <- Conns, NoAnswer <- NoText,
  Upper <- LAMBDA k : toupper(Message(k)),
  asked <- {k \in Conns : inbox[k] \in {"request", "read"}},
  answer <- outbox

\* Every step of every design is a step of the service: an answer is written once,
\* on its own connection, after the request has come.
IsAnEchoService == Service!Spec

\* Who a silent client does not keep from being served: everybody if each
\* connection has a thread, and if the pool has a thread left.
Unharmed ==
  \/ design = "simple" \/ mute = {}
  \/ design = "pool" /\ Cardinality(mute) < Cardinality(Workers)
  \/ design = "multi_prot" /\ mute \subseteq UdpClients

\* Nobody fails, or tries to connect before the server listens, and accept never
\* runs out of descriptors.
FairWeather ==
  /\ ~rough
  /\ [](server = "down" => \A c \in Clients : cl[c] = "connect")
  /\ [](server # "accept")

\* Then every client that sends comes to the end of its requests.
EverybodyIsServed ==
  Unharmed /\ FairWeather => <>(\A c \in Clients \ mute : cl[c] = "done")
=============================================================================
