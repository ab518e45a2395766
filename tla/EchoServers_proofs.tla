-------------------------- MODULE EchoServers_proofs --------------------------
(* Theorems about EchoServers, for any number of clients, requests, threads,  *)
(* descriptors and starts: each client reads the answers to its own requests, *)
(* the servers end only for the reasons listed, and they implement            *)
(* EchoService.  All three follow from who owns a descriptor: each open one   *)
(* is held in one place, and the message that is held with it is the request  *)
(* of its connection, not answered yet.                                       *)
EXTENDS EchoServers, FiniteSetTheorems, SequenceTheorems, WellFoundedInduction, TLAPS

Calls ==
  {"ended", "start", "lock", "accept", "create", "read", "send", "receive", "write", "close",
   "select", "recvfrom", "sendto"}

Types ==
  /\ design \in Designs /\ rough \in BOOLEAN
  /\ cl \in [Clients -> {"connect", "write", "read", "recvfrom", "done", "failed", "gone"}]
  /\ req \in [Clients -> 1..N_REQS]
  /\ got \in [Clients -> Seq(Texts)]
  /\ backlog \in Seq(Conns)
  /\ inbox \in [Conns -> {"empty", "request", "read", "short"}]
  /\ outbox \in [Conns -> Texts \cup {NoText}]
  /\ starts \in Nat
  /\ fds \in [Fds -> Conns \cup {NoConn}]
  /\ pc \in [Threads -> Calls]
  /\ fd \in [Threads -> Fds \cup {0}]
  /\ msg \in [Threads -> Texts \cup {NoText}]
  /\ arg \in [Threads -> Fds \cup {0}]
  /\ queue \in Seq([client_fd : Fds \cup {0}, data : Texts \cup {NoText}])
  /\ datagrams \in Seq(Clients)
  /\ udp_addr \in Conns \cup {NoConn}

\* A connection that its client has not made yet.
Fresh(k) ==
  \/ k[2] > req[k[1]]
  \/ k[2] = req[k[1]] /\ cl[k[1]] = "connect"

\* A request is sent once, and the answers read are those of the requests before.
Asking ==
  \A c \in Clients :
    /\ cl[c] \in {"connect", "write", "read", "recvfrom"} => Len(got[c]) = req[c] - 1
    /\ cl[c] = "write" => inbox[Conn(c)] = "empty"
    /\ \A n \in DOMAIN got[c] : got[c][n] = toupper(Message(<<c, n>>))

Answered ==
  \A k \in Conns :
    outbox[k] # NoText => inbox[k] = "read" /\ outbox[k] = toupper(Message(k))

\* A connection is in one place: not made, in the backlog, or one descriptor.
Connections ==
  /\ \A i, j \in DOMAIN backlog : backlog[i] = backlog[j] => i = j
  /\ \A i \in DOMAIN backlog, f \in Fds : fds[f] # backlog[i]
  /\ \A f, g \in Fds : fds[f] = fds[g] /\ fds[f] # NoConn => f = g
  /\ \A k \in Conns : Fresh(k) =>
       /\ inbox[k] = "empty"
       /\ \A i \in DOMAIN backlog : backlog[i] # k
       /\ \A f \in Fds : fds[f] # k

\* m is the request that came on descriptor f and has no answer yet.
InHand(f, m) ==
  /\ f \in Fds /\ fds[f] # NoConn
  /\ m = Message(fds[f])
  /\ inbox[fds[f]] = "read" /\ outbox[fds[f]] = NoText

Holding(t) == pc[t] \in {"create", "read", "send", "write", "close"}

Crew == CASE design = "simple" -> Threads
          [] design = "pool" -> Workers
          [] design = "producer_consumer" -> {Main} \cup Workers
          [] design = "multi_prot" -> {Main}

Holders ==
  /\ \A t \in Threads : Holding(t) => t \in Crew /\ fd[t] \in Fds /\ fds[fd[t]] # NoConn
  /\ \A t \in Threads : pc[t] \in {"send", "write"} => InHand(fd[t], msg[t])
  /\ \A t, u \in Threads : Holding(t) /\ Holding(u) /\ fd[t] = fd[u] => t = u

\* The argument of a thread that starts is the descriptor of its connection.
Arguments ==
  \A k \in Threads : pc[k] = "start" =>
    /\ design = "simple" /\ k \in Conns
    /\ arg[k] \in Fds /\ fds[arg[k]] = k
    /\ \A t \in Threads : Holding(t) => fd[t] # arg[k]

Queued ==
  /\ queue # <<>> => design = "producer_consumer" /\ queue_id # NoQueue
  /\ Len(queue) <= QueueCap
  /\ server = "up" =>
       /\ \A i \in DOMAIN queue : InHand(queue[i].client_fd, queue[i].data)
       /\ \A i, j \in DOMAIN queue : queue[i].client_fd = queue[j].client_fd => i = j
       /\ \A i \in DOMAIN queue, t \in Threads : Holding(t) => fd[t] # queue[i].client_fd

Datagram ==
  pc[Main] = "sendto" =>
    /\ design = "multi_prot"
    /\ udp_addr \in Conns /\ msg[Main] = Message(udp_addr)
    /\ inbox[udp_addr] = "read" /\ outbox[udp_addr] = NoText

Down ==
  server # "up" =>
    /\ backlog = <<>>
    /\ \A f \in Fds : fds[f] = NoConn
    /\ \A t \in Threads : pc[t] = "ended"

\* The descriptors that no thread holds: in an argument, in the queue, or lost when
\* the queue was removed.
Stray == {f \in Fds : fds[f] # NoConn /\ \A t \in Threads : Holding(t) => fd[t] # f}

Strays ==
  /\ design \in {"pool", "multi_prot"} => Stray = {}
  /\ design = "producer_consumer" =>
       /\ Cardinality(Stray) <= QueueCap
       /\ queue_id # NoQueue =>
            \A f \in Stray : \E i \in DOMAIN queue : queue[i].client_fd = f

Reasons ==
  /\ EndsForAReason
  /\ server = "up" => starts > 0
  /\ server = "up" /\ design = "producer_consumer" /\ queue_id = NoQueue => starts > 1

Inv ==
  /\ Types /\ Asking /\ Answered /\ Connections /\ Holders /\ Arguments /\ Queued
  /\ Datagram /\ Down /\ Strays /\ Reasons

-----------------------------------------------------------------------------
(* Connections and the initial state.                                      *)

LEMMA ConnFacts ==
  /\ \A k \in Conns : k[1] \in Clients /\ k[2] \in 1..N_REQS /\ k = <<k[1], k[2]>>
  /\ \A c \in Clients, n \in 1..N_REQS : <<c, n>> \in Conns
  /\ NoConn \notin Conns
  /\ \A k \in Conns : toupper(Message(k)) \in Texts /\ Message(k) \in Texts
  /\ NoText \notin Texts
  /\ N_REQS \in Nat \ {0} /\ MaxFds \in Nat /\ QueueCap \in Nat
  /\ Main \in Threads /\ Main \notin Workers /\ Main \notin Conns
  /\ Conns \subseteq Threads /\ Workers \subseteq Threads
  /\ 0 \notin Fds
<1>1. /\ \A k \in Conns : k[1] \in Clients /\ k[2] \in 1..N_REQS /\ k = <<k[1], k[2]>>
      /\ \A c \in Clients, n \in 1..N_REQS : <<c, n>> \in Conns
      /\ NoConn \notin Conns
      /\ N_REQS \in Nat \ {0} /\ MaxFds \in Nat /\ QueueCap \in Nat
  BY EchoAssumption, QueueAssumption DEF Conns
<1>2. \A k \in Conns : toupper(Message(k)) \in Texts /\ Message(k) \in Texts
  BY DEF Texts, toupper, Message
<1>3. /\ Main \in Threads /\ Main \notin Workers /\ Main \notin Conns
      /\ Conns \subseteq Threads /\ Workers \subseteq Threads
  BY EchoAssumption DEF Threads, Conns
<1>4. 0 \notin Fds
  BY EchoAssumption DEF Fds
<1> QED
  BY <1>1, <1>2, <1>3, <1>4, TextAssumption

LEMMA InvInit == Init => Inv
<1> SUFFICES ASSUME Init PROVE Inv
  OBVIOUS
<1> USE DEF Init, NetInit, simple_init, pool_init, queue_init, multi_init
<1>1. Types
  <2>1. /\ design \in Designs /\ rough \in BOOLEAN
        /\ cl \in [Clients -> {"connect"}] /\ req \in [Clients -> {1}]
        /\ 1 \in 1..N_REQS
    BY ConnFacts
  <2>2. /\ got \in [Clients -> Seq(Texts)] /\ backlog \in Seq(Conns)
        /\ queue \in Seq([client_fd : Fds \cup {0}, data : Texts \cup {NoText}])
        /\ datagrams \in Seq(Clients) /\ udp_addr \in Conns \cup {NoConn}
    BY EmptySeq
  <2>3. /\ inbox \in [Conns -> {"empty"}] /\ outbox \in [Conns -> {NoText}]
        /\ starts \in Nat /\ fds \in [Fds -> {NoConn}]
    OBVIOUS
  <2>4. /\ pc \in [Threads -> {"ended"}] /\ fd \in [Threads -> {0}]
        /\ msg \in [Threads -> {NoText}] /\ arg \in [Threads -> {0}]
    OBVIOUS
  <2> QED
    BY <2>1, <2>2, <2>3, <2>4 DEF Types, Calls
<1>2. Asking
  BY ConnFacts DEF Asking, Conn
<1>3. Answered /\ Connections
  BY ConnFacts DEF Answered, Connections
<1>4. Holders /\ Arguments /\ Datagram /\ Down
  BY ConnFacts DEF Holders, Holding, Arguments, Datagram, Down
<1>5. Queued
  BY ConnFacts DEF Queued
<1>6. Strays
  <2>1. Stray = {}
    BY DEF Stray
  <2> QED
    BY <2>1, ConnFacts, FS_EmptySet DEF Strays
<1>7. Reasons
  BY DEF Reasons, EndsForAReason
<1> QED
  BY <1>1, <1>2, <1>3, <1>4, <1>5, <1>6, <1>7 DEF Inv

-----------------------------------------------------------------------------
(* The clients.                                                            *)

\* What a client does touches nothing that was read, and nothing the threads have.
LEMMA ClientFrame ==
  ASSUME Inv,
         UNCHANGED <<settings, processVars, fds, threadVars, outbox, arg, queueVars, udp_addr>>,
         \A k \in Conns : inbox[k] \in {"read", "short"} => inbox'[k] = inbox[k],
         server = "up" \/ backlog' = backlog
  PROVE  /\ Answered' /\ Holders' /\ Arguments' /\ Queued' /\ Datagram' /\ Down'
         /\ Strays' /\ Reasons'
<1> USE DEF Inv, settings, processVars, threadVars, queueVars
<1>1. Answered'
  BY DEF Answered
<1>2. \A f, m : InHand(f, m) => InHand(f, m)'
  BY DEF InHand, Types
<1>3. \A t : Holding(t)' <=> Holding(t)
  BY DEF Holding
<1>4. Crew' = Crew
  BY DEF Crew
<1>5. Holders'
  BY <1>2, <1>3, <1>4 DEF Holders
<1>6. Arguments'
  BY <1>3 DEF Arguments
<1>7. Queued'
  BY <1>2, <1>3 DEF Queued
<1>8. Datagram' /\ Down'
  BY DEF Datagram, Down
<1>9. Strays'
  <2>1. Stray' = Stray
    BY <1>3 DEF Stray
  <2> QED
    BY <2>1 DEF Strays
<1>10. Reasons'
  BY DEF Reasons, EndsForAReason, Needed
<1> QED
  BY <1>1, <1>5, <1>6, <1>7, <1>8, <1>9, <1>10

LEMMA ConnType ==
  ASSUME Types, NEW c \in Clients
  PROVE  Conn(c) \in Conns /\ Conn(c)[1] = c /\ Conn(c)[2] = req[c] /\ req[c] \in 1..N_REQS
BY ConnFacts DEF Types, Conn

\* The parts of the invariant that a client's step may disturb.
ClientPart == Types /\ Asking /\ Connections

\* All of them if the rest is framed.
LEMMA ClientRest ==
  ASSUME Inv,
         UNCHANGED <<settings, processVars, fds, threadVars, outbox, arg, queueVars, udp_addr>>,
         \A k \in Conns : inbox[k] \in {"read", "short"} => inbox'[k] = inbox[k],
         server = "up" \/ backlog' = backlog,
         ClientPart'
  PROVE  Inv'
BY ClientFrame DEF Inv, ClientPart

LEMMA ConnectKeeps ==
  ASSUME Inv, NEW c \in Clients, inet_connect(c), UNCHANGED <<arg, queueVars, multiVars>>
  PROVE  Inv'
<1> USE DEF Inv, inet_connect, ClientGoes, settings, processVars, threadVars, queueVars, multiVars
<1>1. Conn(c) \in Conns /\ Conn(c)[1] = c /\ Conn(c)[2] = req[c] /\ req[c] \in 1..N_REQS
  BY ConnType
<1>2. Types'
  BY <1>1, AppendProperties DEF Types
<1>3. /\ Fresh(Conn(c))
      /\ \A k \in Conns : Fresh(k)' => Fresh(k) /\ k # Conn(c)
  <2>1. cl[c] = "connect" /\ cl'[c] = "write" /\ \A d \in Clients : d # c => cl'[d] = cl[d]
    BY DEF Types
  <2>2. Fresh(Conn(c))
    BY <1>1, <2>1 DEF Fresh
  <2>3. ASSUME NEW k \in Conns, Fresh(k)' PROVE Fresh(k) /\ k # Conn(c)
    <3>1. k[1] \in Clients /\ req' = req
      BY ConnFacts
    <3>2. k # Conn(c)
      BY <1>1, <2>1, <2>3, <3>1 DEF Fresh
    <3>3. Fresh(k)
      BY <2>1, <2>3, <3>1 DEF Fresh
    <3> QED
      BY <3>2, <3>3
  <2> QED
    BY <2>2, <2>3
<1>4. Asking'
  <2>1. inbox[Conn(c)] = "empty"
    BY <1>1, <1>3 DEF Connections
  <2>2. \A d \in Clients : Conn(d)' = Conn(d)
    BY DEF Conn
  <2> QED
    BY <2>1, <2>2 DEF Asking, Types
<1>5. Connections'
  <2>1. /\ backlog \in Seq(Conns) /\ Len(backlog) \in Nat
        /\ DOMAIN backlog = 1..Len(backlog) /\ DOMAIN backlog' = 1..(Len(backlog) + 1)
        /\ backlog'[Len(backlog) + 1] = Conn(c)
        /\ \A i \in DOMAIN backlog : backlog'[i] = backlog[i]
    BY <1>1, AppendProperties, LenProperties DEF Types
  <2>2. /\ \A i \in DOMAIN backlog : backlog[i] # Conn(c)
        /\ \A f \in Fds : fds[f] # Conn(c)
    BY <1>1, <1>3 DEF Connections
  <2> QED
    BY <1>3, <2>1, <2>2 DEF Connections
<1> QED
  BY <1>2, <1>4, <1>5, ClientRest DEF ClientPart, Types

LEMMA WriteRequestKeeps ==
  ASSUME Inv, NEW c \in Clients, WriteRequest(c), UNCHANGED <<arg, queueVars, multiVars>>
  PROVE  Inv'
<1> USE DEF Inv, WriteRequest, ClientGoes, settings, processVars, threadVars, queueVars, multiVars
<1>1. Conn(c) \in Conns /\ Conn(c)[1] = c /\ Conn(c)[2] = req[c] /\ req[c] \in 1..N_REQS
  BY ConnType
<1>2. Types'
  BY <1>1 DEF Types
<1>3. inbox[Conn(c)] = "empty"
  BY DEF Asking
<1>4. \A k \in Conns : Fresh(k)' => Fresh(k) /\ k # Conn(c)
  BY <1>1, ConnFacts DEF Fresh, Types
<1>5. Asking'
  <2>1. \A d \in Clients : Conn(d)' = Conn(d) /\ (d # c => Conn(d) # Conn(c))
    BY DEF Conn
  <2>2. \A d \in Clients : d # c => cl'[d] = cl[d] /\ (cl[d] = "write" => inbox'[Conn(d)] = inbox[Conn(d)])
    BY <2>1, ConnType DEF Types
  <2> QED
    BY <2>1, <2>2 DEF Asking, Types
<1>6. Connections'
  BY <1>4 DEF Connections, Types
<1> QED
  BY <1>2, <1>3, <1>5, <1>6, ClientRest DEF ClientPart, Types

\* A client that has read the answer to its request asks the next one or is done.
LEMMA AnswerRead ==
  ASSUME Inv, NEW c \in Clients,
         outbox[Conn(c)] # NoText,
         cl[c] \in {"read", "recvfrom"},
         got' = [got EXCEPT ![c] = Append(@, outbox[Conn(c)])],
         \/ /\ req[c] < N_REQS
            /\ cl' = [cl EXCEPT ![c] = "connect"] /\ req' = [req EXCEPT ![c] = @ + 1]
         \/ cl' = [cl EXCEPT ![c] = "done"] /\ req' = req,
         UNCHANGED <<settings, connVars, processVars, fds, threadVars, arg, queueVars, multiVars>>
  PROVE  Inv'
<1> USE DEF Inv, settings, connVars, processVars, threadVars, queueVars, multiVars
<1>1. Conn(c) \in Conns /\ Conn(c)[1] = c /\ Conn(c)[2] = req[c] /\ req[c] \in 1..N_REQS
  BY ConnType
<1>2. outbox[Conn(c)] = toupper(Message(<<c, req[c]>>)) /\ outbox[Conn(c)] \in Texts
  BY <1>1, ConnFacts DEF Answered, Conn
<1>3. /\ got[c] \in Seq(Texts) /\ Len(got[c]) = req[c] - 1
      /\ got'[c] \in Seq(Texts)
      /\ DOMAIN got[c] = 1..Len(got[c]) /\ DOMAIN got'[c] = 1..req[c] /\ Len(got'[c]) = req[c]
      /\ \A n \in DOMAIN got[c] : got'[c][n] = got[c][n]
      /\ got'[c][req[c]] = outbox[Conn(c)]
  <2>1. got[c] \in Seq(Texts) /\ got'[c] = Append(got[c], outbox[Conn(c)])
    BY DEF Types
  <2>2. Len(got[c]) = req[c] - 1
    BY DEF Asking
  <2> QED
    BY <1>1, <1>2, <2>1, <2>2, AppendProperties, LenProperties
<1>4. Types'
  <2>1. got' \in [Clients -> Seq(Texts)]
    BY <1>3 DEF Types
  <2>2. cl' \in [Clients -> {"connect", "write", "read", "recvfrom", "done", "failed", "gone"}]
    BY DEF Types
  <2>3. req' \in [Clients -> 1..N_REQS]
    <3>1. N_REQS \in Nat /\ (req[c] < N_REQS => req[c] + 1 \in 1..N_REQS)
      BY <1>1, ConnFacts
    <3> QED
      BY <3>1 DEF Types
  <2> QED
    BY <2>1, <2>2, <2>3 DEF Types
<1>5. \A k \in Conns : Fresh(k)' => Fresh(k)
  <2>1. SUFFICES ASSUME NEW k \in Conns, Fresh(k)' PROVE Fresh(k)
    OBVIOUS
  <2>2. k[1] \in Clients /\ k[2] \in Nat
    BY ConnFacts
  <2>3. \/ k[1] # c /\ req'[k[1]] = req[k[1]] /\ cl'[k[1]] = cl[k[1]]
        \/ k[1] = c /\ req'[c] = req[c] + 1
        \/ k[1] = c /\ req'[c] = req[c] /\ cl'[c] = "done"
    BY <2>2 DEF Types
  <2> QED
    BY <1>1, <2>1, <2>2, <2>3 DEF Fresh
<1>6. Asking'
  <2>1. ASSUME NEW d \in Clients, d # c
        PROVE  cl'[d] = cl[d] /\ req'[d] = req[d] /\ got'[d] = got[d] /\ Conn(d)' = Conn(d)
    BY <2>1 DEF Types, Conn
  <2>2. /\ cl'[c] \in {"connect", "done"}
        /\ cl'[c] = "connect" => Len(got'[c]) = req'[c] - 1
    BY <1>1, <1>3 DEF Types
  <2>3. \A n \in DOMAIN got'[c] : got'[c][n] = toupper(Message(<<c, n>>))
    <3>1. SUFFICES ASSUME NEW n \in DOMAIN got'[c]
                   PROVE  got'[c][n] = toupper(Message(<<c, n>>))
      OBVIOUS
    <3>2. req[c] \in Nat /\ n \in 1..req[c]
      BY <1>1, <1>3, <3>1
    <3>3. CASE n = req[c]
      BY <1>2, <1>3, <3>3
    <3>4. CASE n # req[c]
      <4>1. n \in DOMAIN got[c]
        BY ONLY <1>3, <3>2, <3>4, SMT
      <4>2. got[c][n] = toupper(Message(<<c, n>>))
        BY <4>1 DEF Asking
      <4> QED
        BY ONLY <1>3, <4>1, <4>2, Zenon
    <3> QED
      BY <3>3, <3>4
  <2> QED
    BY <2>1, <2>2, <2>3 DEF Asking
<1>7. Connections'
  BY <1>5 DEF Connections, Types
<1> QED
  BY <1>4, <1>6, <1>7, ClientRest DEF ClientPart, Types

\* A client that gives up, or is gone before it has sent a whole message.
LEMMA ClientStops ==
  ASSUME Inv, NEW c \in Clients, UNCHANGED <<arg, queueVars, multiVars>>,
         ClientFails(c) \/ Vanish(c)
  PROVE  Inv'
<1> USE DEF Inv, settings, processVars, threadVars, connVars, queueVars, multiVars
<1>1. Conn(c) \in Conns /\ Conn(c)[1] = c /\ Conn(c)[2] = req[c] /\ req[c] \in 1..N_REQS
  BY ConnType
<1>2. /\ \E end \in {"failed", "gone"} : cl' = [cl EXCEPT ![c] = end]
      /\ \/ inbox' = inbox
         \/ /\ cl[c] = "write" /\ inbox[Conn(c)] = "empty"
            /\ inbox' = [inbox EXCEPT ![Conn(c)] = "short"]
      /\ UNCHANGED <<settings, req, got, backlog, outbox, processVars, fds, threadVars>>
  BY DEF ClientFails, Vanish, Asking
<1>3. Types'
  BY <1>1, <1>2 DEF Types
<1>4. \A k \in Conns : Fresh(k)' => Fresh(k) /\ inbox'[k] = inbox[k]
  BY <1>1, <1>2, ConnFacts DEF Fresh, Types
<1>5. Asking'
  <2>1. \A d \in Clients : Conn(d)' = Conn(d) /\ (d # c => Conn(d) # Conn(c))
    BY <1>2 DEF Conn
  <2>2. \A d \in Clients : d # c => cl'[d] = cl[d] /\ inbox'[Conn(d)] = inbox[Conn(d)]
    BY <1>2, <2>1, ConnType DEF Types
  <2>3. cl'[c] \in {"failed", "gone"}
    BY <1>2 DEF Types
  <2> QED
    BY <1>2, <2>1, <2>2, <2>3 DEF Asking
<1>6. Connections'
  BY <1>2, <1>4 DEF Connections, Types
<1>7. \A k \in Conns : inbox[k] \in {"read", "short"} => inbox'[k] = inbox[k]
  BY <1>1, <1>2 DEF Types
<1> QED
  BY <1>2, <1>3, <1>5, <1>6, <1>7, ClientRest DEF ClientPart, Types

LEMMA ClientSendtoKeeps ==
  ASSUME Inv, NEW c \in Clients, ClientSendto(c), UNCHANGED <<arg, queueVars>>
  PROVE  Inv'
<1> USE DEF Inv, settings, processVars, threadVars, queueVars
<1>1. Conn(c) \in Conns /\ Conn(c)[1] = c /\ Conn(c)[2] = req[c] /\ req[c] \in 1..N_REQS
  BY ConnType
<1>2. /\ cl[c] = "connect" /\ cl' = [cl EXCEPT ![c] = "recvfrom"]
      /\ datagrams' \in {datagrams, Append(datagrams, c)}
      /\ \E size \in {"request", "short"} : inbox' = [inbox EXCEPT ![Conn(c)] = size]
      /\ UNCHANGED <<settings, req, got, backlog, outbox, processVars, fds, threadVars, udp_addr>>
  BY DEF ClientSendto, ClientGoes
<1>3. Types'
  <2>1. datagrams' \in Seq(Clients)
    <3>1. datagrams \in Seq(Clients) /\ Append(datagrams, c) \in Seq(Clients)
      BY AppendProperties DEF Types
    <3> QED
      BY <1>2, <3>1
  <2> QED
    BY <1>1, <1>2, <2>1 DEF Types
<1>4. Fresh(Conn(c)) /\ inbox[Conn(c)] = "empty"
  BY <1>1, <1>2 DEF Fresh, Connections
<1>5. \A k \in Conns : Fresh(k)' => Fresh(k) /\ inbox'[k] = inbox[k]
  BY <1>1, <1>2, ConnFacts DEF Fresh, Types
<1>6. Asking'
  <2>1. \A d \in Clients : Conn(d)' = Conn(d) /\ (d # c => Conn(d) # Conn(c))
    BY <1>2 DEF Conn
  <2>2. \A d \in Clients : d # c => cl'[d] = cl[d] /\ inbox'[Conn(d)] = inbox[Conn(d)]
    BY <1>2, <2>1, ConnType DEF Types
  <2> QED
    BY <1>2, <2>1, <2>2 DEF Asking, Types
<1>7. Connections'
  BY <1>2, <1>5 DEF Connections, Types
<1>8. \A k \in Conns : inbox[k] \in {"read", "short"} => inbox'[k] = inbox[k]
  BY <1>1, <1>2, <1>4 DEF Types
<1> QED
  BY <1>2, <1>3, <1>6, <1>7, <1>8, ClientRest DEF ClientPart, Types

LEMMA ClientKeeps ==
  ASSUME Inv, NEW c \in Clients, ClientStep(c)
  PROVE  Inv'
<1>1. CASE UNCHANGED <<arg, mutex, queueVars, multiVars>> /\ TcpClient(c)
  <2>1. CASE inet_connect(c)
    BY <1>1, <2>1, ConnectKeeps
  <2>2. CASE WriteRequest(c)
    BY <1>1, <2>2, WriteRequestKeeps
  <2>3. CASE ReadAnswer(c)
    <3>1. Requests \in {1, N_REQS} /\ req[c] \in 1..N_REQS /\ N_REQS \in Nat \ {0}
      BY ConnFacts DEF Requests, Inv, Types
    <3>2. CASE req[c] < Requests
      <4>1. cl' = [cl EXCEPT ![c] = "connect"] /\ req' = [req EXCEPT ![c] = @ + 1]
        BY <2>3, <3>2 DEF ReadAnswer, ClientGoes
      <4>2. req[c] < N_REQS
        BY <3>1, <3>2
      <4> QED
        BY <1>1, <2>3, <4>1, <4>2, AnswerRead DEF ReadAnswer, ClientGoes
    <3>3. CASE ~(req[c] < Requests)
      <4>1. cl' = [cl EXCEPT ![c] = "done"] /\ req' = req
        BY <2>3, <3>3 DEF ReadAnswer, ClientGoes, Inv, Types
      <4> QED
        BY <1>1, <2>3, <4>1, AnswerRead DEF ReadAnswer, ClientGoes
    <3> QED
      BY <3>2, <3>3
  <2>4. CASE ClientFails(c) \/ Vanish(c)
    BY <1>1, <2>4, ClientStops
  <2> QED
    BY <1>1, <2>1, <2>2, <2>3, <2>4 DEF TcpClient, par_client, tcp_cl_inet, Client
<1>2. CASE UNCHANGED <<arg, mutex, queueVars>> /\ udp_cl_inet(c)
  <2>1. CASE ClientSendto(c)
    BY <1>2, <2>1, ClientSendtoKeeps
  <2>2. CASE ClientRecvfrom(c)
    BY <1>2, <2>2, AnswerRead DEF ClientRecvfrom, ClientGoes
  <2> QED
    BY <1>2, <2>1, <2>2 DEF udp_cl_inet
<1> QED
  BY <1>1, <1>2 DEF ClientStep

-----------------------------------------------------------------------------
(* The threads of the server.                                              *)

LEMMA ThreadsRun ==
  ASSUME Inv, NEW t \in Threads, pc[t] # "ended"
  PROVE  server = "up"
BY DEF Inv, Down

\* The parts of the invariant that a thread's step may disturb.
ThreadPart ==
  Types /\ Answered /\ Connections /\ Holders /\ Arguments /\ Queued /\ Datagram /\ Strays

LEMMA ThreadRest ==
  ASSUME Inv, server = "up", UNCHANGED <<settings, clientVars, processVars, queue_id>>,
         \A k \in Conns : inbox[k] \in {"empty", "short"} => inbox'[k] = inbox[k],
         ThreadPart'
  PROVE  Inv'
<1> USE DEF Inv, settings, clientVars, processVars
<1>1. Asking'
  <2>1. ASSUME NEW c \in Clients, cl[c] = "write"
        PROVE  inbox'[Conn(c)] = "empty" /\ Conn(c)' = Conn(c)
    BY <2>1, ConnType DEF Asking, Conn
  <2> QED
    BY <2>1 DEF Asking
<1>2. Down'
  BY DEF Down
<1>3. Reasons'
  BY DEF Reasons, EndsForAReason, Needed
<1> QED
  BY <1>1, <1>2, <1>3 DEF ThreadPart

\* A step from a call without a descriptor to another one.
LEMMA MoveKeeps ==
  ASSUME Inv, NEW t \in Threads, NEW to \in {"accept", "recvfrom"},
         ~Holding(t), pc[t] # "ended",
         pc' = [pc EXCEPT ![t] = to],
         UNCHANGED <<settings, clientVars, connVars, processVars, fds, fd, msg, arg, queueVars,
                     datagrams, udp_addr>>
  PROVE  Inv'
<1> USE DEF Inv, settings, clientVars, connVars, processVars, queueVars
<1>1. server = "up"
  BY ThreadsRun
<1>2. Types'
  BY DEF Types, Calls
<1>3. \A f, m : InHand(f, m) => InHand(f, m)'
  BY DEF InHand
<1>4. \A u \in Threads : Holding(u)' <=> Holding(u)
  BY DEF Holding, Types
<1>5. Crew' = Crew
  BY DEF Crew
<1>6. Holders'
  <2>1. \A u \in Threads : pc'[u] \in {"send", "write"} => pc[u] \in {"send", "write"}
    BY DEF Types
  <2> QED
    BY <1>3, <1>4, <1>5, <2>1 DEF Holders
<1>7. Arguments'
  BY <1>4 DEF Arguments, Types
<1>8. Queued'
  BY <1>3, <1>4 DEF Queued
<1>9. Answered' /\ Connections' /\ Datagram'
  BY ConnFacts DEF Answered, Connections, Datagram, Fresh, Types
<1>10. Strays'
  <2>1. Stray' = Stray
    BY <1>4 DEF Stray
  <2> QED
    BY <2>1 DEF Strays
<1> QED
  BY <1>1, <1>2, <1>6, <1>7, <1>8, <1>9, <1>10, ThreadRest DEF ThreadPart

LEMMA Minimum ==
  ASSUME NEW T, T \subseteq Nat, T # {}
  PROVE  \E i \in T : \A j \in T : i <= j
<1> DEFINE R == OpToRel(<, Nat)
<1>1. IsWellFoundedOn(R, Nat)
  BY NatLessThanWellFounded
<1>2. \A x, y \in Nat : (<<y, x>> \in R) <=> y < x
  BY DEF OpToRel
<1> HIDE DEF R
<1>3. PICK i \in T : \A j \in T : ~(<<j, i>> \in R)
  BY <1>1, WFMin
<1>4. ASSUME NEW j \in T PROVE i <= j
  <2>1. i \in Nat /\ j \in Nat /\ ~(j < i)
    BY <1>2, <1>3
  <2> QED
    BY <2>1
<1> QED
  BY <1>4

\* The descriptor accept takes is a free one.
LEMMA LowestIsFree ==
  ASSUME FreeFds # {}
  PROVE  LowestFree \in Fds /\ fds[LowestFree] = NoConn
<1>1. FreeFds \subseteq Nat
  BY ConnFacts DEF FreeFds, Fds
<1>2. \E f \in FreeFds : \A g \in FreeFds : f <= g
  BY <1>1, Minimum
<1>3. LowestFree \in FreeFds
  BY <1>2 DEF LowestFree
<1> QED
  BY <1>3 DEF FreeFds

LEMMA AcceptKeeps ==
  ASSUME Inv, NEW t \in Threads, NEW next \in {"create", "read"},
         t \in Crew, Accept(t, next), UNCHANGED <<arg, queueVars, multiVars>>
  PROVE  Inv'
<1> USE DEF Inv, Accept, settings, clientVars, connVars, processVars, queueVars, multiVars
<1> DEFINE new == LowestFree
           k == Head(backlog)
<1>1. new \in Fds /\ fds[new] = NoConn
  BY LowestIsFree
<1>2. /\ backlog \in Seq(Conns) /\ backlog # <<>>
      /\ pc[t] = "accept" /\ pc' = [pc EXCEPT ![t] = next]
      /\ fd' = [fd EXCEPT ![t] = new] /\ fds' = [fds EXCEPT ![new] = k]
      /\ backlog' = Tail(backlog)
      /\ UNCHANGED <<settings, clientVars, inbox, outbox, processVars, msg, arg, queueVars,
                     multiVars>>
  BY DEF Goes, Types
<1> HIDE DEF new, Accept
<1>3. server = "up" /\ ~Holding(t)
  BY <1>2, ThreadsRun DEF Holding
<1>4. /\ k \in Conns /\ k # NoConn /\ k = backlog[1]
      /\ Tail(backlog) \in Seq(Conns)
      /\ DOMAIN backlog = 1..Len(backlog) /\ Len(backlog) \in Nat \ {0}
      /\ DOMAIN backlog' = 1..(Len(backlog) - 1)
      /\ \A i \in DOMAIN backlog' : backlog'[i] = backlog[i + 1]
  BY <1>2, ConnFacts, HeadTailProperties, LenProperties, EmptySeq
<1> HIDE DEF k
<1>5. Types'
  BY <1>1, <1>2, <1>4 DEF Types, Calls
<1>6. /\ fds'[new] = k
      /\ \A f \in Fds \ {new} : fds'[f] = fds[f]
      /\ fd'[t] = new /\ pc'[t] = next
      /\ \A u \in Threads \ {t} : fd'[u] = fd[u] /\ pc'[u] = pc[u]
      /\ \A f \in Fds : fds[f] # NoConn => f # new
  BY <1>1, <1>2 DEF Types
<1>7. \A f, m : InHand(f, m) => InHand(f, m)'
  BY <1>2, <1>6 DEF InHand
<1>8. Connections'
  <2>1. \A f \in Fds : fds[f] # k
    BY <1>4 DEF Connections
  <2>2. \A i \in DOMAIN backlog' : backlog'[i] # k /\ \A f \in Fds : backlog'[i] # fds[f]
    BY <1>4 DEF Connections
  <2>3. \A i, j \in DOMAIN backlog' : backlog'[i] = backlog'[j] => i = j
    BY <1>4 DEF Connections
  <2>4. \A x \in Conns : Fresh(x)' => Fresh(x) /\ x # k
    BY <1>2, <1>4 DEF Fresh, Connections
  <2>5. \A x \in Conns : Fresh(x) => \A i \in DOMAIN backlog' : backlog'[i] # x
    BY <1>4 DEF Connections
  <2>6. \A f \in Fds : fds'[f] = k \/ fds'[f] = fds[f]
    BY <1>6
  <2>7. \A f, g \in Fds : fds'[f] = fds'[g] /\ fds'[f] # NoConn => f = g
    BY <1>4, <1>6, <2>1 DEF Connections
  <2> QED
    BY <1>2, <2>2, <2>3, <2>4, <2>5, <2>6, <2>7 DEF Connections
<1>9. \A u \in Threads : Holding(u)' <=> Holding(u) \/ u = t
  BY <1>6 DEF Holding
<1>10. Holders'
  <2>1. Crew' = Crew
    BY <1>2 DEF Crew
  <2>2. \A u \in Threads : Holding(u) => u # t /\ fd[u] # new /\ fd'[u] = fd[u]
    BY <1>3, <1>6 DEF Holders
  <2>3. \A u \in Threads : Holding(u)' => u \in Crew /\ fd'[u] \in Fds /\ fds'[fd'[u]] # NoConn
    BY <1>1, <1>4, <1>6, <1>9, <2>2 DEF Holders
  <2>4. \A u \in Threads : pc'[u] \in {"send", "write"} => InHand(fd[u], msg[u]) /\ fd'[u] = fd[u]
    BY <1>6 DEF Holders
  <2>5. \A u, w \in Threads : Holding(u)' /\ Holding(w)' /\ fd'[u] = fd'[w] => u = w
    BY <1>6, <1>9, <2>2 DEF Holders
  <2> QED
    BY <1>2, <1>7, <2>1, <2>3, <2>4, <2>5 DEF Holders
<1>11. Arguments'
  <2>1. \A x \in Threads : pc'[x] = "start" => pc[x] = "start" /\ arg[x] # new
    BY <1>4, <1>6, ConnFacts DEF Arguments
  <2> QED
    BY <1>2, <1>6, <1>9, <2>1 DEF Arguments
<1>12. Queued'
  <2>1. \A i \in DOMAIN queue : InHand(queue[i].client_fd, queue[i].data) /\ queue[i].client_fd # new
    BY <1>3, <1>6 DEF Queued, InHand
  <2> QED
    BY <1>2, <1>6, <1>7, <1>9, <2>1 DEF Queued
<1>13. Answered' /\ Datagram'
  BY <1>2, ConnFacts DEF Answered, Datagram, Types
<1>14. Strays'
  <2>1. Stray' = Stray
    BY <1>3, <1>6, <1>9 DEF Stray
  <2> QED
    BY <1>2, <2>1 DEF Strays
<1> QED
  BY <1>2, <1>3, <1>5, <1>8, <1>10, <1>11, <1>12, <1>13, <1>14, ThreadRest DEF ThreadPart

LEMMA ReadKeeps ==
  ASSUME Inv, NEW t \in Threads, NEW next \in {"write", "send"},
         Read(t, next), UNCHANGED <<arg, queueVars, multiVars>>
  PROVE  Inv'
<1> USE DEF Inv, settings, clientVars, connVars, processVars, queueVars, multiVars
<1> DEFINE k == fds[fd[t]]
<1>1. /\ fd[t] \in Fds /\ k \in Conns /\ k # NoConn /\ t \in Crew
      /\ pc[t] = "read" /\ Holding(t)
      /\ inbox[k] = "request" /\ outbox[k] = NoText
  BY DEF Read, Goes, ConnOf, Holders, Holding, Types, Answered
<1>2. /\ ConnOf(t) = k
      /\ pc' = [pc EXCEPT ![t] = next] /\ msg' = [msg EXCEPT ![t] = Message(k)]
      /\ inbox' = [inbox EXCEPT ![k] = "read"]
      /\ UNCHANGED <<settings, clientVars, backlog, outbox, processVars, fds, fd, arg, queueVars,
                     multiVars>>
  BY <1>1 DEF Read, Goes, ConnOf
<1>3. server = "up"
  BY <1>1, ThreadsRun
<1> HIDE DEF k
<1>4. Types'
  BY <1>1, <1>2, ConnFacts DEF Types, Calls
<1>5. /\ pc'[t] = next /\ msg'[t] = Message(k) /\ inbox'[k] = "read"
      /\ \A u \in Threads \ {t} : pc'[u] = pc[u] /\ msg'[u] = msg[u]
      /\ \A x \in Conns : inbox[x] # "request" => inbox'[x] = inbox[x]
  BY <1>1, <1>2 DEF Types
<1>6. \A f, m : InHand(f, m) => InHand(f, m)'
  BY <1>2, <1>5 DEF InHand, Types
<1>7. InHand(fd[t], msg[t])'
  BY <1>1, <1>2, <1>5 DEF InHand, k
<1>8. \A u \in Threads : Holding(u)' <=> Holding(u)
  BY <1>1, <1>5 DEF Holding
<1>9. Holders'
  <2>1. Crew' = Crew
    BY <1>2 DEF Crew
  <2>2. ASSUME NEW u \in Threads, pc'[u] \in {"send", "write"} PROVE InHand(fd[u], msg[u])'
    <3>1. CASE u = t
      BY <1>7, <3>1
    <3>2. CASE u # t
      <4>1. InHand(fd[u], msg[u]) /\ fd'[u] = fd[u] /\ msg'[u] = msg[u]
        BY <1>2, <1>5, <2>2, <3>2 DEF Holders
      <4> QED
        BY <1>6, <4>1 DEF InHand
    <3> QED
      BY <3>1, <3>2
  <2> QED
    BY <1>2, <1>8, <2>1, <2>2 DEF Holders
<1>10. Arguments'
  BY <1>1, <1>2, <1>5, <1>8 DEF Arguments
<1>11. Queued'
  BY <1>2, <1>6, <1>8 DEF Queued
<1>12. Datagram'
  BY <1>1, <1>2, <1>5, ConnFacts DEF Datagram
<1>13. Answered' /\ Connections'
  <2>1. \A x \in Conns : Fresh(x)' <=> Fresh(x)
    BY <1>2 DEF Fresh
  <2>2. \A x \in Conns : inbox[x] \in {"read", "empty"} => inbox'[x] = inbox[x]
    BY <1>5
  <2>3. Answered'
    BY <1>2, <2>2 DEF Answered
  <2> QED
    BY <1>2, <2>1, <2>2, <2>3 DEF Connections
<1>14. Strays'
  <2>1. Stray' = Stray
    BY <1>2, <1>8 DEF Stray
  <2> QED
    BY <1>2, <2>1 DEF Strays
<1>15. \A x \in Conns : inbox[x] \in {"empty", "short"} => inbox'[x] = inbox[x]
  BY <1>5
<1> QED
  BY <1>2, <1>3, <1>4, <1>9, <1>10, <1>11, <1>12, <1>13, <1>14, <1>15, ThreadRest DEF ThreadPart

LEMMA WriteKeeps ==
  ASSUME Inv, NEW t \in Threads, Write(t, "close"), UNCHANGED <<arg, queueVars, multiVars>>
  PROVE  Inv'
<1> USE DEF Inv, settings, clientVars, connVars, processVars, queueVars, multiVars
<1> DEFINE k == fds[fd[t]]
<1>1. /\ fd[t] \in Fds /\ k \in Conns /\ k # NoConn /\ t \in Crew
      /\ pc[t] = "write" /\ Holding(t)
      /\ InHand(fd[t], msg[t])
  BY DEF Write, Goes, ConnOf, Holders, Holding, Types
<1>2. /\ pc' = [pc EXCEPT ![t] = "close"]
      /\ outbox' = [outbox EXCEPT ![k] = toupper(Message(k))]
      /\ UNCHANGED <<settings, clientVars, backlog, inbox, processVars, fds, fd, msg, arg, queueVars,
                     multiVars>>
  BY <1>1 DEF Write, Goes, ConnOf, InHand
<1>3. server = "up"
  BY <1>1, ThreadsRun
<1>4. inbox[k] = "read"
  BY <1>1 DEF InHand
<1>5. \A f, m : f # fd[t] /\ InHand(f, m) => InHand(f, m)'
  <2>1. \A f \in Fds : f # fd[t] => fds[f] # k
    BY <1>1 DEF Connections
  <2> QED
    BY <1>1, <1>2, <2>1 DEF InHand, Types
<1> HIDE DEF k
<1>6. Types'
  BY <1>1, <1>2, ConnFacts DEF Types, Calls
<1>7. /\ pc'[t] = "close"
      /\ \A u \in Threads \ {t} : pc'[u] = pc[u]
      /\ outbox'[k] = toupper(Message(k))
      /\ \A x \in Conns \ {k} : outbox'[x] = outbox[x]
  BY <1>1, <1>2 DEF Types
<1>8. \A u \in Threads : Holding(u)' <=> Holding(u)
  BY <1>1, <1>7 DEF Holding
<1>9. Holders'
  <2>1. Crew' = Crew
    BY <1>2 DEF Crew
  <2>2. ASSUME NEW u \in Threads, pc'[u] \in {"send", "write"} PROVE InHand(fd[u], msg[u])'
    <3>1. u # t /\ pc[u] \in {"send", "write"}
      BY <1>7, <2>2
    <3>2. fd[u] # fd[t] /\ InHand(fd[u], msg[u])
      BY <1>1, <3>1 DEF Holders, Holding
    <3> QED
      BY <1>2, <1>5, <3>2 DEF InHand
  <2> QED
    BY <1>2, <1>8, <2>1, <2>2 DEF Holders, InHand
<1>10. Arguments'
  BY <1>1, <1>2, <1>7, <1>8 DEF Arguments
<1>11. Queued'
  BY <1>1, <1>2, <1>3, <1>5, <1>8 DEF Queued
<1>12. Datagram'
  <2>1. pc'[Main] # "sendto"
    BY <1>1, <1>7, ConnFacts DEF Datagram, Crew
  <2> QED
    BY <2>1 DEF Datagram
<1>13. Answered' /\ Connections'
  <2>1. \A x \in Conns : Fresh(x)' <=> Fresh(x)
    BY <1>2 DEF Fresh
  <2>2. Answered'
    BY <1>2, <1>4, <1>7 DEF Answered
  <2> QED
    BY <1>2, <2>1, <2>2 DEF Connections
<1>14. Strays'
  <2>1. Stray' = Stray
    BY <1>2, <1>8 DEF Stray
  <2> QED
    BY <1>2, <2>1 DEF Strays
<1> QED
  BY <1>2, <1>3, <1>6, <1>9, <1>10, <1>11, <1>12, <1>13, <1>14, ThreadRest DEF ThreadPart

LEMMA CloseKeeps ==
  ASSUME Inv, NEW t \in Threads, NEW next \in {"ended", "lock", "receive", "select", "recvfrom"},
         Close(t, next), UNCHANGED <<arg, queueVars, multiVars>>
  PROVE  Inv'
<1> USE DEF Inv, settings, clientVars, connVars, processVars, queueVars, multiVars
<1> DEFINE f == fd[t]
<1>1. /\ f \in Fds /\ t \in Crew /\ pc[t] = "close" /\ Holding(t)
      /\ pc' = [pc EXCEPT ![t] = next] /\ fds' = [fds EXCEPT ![f] = NoConn]
      /\ UNCHANGED <<settings, clientVars, connVars, processVars, fd, msg, arg, queueVars,
                     multiVars>>
  BY DEF Close, Goes, Holders, Holding
<1> HIDE DEF f
<1>2. server = "up"
  BY <1>1, ThreadsRun
<1>3. Types'
  BY <1>1 DEF Types, Calls
<1>4. /\ fds'[f] = NoConn /\ \A g \in Fds \ {f} : fds'[g] = fds[g]
      /\ pc'[t] = next /\ \A u \in Threads \ {t} : pc'[u] = pc[u]
  BY <1>1 DEF Types
<1>5. \A g, m : g # f /\ InHand(g, m) => InHand(g, m)'
  BY <1>1, <1>4 DEF InHand
<1>6. \A u \in Threads : Holding(u)' <=> Holding(u) /\ u # t
  BY <1>1, <1>4 DEF Holding
<1>7. \A u \in Threads : Holding(u) /\ u # t => fd[u] # f
  BY <1>1 DEF Holders, f
<1>8. Holders'
  <2>1. Crew' = Crew
    BY <1>1 DEF Crew
  <2>2. ASSUME NEW u \in Threads, pc'[u] \in {"send", "write"} PROVE InHand(fd[u], msg[u])'
    <3>1. u # t /\ pc[u] \in {"send", "write"} /\ Holding(u)
      BY <1>4, <2>2 DEF Holding
    <3>2. fd[u] # f /\ InHand(fd[u], msg[u])
      BY <1>7, <3>1 DEF Holders
    <3> QED
      BY <1>1, <1>5, <3>2 DEF InHand
  <2>3. ASSUME NEW u \in Threads, Holding(u)' PROVE u \in Crew /\ fd[u] \in Fds /\ fds'[fd[u]] # NoConn
    BY <1>4, <1>6, <1>7, <2>3 DEF Holders
  <2>4. \A u, w \in Threads : Holding(u)' /\ Holding(w)' /\ fd[u] = fd[w] => u = w
    BY <1>6 DEF Holders
  <2> QED
    BY <1>1, <2>1, <2>2, <2>3, <2>4 DEF Holders
<1>9. Arguments'
  <2>1. ASSUME NEW x \in Threads, pc'[x] = "start"
        PROVE  pc[x] = "start" /\ arg[x] # f
    <3>1. pc[x] = "start"
      BY <1>4, <2>1
    <3>2. arg[x] # fd[t]
      BY <1>1, <3>1 DEF Arguments
    <3> QED
      BY <3>1, <3>2 DEF f
  <2> QED
    BY <1>1, <1>4, <1>6, <2>1 DEF Arguments
<1>10. Queued'
  <2>1. \A i \in DOMAIN queue : queue[i].client_fd # f
    BY <1>1, <1>2 DEF Queued, f
  <2> QED
    BY <1>1, <1>2, <1>5, <1>6, <2>1 DEF Queued
<1>11. Answered' /\ Datagram'
  BY <1>1, <1>4, ConnFacts DEF Answered, Datagram
<1>12. Connections'
  <2>1. \A x \in Conns : Fresh(x)' <=> Fresh(x)
    BY <1>1 DEF Fresh
  <2>2. \A g \in Fds : fds'[g] = NoConn \/ (g # f /\ fds'[g] = fds[g])
    BY <1>4
  <2>3. \A i \in DOMAIN backlog : backlog[i] # NoConn
    BY ConnFacts, LenProperties DEF Types
  <2> QED
    BY <1>1, <2>1, <2>2, <2>3, ConnFacts DEF Connections
<1>13. Strays'
  <2>1. Stray' = Stray
    <3>1. \A g \in Fds : g # f =>
            ((\A u \in Threads : Holding(u)' => fd[u] # g) <=> (\A u \in Threads : Holding(u) => fd[u] # g))
      BY <1>6 DEF f
    <3>2. f \notin Stray /\ f \notin Stray'
      BY <1>1, <1>4 DEF Stray, f
    <3>3. \A g : g # f => (g \in Stray' <=> g \in Stray)
      BY <1>1, <1>4, <3>1 DEF Stray
    <3> QED
      BY <3>2, <3>3
  <2> QED
    BY <1>1, <2>1 DEF Strays
<1> QED
  BY <1>1, <1>2, <1>3, <1>8, <1>9, <1>10, <1>11, <1>12, <1>13, ThreadRest DEF ThreadPart

\* The descriptor goes from the main thread into the argument of the new thread.
LEMMA CreateKeeps ==
  ASSUME Inv, design = "simple", pthread_create, UNCHANGED <<queueVars, multiVars>>
  PROVE  Inv'
<1> USE DEF Inv, settings, clientVars, connVars, processVars, queueVars, multiVars
<1> DEFINE f == fd[Main]
           k == fds[fd[Main]]
<1>1. /\ Main \in Threads /\ Main \notin Conns
      /\ pc[Main] = "create" /\ Holding(Main)
  BY ConnFacts DEF pthread_create, Holding
<1>2. f \in Fds /\ k \in Conns /\ k # NoConn /\ k \in Threads /\ k # Main
  BY <1>1, ConnFacts DEF Holders, Types
<1>3. /\ pc' = [pc EXCEPT ![Main] = "accept", ![k] = "start"]
      /\ arg' = [arg EXCEPT ![k] = f]
      /\ UNCHANGED <<settings, clientVars, connVars, processVars, fds, fd, msg, queueVars, multiVars>>
  BY <1>2 DEF pthread_create, ConnOf
<1>4. server = "up"
  BY <1>1, ThreadsRun
<1>5. /\ \A t \in Threads : Holding(t) /\ t # Main => fd[t] # f
      /\ \A x \in Threads : pc[x] = "start" => arg[x] # f
  BY <1>1 DEF Holders, Arguments
<1>6. fds[f] = k
  OBVIOUS
<1> HIDE DEF f, k
<1>7. Types'
  BY <1>2, <1>3 DEF Types, Calls
<1>8. /\ pc'[Main] = "accept" /\ pc'[k] = "start" /\ arg'[k] = f
      /\ \A u \in Threads \ {Main, k} : pc'[u] = pc[u]
      /\ \A u \in Threads \ {k} : arg'[u] = arg[u]
  BY <1>1, <1>2, <1>3 DEF Types
<1>9. \A u \in Threads : Holding(u)' => Holding(u) /\ u # Main
  BY <1>8 DEF Holding
<1>10. \A g, m : InHand(g, m) => InHand(g, m)'
  BY <1>3 DEF InHand
<1>11. Holders'
  <2>1. Crew' = Crew
    BY <1>3 DEF Crew
  <2>2. ASSUME NEW u \in Threads, pc'[u] \in {"send", "write"} PROVE InHand(fd[u], msg[u])'
    <3>1. pc'[u] = pc[u]
      BY <1>8, <2>2
    <3>2. InHand(fd[u], msg[u])
      BY <2>2, <3>1 DEF Holders
    <3> QED
      BY <1>3, <3>2 DEF InHand
  <2> QED
    BY <1>3, <1>9, <2>1, <2>2 DEF Holders
<1>12. Arguments'
  <2>1. ASSUME NEW x \in Threads, pc'[x] = "start"
        PROVE  /\ x \in Conns /\ arg'[x] \in Fds /\ fds[arg'[x]] = x
               /\ \A t \in Threads : Holding(t)' => fd[t] # arg'[x]
    <3>1. CASE x = k
      BY <1>2, <1>5, <1>6, <1>8, <1>9, <3>1
    <3>2. CASE x # k
      BY <1>8, <1>9, <2>1, <3>2 DEF Arguments
    <3> QED
      BY <3>1, <3>2
  <2> QED
    BY <1>3, <2>1 DEF Arguments
<1>13. Queued'
  BY <1>3, <1>9, <1>10 DEF Queued
<1>14. Answered' /\ Connections' /\ Datagram'
  BY <1>3, <1>8 DEF Answered, Connections, Fresh, Datagram
<1>15. Strays'
  BY <1>3 DEF Strays
<1> QED
  BY <1>3, <1>4, <1>7, <1>11, <1>12, <1>13, <1>14, <1>15, ThreadRest DEF ThreadPart

LEMMA TakeKeeps ==
  ASSUME Inv, design = "simple", NEW k \in Conns, TakeArgument(k),
         UNCHANGED <<queueVars, multiVars>>
  PROVE  Inv'
<1> USE DEF Inv, settings, clientVars, connVars, processVars, queueVars, multiVars
<1> DEFINE f == arg[k]
<1>1. /\ k \in Threads /\ pc[k] = "start" /\ ~Holding(k)
      /\ pc' = [pc EXCEPT ![k] = "read"] /\ fd' = [fd EXCEPT ![k] = f]
      /\ UNCHANGED <<settings, clientVars, connVars, processVars, fds, msg, arg, queueVars, multiVars>>
  BY ConnFacts DEF TakeArgument, Goes, Holding
<1>2. /\ f \in Fds /\ fds[f] = k /\ k # NoConn
      /\ \A t \in Threads : Holding(t) => fd[t] # f
  BY <1>1, ConnFacts DEF Arguments
<1>3. server = "up"
  BY <1>1, ThreadsRun
<1> HIDE DEF f
<1>4. Types'
  BY <1>1, <1>2 DEF Types, Calls
<1>5. /\ pc'[k] = "read" /\ fd'[k] = f
      /\ \A u \in Threads \ {k} : pc'[u] = pc[u] /\ fd'[u] = fd[u]
  BY <1>1 DEF Types
<1>6. \A u \in Threads : Holding(u)' <=> Holding(u) \/ u = k
  BY <1>5 DEF Holding
<1>7. \A g, m : InHand(g, m) => InHand(g, m)'
  BY <1>1 DEF InHand
<1>8. queue = <<>>
  BY <1>1 DEF Queued
<1>9. Holders'
  <2>1. Crew' = Threads
    BY <1>1 DEF Crew
  <2>2. ASSUME NEW u \in Threads, pc'[u] \in {"send", "write"} PROVE InHand(fd[u], msg[u])'
    <3>1. u # k /\ InHand(fd[u], msg[u])
      BY <1>5, <2>2 DEF Holders
    <3> QED
      BY <1>1, <1>5, <3>1 DEF InHand
  <2>3. \A u \in Threads : Holding(u)' => fd'[u] \in Fds /\ fds[fd'[u]] # NoConn
    BY <1>2, <1>5, <1>6 DEF Holders
  <2>4. \A u, w \in Threads : Holding(u)' /\ Holding(w)' /\ fd'[u] = fd'[w] => u = w
    BY <1>2, <1>5, <1>6 DEF Holders
  <2> QED
    BY <1>1, <2>1, <2>2, <2>3, <2>4 DEF Holders
<1>10. Arguments'
  <2>1. ASSUME NEW x \in Threads, pc'[x] = "start"
        PROVE  /\ x \in Conns /\ arg[x] \in Fds /\ fds[arg[x]] = x
               /\ \A t \in Threads : Holding(t)' => fd'[t] # arg[x]
    <3>1. x # k /\ pc[x] = "start"
      BY <1>5, <2>1
    <3>2. arg[x] # f
      BY <1>2, <3>1 DEF Arguments
    <3> QED
      BY <1>5, <1>6, <3>1, <3>2 DEF Arguments
  <2> QED
    BY <1>1, <2>1 DEF Arguments
<1>11. Queued'
  BY <1>1, <1>8, ConnFacts DEF Queued
<1>12. Answered' /\ Connections' /\ Datagram'
  BY <1>1, <1>5, ConnFacts DEF Answered, Connections, Fresh, Datagram
<1>13. Strays'
  BY <1>1 DEF Strays
<1> QED
  BY <1>1, <1>3, <1>4, <1>9, <1>10, <1>11, <1>12, <1>13, ThreadRest DEF ThreadPart

LEMMA ServerRecvfromKeeps ==
  ASSUME Inv, design = "multi_prot", ServerRecvfrom, UNCHANGED <<arg, queueVars>>
  PROVE  Inv'
<1> USE DEF Inv, settings, clientVars, connVars, processVars, queueVars
<1> DEFINE k == <<Head(datagrams), 1>>
<1>1. /\ k \in Conns /\ Tail(datagrams) \in Seq(Clients)
      /\ Main \in Threads /\ pc[Main] = "recvfrom" /\ ~Holding(Main)
  <2>1. datagrams \in Seq(Clients) /\ datagrams # <<>>
    BY DEF Types, ServerRecvfrom
  <2>2. Head(datagrams) \in Clients /\ Tail(datagrams) \in Seq(Clients) /\ 1 \in 1..N_REQS
    BY <2>1, HeadTailProperties, ConnFacts
  <2> QED
    BY <2>2, ConnFacts DEF ServerRecvfrom, Goes, Holding
<1>2. /\ pc' = [pc EXCEPT ![Main] = "sendto"] /\ msg' = [msg EXCEPT ![Main] = Message(k)]
      /\ udp_addr' = k /\ datagrams' = Tail(datagrams)
      /\ inbox[k] = "request" /\ inbox' = [inbox EXCEPT ![k] = "read"]
      /\ UNCHANGED <<settings, clientVars, backlog, outbox, processVars, fds, fd, arg, queueVars>>
  BY DEF ServerRecvfrom, Goes
<1>3. server = "up"
  BY <1>1, ThreadsRun
<1>4. outbox[k] = NoText
  BY <1>1, <1>2 DEF Answered
<1> HIDE DEF k
<1>5. Types'
  BY <1>1, <1>2, ConnFacts DEF Types, Calls
<1>6. /\ pc'[Main] = "sendto" /\ msg'[Main] = Message(k) /\ inbox'[k] = "read"
      /\ \A u \in Threads \ {Main} : pc'[u] = pc[u] /\ msg'[u] = msg[u]
      /\ \A x \in Conns : inbox[x] # "request" => inbox'[x] = inbox[x]
  BY <1>1, <1>2 DEF Types
<1>7. \A f, m : InHand(f, m) => InHand(f, m)'
  BY <1>2, <1>6 DEF InHand, Types
<1>8. \A u \in Threads : Holding(u)' <=> Holding(u)
  BY <1>1, <1>6 DEF Holding
<1>9. Holders'
  <2>1. Crew' = Crew
    BY <1>2 DEF Crew
  <2>2. ASSUME NEW u \in Threads, pc'[u] \in {"send", "write"} PROVE InHand(fd[u], msg[u])'
    <3>1. u # Main
      BY <1>6, <2>2
    <3>2. InHand(fd[u], msg[u]) /\ fd'[u] = fd[u] /\ msg'[u] = msg[u]
      BY <1>2, <1>6, <2>2, <3>1 DEF Holders
    <3> QED
      BY <1>7, <3>2 DEF InHand
  <2> QED
    BY <1>2, <1>8, <2>1, <2>2 DEF Holders
<1>10. Arguments'
  BY <1>1, <1>2, <1>6, <1>8 DEF Arguments
<1>11. Queued'
  BY <1>2, <1>7, <1>8 DEF Queued
<1>12. Datagram'
  BY <1>1, <1>2, <1>4, <1>6 DEF Datagram
<1>13. Answered' /\ Connections'
  <2>1. \A x \in Conns : Fresh(x)' <=> Fresh(x)
    BY <1>2 DEF Fresh
  <2>2. \A x \in Conns : inbox[x] \in {"read", "empty"} => inbox'[x] = inbox[x]
    BY <1>6
  <2>3. Answered'
    BY <1>2, <2>2 DEF Answered
  <2> QED
    BY <1>2, <2>1, <2>2, <2>3 DEF Connections
<1>14. Strays'
  <2>1. Stray' = Stray
    BY <1>2, <1>8 DEF Stray
  <2> QED
    BY <1>2, <2>1 DEF Strays
<1>15. \A x \in Conns : inbox[x] \in {"empty", "short"} => inbox'[x] = inbox[x]
  BY <1>6
<1> QED
  BY <1>2, <1>3, <1>5, <1>9, <1>10, <1>11, <1>12, <1>13, <1>14, <1>15, ThreadRest DEF ThreadPart

LEMMA ServerSendtoKeeps ==
  ASSUME Inv, design = "multi_prot", ServerSendto, UNCHANGED <<arg, queueVars>>
  PROVE  Inv'
<1> USE DEF Inv, settings, clientVars, connVars, processVars, queueVars, multiVars
<1> DEFINE k == udp_addr
<1>1. /\ Main \in Threads /\ pc[Main] = "sendto" /\ ~Holding(Main)
      /\ k \in Conns /\ msg[Main] = Message(k) /\ inbox[k] = "read"
  BY ConnFacts DEF ServerSendto, Goes, Datagram, Holding
<1>2. /\ pc' = [pc EXCEPT ![Main] = "select"]
      /\ outbox' \in {outbox, [outbox EXCEPT ![k] = toupper(Message(k))]}
      /\ UNCHANGED <<settings, clientVars, backlog, inbox, processVars, fds, fd, msg, arg, queueVars,
                     multiVars>>
  BY <1>1 DEF ServerSendto, Goes
<1>3. server = "up"
  BY <1>1, ThreadsRun
<1>4. queue = <<>> /\ \A t \in Threads : ~Holding(t)
  BY <1>1 DEF Queued, Holders, Crew
<1> HIDE DEF k
<1>5. Types'
  BY <1>1, <1>2, ConnFacts DEF Types, Calls
<1>6. /\ pc'[Main] = "select"
      /\ \A u \in Threads \ {Main} : pc'[u] = pc[u]
      /\ \A x \in Conns : outbox'[x] = outbox[x] \/ (x = k /\ outbox'[x] = toupper(Message(k)))
  BY <1>1, <1>2 DEF Types
<1>7. \A u \in Threads : ~Holding(u)'
  BY <1>4, <1>6 DEF Holding
<1>8. Holders'
  BY <1>7 DEF Holders, Holding
<1>9. Arguments'
  BY <1>1, <1>2, <1>6, <1>7 DEF Arguments
<1>10. Queued'
  BY <1>2, <1>4, ConnFacts DEF Queued
<1>11. Datagram'
  BY <1>6 DEF Datagram
<1>12. Answered' /\ Connections'
  <2>1. \A x \in Conns : Fresh(x)' <=> Fresh(x)
    BY <1>2 DEF Fresh
  <2>2. Answered'
    BY <1>1, <1>2, <1>6 DEF Answered
  <2> QED
    BY <1>2, <2>1, <2>2 DEF Connections
<1>13. Strays'
  <2>1. Stray' = Stray
    BY <1>2, <1>4, <1>7 DEF Stray
  <2> QED
    BY <1>2, <2>1 DEF Strays
<1> QED
  BY <1>2, <1>3, <1>5, <1>8, <1>9, <1>10, <1>11, <1>12, <1>13, ThreadRest DEF ThreadPart

-----------------------------------------------------------------------------
(* Counting descriptors.                                                   *)

LEMMA OneToOne ==
  ASSUME NEW S, NEW T, IsFiniteSet(S), IsFiniteSet(T), NEW f \in [S -> T],
         \A x, y \in S : f[x] = f[y] => x = y
  PROVE  Cardinality(S) <= Cardinality(T)
<1>1. Cardinality(S) \in Nat /\ Cardinality(T) \in Nat
  BY FS_CardinalityType
<1>2. ~(Cardinality(T) < Cardinality(S))
  BY FS_PigeonHole
<1> QED
  BY <1>1, <1>2

LEMMA Sizes ==
  /\ IsFiniteSet(Fds) /\ Cardinality(Fds) = MaxFds
  /\ IsFiniteSet(Stray) /\ Cardinality(Stray) \in Nat
  /\ IsFiniteSet(Workers) /\ Cardinality(Workers) \in Nat
  /\ IsFiniteSet({Main} \cup Workers) /\ Cardinality({Main} \cup Workers) = Cardinality(Workers) + 1
  /\ IsFiniteSet(Conns) /\ Cardinality(Conns) \in Nat
<1>1. IsFiniteSet(Fds) /\ Cardinality(Fds) = MaxFds
  BY ConnFacts, FS_Interval DEF Fds
<1>2. IsFiniteSet(Stray) /\ Cardinality(Stray) \in Nat
  <2>1. Stray \subseteq Fds
    BY DEF Stray
  <2> QED
    BY <1>1, <2>1, FS_Subset, FS_CardinalityType
<1>3. IsFiniteSet(Workers) /\ Cardinality(Workers) \in Nat
  BY EchoAssumption, FS_CardinalityType
<1>4. /\ IsFiniteSet({Main} \cup Workers)
      /\ Cardinality({Main} \cup Workers) = Cardinality(Workers) + 1
  <2>1. {Main} \cup Workers = Workers \cup {Main}
    OBVIOUS
  <2> QED
    BY <1>3, <2>1, FS_AddElement, ConnFacts
<1>5. IsFiniteSet(Conns) /\ Cardinality(Conns) \in Nat
  <2>1. N_REQS \in Int /\ 1 \in Int
    BY ConnFacts
  <2>2. IsFiniteSet(1..N_REQS)
    BY <2>1, FS_Interval
  <2>3. IsFiniteSet(Clients)
    BY EchoAssumption
  <2> QED
    BY <2>2, <2>3, FS_Product, FS_CardinalityType DEF Conns
<1> QED
  BY <1>1, <1>2, <1>3, <1>4, <1>5

\* The strays that are in the queue are not more than it holds.
LEMMA QueuedStrays ==
  ASSUME NEW S, IsFiniteSet(S), NEW q, NEW n \in Nat, n <= QueueCap,
         \A f \in S : \E i \in 1..n : q[i].client_fd = f
  PROVE  Cardinality(S) <= QueueCap
<1> DEFINE at == [f \in S |-> CHOOSE i \in 1..n : q[i].client_fd = f]
<1>1. \A f \in S : at[f] \in 1..n /\ q[at[f]].client_fd = f
  OBVIOUS
<1>2. at \in [S -> 1..n] /\ \A f, g \in S : at[f] = at[g] => f = g
  BY <1>1
<1>3. IsFiniteSet(1..n) /\ Cardinality(1..n) = n
  BY FS_Interval
<1> HIDE DEF at
<1>4. Cardinality(S) <= n /\ Cardinality(S) \in Nat
  BY <1>2, <1>3, OneToOne, FS_CardinalityType
<1> QED
  BY <1>4, ConnFacts

\* The descriptors that the threads hold are fewer than the threads if one has none.
LEMMA HeldByOthers ==
  ASSUME Inv, NEW C, C = Crew, IsFiniteSet(C), \A f \in Fds : fds[f] # NoConn,
         NEW t \in C, ~Holding(t)
  PROVE  Cardinality(Fds \ Stray) \in Nat /\ Cardinality(Fds \ Stray) <= Cardinality(C) - 1
<1> DEFINE held == Fds \ Stray
           at == [f \in held |-> CHOOSE u \in Threads : Holding(u) /\ fd[u] = f]
<1>1. \A f \in held : \E u \in Threads : Holding(u) /\ fd[u] = f
  BY DEF Stray
<1>2. \A f \in held : at[f] \in Threads /\ Holding(at[f]) /\ fd[at[f]] = f
  BY <1>1
<1>3. \A f \in held : at[f] \in C \ {t}
  BY <1>2 DEF Inv, Holders
<1>4. at \in [held -> C \ {t}] /\ \A f, g \in held : at[f] = at[g] => f = g
  BY <1>2, <1>3
<1>5. IsFiniteSet(held) /\ Cardinality(held) \in Nat
  <2>1. held \subseteq Fds
    OBVIOUS
  <2> QED
    BY <2>1, Sizes, FS_Subset, FS_CardinalityType
<1>6. IsFiniteSet(C \ {t}) /\ Cardinality(C \ {t}) = Cardinality(C) - 1
  BY FS_RemoveElement
<1> HIDE DEF at, held
<1>7. Cardinality(held) <= Cardinality(C \ {t})
  BY <1>4, <1>5, <1>6, OneToOne
<1> QED
  BY <1>5, <1>6, <1>7 DEF held

\* accept finds no descriptor only if there are too few for the design.
LEMMA TooFewDescriptors ==
  ASSUME Inv, NEW t \in Crew, t \in Threads, pc[t] = "accept",
         backlog # <<>>, FreeFds = {}
  PROVE  MaxFds < Needed
<1>1. ~Holding(t) /\ \A f \in Fds : fds[f] # NoConn
  BY DEF Holding, FreeFds
<1>2. /\ IsFiniteSet(Fds) /\ Cardinality(Fds) = MaxFds /\ MaxFds \in Nat /\ QueueCap \in Nat
      /\ Cardinality(Workers) \in Nat /\ Cardinality(Conns) \in Nat
  BY Sizes, ConnFacts
<1>3. CASE design = "simple"
  <2> DEFINE k == Head(backlog)
  <2>1. k \in Conns /\ k = backlog[1] /\ 1 \in DOMAIN backlog
    BY HeadTailProperties, LenProperties, EmptySeq DEF Inv, Types
  <2>2. /\ fds \in [Fds -> Conns \ {k}]
        /\ \A f, g \in Fds : fds[f] = fds[g] => f = g
    BY <1>1, <2>1 DEF Inv, Types, Connections
  <2> HIDE DEF k
  <2>3. IsFiniteSet(Conns \ {k}) /\ Cardinality(Conns \ {k}) = Cardinality(Conns) - 1
    BY <2>1, Sizes, FS_RemoveElement
  <2>4. Cardinality(Fds) <= Cardinality(Conns \ {k})
    BY <1>2, <2>2, <2>3, OneToOne
  <2>5. Needed = Cardinality(Conns)
    BY <1>3 DEF Needed
  <2> QED
    BY <1>2, <2>3, <2>4, <2>5
<1>4. CASE design = "pool"
  <2>1. Workers = Crew /\ Needed = Cardinality(Workers)
    BY <1>4 DEF Crew, Needed
  <2>2. Fds \ Stray = Fds
    BY <1>4 DEF Inv, Strays
  <2>3. Cardinality(Fds \ Stray) <= Cardinality(Workers) - 1
    BY <1>1, <2>1, HeldByOthers, Sizes
  <2>4. MaxFds <= Cardinality(Workers) - 1
    BY <1>2, <2>2, <2>3
  <2>5. MaxFds < Cardinality(Workers)
    BY <1>2, <2>4
  <2> QED
    BY <2>1, <2>5
<1>5. CASE design = "multi_prot"
  <2>1. {Main} = Crew /\ Needed = 1
    BY <1>5 DEF Crew, Needed
  <2>2. Fds \ Stray = Fds
    BY <1>5 DEF Inv, Strays
  <2>3. IsFiniteSet({Main}) /\ Cardinality({Main}) = 1
    BY FS_Singleton
  <2>4. Cardinality(Fds \ Stray) <= Cardinality({Main}) - 1
    BY <1>1, <2>1, <2>3, HeldByOthers
  <2>5. MaxFds <= 1 - 1
    BY <1>2, <2>2, <2>3, <2>4
  <2>6. MaxFds < 1
    BY <1>2, <2>5
  <2> QED
    BY <2>1, <2>6
<1>6. CASE design = "producer_consumer"
  <2>1. {Main} \cup Workers = Crew /\ Needed = 1 + QueueCap + Cardinality(Workers)
    BY <1>6 DEF Crew, Needed
  <2>2. Cardinality(Stray) <= QueueCap /\ Cardinality(Stray) \in Nat
    BY <1>6, Sizes DEF Inv, Strays
  <2>3. /\ Cardinality(Fds \ Stray) \in Nat
        /\ Cardinality(Fds \ Stray) <= Cardinality({Main} \cup Workers) - 1
    BY <1>1, <2>1, HeldByOthers, Sizes
  <2>4. Cardinality(Fds \ Stray) = Cardinality(Fds) - Cardinality(Fds \cap Stray)
    BY <1>2, Sizes, FS_Difference
  <2>5. Fds \cap Stray = Stray
    BY DEF Stray
  <2>6. Cardinality({Main} \cup Workers) = Cardinality(Workers) + 1
    BY Sizes
  <2>7. Cardinality(Fds \ Stray) = MaxFds - Cardinality(Stray)
    BY <1>2, <2>4, <2>5
  <2>8. MaxFds - Cardinality(Stray) <= Cardinality(Workers)
    BY <1>2, <2>2, <2>3, <2>6, <2>7
  <2>9. MaxFds < 1 + QueueCap + Cardinality(Workers)
    BY <1>2, <2>2, <2>8
  <2> QED
    BY <2>1, <2>9
<1> QED
  BY <1>3, <1>4, <1>5, <1>6 DEF Inv, Types, Designs

-----------------------------------------------------------------------------
(* The queue.                                                              *)

\* If every stray descriptor is in the queue, there are not too many.
LEMMA StraysFit ==
  ASSUME Types', Queued', \A f \in Stray' : \E i \in DOMAIN queue' : queue'[i].client_fd = f,
         design' = "producer_consumer"
  PROVE  Strays'
<1>1. Stray' \subseteq Fds
  BY DEF Stray
<1>2. IsFiniteSet(Stray')
  BY <1>1, Sizes, FS_Subset
<1>3. Len(queue') \in Nat /\ DOMAIN queue' = 1..Len(queue') /\ Len(queue') <= QueueCap
  BY LenProperties DEF Types, Queued
<1>4. Cardinality(Stray') <= QueueCap
  BY <1>2, <1>3, QueuedStrays
<1> QED
  BY <1>4 DEF Strays

LEMMA SendKeeps ==
  ASSUME Inv, design = "producer_consumer", msgsnd, UNCHANGED <<arg, multiVars>>
  PROVE  Inv'
<1> USE DEF Inv, settings, clientVars, connVars, processVars, multiVars
<1> DEFINE f == fd[Main]
           entry == [client_fd |-> f, data |-> msg[Main]]
<1>1. /\ Main \in Threads /\ pc[Main] = "send" /\ Holding(Main)
      /\ pc' = [pc EXCEPT ![Main] = "accept"]
      /\ queue_id # NoQueue /\ Len(queue) < QueueCap
      /\ queue' = Append(queue, entry)
      /\ UNCHANGED <<settings, clientVars, connVars, processVars, fds, fd, msg, queue_id, arg,
                     multiVars>>
  BY ConnFacts DEF msgsnd, Goes, Holding
<1>2. server = "up"
  BY <1>1, ThreadsRun
<1>3. /\ InHand(f, msg[Main]) /\ f \in Fds
      /\ \A u \in Threads : Holding(u) /\ u # Main => fd[u] # f
      /\ \A i \in DOMAIN queue : queue[i].client_fd # f
  BY <1>1, <1>2 DEF Holders, Queued
<1>4. /\ entry \in [client_fd : Fds \cup {0}, data : Texts \cup {NoText}]
      /\ entry.client_fd = f /\ entry.data = msg[Main]
  BY <1>1, <1>3 DEF Types
<1> HIDE DEF entry
<1>5. /\ queue' \in Seq([client_fd : Fds \cup {0}, data : Texts \cup {NoText}])
      /\ Len(queue) \in Nat /\ Len(queue') = Len(queue) + 1
      /\ DOMAIN queue = 1..Len(queue) /\ DOMAIN queue' = 1..(Len(queue) + 1)
      /\ queue'[Len(queue) + 1] = entry
      /\ \A i \in DOMAIN queue : queue'[i] = queue[i]
  BY <1>1, <1>4, AppendProperties, LenProperties DEF Types
<1>6. Types'
  BY <1>1, <1>5 DEF Types, Calls
<1>7. /\ pc'[Main] = "accept" /\ \A u \in Threads \ {Main} : pc'[u] = pc[u]
  BY <1>1 DEF Types
<1>8. \A g, m : InHand(g, m) => InHand(g, m)'
  BY <1>1 DEF InHand
<1>9. \A u \in Threads : Holding(u)' <=> Holding(u) /\ u # Main
  BY <1>7 DEF Holding
<1>10. Holders'
  <2>1. Crew' = Crew
    BY <1>1 DEF Crew
  <2>2. ASSUME NEW u \in Threads, pc'[u] \in {"send", "write"} PROVE InHand(fd[u], msg[u])'
    <3>1. InHand(fd[u], msg[u])
      BY <1>7, <2>2 DEF Holders
    <3> QED
      BY <1>1, <3>1 DEF InHand
  <2> QED
    BY <1>1, <1>9, <2>1, <2>2 DEF Holders
<1>11. Arguments'
  BY <1>1, <1>7 DEF Arguments
<1> HIDE DEF f
<1>12. Queued'
  <2>1. \A i \in DOMAIN queue' : i \in DOMAIN queue \/ queue'[i] = entry
    BY <1>5
  <2>2. ASSUME NEW i \in DOMAIN queue' PROVE InHand(queue[i].client_fd, queue[i].data)'
    <3>1. InHand(queue'[i].client_fd, queue'[i].data)
      BY <1>2, <1>3, <1>4, <1>5, <2>1 DEF Queued
    <3> QED
      BY <1>1, <3>1 DEF InHand
  <2>3. ASSUME NEW i \in DOMAIN queue', NEW j \in DOMAIN queue',
               queue'[i].client_fd = queue'[j].client_fd
        PROVE  i = j
    BY <1>2, <1>3, <1>4, <1>5, <2>3 DEF Queued
  <2>4. ASSUME NEW i \in DOMAIN queue', NEW u \in Threads, Holding(u)'
        PROVE  fd[u] # queue'[i].client_fd
    BY <1>2, <1>3, <1>4, <1>5, <1>9, <2>1, <2>4 DEF Queued
  <2>5. Len(queue') <= QueueCap
    BY <1>1, <1>5, ConnFacts
  <2> QED
    BY <1>1, <2>2, <2>3, <2>4, <2>5 DEF Queued
<1>13. Answered' /\ Connections' /\ Datagram'
  BY <1>1, <1>7 DEF Answered, Connections, Fresh, Datagram
<1>14. Strays'
  <2>1. ASSUME NEW g \in Stray' PROVE \E i \in DOMAIN queue' : queue'[i].client_fd = g
    <3>1. CASE g = f
      BY <1>4, <1>5, <3>1
    <3>2. CASE g # f
      <4>1. g \in Stray
        BY <1>1, <1>9, <2>1, <3>2 DEF Stray, f
      <4> QED
        BY <1>1, <1>5, <4>1 DEF Strays
    <3> QED
      BY <3>1, <3>2
  <2> QED
    BY <1>1, <1>6, <1>12, <2>1, StraysFit
<1> QED
  BY <1>1, <1>2, <1>6, <1>10, <1>11, <1>12, <1>13, <1>14, ThreadRest DEF ThreadPart

LEMMA ReceiveKeeps ==
  ASSUME Inv, design = "producer_consumer", NEW t \in Workers, msgrcv(t),
         UNCHANGED <<arg, multiVars>>
  PROVE  Inv'
<1> USE DEF Inv, settings, clientVars, connVars, processVars, multiVars
<1> DEFINE entry == Head(queue)
           f == entry.client_fd
<1>1. /\ t \in Threads /\ t # Main /\ pc[t] = "receive" /\ ~Holding(t)
      /\ pc' = [pc EXCEPT ![t] = "write"]
      /\ fd' = [fd EXCEPT ![t] = f] /\ msg' = [msg EXCEPT ![t] = entry.data]
      /\ queue # <<>> /\ queue' = Tail(queue)
      /\ UNCHANGED <<settings, clientVars, connVars, processVars, fds, queue_id, arg, multiVars>>
  BY ConnFacts DEF msgrcv, Goes, Holding
<1>2. server = "up"
  BY <1>1, ThreadsRun
<1>3. /\ queue \in Seq([client_fd : Fds \cup {0}, data : Texts \cup {NoText}])
      /\ queue' \in Seq([client_fd : Fds \cup {0}, data : Texts \cup {NoText}])
      /\ entry \in [client_fd : Fds \cup {0}, data : Texts \cup {NoText}]
      /\ entry = queue[1]
  <2> DEFINE Entries == [client_fd : Fds \cup {0}, data : Texts \cup {NoText}]
  <2>1. queue \in Seq(Entries)
    BY DEF Types
  <2> HIDE DEF Entries
  <2>2. queue' \in Seq(Entries) /\ entry \in Entries /\ entry = queue[1]
    BY <1>1, <2>1, HeadTailProperties, EmptySeq
  <2> QED
    BY <2>1, <2>2 DEF Entries
<1>4. /\ Len(queue) \in Nat \ {0} /\ Len(queue') = Len(queue) - 1
      /\ DOMAIN queue = 1..Len(queue) /\ DOMAIN queue' = 1..(Len(queue) - 1)
      /\ \A i \in DOMAIN queue' : queue'[i] = queue[i + 1]
  BY <1>1, <1>3, HeadTailProperties, LenProperties, EmptySeq
<1>5. /\ InHand(f, entry.data) /\ f \in Fds /\ fds[f] # NoConn
      /\ \A u \in Threads : Holding(u) => fd[u] # f
      /\ \A i \in DOMAIN queue : i # 1 => queue[i].client_fd # f
  BY <1>2, <1>3, <1>4 DEF Queued, InHand
<1>6. Types'
  BY <1>1, <1>3 DEF Types, Calls
<1> HIDE DEF entry, f
<1>7. /\ pc'[t] = "write" /\ fd'[t] = f /\ msg'[t] = entry.data
      /\ \A u \in Threads \ {t} : pc'[u] = pc[u] /\ fd'[u] = fd[u] /\ msg'[u] = msg[u]
  BY <1>1 DEF Types
<1>8. \A g, m : InHand(g, m) => InHand(g, m)'
  BY <1>1 DEF InHand
<1>9. \A u \in Threads : Holding(u)' <=> Holding(u) \/ u = t
  BY <1>7 DEF Holding
<1>10. Holders'
  <2>1. Crew' = Crew /\ t \in Crew
    BY <1>1 DEF Crew
  <2>2. ASSUME NEW u \in Threads, pc'[u] \in {"send", "write"} PROVE InHand(fd[u], msg[u])'
    <3>1. InHand(fd'[u], msg'[u])
      BY <1>5, <1>7, <2>2 DEF Holders
    <3> QED
      BY <1>1, <3>1 DEF InHand
  <2>3. \A u \in Threads : Holding(u)' => u \in Crew /\ fd'[u] \in Fds /\ fds[fd'[u]] # NoConn
    BY <1>5, <1>7, <1>9, <2>1 DEF Holders
  <2>4. \A u, w \in Threads : Holding(u)' /\ Holding(w)' /\ fd'[u] = fd'[w] => u = w
    BY <1>5, <1>7, <1>9 DEF Holders
  <2> QED
    BY <1>1, <2>1, <2>2, <2>3, <2>4 DEF Holders
<1>11. Arguments'
  BY <1>1, <1>7 DEF Arguments
<1>12. Queued'
  <2>1. ASSUME NEW i \in DOMAIN queue'
        PROVE  i + 1 \in DOMAIN queue /\ i + 1 # 1 /\ queue'[i] = queue[i + 1]
    BY <1>4
  <2>2. ASSUME NEW i \in DOMAIN queue' PROVE InHand(queue[i].client_fd, queue[i].data)'
    <3>1. InHand(queue'[i].client_fd, queue'[i].data)
      BY <1>2, <2>1 DEF Queued
    <3> QED
      BY <1>1, <3>1 DEF InHand
  <2>3. ASSUME NEW i \in DOMAIN queue', NEW j \in DOMAIN queue',
               queue'[i].client_fd = queue'[j].client_fd
        PROVE  i = j
    <3>1. i + 1 = j + 1
      BY <1>2, <2>1, <2>3 DEF Queued
    <3> QED
      BY <1>4, <3>1
  <2>4. ASSUME NEW i \in DOMAIN queue', NEW u \in Threads, Holding(u)'
        PROVE  fd'[u] # queue'[i].client_fd
    BY <1>2, <1>5, <1>7, <1>9, <2>1, <2>4 DEF Queued
  <2>5. Len(queue') <= QueueCap
    BY <1>4, ConnFacts DEF Queued
  <2>6. queue_id' # NoQueue
    BY <1>1 DEF Queued
  <2> QED
    BY <1>1, <2>2, <2>3, <2>4, <2>5, <2>6 DEF Queued
<1>13. Answered' /\ Connections' /\ Datagram'
  BY <1>1, <1>7, ConnFacts DEF Answered, Connections, Fresh, Datagram
<1>14. Strays'
  <2>1. ASSUME NEW g \in Stray' PROVE g # f /\ g \in Stray
    BY <1>1, <1>7, <1>9, <2>1 DEF Stray
  <2>2. ASSUME NEW g \in Stray' PROVE \E i \in DOMAIN queue' : queue'[i].client_fd = g
    <3>1. PICK i \in DOMAIN queue : queue[i].client_fd = g
      BY <1>1, <2>1 DEF Strays, Queued
    <3>2. i # 1
      BY <1>3, <2>1, <3>1 DEF f
    <3>3. i - 1 \in DOMAIN queue' /\ (i - 1) + 1 = i
      BY <1>4, <3>2
    <3> QED
      BY <1>4, <3>1, <3>3
  <2> QED
    BY <1>1, <1>6, <1>12, <2>2, StraysFit
<1> QED
  BY <1>1, <1>2, <1>6, <1>10, <1>11, <1>12, <1>13, <1>14, ThreadRest DEF ThreadPart

-----------------------------------------------------------------------------
(* The steps of the threads, starts and exits.                             *)

LEMMA ThreadKeeps ==
  ASSUME Inv, NEW t \in Threads, ThreadStep(t)
  PROVE  Inv'
<1>1. CASE SimpleThread(t)
  <2>1. design = "simple" /\ UNCHANGED <<queueVars, multiVars>> /\ Main \in Threads /\ Threads = Crew
    BY <1>1, ConnFacts DEF SimpleThread, Crew
  <2>2. CASE t = Main /\ simple_accept
    BY <2>1, <2>2, AcceptKeeps DEF simple_accept
  <2>3. CASE t = Main /\ pthread_create
    BY <2>1, <2>3, CreateKeeps
  <2>4. CASE t \in Conns /\ TakeArgument(t)
    BY <2>1, <2>4, TakeKeeps
  <2>5. CASE (Read(t, "write") \/ Write(t, "close") \/ Close(t, "ended")) /\ UNCHANGED arg
    BY <2>1, <2>5, ReadKeeps, WriteKeeps, CloseKeeps
  <2> QED
    BY <1>1, <2>2, <2>3, <2>4, <2>5 DEF SimpleThread, simple_main, simple_handle_request
<1>2. CASE PoolThread(t)
  <2>1. design = "pool" /\ UNCHANGED <<arg, queueVars, multiVars>> /\ t \in Crew
    BY <1>2 DEF PoolThread, Crew
  <2>2. CASE pthread_mutex_lock(t)
    BY <2>1, <2>2, MoveKeeps DEF pthread_mutex_lock, Goes, Holding, multiVars
  <2>3. CASE AcceptUnlock(t)
    BY <2>1, <2>3, AcceptKeeps DEF AcceptUnlock
  <2>4. CASE Read(t, "write") \/ Write(t, "close") \/ Close(t, "lock")
    BY <2>1, <2>4, ReadKeeps, WriteKeeps, CloseKeeps
  <2> QED
    BY <1>2, <2>2, <2>3, <2>4 DEF PoolThread, pool_handle_request
<1>3. CASE ProducerConsumerThread(t)
  <2>1. /\ design = "producer_consumer" /\ UNCHANGED <<arg, multiVars>>
        /\ t \in Crew /\ Main \in Threads
    BY <1>3, ConnFacts DEF ProducerConsumerThread, Crew
  <2>2. CASE t = Main /\ producer_accept
    BY <2>1, <2>2, AcceptKeeps DEF producer_accept
  <2>3. CASE t = Main /\ producer_read
    BY <2>1, <2>3, ReadKeeps DEF producer_read
  <2>4. CASE t = Main /\ msgsnd
    BY <2>1, <2>4, SendKeeps
  <2>5. CASE t \in Workers /\ msgrcv(t)
    BY <2>1, <2>5, ReceiveKeeps
  <2>6. CASE (Write(t, "close") \/ Close(t, "receive")) /\ UNCHANGED queueVars
    BY <2>1, <2>6, WriteKeeps, CloseKeeps
  <2> QED
    BY <1>3, <2>2, <2>3, <2>4, <2>5, <2>6
       DEF ProducerConsumerThread, producer_main, consumer_handle_request
<1>4. CASE MultiProtThread(t)
  <2>1. /\ design = "multi_prot" /\ UNCHANGED <<arg, queueVars>> /\ t = Main /\ t \in Crew
    BY <1>4 DEF MultiProtThread, Crew
  <2>2. CASE select
    BY <2>1, <2>2, MoveKeeps DEF select, Goes, Holding
  <2>3. CASE ServeTcp
    <3>1. UNCHANGED multiVars /\ AfterTcp \in {"recvfrom", "select"}
      BY <2>3 DEF ServeTcp, AfterTcp
    <3>2. CASE Accept(Main, "read")
      BY <2>1, <3>1, <3>2, AcceptKeeps
    <3>3. CASE Read(Main, "write") \/ Write(Main, "close")
      BY <2>1, <3>1, <3>3, ReadKeeps, WriteKeeps
    <3>4. CASE Close(Main, AfterTcp)
      BY <2>1, <3>1, <3>4, CloseKeeps
    <3> QED
      BY <2>3, <3>2, <3>3, <3>4 DEF ServeTcp
  <2>4. CASE ServerRecvfrom \/ ServerSendto
    BY <2>1, <2>4, ServerRecvfromKeeps, ServerSendtoKeeps
  <2> QED
    BY <1>4, <2>2, <2>3, <2>4 DEF MultiProtThread, multi_main
<1> QED
  BY <1>1, <1>2, <1>3, <1>4 DEF ThreadStep

\* A server that starts finds every descriptor free and its queue empty.
LEMMA ListenKeeps ==
  ASSUME Inv,
         NEW start \in [Threads -> {"accept", "ended", "lock", "receive", "select"}],
         inet_listen(start),
         queue' = <<>>, design = "producer_consumer" => queue_id' # NoQueue,
         arg' \in [Threads -> Fds \cup {0}], UNCHANGED multiVars
  PROVE  Inv'
<1> USE DEF Inv, inet_listen, settings, clientVars, connVars, multiVars
<1>1. /\ \A f \in Fds : fds'[f] = NoConn
      /\ \A t \in Threads : pc'[t] \in {"accept", "ended", "lock", "receive", "select"}
  BY DEF Down
<1>2. Types'
  <2>1. queue' \in Seq([client_fd : Fds \cup {0}, data : Texts \cup {NoText}])
    BY EmptySeq
  <2> QED
    BY <2>1 DEF Types, Calls
<1>3. Asking' /\ Answered' /\ Connections'
  BY DEF Asking, Answered, Connections, Fresh, Conn
<1>4. Holders' /\ Arguments' /\ Datagram' /\ Down'
  BY <1>1, ConnFacts DEF Holders, Holding, Arguments, Datagram, Down
<1>5. Queued'
  BY ConnFacts DEF Queued
<1>6. Strays'
  <2>1. Stray' = {}
    BY <1>1 DEF Stray
  <2> QED
    BY <2>1, ConnFacts, FS_EmptySet DEF Strays
<1>7. Reasons'
  BY DEF Reasons, EndsForAReason, Types
<1> QED
  BY <1>2, <1>3, <1>4, <1>5, <1>6, <1>7

\* A start that fails, or of a second server: only the queue may change.
LEMMA FailedStartKeeps ==
  ASSUME Inv, design = "producer_consumer", MsggetFails \/ SecondServer,
         UNCHANGED <<arg, multiVars>>
  PROVE  Inv'
<1> USE DEF Inv, settings, clientVars, connVars, threadVars, multiVars
<1>1. /\ starts' = starts + 1
      /\ UNCHANGED <<settings, clientVars, connVars, fds, threadVars, arg, multiVars>>
      /\ \/ server # "up" /\ server' = "msgget" /\ UNCHANGED queueVars
         \/ server = "up" /\ server' = "up"
      /\ \/ UNCHANGED queueVars
         \/ queue' = <<>> /\ queue_id' = NoQueue
  BY DEF MsggetFails, SecondServer, remove_queue, queueVars, NoQueue
<1> USE DEF queueVars
<1>2. Types'
  <2>1. queue' \in Seq([client_fd : Fds \cup {0}, data : Texts \cup {NoText}])
    BY <1>1, EmptySeq DEF Types
  <2> QED
    BY <1>1, <2>1 DEF Types
<1>3. Asking' /\ Answered' /\ Connections'
  BY <1>1 DEF Asking, Answered, Connections, Fresh, Conn
<1>4. \A f, m : InHand(f, m) => InHand(f, m)'
  BY <1>1 DEF InHand
<1>5. \A t : Holding(t)' <=> Holding(t)
  BY <1>1 DEF Holding
<1>6. Holders' /\ Arguments'
  <2>1. Crew' = Crew
    BY <1>1 DEF Crew
  <2> QED
    BY <1>1, <1>4, <1>5, <2>1 DEF Holders, Arguments
<1>7. Datagram' /\ Down'
  BY <1>1 DEF Datagram, Down
<1>8. Queued'
  <2>1. CASE queue' = <<>>
    BY <2>1, ConnFacts DEF Queued
  <2>2. CASE queue' = queue /\ queue_id' = queue_id
    BY <1>1, <1>4, <1>5, <2>2 DEF Queued
  <2> QED
    BY <1>1, <2>1, <2>2
<1>9. Strays'
  <2>1. Stray' = Stray
    BY <1>1, <1>5 DEF Stray
  <2> QED
    BY <1>1, <2>1 DEF Strays
<1>10. Reasons'
  BY <1>1 DEF Reasons, EndsForAReason, Types
<1> QED
  BY <1>2, <1>3, <1>6, <1>7, <1>8, <1>9, <1>10

LEMMA StartKeeps ==
  ASSUME Inv, Start
  PROVE  Inv'
<1>1. CASE design = "simple" /\ simple_start /\ UNCHANGED <<mutex, queueVars, multiVars>>
  <2>1. queue' = <<>> /\ arg' \in [Threads -> Fds \cup {0}]
    BY <1>1 DEF Inv, Queued, queueVars, simple_start
  <2> QED
    BY <1>1, <2>1, ListenKeeps DEF simple_start
<1>2. CASE design = "pool" /\ pool_start /\ UNCHANGED <<arg, queueVars, multiVars>>
  <2>1. queue' = <<>> /\ arg' \in [Threads -> Fds \cup {0}]
    BY <1>2 DEF Inv, Queued, queueVars, Types
  <2> QED
    BY <1>2, <2>1, ListenKeeps DEF pool_start
<1>3. CASE design = "producer_consumer" /\ producer_start /\ UNCHANGED <<arg, mutex, multiVars>>
  <2>1. queue' = <<>> /\ queue_id' # NoQueue /\ arg' \in [Threads -> Fds \cup {0}]
    BY <1>3 DEF Inv, producer_start, QueueIds, NoQueue, Types
  <2> QED
    BY <1>3, <2>1, ListenKeeps DEF producer_start
<1>4. CASE /\ design = "producer_consumer"
           /\ MsggetFails \/ SecondServer
           /\ UNCHANGED <<arg, mutex, multiVars>>
  BY <1>4, FailedStartKeeps
<1>5. CASE design = "multi_prot" /\ multi_start /\ UNCHANGED <<arg, mutex, queueVars>>
  <2>1. queue' = <<>> /\ arg' \in [Threads -> Fds \cup {0}]
    BY <1>5 DEF Inv, Queued, queueVars, Types
  <2> QED
    BY <1>5, <2>1, ListenKeeps DEF multi_start
<1> QED
  BY <1>1, <1>2, <1>3, <1>4, <1>5 DEF Start

LEMMA EndsKeeps ==
  ASSUME Inv, NEW why, why # "up", Ends(why), EndsForAReason',
         UNCHANGED <<arg, udp_addr>>, datagrams' = datagrams \/ datagrams' = <<>>,
         UNCHANGED queueVars \/ (queue' = <<>> /\ queue_id' = NoQueue)
  PROVE  Inv'
<1> USE DEF Inv, Ends, settings, clientVars, queueVars
<1>1. /\ \A f \in Fds : fds'[f] = NoConn
      /\ \A t \in Threads : pc'[t] = "ended"
      /\ backlog' = <<>> /\ server' # "up"
  OBVIOUS
<1>2. Types'
  <2>1. queue' \in Seq([client_fd : Fds \cup {0}, data : Texts \cup {NoText}])
    BY EmptySeq DEF Types
  <2>2. datagrams' \in Seq(Clients) /\ backlog' \in Seq(Conns)
    BY EmptySeq DEF Types
  <2> QED
    BY <2>1, <2>2 DEF Types, Calls
<1>3. Asking' /\ Answered'
  BY DEF Asking, Answered, Conn
<1>4. Connections'
  <2>1. \A k \in Conns : Fresh(k)' => inbox'[k] = "empty"
    BY DEF Connections, Fresh
  <2> QED
    BY <1>1, <2>1, ConnFacts DEF Connections
<1>5. Holders' /\ Arguments' /\ Datagram' /\ Down'
  BY <1>1, ConnFacts DEF Holders, Holding, Arguments, Datagram, Down
<1>6. Queued'
  BY <1>1, ConnFacts DEF Queued
<1>7. Strays'
  <2>1. Stray' = {}
    BY <1>1 DEF Stray
  <2> QED
    BY <2>1, ConnFacts, FS_EmptySet DEF Strays
<1>8. Reasons'
  BY <1>1 DEF Reasons
<1> QED
  BY <1>2, <1>3, <1>4, <1>5, <1>6, <1>7, <1>8

\* A call fails because of a client or because there are too few descriptors.
LEMMA FailsForAReason ==
  ASSUME Inv, NEW t \in Threads, pc[t] = "accept" => t \in Crew, err_exit(t)
  PROVE  EndsForAReason' /\ pc[t] # "up"
<1> USE DEF Inv, Ends, settings, err_exit
<1>1. CallFails(t) /\ server' = pc[t] /\ inbox' = inbox /\ design' = design
  BY DEF clientVars
<1>2. pc[t] \in {"accept", "read", "write", "close"}
  BY DEF CallFails
<1>3. pc[t] \in {"read", "write", "close"} => ConnOf(t) \in Conns /\ ConnOf(t) # NoConn
  BY DEF Holders, Holding, ConnOf, Types
<1>4. pc[t] \notin {"write", "close"}
  BY <1>1, <1>3 DEF CallFails
<1>5. pc[t] = "read" => \E k \in Conns : inbox[k] = "short"
  BY <1>1, <1>3 DEF CallFails
<1>6. pc[t] = "accept" => MaxFds < Needed
  BY <1>1, TooFewDescriptors DEF CallFails
<1> QED
  BY <1>1, <1>2, <1>4, <1>5, <1>6 DEF EndsForAReason, Needed

LEMMA SignalKeeps ==
  ASSUME Inv, Ends("sigint") \/ Ends("kill"),
         UNCHANGED <<arg, udp_addr>>, datagrams' = datagrams \/ datagrams' = <<>>,
         UNCHANGED queueVars \/ (queue' = <<>> /\ queue_id' = NoQueue)
  PROVE  Inv'
<1>1. EndsForAReason'
  BY DEF Ends, EndsForAReason
<1> QED
  BY <1>1, EndsKeeps

LEMMA ExitKeeps ==
  ASSUME Inv, Exit
  PROVE  Inv'
<1> USE DEF multiVars, queueVars, sig_int, Kill
<1>1. CASE design = "simple" /\ simple_exit /\ UNCHANGED <<mutex, queueVars, multiVars>>
  <2>1. \A t \in {Main} \cup Conns : t \in Threads /\ t \in Crew
    BY <1>1, ConnFacts DEF Crew
  <2>2. CASE \E t \in {Main} \cup Conns : err_exit(t)
    BY <1>1, <2>1, <2>2, FailsForAReason, EndsKeeps DEF simple_exit, err_exit
  <2>3. CASE sig_int \/ Kill
    BY <1>1, <2>3, SignalKeeps DEF simple_exit
  <2> QED
    BY <1>1, <2>2, <2>3 DEF simple_exit
<1>2. CASE design = "pool" /\ pool_exit /\ UNCHANGED <<arg, queueVars, multiVars>>
  <2>1. \A t \in Workers : t \in Threads /\ t \in Crew
    BY <1>2, ConnFacts DEF Crew
  <2>2. CASE \E t \in Workers : err_exit(t)
    BY <1>2, <2>1, <2>2, FailsForAReason, EndsKeeps DEF pool_exit, err_exit
  <2>3. CASE sig_int \/ Kill
    BY <1>2, <2>3, SignalKeeps DEF pool_exit
  <2> QED
    BY <1>2, <2>2, <2>3 DEF pool_exit
<1>3. CASE design = "producer_consumer" /\ producer_exit /\ UNCHANGED <<arg, mutex, multiVars>>
  <2>1. \A t \in {Main} \cup Workers : t \in Threads /\ t \in Crew
    BY <1>3, ConnFacts DEF Crew
  <2>2. UNCHANGED queueVars \/ (queue' = <<>> /\ queue_id' = NoQueue)
    BY <1>3 DEF producer_exit, remove_queue
  <2>3. CASE \E t \in {Main} \cup Workers : err_exit(t)
    BY <1>3, <2>1, <2>2, <2>3, FailsForAReason, EndsKeeps DEF err_exit
  <2>4. CASE \E t \in {Main} \cup Workers : QueueGone(t)
    <3>1. PICK t \in {Main} \cup Workers : QueueGone(t)
      BY <2>4
    <3>2. EndsForAReason' /\ pc[t] # "up"
      BY <1>3, <3>1 DEF QueueGone, Ends, Inv, Reasons, EndsForAReason
    <3> QED
      BY <1>3, <2>2, <3>1, <3>2, EndsKeeps DEF QueueGone
  <2>5. CASE sig_int \/ Kill
    BY <1>3, <2>2, <2>5, SignalKeeps
  <2> QED
    BY <1>3, <2>3, <2>4, <2>5 DEF producer_exit
<1>4. CASE design = "multi_prot" /\ multi_exit /\ UNCHANGED <<arg, mutex, queueVars>>
  <2>1. Main \in Threads /\ Main \in Crew
    BY <1>4, ConnFacts DEF Crew
  <2>2. CASE err_exit(Main)
    BY <1>4, <2>1, <2>2, FailsForAReason, EndsKeeps DEF multi_exit, err_exit
  <2>3. CASE ShortDatagram
    <3>1. <<Head(datagrams), 1>> \in Conns
      <4>1. datagrams \in Seq(Clients) /\ datagrams # <<>> /\ 1 \in 1..N_REQS
        BY <2>3, ConnFacts DEF Inv, Types, ShortDatagram
      <4> QED
        BY <4>1, HeadTailProperties, ConnFacts
    <3>2. EndsForAReason'
      BY <2>3, <3>1 DEF ShortDatagram, Ends, EndsForAReason
    <3> QED
      BY <1>4, <2>3, <3>2, EndsKeeps DEF multi_exit, ShortDatagram
  <2>4. CASE sig_int \/ Kill
    BY <1>4, <2>4, SignalKeeps DEF multi_exit
  <2> QED
    BY <1>4, <2>2, <2>3, <2>4 DEF multi_exit
<1> QED
  BY <1>1, <1>2, <1>3, <1>4 DEF Exit

LEMMA InvStep == Inv /\ [Next]_vars => Inv'
<1> SUFFICES ASSUME Inv, [Next]_vars PROVE Inv'
  OBVIOUS
<1>1. CASE \E c \in Clients : ClientStep(c)
  BY <1>1, ClientKeeps
<1>2. CASE \E t \in Threads : ThreadStep(t)
  BY <1>2, ThreadKeeps
<1>3. CASE Start \/ Exit
  BY <1>3, StartKeeps, ExitKeeps
<1>4. CASE UNCHANGED vars
  <2> USE <1>4 DEF vars, netVars, settings, clientVars, connVars, processVars, threadVars,
                   queueVars, multiVars
  <2>1. ClientPart'
    BY DEF Inv, ClientPart, Types, Asking, Connections, Fresh, Conn
  <2> QED
    BY <2>1, ClientRest
<1> QED
  BY <1>1, <1>2, <1>3, <1>4 DEF Next

-----------------------------------------------------------------------------
(* The theorems.                                                           *)

\* The invariant.
LEMMA Invariance == Spec => []Inv
<1> QED
  BY InvInit, InvStep, PTL DEF Spec

\* Whichever server runs, every answer a client reads is that to the request it sent
\* on that connection, in upper case, although a descriptor's number is used again
\* while others still pass it on.
THEOREM AnswersAreOwn == Spec => []OwnAnswers
<1>1. Inv => OwnAnswers
  BY DEF Inv, Asking, OwnAnswers
<1> QED
  BY <1>1, Invariance, PTL

\* No server ends by itself but for a client that fails it, a second start, or a table
\* of descriptors that is smaller than the design needs; write and close never fail.
THEOREM NoOtherEnd == Spec => []EndsForAReason
<1>1. Inv => EndsForAReason
  BY DEF Inv, Reasons
<1> QED
  BY <1>1, Invariance, PTL

LEMMA ServiceInit == Init => Service!Init
BY DEF Init, NetInit, Service!Init

\* A step that sends no request and no answer.
LEMMA ServiceRests ==
  ASSUME outbox' = outbox,
         \A k \in Conns : inbox'[k] \in {"request", "read"} <=> inbox[k] \in {"request", "read"}
  PROVE  UNCHANGED Service!vars
BY DEF Service!vars

LEMMA ServiceAsks ==
  ASSUME Types, NEW k \in Conns, inbox[k] = "empty", inbox' = [inbox EXCEPT ![k] = "request"],
         outbox' = outbox
  PROVE  Service!Next
<1>1. \A x \in Conns : inbox'[x] = IF x = k THEN "request" ELSE inbox[x]
  BY DEF Types
<1>2. Service!Ask(k)
  BY <1>1 DEF Service!Ask
<1> QED
  BY <1>2 DEF Service!Next

LEMMA ServiceReplies ==
  ASSUME NEW k \in Conns, inbox[k] = "read", outbox[k] = NoText,
         outbox' = [outbox EXCEPT ![k] = toupper(Message(k))], inbox' = inbox
  PROVE  Service!Next
<1>1. Service!Reply(k)
  BY DEF Service!Reply
<1> QED
  BY <1>1 DEF Service!Next

LEMMA ReadIsSilent ==
  ASSUME Inv, NEW t \in Threads, NEW next, Read(t, next)
  PROVE  UNCHANGED Service!vars
<1>1. ConnOf(t) \in Conns
  BY DEF Inv, Read, ConnOf, Types
<1>2. \A k \in Conns : inbox'[k] = IF k = ConnOf(t) THEN "read" ELSE inbox[k]
  BY <1>1 DEF Inv, Types, Read
<1> QED
  BY <1>2, ServiceRests DEF Read

LEMMA WriteReplies ==
  ASSUME Inv, NEW t \in Threads, NEW next, Write(t, next)
  PROVE  Service!Next
<1> DEFINE k == fds[fd[t]]
<1>1. fd[t] \in Fds /\ k \in Conns /\ InHand(fd[t], msg[t])
  BY DEF Inv, Write, Goes, ConnOf, Holders, Holding, Types
<1>2. /\ inbox[k] = "read" /\ outbox[k] = NoText
      /\ outbox' = [outbox EXCEPT ![k] = toupper(Message(k))] /\ inbox' = inbox
  BY <1>1 DEF Write, ConnOf, InHand
<1> QED
  BY <1>1, <1>2, ServiceReplies

LEMMA ClientServes ==
  ASSUME Inv, NEW c \in Clients, ClientStep(c)
  PROVE  [Service!Next]_Service!vars
<1>1. Conn(c) \in Conns /\ Types
  BY ConnType DEF Inv
<1>2. CASE inet_connect(c) \/ ReadAnswer(c) \/ ClientFails(c) \/ ClientRecvfrom(c)
  <2>1. UNCHANGED <<inbox, outbox>>
    BY <1>2 DEF inet_connect, ReadAnswer, ClientFails, ClientRecvfrom, connVars
  <2> QED
    BY <2>1, ServiceRests
<1>3. CASE WriteRequest(c)
  <2>1. inbox[Conn(c)] = "empty"
    BY <1>3 DEF Inv, Asking, WriteRequest, ClientGoes
  <2> QED
    BY <1>1, <1>3, <2>1, ServiceAsks DEF WriteRequest
<1>4. CASE Vanish(c)
  <2>1. cl[c] = "write" => inbox[Conn(c)] = "empty"
    BY DEF Inv, Asking
  <2>2. \A k \in Conns : inbox'[k] = inbox[k] \/ (inbox[k] = "empty" /\ inbox'[k] = "short")
    BY <1>1, <1>4, <2>1 DEF Vanish, Types
  <2> QED
    BY <1>4, <2>2, ServiceRests DEF Vanish
<1>5. CASE ClientSendto(c)
  <2>1. inbox[Conn(c)] = "empty" /\ outbox' = outbox
    BY <1>1, <1>5, ConnType DEF Inv, Connections, Fresh, ClientSendto, ClientGoes
  <2>2. CASE inbox' = [inbox EXCEPT ![Conn(c)] = "request"]
    BY <1>1, <2>1, <2>2, ServiceAsks
  <2>3. CASE inbox' = [inbox EXCEPT ![Conn(c)] = "short"]
    <3>1. \A k \in Conns : inbox'[k] = inbox[k] \/ (inbox[k] = "empty" /\ inbox'[k] = "short")
      BY <1>1, <2>1, <2>3 DEF Types
    <3> QED
      BY <2>1, <3>1, ServiceRests
  <2> QED
    BY <1>5, <2>2, <2>3 DEF ClientSendto
<1> QED
  BY <1>2, <1>3, <1>4, <1>5
     DEF ClientStep, TcpClient, par_client, tcp_cl_inet, Client, udp_cl_inet

LEMMA ThreadServes ==
  ASSUME Inv, NEW t \in Threads, ThreadStep(t)
  PROVE  [Service!Next]_Service!vars
<1> DEFINE Silent == UNCHANGED <<inbox, outbox>>
           Served(u) == (\E next : Read(u, next)) \/ (\E next : Write(u, next))
<1>1. ASSUME NEW u \in Threads, Served(u) PROVE [Service!Next]_Service!vars
  BY <1>1, ReadIsSilent, WriteReplies
<1>2. Silent => [Service!Next]_Service!vars
  BY ServiceRests
<1>3. ASSUME NEW u, NEW next, Accept(u, next) \/ Close(u, next) PROVE Silent
  BY <1>3 DEF Accept, Close, connVars
<1>4. Main \in Threads
  BY ConnFacts
<1>5. CASE SimpleThread(t)
  <2>1. pthread_create \/ TakeArgument(t) => Silent
    BY DEF pthread_create, TakeArgument, connVars
  <2>2. Silent \/ Served(t)
    BY <1>3, <1>5, <2>1
       DEF SimpleThread, simple_main, simple_accept, simple_handle_request
  <2> QED
    BY <1>1, <1>2, <2>2
<1>6. CASE PoolThread(t)
  <2>1. pthread_mutex_lock(t) => Silent
    BY DEF pthread_mutex_lock, connVars
  <2>2. Silent \/ Served(t)
    BY <1>3, <1>6, <2>1 DEF PoolThread, pool_handle_request, AcceptUnlock
  <2> QED
    BY <1>1, <1>2, <2>2
<1>7. CASE ProducerConsumerThread(t)
  <2>1. msgsnd \/ msgrcv(t) => Silent
    BY DEF msgsnd, msgrcv, connVars
  <2>2. Silent \/ Served(t)
    BY <1>3, <1>7, <2>1
       DEF ProducerConsumerThread, producer_main, producer_accept, producer_read,
           consumer_handle_request
  <2> QED
    BY <1>1, <1>2, <2>2
<1>8. CASE MultiProtThread(t)
  <2>1. select => Silent
    BY DEF select, connVars
  <2>2. CASE ServeTcp
    <3>1. Silent \/ Served(Main)
      BY <1>3, <2>2 DEF ServeTcp
    <3> QED
      BY <1>1, <1>2, <1>4, <3>1
  <2>3. CASE ServerRecvfrom
    <3>1. outbox' = outbox /\ \A k \in Conns : inbox'[k] = inbox[k]
                                \/ (inbox[k] = "request" /\ inbox'[k] = "read")
      BY <2>3 DEF ServerRecvfrom, Inv, Types
    <3> QED
      BY <3>1, ServiceRests
  <2>4. CASE ServerSendto
    <3>1. /\ inbox' = inbox /\ udp_addr \in Conns
          /\ inbox[udp_addr] = "read" /\ outbox[udp_addr] = NoText
          /\ msg[Main] = Message(udp_addr)
      BY <2>4 DEF ServerSendto, Goes, Inv, Datagram
    <3>2. outbox' = outbox \/ outbox' = [outbox EXCEPT ![udp_addr] = toupper(msg[Main])]
      BY <2>4 DEF ServerSendto
    <3> QED
      BY <1>2, <3>1, <3>2, ServiceReplies
  <2> QED
    BY <1>2, <1>8, <2>1, <2>2, <2>3, <2>4 DEF MultiProtThread, multi_main
<1> QED
  BY <1>5, <1>6, <1>7, <1>8 DEF ThreadStep

LEMMA ServiceStep == Inv /\ [Next]_vars => [Service!Next]_Service!vars
<1> SUFFICES ASSUME Inv, [Next]_vars PROVE [Service!Next]_Service!vars
  OBVIOUS
<1>1. CASE \E c \in Clients : ClientStep(c)
  BY <1>1, ClientServes
<1>2. CASE \E t \in Threads : ThreadStep(t)
  BY <1>2, ThreadServes
<1>3. CASE Start \/ Exit \/ UNCHANGED vars
  <2>1. UNCHANGED <<inbox, outbox>>
    <3> USE DEF connVars
    <3>1. CASE UNCHANGED vars
      BY <3>1 DEF vars, netVars
    <3>2. \A start : inet_listen(start) => UNCHANGED <<inbox, outbox>>
      BY DEF inet_listen
    <3>3. CASE Start
      BY <3>2, <3>3
         DEF Start, simple_start, pool_start, producer_start, multi_start, MsggetFails, SecondServer
    <3>4. \A why : Ends(why) => UNCHANGED <<inbox, outbox>>
      BY DEF Ends
    <3>5. CASE Exit
      BY <3>4, <3>5 DEF Exit, simple_exit, pool_exit, producer_exit, multi_exit, err_exit,
                        sig_int, Kill, QueueGone, ShortDatagram
    <3> QED
      BY <1>3, <3>1, <3>3, <3>5
  <2> QED
    BY <2>1, ServiceRests
<1> QED
  BY <1>1, <1>2, <1>3 DEF Next

\* Each of the four servers, with its threads, queue and descriptors, implements the
\* service: a request that came gets its answer at most once, on its own connection.
THEOREM ServersImplementService == Spec => IsAnEchoService
<1> QED
  BY ServiceInit, ServiceStep, Invariance, PTL DEF Spec, IsAnEchoService, Service!Spec
=============================================================================
