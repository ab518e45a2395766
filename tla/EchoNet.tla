-------------------------------- MODULE EchoNet --------------------------------
(***************************************************************************)
(* Task16/Subtask2: what the four servers share.  A client opens a         *)
(* connection for each request, sends one message of BUF_SIZE bytes and    *)
(* waits for the same message in upper case; a thread of the server        *)
(* accepts, reads, writes and closes.  The sockets are the kernel's: a     *)
(* queue of connections to accept, what each side of a connection has sent *)
(* and the table of descriptors of the server, in which accept takes the   *)
(* lowest free number.  A connection is named by its client and the number *)
(* of the request.                                                         *)
(*                                                                         *)
(* Slip_X is the definition X with a plausible programming slip.           *)
(***************************************************************************)
EXTENDS Integers, Sequences, FiniteSets

CONSTANTS
  Clients, N_REQS,
  Main, Workers,    \* the threads of a server, next to one per connection
  BACKLOG, MaxFds,  \* limits of the kernel: connections waiting, descriptors
  Vandals,          \* clients that may vanish, or send less than BUF_SIZE bytes
  Signals,          \* the signals the server may get: subset of {"sigint", "kill"}
  MaxStarts,        \* bound: how often the server is started
  NoConn, NoText

ASSUME EchoAssumption ==
  /\ N_REQS \in Nat \ {0} /\ BACKLOG \in Nat /\ MaxFds \in Nat /\ MaxStarts \in Nat
  /\ IsFiniteSet(Clients) /\ IsFiniteSet(Workers)
  /\ Vandals \subseteq Clients
  /\ Signals \subseteq {"sigint", "kill"}
  /\ NoConn \notin Clients \X (1..N_REQS)
  /\ Main \notin Workers \cup (Clients \X (1..N_REQS))

Conns == Clients \X (1..N_REQS)
Threads == {Main} \cup Workers \cup Conns
Fds == 1..MaxFds
Designs == {"simple", "pool", "producer_consumer", "multi_prot"}

\* A message: the request it repeats, and whether in upper case.
Message(k) == [request |-> k, upper |-> FALSE]
toupper(m) == [m EXCEPT !.upper = TRUE]
Texts == [request : Conns, upper : BOOLEAN]

ASSUME TextAssumption == NoText \notin Texts

VARIABLES
  design,           \* which of the four servers runs
  rough,            \* whether clients vanish, datagrams get lost, the server is
                    \* killed and started again
  mute,             \* the clients that connect and never send
  cl, req, got,     \* a client: its next call, its request, the answers it read
  backlog,          \* the connections to be accepted
  link,             \* a connection: none, live, broken (by the server's end)
  inbox, outbox,    \* what the server can read of it, what the client can
  server, starts,   \* "up", or why the server ended; how often it started
  fds,              \* the server's descriptors: the connection of each
  pc, fd, msg       \* a thread: its next call, descriptor and message buffer

settings == <<design, rough, mute>>
clientVars == <<cl, req, got>>
connVars == <<backlog, link, inbox, outbox>>
processVars == <<server, starts>>
threadVars == <<pc, fd, msg>>
netVars == <<settings, clientVars, connVars, processVars, fds, threadVars>>

-----------------------------------------------------------------------------
(* The clients: a child of par_client, tcp_cl_inet.                        *)

\* tcp_cl_inet, the client of the multi_prot server, sends a single request.
Requests == IF design = "multi_prot" THEN 1 ELSE N_REQS
Conn(c) == <<c, req[c]>>
ClientGoes(c, from, to) == cl[c] = from /\ cl' = [cl EXCEPT ![c] = to]

\* connect returns once the connection is in the backlog, which holds one more
\* than listen was told.
inet_connect(c) ==
  /\ server = "up"
  /\ Len(backlog) <= BACKLOG
  /\ ClientGoes(c, "connect", "write")
  /\ backlog' = Append(backlog, Conn(c))
  /\ link' = [link EXCEPT ![Conn(c)] = "live"]
  /\ UNCHANGED <<settings, req, got, inbox, outbox, processVars, fds, threadVars>>

WriteRequest(c) ==
  /\ c \notin mute
  /\ link[Conn(c)] = "live"
  /\ ClientGoes(c, "write", "read")
  /\ inbox' = [inbox EXCEPT ![Conn(c)] = "request"]
  /\ UNCHANGED <<settings, req, got, backlog, link, outbox, processVars, fds, threadVars>>

\* read, close and on to the next request.
ReadAnswer(c) ==
  /\ outbox[Conn(c)] # NoText
  /\ ClientGoes(c, "read", IF req[c] < Requests THEN "connect" ELSE "done")
  /\ got' = [got EXCEPT ![c] = Append(@, outbox[Conn(c)])]
  /\ req' = [req EXCEPT ![c] = IF @ < Requests THEN @ + 1 ELSE @]
  /\ UNCHANGED <<settings, connVars, processVars, fds, threadVars>>

\* Nobody listens, or the server has gone and there is nothing to read.
ClientFails(c) ==
  /\ \/ cl[c] = "connect" /\ server # "up"
     \/ cl[c] = "write" /\ c \notin mute /\ link[Conn(c)] = "broken"
     \/ cl[c] = "read" /\ link[Conn(c)] = "broken" /\ outbox[Conn(c)] = NoText
  /\ cl' = [cl EXCEPT ![c] = "failed"]
  /\ UNCHANGED <<settings, req, got, connVars, processVars, fds, threadVars>>

Client(c) ==
  \/ inet_connect(c) \/ WriteRequest(c) \/ ReadAnswer(c) \/ ClientFails(c)

\* A client that is killed, or another program that sends too little: before its
\* request is out, read gives the server less than BUF_SIZE bytes.
Vanish(c) ==
  /\ rough /\ c \in Vandals
  /\ cl[c] \in {"write", "read"}
  /\ cl' = [cl EXCEPT ![c] = "gone"]
  /\ inbox' = IF cl[c] = "write" THEN [inbox EXCEPT ![Conn(c)] = "short"] ELSE inbox
  /\ UNCHANGED <<settings, req, got, backlog, link, outbox, processVars, fds, threadVars>>

-----------------------------------------------------------------------------
(* The system calls of a thread of the server.                             *)

Goes(t, from, to) == pc[t] = from /\ pc' = [pc EXCEPT ![t] = to]
ConnOf(t) == IF fd[t] \in Fds THEN fds[fd[t]] ELSE NoConn
FreeFds == {f \in Fds : fds[f] = NoConn}
LowestFree == CHOOSE f \in FreeFds : \A g \in FreeFds : f <= g

Accept(t, next) ==
  /\ backlog # <<>>
  /\ FreeFds # {}
  /\ Goes(t, "accept", next)
  /\ fd' = [fd EXCEPT ![t] = LowestFree]
  /\ fds' = [fds EXCEPT ![LowestFree] = Head(backlog)]
  /\ backlog' = Tail(backlog)
  /\ UNCHANGED <<settings, clientVars, link, inbox, outbox, processVars, msg>>

Read(t, next) ==
  /\ ConnOf(t) # NoConn
  /\ inbox[ConnOf(t)] = "request"
  /\ Goes(t, "read", next)
  /\ msg' = [msg EXCEPT ![t] = Message(ConnOf(t))]
  /\ inbox' = [inbox EXCEPT ![ConnOf(t)] = "read"]
  /\ UNCHANGED <<settings, clientVars, backlog, link, outbox, processVars, fds, fd>>

\* A slip: the message is written as it came.
Slip_Write(t, next) ==
  /\ ConnOf(t) # NoConn
  /\ Goes(t, "write", next)
  /\ outbox' = [outbox EXCEPT ![ConnOf(t)] = msg[t]]
  /\ UNCHANGED <<settings, clientVars, backlog, link, inbox, processVars, fds, fd, msg>>

\* The loop of toupper and write.  Writing to a client that has gone succeeds.
Write(t, next) ==
  /\ ConnOf(t) # NoConn
  /\ Goes(t, "write", next)
  /\ outbox' = [outbox EXCEPT ![ConnOf(t)] = toupper(msg[t])]
  /\ UNCHANGED <<settings, clientVars, backlog, link, inbox, processVars, fds, fd, msg>>

\* A slip: the descriptor is not closed.
Slip_Close(t, next) ==
  /\ Goes(t, "close", next)
  /\ UNCHANGED <<settings, clientVars, connVars, processVars, fds, fd, msg>>

Close(t, next) ==
  /\ ConnOf(t) # NoConn
  /\ Goes(t, "close", next)
  /\ fds' = [fds EXCEPT ![fd[t]] = NoConn]
  /\ UNCHANGED <<settings, clientVars, connVars, processVars, fd, msg>>

\* accept has no descriptor left, read gets too little, a descriptor is closed.
CallFails(t) ==
  CASE pc[t] = "accept" -> backlog # <<>> /\ FreeFds = {}
    [] pc[t] = "read" -> ConnOf(t) \in {NoConn} \cup {k \in Conns : inbox[k] = "short"}
    [] pc[t] \in {"write", "close"} -> ConnOf(t) = NoConn
    [] OTHER -> FALSE

-----------------------------------------------------------------------------
(* The process of the server: any exit ends all its threads.               *)

Ends(why) ==
  /\ server = "up"
  /\ server' = why
  /\ backlog' = <<>>
  /\ link' = [k \in Conns |-> IF link[k] = "live" THEN "broken" ELSE link[k]]
  /\ fds' = [f \in Fds |-> NoConn]
  /\ pc' = [t \in Threads |-> "ended"]
  /\ fd' = [t \in Threads |-> 0]
  /\ msg' = [t \in Threads |-> NoText]
  /\ UNCHANGED <<settings, clientVars, inbox, outbox, starts>>

err_exit(t) == CallFails(t) /\ Ends(pc[t])
sig_int == rough /\ "sigint" \in Signals /\ Ends("sigint")
Kill == rough /\ "kill" \in Signals /\ Ends("kill")

MayStart == starts < IF rough THEN MaxStarts ELSE 1

\* inet_listen succeeds: whoever listened on the port has ended.
inet_listen(start) ==
  /\ server # "up"
  /\ MayStart
  /\ server' = "up"
  /\ starts' = starts + 1
  /\ pc' = start
  /\ UNCHANGED <<settings, clientVars, connVars, fds, fd, msg>>

NetInit ==
  /\ design \in Designs /\ rough \in BOOLEAN /\ mute \in SUBSET Clients
  /\ cl = [c \in Clients |-> "connect"] /\ req = [c \in Clients |-> 1]
  /\ got = [c \in Clients |-> <<>>]
  /\ backlog = <<>>
  /\ link = [k \in Conns |-> "none"] /\ inbox = [k \in Conns |-> "empty"]
  /\ outbox = [k \in Conns |-> NoText]
  /\ server = "down" /\ starts = 0
  /\ fds = [f \in Fds |-> NoConn]
  /\ pc = [t \in Threads |-> "ended"]
  /\ fd = [t \in Threads |-> 0] /\ msg = [t \in Threads |-> NoText]
=============================================================================
