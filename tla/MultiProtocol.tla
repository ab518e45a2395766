----------------------------- MODULE MultiProtocol -----------------------------
(***************************************************************************)
(* Task16/Subtask2, multi_prot_sv: one thread waits with select for a TCP  *)
(* connection or a UDP datagram and answers them one after the other.  A   *)
(* UDP client (udp_cl_inet) sends its request once and waits for the       *)
(* answer; the network may lose either.                                    *)
(***************************************************************************)
EXTENDS EchoNet

CONSTANTS UdpClients  \* the clients that use UDP

ASSUME UdpAssumption == UdpClients \subseteq Clients

VARIABLES
  datagrams,  \* the datagrams that wait at the server's socket: their senders
  udp_addr,   \* the address recvfrom stored: the client that is answered
  read_fds    \* the sockets select found ready

multiVars == <<datagrams, udp_addr, read_fds>>
multi_init == datagrams = <<>> /\ udp_addr = NoConn /\ read_fds = {}

multi_start ==
  /\ inet_listen([t \in Threads |-> IF t = Main THEN "select" ELSE "ended"])
  /\ UNCHANGED multiVars

-----------------------------------------------------------------------------
(* udp_cl_inet.                                                            *)

\* sendto succeeds whether or not anybody is there to receive.
ClientSendto(c) ==
  /\ c \notin mute
  /\ ClientGoes(c, "connect", "recvfrom")
  /\ \/ server = "up" /\ datagrams' = Append(datagrams, c)
     \/ (rough \/ server # "up") /\ UNCHANGED datagrams
  /\ \E size \in {"request"} \cup (IF rough /\ c \in Vandals THEN {"short"} ELSE {}) :
       inbox' = [inbox EXCEPT ![Conn(c)] = size]
  /\ UNCHANGED <<settings, req, got, backlog, link, outbox, processVars, fds,
                 threadVars, udp_addr, read_fds>>

ClientRecvfrom(c) ==
  /\ outbox[Conn(c)] # NoText
  /\ ClientGoes(c, "recvfrom", "done")
  /\ got' = [got EXCEPT ![c] = Append(@, outbox[Conn(c)])]
  /\ UNCHANGED <<settings, req, connVars, processVars, fds, threadVars, multiVars>>

udp_cl_inet(c) == ClientSendto(c) \/ ClientRecvfrom(c)

-----------------------------------------------------------------------------
(* The server.                                                             *)

select ==
  LET ready == (IF backlog # <<>> THEN {"tcp"} ELSE {})
                 \cup (IF datagrams # <<>> THEN {"udp"} ELSE {})
  IN
  /\ ready # {}
  /\ Goes(Main, "select", IF "tcp" \in ready THEN "accept" ELSE "recvfrom")
  /\ read_fds' = ready
  /\ UNCHANGED <<settings, clientVars, connVars, processVars, fds, fd, msg, datagrams,
                 udp_addr>>

AfterTcp == IF "udp" \in read_fds THEN "recvfrom" ELSE "select"

ServeTcp ==
  /\ \/ Accept(Main, "read") \/ Read(Main, "write")
     \/ Write(Main, "close") \/ Close(Main, AfterTcp)
  /\ UNCHANGED multiVars

ServerRecvfrom ==
  LET k == <<Head(datagrams), 1>> IN
  /\ datagrams # <<>>
  /\ inbox[k] = "request"
  /\ Goes(Main, "recvfrom", "sendto")
  /\ msg' = [msg EXCEPT ![Main] = Message(k)]
  /\ udp_addr' = k
  /\ inbox' = [inbox EXCEPT ![k] = "read"]
  /\ datagrams' = Tail(datagrams)
  /\ UNCHANGED <<settings, clientVars, backlog, link, outbox, processVars, fds, fd, read_fds>>

\* toupper and sendto.
ServerSendto ==
  /\ Goes(Main, "sendto", "select")
  /\ \/ outbox' = [outbox EXCEPT ![udp_addr] = toupper(msg[Main])]
     \/ rough /\ UNCHANGED outbox
  /\ UNCHANGED <<settings, clientVars, backlog, link, inbox, processVars, fds, fd, msg,
                 multiVars>>

multi_main == select \/ ServeTcp \/ ServerRecvfrom \/ ServerSendto

ShortDatagram ==
  /\ pc[Main] = "recvfrom"
  /\ datagrams # <<>>
  /\ inbox[<<Head(datagrams), 1>>] = "short"
  /\ Ends("recvfrom")

multi_exit ==
  /\ err_exit(Main) \/ ShortDatagram \/ sig_int \/ Kill
  /\ datagrams' = <<>>
  /\ UNCHANGED <<udp_addr, read_fds>>
=============================================================================
