------------------------------ MODULE ChatRoomMQ ------------------------------
(***************************************************************************)
(* The chat room of Task13/Chatroom: one server process and any number of  *)
(* client processes that exchange System V messages.  The server reads     *)
(* requests from one well-known queue; every client creates a private      *)
(* queue, sends its identifier with each request and gets the answers      *)
(* there.  A list travels as one message per item, each carrying the size  *)
(* of the whole list.  Both ends block while a queue is full.              *)
(*                                                                         *)
(* A client is named by its queue (queue identifiers are never reused), a  *)
(* text by its number among the texts its author typed.  A step of the     *)
(* model makes at most one system call on a queue.                         *)
(*                                                                         *)
(* A definition called Slip_X is not part of the model: it is X with a     *)
(* plausible programming slip, kept beside X to show that the properties   *)
(* tell the two apart.                                                     *)
(***************************************************************************)
EXTENDS Integers, Sequences, FiniteSets, SequencesExt

CONSTANTS Clients,       \* the client processes that may be started
          Quitters,      \* those whose user may press Ctrl-C
          Mortals,       \* those that may die without running a handler
          ServerFaults,  \* how a server may end: "sigint", "kill"
          MaxRuns,       \* bound: how often the server is started
          MaxTyped,      \* bound: texts one user types
          ServerCap,     \* requests the server's queue holds
          ClientCap      \* responses a client's queue holds

ASSUME ConstantsAssumption ==
  /\ Quitters \subseteq Clients
  /\ Mortals \subseteq Clients
  /\ ServerFaults \subseteq {"sigint", "kill"}
  /\ MaxRuns \in Nat
  /\ MaxTyped \in Nat
  /\ ServerCap \in Nat \ {0}
  /\ ClientCap \in Nat \ {0}

VARIABLES
  \* the server process
  pc,            \* down, recv, clients, messages (the two send loops) or killed
  run,           \* number of the current (or last) run of the server
  request_type,  \* type of the request being served
  client_list,   \* the registered clients, in the order of registration
  message_list,  \* message_list[r]: the history of run r; only message_list[run]
                 \* is in memory, the others remember what ended with a process
  si, sj,        \* indices of the send loops: receiver and item
  exit_cause,    \* why the last run ended
  \* the kernel
  server_queue,  \* requests, oldest first
  queue,         \* queue[c]: responses to client c, oldest first
  queue_exists,  \* queue_exists[c]: c's queue is created and not removed
  \* the client processes
  phase,         \* how far main() and the SIGINT handler have come
  serverId,      \* the run whose queue the client looked up, 0 for none
  sender,        \* is the sending thread at the keyboard or inside msgsnd
  typed,         \* texts typed so far
  batch,         \* the list the receiving thread is reading
  shown,         \* the messages in the message window
  names          \* the clients in the client window

serverVars == <<pc, run, request_type, client_list, message_list, si, sj, exit_cause>>
clientVars == <<phase, serverId, sender, typed, batch, shown, names>>
vars == <<serverVars, clientVars, server_queue, queue, queue_exists>>

-----------------------------------------------------------------------------
(* The messages.                                                           *)

Message == [from : Clients, n : 1..MaxTyped]

Request == [type : {"REGISTRATION", "DISCONNECTION"}, from : Clients, n : {0}]
             \cup [type : {"MESSAGE_INFO"}, from : Clients, n : 1..MaxTyped]

\* pos is the place of the item in its list.  The program does not send it: it
\* is an auxiliary field, which no action reads, to state what a list contains.
Response == [type : {"CLIENT_INFO", "MESSAGE_INFO"},
             list_size : Nat,
             pos  : Nat,
             item : Clients \cup Message]

Batch == [type : {"CLIENT_INFO", "MESSAGE_INFO"},
          list_size : Nat,
          items : Seq(Clients \cup Message)]

NoBatch == [type |-> "CLIENT_INFO", list_size |-> 0, items |-> <<>>]

-----------------------------------------------------------------------------
(* The server's lists.                                                     *)

history == message_list[run]

get_client_index(c) == SelectInSeq(client_list, LAMBDA x : x = c)

IsRegistered(c) == get_client_index(c) # 0

\* A slip that a property must notice: the array does not grow, the slot is reused.
Slip_add_client(c) == client_list' = <<c>>

add_client(c) == client_list' = Append(client_list, c)

\* A slip: the size is decremented, the rest is not moved down.
Slip_remove_client(c) == client_list' = Front(client_list)

remove_client(c) == client_list' = RemoveAt(client_list, get_client_index(c))

\* A slip: the newest message goes first.
Slip_add_message(m) == message_list' = [message_list EXCEPT ![run] = <<m>> \o @]

add_message(m) == message_list' = [message_list EXCEPT ![run] = Append(@, m)]

-----------------------------------------------------------------------------
(* The server.                                                             *)

ServerQueueExists == pc # "down"

\* main(): msgget with IPC_EXCL succeeds only if no queue is left over.
ServerStart ==
  /\ ~ServerQueueExists
  /\ run < MaxRuns
  /\ pc' = "recv"
  /\ run' = run + 1
  /\ client_list' = <<>>
  /\ exit_cause' = "none"
  /\ UNCHANGED <<request_type, message_list, si, sj, server_queue, queue,
                 queue_exists, clientVars>>

\* err_exit and the SIGINT handler: remove the queue, with what is in it, and exit.
ServerExit(cause) ==
  /\ pc' = "down"
  /\ exit_cause' = cause
  /\ si' = 1 /\ sj' = 1
  /\ server_queue' = <<>>

ServerSigint ==
  /\ "sigint" \in ServerFaults
  /\ pc \in {"recv", "clients", "messages"}
  /\ ServerExit("sigint")
  /\ UNCHANGED <<run, request_type, client_list, message_list, queue,
                 queue_exists, clientVars>>

\* A death without the handler leaves the queue behind: the server can not be
\* started again, clients still find the queue and fill it.
ServerKill ==
  /\ "kill" \in ServerFaults
  /\ pc \in {"recv", "clients", "messages"}
  /\ pc' = "killed"
  /\ exit_cause' = "kill"
  /\ si' = 1 /\ sj' = 1
  /\ UNCHANGED <<run, request_type, client_list, message_list, server_queue,
                 queue, queue_exists, clientVars>>

TakeRequest(type) ==
  /\ pc = "recv"
  /\ server_queue # <<>>
  /\ Head(server_queue).type = type

ServeRegistration ==
  /\ TakeRequest("REGISTRATION")
  /\ server_queue' = Tail(server_queue)
  /\ request_type' = "REGISTRATION"
  /\ add_client(Head(server_queue).from)
  /\ pc' = "clients"
  /\ UNCHANGED <<run, message_list, si, sj, exit_cause, queue, queue_exists, clientVars>>

ServeDisconnection ==
  /\ TakeRequest("DISCONNECTION")
  /\ IsRegistered(Head(server_queue).from)
  /\ server_queue' = Tail(server_queue)
  /\ request_type' = "DISCONNECTION"
  /\ remove_client(Head(server_queue).from)
  /\ pc' = IF client_list' = <<>> THEN "recv" ELSE "clients"
  /\ UNCHANGED <<run, message_list, si, sj, exit_cause, queue, queue_exists, clientVars>>

\* A slip: the result of get_client_index is not looked at.
Slip_ServeMessage ==
  /\ TakeRequest("MESSAGE_INFO")
  /\ server_queue' = Tail(server_queue)
  /\ request_type' = "MESSAGE_INFO"
  /\ add_message([from |-> Head(server_queue).from, n |-> Head(server_queue).n])
  /\ pc' = IF client_list = <<>> THEN "recv" ELSE "messages"
  /\ UNCHANGED <<run, client_list, si, sj, exit_cause, queue, queue_exists, clientVars>>

ServeMessage ==
  /\ TakeRequest("MESSAGE_INFO")
  /\ IsRegistered(Head(server_queue).from)
  /\ server_queue' = Tail(server_queue)
  /\ request_type' = "MESSAGE_INFO"
  /\ add_message([from |-> Head(server_queue).from, n |-> Head(server_queue).n])
  /\ pc' = "messages"
  /\ UNCHANGED <<run, client_list, si, sj, exit_cause, queue, queue_exists, clientVars>>

\* get_client_index returned -1: err_exit(ENOKEY).
ServeStranger ==
  /\ \/ TakeRequest("DISCONNECTION")
     \/ TakeRequest("MESSAGE_INFO")
  /\ ~IsRegistered(Head(server_queue).from)
  /\ ServerExit("ENOKEY")
  /\ UNCHANGED <<run, request_type, client_list, message_list, queue,
                 queue_exists, clientVars>>

-----------------------------------------------------------------------------
(* send_clients and send_messages: the same two nested loops.              *)

LoopSize == IF pc = "clients" THEN Len(client_list) ELSE Len(history)

\* A slip: the item is taken with the index of the receiver.
Slip_resp == [type |-> IF pc = "clients" THEN "CLIENT_INFO" ELSE "MESSAGE_INFO",
              list_size |-> LoopSize,
              pos  |-> sj,
              item |-> IF pc = "clients" THEN client_list[si] ELSE history[sj]]

resp == [type |-> IF pc = "clients" THEN "CLIENT_INFO" ELSE "MESSAGE_INFO",
         list_size |-> LoopSize,
         pos  |-> sj,
         item |-> IF pc = "clients" THEN client_list[sj] ELSE history[sj]]

\* A slip: the messages are sent when there is a new one, never to a newcomer.
Slip_NextLoop == "recv"

\* A newcomer is the occasion to send the messages as well, if there are any.
NextLoop ==
  IF pc = "clients" /\ request_type = "REGISTRATION" /\ history # <<>>
  THEN "messages" ELSE "recv"

\* A slip: the inner loop stops one short of the size it announced.
Slip_AdvanceLoops ==
  \/ /\ sj + 1 < LoopSize
     /\ sj' = sj + 1
     /\ UNCHANGED <<pc, si>>
  \/ /\ sj + 1 >= LoopSize
     /\ si < Len(client_list)
     /\ sj' = 1
     /\ si' = si + 1
     /\ UNCHANGED pc
  \/ /\ sj + 1 >= LoopSize
     /\ si = Len(client_list)
     /\ sj' = 1
     /\ si' = 1
     /\ pc' = NextLoop

AdvanceLoops ==
  \/ /\ sj < LoopSize
     /\ sj' = sj + 1
     /\ UNCHANGED <<pc, si>>
  \/ /\ sj = LoopSize
     /\ si < Len(client_list)
     /\ sj' = 1
     /\ si' = si + 1
     /\ UNCHANGED pc
  \/ /\ sj = LoopSize
     /\ si = Len(client_list)
     /\ sj' = 1
     /\ si' = 1
     /\ pc' = NextLoop

\* One msgsnd, which waits for room in the receiver's queue.
SendResponse ==
  /\ pc \in {"clients", "messages"}
  /\ LET to == client_list[si] IN
       /\ queue_exists[to]
       /\ Len(queue[to]) < ClientCap
       /\ queue' = [queue EXCEPT ![to] = Append(@, resp)]
  /\ AdvanceLoops
  /\ UNCHANGED <<run, request_type, client_list, message_list, exit_cause,
                 server_queue, queue_exists, clientVars>>

\* The receiver's queue is gone (or goes while msgsnd waits): err_exit.
SendFails ==
  /\ pc \in {"clients", "messages"}
  /\ ~queue_exists[client_list[si]]
  /\ ServerExit("EIDRM")
  /\ UNCHANGED <<run, request_type, client_list, message_list, queue,
                 queue_exists, clientVars>>

ServerStep ==
  \/ ServeRegistration \/ ServeDisconnection \/ ServeMessage \/ ServeStranger
  \/ SendResponse \/ SendFails

-----------------------------------------------------------------------------
(* A client: main() and its SIGINT handler.                                *)

\* The queue the client looked up still exists.
CanReachServer(c) == ServerQueueExists /\ serverId[c] = run

\* A slip: requests are sent without waiting for room, as if the queue had no limit.
Slip_SendRequest(c, type, n) ==
  /\ CanReachServer(c)
  /\ server_queue' = Append(server_queue, [type |-> type, from |-> c, n |-> n])

\* msgsnd to the server, which waits for room.
SendRequest(c, type, n) ==
  /\ CanReachServer(c)
  /\ Len(server_queue) < ServerCap
  /\ server_queue' = Append(server_queue, [type |-> type, from |-> c, n |-> n])

\* err_exit in a client, and the end of its handler: remove the own queue, exit.
ClientExit(c) ==
  /\ phase' = [phase EXCEPT ![c] = "gone"]
  /\ sender' = [sender EXCEPT ![c] = "keyboard"]
  /\ queue_exists' = [queue_exists EXCEPT ![c] = FALSE]
  /\ queue' = [queue EXCEPT ![c] = <<>>]
  /\ UNCHANGED <<serverId, typed, batch, shown, names, serverVars, server_queue>>

\* The process ends and its queue stays in the kernel.
ClientDies(c) ==
  /\ phase' = [phase EXCEPT ![c] = "gone"]
  /\ sender' = [sender EXCEPT ![c] = "keyboard"]
  /\ UNCHANGED <<serverId, typed, batch, shown, names, serverVars, server_queue,
                 queue, queue_exists>>

\* Look the server's queue up and create a private one.  A lookup that fails ends the
\* process; its err_exit removes queue 0, and that is no queue of a chat: the very
\* first queue of the system was a server's or another program's.
Connect(c) ==
  /\ phase[c] = "off"
  /\ ServerQueueExists
  /\ phase' = [phase EXCEPT ![c] = "connected"]
  /\ serverId' = [serverId EXCEPT ![c] = run]
  /\ queue_exists' = [queue_exists EXCEPT ![c] = TRUE]
  /\ UNCHANGED <<sender, typed, batch, shown, names, serverVars, server_queue, queue>>

register_client(c) ==
  /\ phase[c] = "connected"
  /\ SendRequest(c, "REGISTRATION", 0)
  /\ phase' = [phase EXCEPT ![c] = "registered"]
  /\ UNCHANGED <<serverId, sender, typed, batch, shown, names, serverVars,
                 queue, queue_exists>>

\* This error path is an exit() without remove_queues().
RegisterFails(c) ==
  /\ phase[c] = "connected"
  /\ ~CanReachServer(c)
  /\ ClientDies(c)

StartThreads(c) ==
  /\ phase[c] = "registered"
  /\ phase' = [phase EXCEPT ![c] = "chatting"]
  /\ UNCHANGED <<serverId, sender, typed, batch, shown, names, serverVars,
                 server_queue, queue, queue_exists>>

\* cancel_pthreads() in the handler.  The receiving thread is taken to stop here;
\* a sending thread that is inside msgsnd may still complete it.
Sigint(c) ==
  /\ c \in Quitters
  /\ phase[c] = "chatting"
  /\ phase' = [phase EXCEPT ![c] = "leaving"]
  /\ UNCHANGED <<serverId, sender, typed, batch, shown, names, serverVars,
                 server_queue, queue, queue_exists>>

\* Before both threads exist, the handler cancels a thread 0 and crashes.
EarlySigint(c) ==
  /\ c \in Quitters
  /\ phase[c] \in {"connected", "registered"}
  /\ ClientDies(c)

disconnect_client(c) ==
  /\ phase[c] = "leaving"
  /\ SendRequest(c, "DISCONNECTION", 0)
  /\ phase' = [phase EXCEPT ![c] = "left"]
  /\ UNCHANGED <<serverId, sender, typed, batch, shown, names, serverVars,
                 queue, queue_exists>>

DisconnectFails(c) ==
  /\ phase[c] = "leaving"
  /\ ~CanReachServer(c)
  /\ ClientExit(c)

remove_queues(c) ==
  /\ phase[c] = "left"
  /\ ClientExit(c)

Kill(c) ==
  /\ c \in Mortals
  /\ phase[c] \notin {"off", "gone"}
  /\ ClientDies(c)

-----------------------------------------------------------------------------
(* A client: handle_message, the sending thread.                           *)

\* mvwgetnstr returns a text and msgsnd is called.
Type(c) ==
  /\ phase[c] = "chatting"
  /\ sender[c] = "keyboard"
  /\ typed[c] < MaxTyped
  /\ typed' = [typed EXCEPT ![c] = @ + 1]
  /\ sender' = [sender EXCEPT ![c] = "msgsnd"]
  /\ UNCHANGED <<phase, serverId, batch, shown, names, serverVars, server_queue,
                 queue, queue_exists>>

\* A slip: IPC_NOWAIT, and nobody looks at the result.
Slip_SendText(c) ==
  /\ sender[c] = "msgsnd"
  /\ \/ SendRequest(c, "MESSAGE_INFO", typed[c])
     \/ CanReachServer(c) /\ Len(server_queue) = ServerCap /\ UNCHANGED server_queue
  /\ sender' = [sender EXCEPT ![c] = "keyboard"]
  /\ UNCHANGED <<phase, serverId, typed, batch, shown, names, serverVars,
                 queue, queue_exists>>

SendText(c) ==
  /\ sender[c] = "msgsnd"
  /\ SendRequest(c, "MESSAGE_INFO", typed[c])
  /\ sender' = [sender EXCEPT ![c] = "keyboard"]
  /\ UNCHANGED <<phase, serverId, typed, batch, shown, names, serverVars,
                 queue, queue_exists>>

SendTextFails(c) ==
  /\ sender[c] = "msgsnd"
  /\ ~CanReachServer(c)
  /\ ClientExit(c)

\* The cancellation reaches the thread inside msgsnd.
SenderCancelled(c) ==
  /\ phase[c] \in {"leaving", "left"}
  /\ sender[c] = "msgsnd"
  /\ sender' = [sender EXCEPT ![c] = "keyboard"]
  /\ UNCHANGED <<phase, serverId, typed, batch, shown, names, serverVars,
                 server_queue, queue, queue_exists>>

-----------------------------------------------------------------------------
(* A client: handle_response, the receiving thread.                        *)

MidBatch(c) == Len(batch[c].items) < batch[c].list_size

\* The first response of a list decides its type and size; the ones after it are
\* read in receive_clients or receive_messages, which look at the item only.
Received(b, r) ==
  IF Len(b.items) < b.list_size
  THEN [b EXCEPT !.items = Append(@, r.item)]
  ELSE [type |-> r.type, list_size |-> r.list_size, items |-> <<r.item>>]

IsWhole(b, type) == b.type = type /\ Len(b.items) = b.list_size

\* One msgrcv; a list that is complete is printed.
Receive(c) ==
  /\ phase[c] = "chatting"
  /\ queue[c] # <<>>
  /\ queue' = [queue EXCEPT ![c] = Tail(@)]
  /\ LET b == Received(batch[c], Head(queue[c])) IN
       /\ batch' = [batch EXCEPT ![c] = b]
       /\ names' = [names EXCEPT ![c] = IF IsWhole(b, "CLIENT_INFO") THEN b.items ELSE @]
       /\ shown' = [shown EXCEPT ![c] = IF IsWhole(b, "MESSAGE_INFO") THEN b.items ELSE @]
  /\ UNCHANGED <<phase, serverId, sender, typed, serverVars, server_queue, queue_exists>>

ClientStep(c) ==
  \/ Connect(c) \/ register_client(c) \/ RegisterFails(c) \/ StartThreads(c)
  \/ Sigint(c) \/ EarlySigint(c) \/ disconnect_client(c) \/ DisconnectFails(c)
  \/ remove_queues(c) \/ Kill(c)
  \/ Type(c) \/ SendText(c) \/ SendTextFails(c) \/ SenderCancelled(c)
  \/ Receive(c)

-----------------------------------------------------------------------------
Init ==
  /\ pc = "down"
  /\ run = 0
  /\ request_type = "REGISTRATION"
  /\ client_list = <<>>
  /\ message_list = [r \in 0..MaxRuns |-> <<>>]
  /\ si = 1 /\ sj = 1
  /\ exit_cause = "none"
  /\ server_queue = <<>>
  /\ queue = [c \in Clients |-> <<>>]
  /\ queue_exists = [c \in Clients |-> FALSE]
  /\ phase = [c \in Clients |-> "off"]
  /\ serverId = [c \in Clients |-> 0]
  /\ sender = [c \in Clients |-> "keyboard"]
  /\ typed = [c \in Clients |-> 0]
  /\ batch = [c \in Clients |-> NoBatch]
  /\ shown = [c \in Clients |-> <<>>]
  /\ names = [c \in Clients |-> <<>>]

Next ==
  \/ ServerStart \/ ServerSigint \/ ServerKill \/ ServerStep
  \/ \E c \in Clients : ClientStep(c)

Spec == Init /\ [][Next]_vars

\* The threads run until they block: each process step that can be taken is taken.
\* Nothing is assumed of the users (Type, Sigint, Connect, ServerStart) or of faults.
MainThread(c) ==
  \/ register_client(c) \/ RegisterFails(c) \/ StartThreads(c)
  \/ disconnect_client(c) \/ DisconnectFails(c) \/ remove_queues(c)

Fairness ==
  /\ WF_vars(ServerStep)
  /\ \A c \in Clients : /\ WF_vars(MainThread(c))
                        /\ WF_vars(SendText(c) \/ SendTextFails(c))
                        /\ WF_vars(Receive(c))

FairSpec == Spec /\ Fairness

-----------------------------------------------------------------------------
(* Properties.                                                             *)

ServerTypeOK ==
  /\ pc \in {"down", "recv", "clients", "messages", "killed"}
  /\ run \in 0..MaxRuns
  /\ request_type \in {"REGISTRATION", "DISCONNECTION", "MESSAGE_INFO"}
  /\ client_list \in Seq(Clients)
  /\ message_list \in [0..MaxRuns -> Seq(Message)]
  /\ si \in Nat \ {0} /\ sj \in Nat \ {0}
  /\ exit_cause \in {"none", "sigint", "kill", "ENOKEY", "EIDRM"}

QueuesTypeOK ==
  /\ server_queue \in Seq(Request)
  /\ Len(server_queue) <= ServerCap
  /\ queue \in [Clients -> Seq(Response)]
  /\ \A c \in Clients : Len(queue[c]) <= ClientCap
  /\ queue_exists \in [Clients -> BOOLEAN]

ClientsTypeOK ==
  /\ phase \in [Clients -> {"off", "connected", "registered", "chatting",
                            "leaving", "left", "gone"}]
  /\ serverId \in [Clients -> 0..MaxRuns]
  /\ sender \in [Clients -> {"keyboard", "msgsnd"}]
  /\ typed \in [Clients -> 0..MaxTyped]
  /\ \A c \in Clients : sender[c] = "msgsnd" => typed[c] > 0
  /\ batch \in [Clients -> Batch]
  /\ shown \in [Clients -> Seq(Clients \cup Message)]
  /\ names \in [Clients -> Seq(Clients \cup Message)]

\* Every variable keeps its type, and no queue ever holds more than it can.
TypeOK == ServerTypeOK /\ QueuesTypeOK /\ ClientsTypeOK

\* The request the server takes next comes from a client it has registered, and a
\* registration from one it has not; the lookup can only fail for a text that its
\* author's disconnection overtook (serve_request's get_client_index checks).
StrangerIsALateText ==
  pc = "recv" /\ server_queue # <<>> =>
    LET r == Head(server_queue) IN
      /\ r.type = "REGISTRATION" => ~IsRegistered(r.from)
      /\ r.type = "DISCONNECTION" => IsRegistered(r.from)
      /\ r.type = "MESSAGE_INFO" => \/ IsRegistered(r.from)
                                   \/ phase[r.from] \in {"left", "gone"}

\* receive_clients and receive_messages do not look at the type of what they read:
\* it is nevertheless always the next item of the list they are reading, and a
\* list never starts in the middle, whatever the clients and servers that come and
\* go, blocked or killed, do to each other.
ListsArriveWhole ==
  \A c \in Clients :
    queue[c] # <<>> =>
      LET r == Head(queue[c]) IN
        IF MidBatch(c)
        THEN /\ r.type = batch[c].type
             /\ r.list_size = batch[c].list_size
             /\ r.pos = Len(batch[c].items) + 1
        ELSE r.pos = 1

\* What a client shows in its message window is the beginning of the history of
\* the server it registered with, also after that server has ended or restarted.
ShownIsPrefix ==
  \A c \in Clients : IsPrefix(shown[c], message_list[serverId[c]])

\* The i-th text of the history that a client wrote is the i-th it typed: no text
\* is lost between two others, doubled or out of order.
HistoryInOrder ==
  \A r \in 1..MaxRuns : \A i \in DOMAIN message_list[r] :
    LET m == message_list[r][i] IN
      m.n = Cardinality({j \in 1..i : message_list[r][j].from = m.from})

\* A client that shows a client list finds itself in it, and nobody twice.
SeesItself ==
  \A c \in Clients :
    names[c] # <<>> => Contains(names[c], c) /\ IsInjective(names[c])

\* The server ends only by a signal, never through an error path of its own.
ServerEndsOnRequest == exit_cause \in {"none", "sigint", "kill"}

InTransit(m) ==
  \E i \in DOMAIN server_queue :
    /\ server_queue[i].type = "MESSAGE_INFO"
    /\ server_queue[i].from = m.from /\ server_queue[i].n = m.n

\* The server stands before the full queue of a client that died without its handler,
\* for good.
AtADeadQueue ==
  /\ pc \in {"clients", "messages"}
  /\ phase[client_list[si]] = "gone" /\ Len(queue[client_list[si]]) = ClientCap

\* A text in the server's queue comes to be shown by every registered client that lives,
\* unless the server gets stuck at the queue of one that does not.
TextsArrive ==
  \A m \in Message :
    InTransit(m) ~>
      \/ AtADeadQueue
      \/ \A c \in ToSet(client_list) : phase[c] = "gone" \/ Contains(shown[c], m)

\* When the users pause, every registered client that lives shows the whole history
\* and the client list as the server has them, with the same exception.
WindowsConverge ==
  <>[](\/ AtADeadQueue
       \/ \A c \in ToSet(client_list) :
            \/ phase[c] = "gone"
            \/ shown[c] = history /\ names[c] = client_list)

\* A user who presses Ctrl-C gets out of the chat.
LeavingEnds == \A c \in Clients : phase[c] = "leaving" ~> phase[c] = "gone"

\* The chat room implements the abstract one.
Abstract == INSTANCE ChatRoom WITH
  Messages <- Message, MaxSessions <- MaxRuns,
  open <- pc \notin {"down", "killed"},
  session <- run,
  members <- ToSet(client_list),
  log <- message_list,
  attends <- serverId

IsAChatRoom == Abstract!Spec
=============================================================================
