-------------------------------- MODULE ShmChat --------------------------------
(***************************************************************************)
(* The chat room of Task14/Chatroom: the clients share one segment with    *)
(* the list of clients and the list of messages and write both themselves; *)
(* the server only creates the segment and a set of semaphores.  Each      *)
(* client has one semaphore, which its two threads take in turn.           *)
(*                                                                         *)
(* The programs are compiled without optimisation: every read and write of *)
(* a counter, and every copy of a name or a text, is a step of its own, in *)
(* the order of the source; so is each iteration of a loop over a list.    *)
(* A client is named by itself (names are taken to be different), a text   *)
(* by its author and its number.                                           *)
(*                                                                         *)
(* Slip_X is the definition X with a plausible programming slip.           *)
(***************************************************************************)
EXTENDS Integers, Sequences, FiniteSets

CONSTANTS Clients,       \* the client processes that may be started
          Talkers,       \* those whose user types
          Quitters,      \* those whose user may press Ctrl-C
          Mortals,       \* those that may die without running a handler
          AfterServer,   \* are clients started after the server's announcement
          OneByOne,      \* and each after the one before it has opened its windows
          MAX_CLIENTS, MAX_MESSAGES,
          MaxTyped       \* bound: texts one user types

ASSUME ConstantsAssumption ==
  /\ Talkers \subseteq Clients /\ Quitters \subseteq Clients /\ Mortals \subseteq Clients
  /\ AfterServer \in BOOLEAN /\ OneByOne \in BOOLEAN
  /\ MAX_CLIENTS \in Nat \ {0} /\ MAX_MESSAGES \in Nat \ {0}
  /\ MaxTyped \in Nat

VARIABLES
  server,        \* off, segment, semaphores, clients_zero, running, ended, aborted
  \* the segment
  client_list, clients_num,
  author, text,  \* the fields client_name and message of message_list
  messages_num,
  \* the semaphores
  sem,
  \* the client processes
  main,          \* main[c]: the next step of the main thread or the handler
  k, v,          \* its loop index and the counter it has read
  semaphore_number,
  receiver,      \* receiver[c]: the next step of the receiving thread
  size, printed, \* the number of items it prints and those it has printed
  shown,  \* the two windows
  sender,        \* sender[c]: the next step of the sending thread
  index,         \* the value of messages_num it has read
  typed          \* texts typed so far

segmentVars == <<client_list, clients_num, author, text, messages_num>>
mainVars == <<main, k, v, semaphore_number>>
receiverVars == <<receiver, size, printed, shown>>
senderVars == <<sender, index, typed>>
vars == <<server, segmentVars, sem, mainVars, receiverVars, senderVars>>

NoName == "no name"
NoText == <<NoName, 0>>
Text == Clients \X (1..MaxTyped)

ClientSlots == 0..MAX_CLIENTS - 1
MessageSlots == 0..MAX_MESSAGES - 1

-----------------------------------------------------------------------------
(* The server.                                                             *)

ServerGoes(from, to) ==
  /\ server = from
  /\ server' = to
  /\ UNCHANGED <<sem, mainVars, receiverVars, senderVars>>

CreateSegment == ServerGoes("off", "segment") /\ UNCHANGED segmentVars

CreateSemaphores == ServerGoes("segment", "semaphores") /\ UNCHANGED segmentVars

ZeroClients ==
  /\ ServerGoes("semaphores", "clients_zero")
  /\ clients_num' = 0
  /\ UNCHANGED <<client_list, author, text, messages_num>>

ZeroMessages ==
  /\ ServerGoes("clients_zero", "running")
  /\ messages_num' = 0
  /\ UNCHANGED <<client_list, clients_num, author, text>>

\* handle_sigint: the semaphores go at once, the segment when nobody uses it.  It is
\* installed before anything else: what was not created yet has the number 0 in it,
\* and what it removes under that number is not the chat's.
ServerSigint ==
  /\ \/ ServerGoes("running", "ended")
     \/ \E s \in {"off", "segment", "semaphores", "clients_zero"} : ServerGoes(s, "aborted")
  /\ UNCHANGED segmentVars

SegmentCanBeFound == server \in {"segment", "semaphores", "clients_zero", "running"}
SemaphoresExist == server \in {"semaphores", "clients_zero", "running"}

ServerStep ==
  \/ CreateSegment \/ CreateSemaphores \/ ZeroClients \/ ZeroMessages \/ ServerSigint

-----------------------------------------------------------------------------
(* A client: main().                                                       *)

MainGoes(c, from, to) ==
  /\ main[c] = from
  /\ main' = [main EXCEPT ![c] = to]

\* A local variable that is not read again goes back to 0.
Forget(var, c) == var' = [var EXCEPT ![c] = 0]

MayStart(c) ==
  /\ AfterServer => server = "running"
  /\ OneByOne => \A d \in Clients : main[d] \in {"off", "chatting", "gone"}

\* shmget and shmat; a client that finds no segment ends as if it never was.
OpenSegment(c) ==
  /\ MayStart(c)
  /\ SegmentCanBeFound
  /\ MainGoes(c, "off", "semget")
  /\ UNCHANGED <<server, segmentVars, sem, k, v, semaphore_number, receiverVars, senderVars>>

OpenSemaphores(c) ==
  /\ MainGoes(c, "semget", IF SemaphoresExist THEN "slot" ELSE "gone")
  /\ UNCHANGED <<server, segmentVars, sem, k, v, semaphore_number, receiverVars, senderVars>>

FindSlot(c) ==
  /\ MainGoes(c, "slot", "name")
  /\ v' = [v EXCEPT ![c] = clients_num]
  /\ UNCHANGED <<server, segmentVars, sem, k, semaphore_number, receiverVars, senderVars>>

\* A slip: every client takes the first slot.
Slip_WriteName(c) ==
  /\ MainGoes(c, "name", "count")
  /\ client_list' = [client_list EXCEPT ![0] = c]
  /\ Forget(v, c)
  /\ UNCHANGED <<server, clients_num, author, text, messages_num, sem, k,
                 semaphore_number, receiverVars, senderVars>>

WriteName(c) ==
  /\ MainGoes(c, "name", "count")
  /\ client_list' = [client_list EXCEPT ![v[c]] = c]
  /\ Forget(v, c)
  /\ UNCHANGED <<server, clients_num, author, text, messages_num, sem, k,
                 semaphore_number, receiverVars, senderVars>>

ReadCount(c) ==
  /\ MainGoes(c, "count", "increment")
  /\ v' = [v EXCEPT ![c] = clients_num]
  /\ UNCHANGED <<server, segmentVars, sem, k, semaphore_number, receiverVars, senderVars>>

Increment(c) ==
  /\ MainGoes(c, "increment", "search")
  /\ clients_num' = v[c] + 1
  /\ Forget(v, c)
  /\ UNCHANGED <<server, client_list, author, text, messages_num, sem, k,
                 semaphore_number, receiverVars, senderVars>>

\* A slip: the search ends at the first slot, whoever is in it.
Slip_Search(c) ==
  /\ MainGoes(c, "search", "sem_init")
  /\ semaphore_number' = [semaphore_number EXCEPT ![c] = 0]
  /\ UNCHANGED <<server, segmentVars, sem, k, v, receiverVars, senderVars>>

\* One iteration of the loop for the own name; the last one found counts.
Search(c) ==
  /\ IF k[c] < clients_num
     THEN /\ MainGoes(c, "search", "search")
          /\ k' = [k EXCEPT ![c] = @ + 1]
          /\ semaphore_number' = [semaphore_number EXCEPT
               ![c] = IF client_list[k[c]] = c THEN k[c] ELSE @]
     ELSE /\ MainGoes(c, "search", "sem_init")
          /\ Forget(k, c)
          /\ UNCHANGED semaphore_number
  /\ UNCHANGED <<server, segmentVars, sem, v, receiverVars, senderVars>>

\* semctl(SETVAL, 1), then the threads.
sem_init(c) ==
  /\ SemaphoresExist
  /\ semaphore_number[c] >= 0
  /\ MainGoes(c, "sem_init", "chatting")
  /\ sem' = [sem EXCEPT ![semaphore_number[c]] = 1]
  /\ receiver' = [receiver EXCEPT ![c] = "reserve"]
  /\ sender' = [sender EXCEPT ![c] = "reserve"]
  /\ UNCHANGED <<server, segmentVars, k, v, semaphore_number, size, printed, shown,
                 index, typed>>

\* The process ends: by exit() or from outside.  Its name may stay in the list and
\* its semaphore as it is.
Ends(c) ==
  /\ main' = [main EXCEPT ![c] = "gone"]
  /\ receiver' = [receiver EXCEPT ![c] = "off"]
  /\ sender' = [sender EXCEPT ![c] = "off"]
  /\ Forget(k, c) /\ Forget(v, c) /\ Forget(size, c) /\ Forget(index, c)
  /\ printed' = [printed EXCEPT ![c] = <<>>]
  /\ UNCHANGED <<server, segmentVars, sem, semaphore_number, shown, typed>>

\* The name was not found (number -1), or the server has removed the semaphores.
SemInitFails(c) ==
  /\ main[c] = "sem_init"
  /\ semaphore_number[c] < 0 \/ ~SemaphoresExist
  /\ Ends(c)

\* semop of either thread on a semaphore that was removed: err_exit.
SemopFails(c) ==
  /\ ~SemaphoresExist
  /\ receiver[c] \in {"reserve", "release"} \/ sender[c] \in {"reserve", "release"}
  /\ Ends(c)

Kill(c) ==
  /\ c \in Mortals
  /\ main[c] \notin {"off", "gone"}
  /\ Ends(c)

-----------------------------------------------------------------------------
(* A client: handle_sigint.  The cancelled threads may go on until the     *)
(* process exits, the sending thread not beyond the keyboard.              *)

Sigint(c) ==
  /\ c \in Quitters
  /\ MainGoes(c, "chatting", "scan")
  /\ UNCHANGED <<server, segmentVars, sem, k, v, semaphore_number, receiverVars, senderVars>>

\* Before both threads exist the handler cancels a thread 0 and crashes.
EarlySigint(c) ==
  /\ c \in Quitters
  /\ main[c] \in {"semget", "slot", "name", "count", "increment", "search", "sem_init"}
  /\ Ends(c)

Scan(c) ==
  /\ IF k[c] < clients_num
     THEN IF client_list[k[c]] = c
          THEN /\ MainGoes(c, "scan", "shift")
               /\ UNCHANGED k
          ELSE /\ MainGoes(c, "scan", "scan")
               /\ k' = [k EXCEPT ![c] = @ + 1]
     ELSE /\ MainGoes(c, "scan", "exit")
          /\ Forget(k, c)
  /\ UNCHANGED <<server, segmentVars, sem, v, semaphore_number, receiverVars, senderVars>>

\* One iteration of the loop that moves the names after the own one down.
Shift(c) ==
  /\ IF k[c] < clients_num - 1
     THEN /\ MainGoes(c, "shift", "shift")
          /\ client_list' = [client_list EXCEPT ![k[c]] = client_list[k[c] + 1]]
          /\ k' = [k EXCEPT ![c] = @ + 1]
     ELSE /\ MainGoes(c, "shift", "uncount")
          /\ Forget(k, c)
          /\ UNCHANGED client_list
  /\ UNCHANGED <<server, clients_num, author, text, messages_num, sem, v,
                 semaphore_number, receiverVars, senderVars>>

ReadUncount(c) ==
  /\ MainGoes(c, "uncount", "decrement")
  /\ v' = [v EXCEPT ![c] = clients_num]
  /\ UNCHANGED <<server, segmentVars, sem, k, semaphore_number, receiverVars, senderVars>>

Decrement(c) ==
  /\ MainGoes(c, "decrement", "exit")
  /\ clients_num' = v[c] - 1
  /\ Forget(v, c)
  /\ UNCHANGED <<server, client_list, author, text, messages_num, sem, k,
                 semaphore_number, receiverVars, senderVars>>

Exit(c) ==
  /\ main[c] = "exit"
  /\ Ends(c)

-----------------------------------------------------------------------------
(* The semaphore of a client.                                              *)

\* A slip: the semaphore is taken without a wait for it.
Slip_sem_reserve(c) ==
  /\ SemaphoresExist
  /\ sem' = [sem EXCEPT ![semaphore_number[c]] = @ - 1]

sem_reserve(c) ==
  /\ SemaphoresExist
  /\ sem[semaphore_number[c]] > 0
  /\ sem' = [sem EXCEPT ![semaphore_number[c]] = @ - 1]

sem_release(c) ==
  /\ SemaphoresExist
  /\ sem' = [sem EXCEPT ![semaphore_number[c]] = @ + 1]

-----------------------------------------------------------------------------
(* A client: handle_response, the receiving thread.                        *)

ReceiverGoes(c, from, to) ==
  /\ receiver[c] = from
  /\ receiver' = [receiver EXCEPT ![c] = to]
  /\ UNCHANGED <<server, segmentVars, mainVars, senderVars>>

ReceiverReserve(c) ==
  /\ ReceiverGoes(c, "reserve", "start")
  /\ sem_reserve(c)
  /\ UNCHANGED <<size, printed, shown>>

MessageAt(n) == [from |-> author[n], text |-> text[n]]

\* The arguments of print_messages are taken, then each message is read on its own.
\* print_clients, which does the same before, is left out: it changes nothing that
\* anybody reads.
StartPrint(c) ==
  /\ ReceiverGoes(c, "start", "print")
  /\ size' = [size EXCEPT ![c] = messages_num]
  /\ UNCHANGED <<sem, printed, shown>>

PrintMessage(c) ==
  /\ ReceiverGoes(c, "print", "print")
  /\ Len(printed[c]) < size[c]
  /\ printed' = [printed EXCEPT ![c] = Append(@, MessageAt(Len(@)))]
  /\ UNCHANGED <<sem, size, shown>>

\* A slip: the window is refreshed before the last message is printed.
Slip_EndPrint(c) ==
  /\ ReceiverGoes(c, "print", "release")
  /\ Len(printed[c]) >= size[c] - 1
  /\ shown' = [shown EXCEPT ![c] = printed[c]]
  /\ printed' = [printed EXCEPT ![c] = <<>>]
  /\ size' = [size EXCEPT ![c] = 0]
  /\ UNCHANGED sem

EndPrint(c) ==
  /\ ReceiverGoes(c, "print", "release")
  /\ Len(printed[c]) >= size[c]
  /\ shown' = [shown EXCEPT ![c] = printed[c]]
  /\ printed' = [printed EXCEPT ![c] = <<>>]
  /\ size' = [size EXCEPT ![c] = 0]
  /\ UNCHANGED sem

\* A slip: the semaphore is not given back.
Slip_ReceiverRelease(c) ==
  /\ ReceiverGoes(c, "release", "reserve")
  /\ UNCHANGED <<sem, size, printed, shown>>

ReceiverRelease(c) ==
  /\ ReceiverGoes(c, "release", "reserve")
  /\ sem_release(c)
  /\ UNCHANGED <<size, printed, shown>>

-----------------------------------------------------------------------------
(* A client: handle_message, the sending thread.                           *)

SenderGoes(c, from, to) ==
  /\ sender[c] = from
  /\ sender' = [sender EXCEPT ![c] = to]
  /\ UNCHANGED <<server, client_list, clients_num, mainVars, receiverVars>>

SenderReserve(c) ==
  /\ SenderGoes(c, "reserve", "keyboard")
  /\ sem_reserve(c)
  /\ UNCHANGED <<author, text, messages_num, index, typed>>

Type(c) ==
  /\ c \in Talkers
  /\ main[c] = "chatting"
  /\ typed[c] < MaxTyped
  /\ SenderGoes(c, "keyboard", "author_at")
  /\ typed' = [typed EXCEPT ![c] = @ + 1]
  /\ UNCHANGED <<author, text, messages_num, sem, index>>

\* messages_num is read anew for each field and for the increment.
ReadIndex(c) ==
  /\ \/ SenderGoes(c, "author_at", "author")
     \/ SenderGoes(c, "text_at", "text")
     \/ SenderGoes(c, "count", "increment")
  /\ index' = [index EXCEPT ![c] = messages_num]
  /\ UNCHANGED <<author, text, messages_num, sem, typed>>

WriteAuthor(c) ==
  /\ SenderGoes(c, "author", "text_at")
  /\ author' = [author EXCEPT ![index[c]] = c]
  /\ Forget(index, c)
  /\ UNCHANGED <<text, messages_num, sem, typed>>

WriteText(c) ==
  /\ SenderGoes(c, "text", "count")
  /\ text' = [text EXCEPT ![index[c]] = <<c, typed[c]>>]
  /\ Forget(index, c)
  /\ UNCHANGED <<author, messages_num, sem, typed>>

\* A slip: the counter is not incremented for the first message.
Slip_Publish(c) ==
  /\ SenderGoes(c, "increment", "release")
  /\ messages_num' = IF index[c] = 0 THEN 0 ELSE index[c] + 1
  /\ Forget(index, c)
  /\ UNCHANGED <<author, text, sem, typed>>

\* A slip: room is made for two.
Slip2_Publish(c) ==
  /\ SenderGoes(c, "increment", "release")
  /\ messages_num' = index[c] + 2
  /\ Forget(index, c)
  /\ UNCHANGED <<author, text, sem, typed>>

Publish(c) ==
  /\ SenderGoes(c, "increment", "release")
  /\ messages_num' = index[c] + 1
  /\ Forget(index, c)
  /\ UNCHANGED <<author, text, sem, typed>>

SenderRelease(c) ==
  /\ SenderGoes(c, "release", "reserve")
  /\ sem_release(c)
  /\ UNCHANGED <<author, text, messages_num, index, typed>>

-----------------------------------------------------------------------------
MainStep(c) ==
  \/ OpenSemaphores(c) \/ FindSlot(c) \/ WriteName(c) \/ ReadCount(c) \/ Increment(c)
  \/ Search(c) \/ sem_init(c) \/ SemInitFails(c)

HandlerStep(c) == Scan(c) \/ Shift(c) \/ ReadUncount(c) \/ Decrement(c) \/ Exit(c)

Printing(c) ==
  StartPrint(c) \/ PrintMessage(c) \/ EndPrint(c) \/ ReceiverRelease(c)

Writing(c) ==
  ReadIndex(c) \/ WriteAuthor(c) \/ WriteText(c) \/ Publish(c) \/ SenderRelease(c)

ClientStep(c) ==
  \/ OpenSegment(c) \/ MainStep(c) \/ SemopFails(c) \/ Kill(c)
  \/ Sigint(c) \/ EarlySigint(c) \/ HandlerStep(c)
  \/ ReceiverReserve(c) \/ Printing(c)
  \/ SenderReserve(c) \/ Type(c) \/ Writing(c)

\* The kernel delivers a new segment filled with zeros.
Init ==
  /\ server = "off"
  /\ client_list = [n \in ClientSlots |-> NoName]
  /\ clients_num = 0
  /\ author = [n \in MessageSlots |-> NoName]
  /\ text = [n \in MessageSlots |-> NoText]
  /\ messages_num = 0
  /\ sem = [n \in ClientSlots |-> 0]
  /\ main = [c \in Clients |-> "off"]
  /\ k = [c \in Clients |-> 0]
  /\ v = [c \in Clients |-> 0]
  /\ semaphore_number = [c \in Clients |-> -1]
  /\ receiver = [c \in Clients |-> "off"]
  /\ size = [c \in Clients |-> 0]
  /\ printed = [c \in Clients |-> <<>>]
  /\ shown = [c \in Clients |-> <<>>]
  /\ sender = [c \in Clients |-> "off"]
  /\ index = [c \in Clients |-> 0]
  /\ typed = [c \in Clients |-> 0]

Next == ServerStep \/ \E c \in Clients : ClientStep(c)

Spec == Init /\ [][Next]_vars

\* Threads run until they block.  A thread that waits for a semaphore gets it if it
\* is released again and again: Linux keeps the waiting semops in order.  Nothing
\* is assumed of the users and of the server's end.
Fairness ==
  \A c \in Clients :
    /\ WF_vars(MainStep(c))
    /\ WF_vars(HandlerStep(c))
    /\ WF_vars(SemopFails(c))
    /\ SF_vars(ReceiverReserve(c)) /\ WF_vars(Printing(c))
    /\ SF_vars(SenderReserve(c)) /\ WF_vars(Writing(c))

FairSpec == Spec /\ Fairness

-----------------------------------------------------------------------------
(* Properties.                                                             *)

Listed == {client_list[n] : n \in 0..clients_num - 1}

Message == [from : Clients \cup {NoName}, text : Text \cup {NoText}]

\* Every variable keeps its type.
TypeOK ==
  /\ server \in {"off", "segment", "semaphores", "clients_zero", "running", "ended",
                "aborted"}
  /\ client_list \in [ClientSlots -> Clients \cup {NoName}]
  /\ author \in [MessageSlots -> Clients \cup {NoName}]
  /\ text \in [MessageSlots -> Text \cup {NoText}]
  /\ clients_num \in Int /\ messages_num \in Nat
  /\ sem \in [ClientSlots -> Nat]
  /\ main \in [Clients -> {"off", "semget", "slot", "name", "count", "increment",
                           "search", "sem_init", "chatting", "scan", "shift",
                           "uncount", "decrement", "exit", "gone"}]
  /\ k \in [Clients -> Nat] /\ v \in [Clients -> Int]
  /\ semaphore_number \in [Clients -> Nat \cup {-1}]
  /\ receiver \in [Clients -> {"off", "reserve", "start", "print", "release"}]
  /\ size \in [Clients -> Int]
  /\ sender \in [Clients -> {"off", "reserve", "keyboard", "author_at", "author",
                             "text_at", "text", "count", "increment", "release"}]
  /\ index \in [Clients -> Nat]
  /\ typed \in [Clients -> 0..MaxTyped]

\* However arrivals, departures and texts overlap, no index passes the end of its
\* array as long as not more clients are started and texts typed than the arrays have
\* slots; the program has no test for it.
NoOverrun ==
  /\ \A c \in Clients :
       /\ main[c] = "name" => v[c] < MAX_CLIENTS
       /\ semaphore_number[c] < MAX_CLIENTS
       /\ sender[c] \in {"author", "text"} => index[c] < MAX_MESSAGES
  /\ clients_num <= MAX_CLIENTS
  /\ messages_num <= MAX_MESSAGES

InSection(c, thread) ==
  IF thread = "receiver"
  THEN receiver[c] \notin {"off", "reserve"}
  ELSE sender[c] \notin {"off", "reserve"}

Threads == Clients \X {"receiver", "sender"}

\* Between sem_reserve and sem_release of a semaphore there is one thread at a time.
CriticalSection ==
  \A s, t \in Threads :
    /\ s # t
    /\ semaphore_number[s[1]] = semaphore_number[t[1]]
    => ~(InSection(s[1], s[2]) /\ InSection(t[1], t[2]))

\* A client in the chat has been added to the list, as main() says.
ClientsListed == \A c \in Clients : main[c] = "chatting" => c \in Listed

AtWork(c) == sender[c] \in {"author_at", "author", "text_at", "text", "count", "increment"}

\* While nobody is at work on a text and the chat has not been ended, each text that
\* was typed stands in the list, with its author's name.
TextsKept ==
  (server = "running" /\ \A c \in Clients : ~AtWork(c)) =>
    \A c \in Clients : \A n \in 1..typed[c] :
      \E m \in 0..messages_num - 1 : author[m] = c /\ text[m] = <<c, n>>

\* A sending thread that waits for its semaphore comes to the keyboard or its process
\* ends: the receiving thread, which takes the semaphore again at once, and the other
\* clients can not keep it out.
KeyboardReached ==
  \A c \in Clients : sender[c] = "reserve" ~> sender[c] # "reserve"

\* The chat room implements the abstract one.  It is open as long as its segment is
\* in use, also after the server has ended.
Abstract == INSTANCE ChatRoom WITH
  Messages <- Message, MaxSessions <- 1,
  open <- server \in {"running", "ended"},
  session <- IF server \in {"running", "ended"} THEN 1 ELSE 0,
  members <- Listed,
  log <- [s \in 0..1 |-> IF s = 0 THEN <<>>
                         ELSE [n \in 1..messages_num |-> MessageAt(n - 1)]],
  attends <- [c \in Clients |-> IF main[c] = "off" THEN 0 ELSE 1]

IsAChatRoom == Abstract!Spec
=============================================================================
