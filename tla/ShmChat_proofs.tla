---------------------------- MODULE ShmChat_proofs ----------------------------
(* Theorems about ShmChat, for any number of clients and texts the arrays   *)
(* can hold.  Whatever overlaps: types, and no index beyond the end of an   *)
(* array.  If clients arrive one by one and nobody leaves with Ctrl-C: each *)
(* client is in the list and has a semaphore of its own.  With one talker:  *)
(* no text is lost, and the chat room implements ChatRoom.                  *)
EXTENDS ShmChat, FiniteSetTheorems, SequenceTheorems, TLAPS

\* Not more clients are started, and texts typed, than there are slots.
EnoughRoom ==
  /\ IsFiniteSet(Clients)
  /\ Cardinality(Clients) <= MAX_CLIENTS
  /\ Cardinality(Text) <= MAX_MESSAGES

\* The clients that have incremented clients_num (or ended without it).
Counted ==
  {c \in Clients : main[c] \notin {"off", "semget", "slot", "name", "count", "increment"}}

\* The texts that have incremented messages_num (or ended with their process).
Done ==
  {t \in Text : \/ t[2] < typed[t[1]]
                \/ t[2] = typed[t[1]] /\ ~AtWork(t[1])}

Arriving ==
  {"off", "semget", "slot", "name", "count", "increment", "search", "sem_init"}

\* A thread that runs has a semaphore; a text at work is one that was typed.
ThreadsOK ==
  \A c \in Clients :
    /\ receiver[c] # "off" \/ sender[c] # "off" => semaphore_number[c] \in ClientSlots
    /\ main[c] \in Arriving => receiver[c] = "off" /\ sender[c] = "off"
    /\ AtWork(c) => typed[c] > 0

\* A counter, and a reading of it, is at most the number of those who have counted.
ClientsCounted ==
  /\ clients_num <= Cardinality(Counted)
  /\ \A c \in Clients :
       /\ main[c] \in {"name", "increment", "decrement"} => v[c] <= Cardinality(Counted)
       /\ semaphore_number[c] < MAX_CLIENTS

MessagesCounted ==
  /\ messages_num <= Cardinality(Done)
  /\ \A c \in Clients :
       sender[c] \in {"author", "text", "increment"} => index[c] <= Cardinality(Done)

IInv == TypeOK /\ ThreadsOK /\ ClientsCounted /\ MessagesCounted

-----------------------------------------------------------------------------
(* Counting.                                                               *)

LEMMA CountedSize ==
  ASSUME EnoughRoom
  PROVE  /\ IsFiniteSet(Counted) /\ Cardinality(Counted) \in Nat
         /\ Cardinality(Counted) <= MAX_CLIENTS
         /\ \A c \in Clients \ Counted : Cardinality(Counted) < MAX_CLIENTS
<1>1. IsFiniteSet(Clients) /\ Counted \subseteq Clients
  BY DEF EnoughRoom, Counted
<1>2. /\ IsFiniteSet(Counted) /\ Cardinality(Counted) \in Nat /\ Cardinality(Clients) \in Nat
      /\ Cardinality(Counted) <= Cardinality(Clients)
      /\ Counted # Clients => Cardinality(Counted) < Cardinality(Clients)
  BY <1>1, FS_Subset, FS_CardinalityType
<1> QED
  BY <1>1, <1>2, ConstantsAssumption DEF EnoughRoom

LEMMA DoneSize ==
  ASSUME EnoughRoom
  PROVE  /\ IsFiniteSet(Done) /\ Cardinality(Done) \in Nat
         /\ Cardinality(Done) <= MAX_MESSAGES
         /\ \A t \in Text \ Done : Cardinality(Done) < MAX_MESSAGES
<1>1. IsFiniteSet(Text)
  <2>1. IsFiniteSet(1..MaxTyped)
    BY ConstantsAssumption, FS_Interval
  <2> QED
    BY <2>1, FS_Product DEF EnoughRoom, Text
<1>2. Done \subseteq Text
  BY DEF Done
<1>3. /\ IsFiniteSet(Done) /\ Cardinality(Done) \in Nat /\ Cardinality(Text) \in Nat
      /\ Cardinality(Done) <= Cardinality(Text)
      /\ Done # Text => Cardinality(Done) < Cardinality(Text)
  BY <1>1, <1>2, FS_Subset, FS_CardinalityType
<1> QED
  BY <1>2, <1>3, ConstantsAssumption DEF EnoughRoom

\* A set that gains members has a larger size.
LEMMA Grows ==
  ASSUME NEW S, NEW T, S \subseteq T, IsFiniteSet(T)
  PROVE  /\ Cardinality(S) \in Nat /\ Cardinality(T) \in Nat
         /\ Cardinality(S) <= Cardinality(T)
         /\ \A x \in T \ S : Cardinality(S) + 1 <= Cardinality(T)
<1>1. /\ IsFiniteSet(S) /\ Cardinality(S) \in Nat /\ Cardinality(T) \in Nat
      /\ Cardinality(S) <= Cardinality(T)
      /\ S # T => Cardinality(S) < Cardinality(T)
  BY FS_Subset, FS_CardinalityType
<1> QED
  BY <1>1

LEMMA NoOverrunFollows ==
  ASSUME EnoughRoom, IInv
  PROVE  NoOverrun
<1>1. /\ Cardinality(Counted) \in Nat /\ Cardinality(Counted) <= MAX_CLIENTS
      /\ \A c \in Clients \ Counted : Cardinality(Counted) < MAX_CLIENTS
  BY CountedSize
<1>2. /\ Cardinality(Done) \in Nat /\ Cardinality(Done) <= MAX_MESSAGES
      /\ \A t \in Text \ Done : Cardinality(Done) < MAX_MESSAGES
  BY DoneSize
<1>3. MAX_CLIENTS \in Nat /\ MAX_MESSAGES \in Nat /\ MaxTyped \in Nat
  BY ConstantsAssumption
<1>4. clients_num <= MAX_CLIENTS /\ messages_num <= MAX_MESSAGES
  BY <1>1, <1>2, <1>3 DEF IInv, TypeOK, ClientsCounted, MessagesCounted
<1>5. ASSUME NEW c \in Clients
      PROVE  /\ main[c] = "name" => v[c] < MAX_CLIENTS
             /\ semaphore_number[c] < MAX_CLIENTS
             /\ sender[c] \in {"author", "text"} => index[c] < MAX_MESSAGES
  <2>1. main[c] = "name" => v[c] < MAX_CLIENTS
    <3>1. main[c] = "name" => c \notin Counted
      BY DEF Counted
    <3> QED
      BY <1>1, <1>3, <3>1 DEF IInv, TypeOK, ClientsCounted
  <2>2. ASSUME sender[c] \in {"author", "text"} PROVE index[c] < MAX_MESSAGES
    <3>1. AtWork(c) /\ typed[c] \in 1..MaxTyped
      BY <1>3, <2>2 DEF IInv, TypeOK, ThreadsOK, AtWork
    <3>2. <<c, typed[c]>> \in Text \ Done
      BY <1>3, <3>1 DEF Text, Done
    <3> QED
      BY <1>2, <1>3, <2>2, <3>2 DEF IInv, TypeOK, MessagesCounted
  <2> QED
    BY <2>1, <2>2 DEF IInv, ClientsCounted
<1> QED
  BY <1>4, <1>5 DEF NoOverrun

-----------------------------------------------------------------------------
(* Types.                                                                  *)

LEMMA NumbersBounded ==
  ASSUME TypeOK, NoOverrun
  PROVE  /\ MAX_CLIENTS \in Nat /\ MAX_MESSAGES \in Nat /\ MaxTyped \in Nat
         /\ clients_num \in Int /\ clients_num <= MAX_CLIENTS
         /\ \A c \in Clients : k[c] \in Nat /\ v[c] \in Int /\ index[c] \in Nat
                               /\ typed[c] \in 0..MaxTyped
BY ConstantsAssumption DEF TypeOK, NoOverrun

LEMMA EndTypes ==
  ASSUME TypeOK, ThreadsOK, NEW c \in Clients, Ends(c)
  PROVE  TypeOK' /\ ThreadsOK'
BY DEF TypeOK, ThreadsOK, Ends, Forget, AtWork, Arriving, segmentVars

LEMMA MainTypes ==
  ASSUME TypeOK, ThreadsOK, NoOverrun, NEW c \in Clients,
         OpenSegment(c) \/ MainStep(c) \/ Sigint(c) \/ Scan(c) \/ Shift(c)
           \/ ReadUncount(c) \/ Decrement(c)
  PROVE  TypeOK' /\ ThreadsOK'
<1>a. semaphore_number[c] >= 0 => semaphore_number[c] \in ClientSlots
  <2>1. semaphore_number[c] \in Nat \cup {-1} /\ semaphore_number[c] < MAX_CLIENTS
    BY DEF TypeOK, NoOverrun
  <2> QED
    BY <2>1, NumbersBounded DEF ClientSlots
<1>b. k[c] < clients_num - 1 => k[c] + 1 \in ClientSlots
  <2>1. /\ k[c] \in Nat /\ clients_num \in Int /\ clients_num <= MAX_CLIENTS
        /\ MAX_CLIENTS \in Nat
    BY NumbersBounded
  <2> QED
    BY <2>1 DEF ClientSlots
<1>c. [client_list EXCEPT ![v[c]] = c] \in [ClientSlots -> Clients \cup {NoName}]
  BY DEF TypeOK
<1>8. CASE SemInitFails(c)
  BY <1>8, EndTypes DEF SemInitFails
<1> USE NumbersBounded
<1> USE DEF TypeOK, ThreadsOK, MainGoes, Forget, AtWork, Arriving, receiverVars, senderVars
<1>1. CASE OpenSegment(c) \/ OpenSemaphores(c) \/ FindSlot(c) \/ ReadCount(c) \/ ReadUncount(c)
  BY <1>1 DEF OpenSegment, OpenSemaphores, FindSlot, ReadCount, ReadUncount, segmentVars
<1>2. CASE WriteName(c)
  BY <1>2, <1>c DEF WriteName
<1>3. CASE Increment(c) \/ Decrement(c)
  BY <1>3 DEF Increment, Decrement
<1>4. CASE Search(c)
  BY <1>4 DEF Search, segmentVars
<1>5. CASE sem_init(c)
  <2>1. semaphore_number[c] \in ClientSlots
    BY <1>5, <1>a DEF sem_init
  <2> QED
    BY <1>5, <2>1 DEF sem_init, segmentVars
<1>6. CASE Sigint(c) \/ Scan(c)
  BY <1>6 DEF Sigint, Scan, segmentVars
<1>7. CASE Shift(c)
  <2>1. CASE k[c] < clients_num - 1
    <3>1. k[c] + 1 \in ClientSlots
      BY <2>1, <1>b
    <3>2. client_list' \in [ClientSlots -> Clients \cup {NoName}]
      BY <1>7, <2>1, <3>1 DEF Shift
    <3> QED
      BY <1>7, <2>1, <3>2 DEF Shift
  <2>2. CASE ~(k[c] < clients_num - 1)
    BY <1>7, <2>2 DEF Shift
  <2> QED
    BY <2>1, <2>2
<1> QED
  BY <1>1, <1>2, <1>3, <1>4, <1>5, <1>6, <1>7, <1>8 DEF MainStep

LEMMA ReceiverTypes ==
  ASSUME TypeOK, ThreadsOK, NEW c \in Clients, ReceiverReserve(c) \/ Printing(c)
  PROVE  TypeOK' /\ ThreadsOK'
<1> USE DEF TypeOK, ThreadsOK, ReceiverGoes, AtWork, Arriving, segmentVars, mainVars, senderVars
<1>1. CASE ReceiverReserve(c)
  BY <1>1 DEF ReceiverReserve, sem_reserve
<1>2. CASE StartPrint(c)
  <2>1. messages_num \in Int
    OBVIOUS
  <2> QED
    BY <1>2, <2>1 DEF StartPrint
<1>4. CASE PrintMessage(c)
  BY <1>4 DEF PrintMessage
<1>5. CASE EndPrint(c)
  BY <1>5 DEF EndPrint
<1>3. CASE ReceiverRelease(c)
  BY <1>3 DEF ReceiverRelease, sem_release
<1> QED
  BY <1>1, <1>2, <1>3, <1>4, <1>5 DEF Printing

LEMMA SenderTypes ==
  ASSUME TypeOK, ThreadsOK, NoOverrun, NEW c \in Clients,
         SenderReserve(c) \/ Type(c) \/ Writing(c)
  PROVE  TypeOK' /\ ThreadsOK'
<1> USE NumbersBounded
<1> USE DEF TypeOK, ThreadsOK, SenderGoes, Forget, AtWork, Arriving, mainVars, receiverVars
<1>1. CASE SenderReserve(c)
  BY <1>1 DEF SenderReserve, sem_reserve
<1>2. CASE Type(c)
  BY <1>2 DEF Type
<1>3. CASE ReadIndex(c)
  BY <1>3 DEF ReadIndex
<1>4. CASE WriteAuthor(c)
  BY <1>4 DEF WriteAuthor
<1>5. CASE WriteText(c)
  <2>1. <<c, typed[c]>> \in Text
    BY <1>5 DEF WriteText, Text
  <2>2. text' \in [MessageSlots -> Text \cup {NoText}]
    BY <1>5, <2>1 DEF WriteText
  <2> QED
    BY <1>5, <2>2 DEF WriteText
<1>6. CASE Publish(c)
  BY <1>6 DEF Publish
<1>7. CASE SenderRelease(c)
  BY <1>7 DEF SenderRelease, sem_release
<1> QED
  BY <1>1, <1>2, <1>3, <1>4, <1>5, <1>6, <1>7 DEF Writing

\* The server writes nothing but its own step and the counters.
LEMMA ServerFrame ==
  ASSUME ServerStep \/ UNCHANGED vars
  PROVE  UNCHANGED <<client_list, author, text, sem, mainVars, receiverVars, senderVars>>
<1>1. CASE ServerStep
  BY <1>1 DEF ServerStep, ServerGoes, CreateSegment, CreateSemaphores, ZeroClients,
              ZeroMessages, ServerSigint, segmentVars
<1>2. CASE UNCHANGED vars
  BY <1>2 DEF vars, segmentVars
<1> QED
  BY <1>1, <1>2

LEMMA TypesStep ==
  ASSUME TypeOK, ThreadsOK, NoOverrun, [Next]_vars
  PROVE  TypeOK' /\ ThreadsOK'
<1>1. CASE ServerStep
  BY <1>1 DEF ServerStep, ServerGoes, CreateSegment, CreateSemaphores, ZeroClients,
              ZeroMessages, ServerSigint, TypeOK, ThreadsOK, AtWork, Arriving,
              segmentVars, mainVars, receiverVars, senderVars
<1>2. ASSUME NEW c \in Clients, ClientStep(c) PROVE TypeOK' /\ ThreadsOK'
  <2>1. CASE SemopFails(c) \/ Kill(c) \/ EarlySigint(c) \/ Exit(c)
    BY <2>1, EndTypes DEF SemopFails, Kill, EarlySigint, Exit
  <2> QED
    BY <1>2, <2>1, MainTypes, ReceiverTypes, SenderTypes DEF ClientStep, HandlerStep
<1>3. CASE UNCHANGED vars
  BY <1>3 DEF vars, TypeOK, ThreadsOK, AtWork, Arriving, segmentVars, mainVars,
              receiverVars, senderVars
<1> QED
  BY <1>1, <1>2, <1>3 DEF Next

-----------------------------------------------------------------------------
(* The counters.                                                           *)

LEMMA Finite ==
  ASSUME EnoughRoom
  PROVE  /\ IsFiniteSet(Counted) /\ IsFiniteSet(Counted')
         /\ IsFiniteSet(Done) /\ IsFiniteSet(Done')
<1>1. IsFiniteSet(1..MaxTyped) /\ IsFiniteSet(Clients)
  BY ConstantsAssumption, FS_Interval DEF EnoughRoom
<1>2. IsFiniteSet(Text)
  BY <1>1, FS_Product DEF Text
<1>3. Counted \subseteq Clients /\ Counted' \subseteq Clients
  BY DEF Counted
<1>4. Done \subseteq Text /\ Done' \subseteq Text
  BY DEF Done
<1> QED
  BY <1>1, <1>2, <1>3, <1>4, FS_Subset

\* No step takes a client or a text out of those who have counted.
LEMMA CountedGrows ==
  ASSUME TypeOK, [Next]_vars
  PROVE  Counted \subseteq Counted'
<1> SUFFICES ASSUME NEW d \in Counted PROVE d \in Counted'
  OBVIOUS
<1> USE DEF Counted, TypeOK
<1>1. CASE ServerStep \/ UNCHANGED vars
  BY <1>1, ServerFrame DEF mainVars
<1>2. ASSUME NEW c \in Clients, ClientStep(c) PROVE d \in Counted'
  <2>1. CASE UNCHANGED main
    BY <2>1
  <2>2. CASE OpenSegment(c) \/ MainStep(c) \/ Sigint(c) \/ HandlerStep(c)
    BY <2>2 DEF MainStep, HandlerStep, MainGoes, OpenSegment, OpenSemaphores, FindSlot,
                WriteName, ReadCount, Increment, Search, sem_init, SemInitFails, Ends,
                Sigint, Scan, Shift, ReadUncount, Decrement, Exit
  <2>3. CASE SemopFails(c) \/ Kill(c) \/ EarlySigint(c)
    BY <2>3 DEF SemopFails, Kill, EarlySigint, Ends
  <2>4. CASE ReceiverReserve(c) \/ Printing(c) \/ SenderReserve(c) \/ Type(c) \/ Writing(c)
    BY <2>4 DEF ReceiverReserve, Printing, StartPrint, PrintMessage, EndPrint,
                ReceiverRelease, ReceiverGoes, SenderReserve, Type, Writing, ReadIndex,
                WriteAuthor, WriteText, Publish, SenderRelease, SenderGoes, mainVars
  <2> QED
    BY <1>2, <2>2, <2>3, <2>4 DEF ClientStep
<1> QED
  BY <1>1, <1>2 DEF Next

LEMMA DoneGrows ==
  ASSUME TypeOK, [Next]_vars
  PROVE  Done \subseteq Done'
<1> DEFINE Onward(d) == /\ typed'[d] = typed[d]
                        /\ sender'[d] = sender[d] \/ ~AtWork(d)' \/ AtWork(d)
<1>1. CASE ServerStep \/ UNCHANGED vars
  BY <1>1, ServerFrame DEF senderVars, Done, AtWork
<1>2. ASSUME NEW c \in Clients, ClientStep(c), ~Type(c) PROVE Done \subseteq Done'
  <2>1. \A d \in Clients : Onward(d)
    <3>1. CASE OpenSegment(c) \/ MainStep(c) \/ Sigint(c) \/ HandlerStep(c)
      BY <3>1 DEF MainStep, HandlerStep, OpenSegment, OpenSemaphores, FindSlot,
                  WriteName, ReadCount, Increment, Search, sem_init, SemInitFails, Ends,
                  Sigint, Scan, Shift, ReadUncount, Decrement, Exit, senderVars, AtWork,
                  TypeOK
    <3>2. CASE SemopFails(c) \/ Kill(c) \/ EarlySigint(c)
      BY <3>2 DEF SemopFails, Kill, EarlySigint, Ends, TypeOK, AtWork
    <3>3. CASE ReceiverReserve(c) \/ Printing(c)
      BY <3>3 DEF ReceiverReserve, Printing, StartPrint, PrintMessage, EndPrint,
                  ReceiverRelease, ReceiverGoes, senderVars
    <3>4. CASE SenderReserve(c) \/ Writing(c)
      BY <3>4 DEF SenderReserve, Writing, ReadIndex, WriteAuthor, WriteText, Publish,
                  SenderRelease, SenderGoes, TypeOK, AtWork
    <3> QED
      BY <1>2, <3>1, <3>2, <3>3, <3>4 DEF ClientStep
  <2>2. ASSUME NEW t \in Done PROVE t \in Done'
    <3>1. t \in Text /\ t[1] \in Clients
      BY DEF Done, Text
    <3>2. Onward(t[1])
      BY <2>1, <3>1
    <3> QED
      BY <3>1, <3>2 DEF Done, AtWork
  <2> QED
    BY <2>2
<1>3. ASSUME NEW c \in Clients, Type(c) PROVE Done \subseteq Done'
  <2>1. ASSUME NEW t \in Done PROVE t \in Done'
    <3>1. t \in Text /\ t[1] \in Clients /\ t[2] \in Int
      BY ConstantsAssumption DEF Done, Text
    <3>2. CASE t[1] = c
      <4>1. typed'[c] = typed[c] + 1 /\ typed[c] \in Int
        BY <1>3, ConstantsAssumption DEF Type, TypeOK
      <4>2. t[2] <= typed[c]
        BY <3>1, <3>2, <4>1 DEF Done
      <4> QED
        BY <3>1, <3>2, <4>1, <4>2 DEF Done
    <3>3. CASE t[1] # c
      BY <1>3, <3>1, <3>3 DEF Type, SenderGoes, TypeOK, Done, AtWork
    <3> QED
      BY <3>2, <3>3
  <2> QED
    BY <2>1
<1> QED
  BY <1>1, <1>2, <1>3 DEF Next

LEMMA ClientsCountedStep ==
  ASSUME EnoughRoom, TypeOK, NoOverrun, ClientsCounted, [Next]_vars
  PROVE  ClientsCounted'
<1> DEFINE N == Cardinality(Counted)
           M == Cardinality(Counted')
           ReadingsOK == \A d \in Clients :
             /\ main'[d] \in {"name", "increment", "decrement"} => v'[d] <= M
             /\ semaphore_number'[d] < MAX_CLIENTS
<1>0. ClientsCounted' <=> clients_num' <= M /\ ReadingsOK
  BY DEF ClientsCounted
<1>1. /\ N \in Nat /\ M \in Nat /\ N <= M
      /\ \A d \in Counted' \ Counted : N + 1 <= M
  BY Finite, CountedGrows, Grows
<1>2. /\ clients_num \in Int /\ clients_num <= N
      /\ clients_num <= MAX_CLIENTS /\ MAX_CLIENTS \in Nat
      /\ main \in [Clients -> {"off", "semget", "slot", "name", "count", "increment",
                               "search", "sem_init", "chatting", "scan", "shift",
                               "uncount", "decrement", "exit", "gone"}]
      /\ v \in [Clients -> Int] /\ k \in [Clients -> Nat]
      /\ semaphore_number \in [Clients -> Nat \cup {-1}]
  BY NumbersBounded DEF TypeOK, ClientsCounted
<1>3. \A d \in Clients :
        /\ main[d] \in {"name", "increment", "decrement"} => v[d] <= N
        /\ semaphore_number[d] < MAX_CLIENTS
  BY DEF ClientsCounted
<1> HIDE DEF N, M
<1>4. ASSUME UNCHANGED <<main, v, semaphore_number>>,
             clients_num' = clients_num \/ clients_num' = 0
      PROVE  ClientsCounted'
  BY <1>0, <1>1, <1>2, <1>3, <1>4
<1>5. CASE ServerStep \/ UNCHANGED vars
  BY <1>4, <1>5 DEF ServerStep, ServerGoes, CreateSegment, CreateSemaphores, ZeroClients,
                    ZeroMessages, ServerSigint, mainVars, segmentVars, vars
<1>6. ASSUME NEW c \in Clients, ClientStep(c) PROVE ClientsCounted'
  <2> USE DEF MainGoes, Forget, segmentVars
  <2>1. CASE FindSlot(c) \/ ReadCount(c) \/ ReadUncount(c)
    BY <1>0, <1>1, <1>2, <1>3, <2>1 DEF FindSlot, ReadCount, ReadUncount
  <2>2. CASE Increment(c)
    <3>1. c \in Counted' \ Counted
      BY <1>2, <2>2 DEF Increment, Counted
    <3>2. v[c] + 1 <= M
      BY <1>1, <1>2, <1>3, <2>2, <3>1 DEF Increment
    <3> QED
      BY <1>0, <1>1, <1>2, <1>3, <2>2, <3>2 DEF Increment
  <2>3. CASE Decrement(c)
    BY <1>0, <1>1, <1>2, <1>3, <2>3 DEF Decrement
  <2>4. CASE Search(c)
    <3>1. ReadingsOK
      BY <1>1, <1>2, <1>3, <2>4 DEF Search
    <3>2. clients_num' = clients_num
      BY <2>4 DEF Search
    <3> QED
      BY <1>0, <1>1, <1>2, <3>1, <3>2
  <2>5. CASE \/ OpenSegment(c) \/ OpenSemaphores(c) \/ WriteName(c) \/ sem_init(c)
             \/ Sigint(c) \/ Scan(c) \/ Shift(c)
    BY <1>0, <1>1, <1>2, <1>3, <2>5
    DEF OpenSegment, OpenSemaphores, WriteName, sem_init, Sigint, Scan, Shift
  <2>6. CASE SemInitFails(c) \/ SemopFails(c) \/ Kill(c) \/ EarlySigint(c) \/ Exit(c)
    <3>1. /\ clients_num' = clients_num /\ semaphore_number' = semaphore_number
          /\ main' = [main EXCEPT ![c] = "gone"] /\ v' = [v EXCEPT ![c] = 0]
      BY <2>6 DEF SemInitFails, SemopFails, Kill, EarlySigint, Exit, Ends
    <3>2. ReadingsOK
      BY <1>1, <1>2, <1>3, <3>1
    <3> QED
      BY <1>0, <1>1, <1>2, <3>1, <3>2
  <2>7. CASE ReceiverReserve(c) \/ Printing(c) \/ SenderReserve(c) \/ Type(c) \/ Writing(c)
    BY <1>4, <2>7
    DEF ReceiverReserve, Printing, StartPrint, PrintMessage, EndPrint, ReceiverRelease,
        ReceiverGoes, SenderReserve, Type, Writing, ReadIndex, WriteAuthor, WriteText,
        Publish, SenderRelease, SenderGoes, mainVars
  <2> QED
    BY <1>6, <2>1, <2>2, <2>3, <2>4, <2>5, <2>6, <2>7 DEF ClientStep, MainStep, HandlerStep
<1> QED
  BY <1>5, <1>6 DEF Next

LEMMA MessagesCountedStep ==
  ASSUME EnoughRoom, TypeOK, ThreadsOK, MessagesCounted, [Next]_vars
  PROVE  MessagesCounted'
<1> DEFINE N == Cardinality(Done)
           M == Cardinality(Done')
           ReadingsOK == \A d \in Clients :
             sender'[d] \in {"author", "text", "increment"} => index'[d] <= M
<1>0. MessagesCounted' <=> messages_num' <= M /\ ReadingsOK
  BY DEF MessagesCounted
<1>1. /\ N \in Nat /\ M \in Nat /\ N <= M
      /\ \A d \in Done' \ Done : N + 1 <= M
  BY Finite, DoneGrows, Grows
<1>2. /\ messages_num \in Nat /\ messages_num <= N
      /\ sender \in [Clients -> {"off", "reserve", "keyboard", "author_at", "author",
                             "text_at", "text", "count", "increment", "release"}]
      /\ index \in [Clients -> Nat]
  BY DEF TypeOK, MessagesCounted
<1>3. \A d \in Clients :
        sender[d] \in {"author", "text", "increment"} => index[d] <= N
  BY DEF MessagesCounted
<1> HIDE DEF N, M
<1>4. ASSUME UNCHANGED <<sender, index>>,
             messages_num' = messages_num \/ messages_num' = 0
      PROVE  MessagesCounted'
  BY <1>0, <1>1, <1>2, <1>3, <1>4
<1>5. CASE ServerStep \/ UNCHANGED vars
  BY <1>4, <1>5 DEF ServerStep, ServerGoes, CreateSegment, CreateSemaphores, ZeroClients,
                    ZeroMessages, ServerSigint, senderVars, segmentVars, vars
<1>6. ASSUME NEW c \in Clients, ClientStep(c) PROVE MessagesCounted'
  <2> USE DEF SenderGoes, Forget, segmentVars
  <2>1. CASE ReadIndex(c)
    BY <1>0, <1>1, <1>2, <1>3, <2>1 DEF ReadIndex
  <2>2. CASE Publish(c)
    <3>1. <<c, typed[c]>> \in Done' \ Done
      <4>1. AtWork(c) /\ sender[c] = "increment"
        BY <2>2 DEF Publish, AtWork
      <4>2. <<c, typed[c]>> \in Text
        BY <4>1, ConstantsAssumption DEF TypeOK, ThreadsOK, Text
      <4>3. typed' = typed /\ ~AtWork(c)'
        BY <1>2, <2>2 DEF Publish, AtWork
      <4> QED
        BY <4>1, <4>2, <4>3, ConstantsAssumption DEF Done, TypeOK
    <3>2. index[c] + 1 <= M
      BY <1>1, <1>2, <1>3, <2>2, <3>1 DEF Publish
    <3> QED
      BY <1>0, <1>1, <1>2, <1>3, <2>2, <3>2 DEF Publish
  <2>3. CASE SenderReserve(c) \/ Type(c) \/ WriteAuthor(c) \/ WriteText(c) \/ SenderRelease(c)
    BY <1>0, <1>1, <1>2, <1>3, <2>3 DEF SenderReserve, Type, WriteAuthor, WriteText, SenderRelease
  <2>4. CASE SemInitFails(c) \/ SemopFails(c) \/ Kill(c) \/ EarlySigint(c) \/ Exit(c)
    BY <1>0, <1>1, <1>2, <1>3, <2>4
    DEF SemInitFails, SemopFails, Kill, EarlySigint, Exit, Ends
  <2>5. CASE sem_init(c)
    BY <1>0, <1>1, <1>2, <1>3, <2>5 DEF sem_init
  <2>6. CASE \/ OpenSegment(c) \/ OpenSemaphores(c) \/ FindSlot(c) \/ WriteName(c)
             \/ ReadCount(c) \/ Increment(c) \/ Search(c)
             \/ Sigint(c) \/ Scan(c) \/ Shift(c) \/ ReadUncount(c) \/ Decrement(c)
    BY <1>4, <2>6
    DEF OpenSegment, OpenSemaphores, FindSlot, WriteName, ReadCount, Increment, Search,
        Sigint, Scan, Shift, ReadUncount, Decrement, senderVars
  <2>7. CASE ReceiverReserve(c) \/ Printing(c)
    BY <1>4, <2>7
    DEF ReceiverReserve, Printing, StartPrint, PrintMessage, EndPrint, ReceiverRelease,
        ReceiverGoes, senderVars
  <2> QED
    BY <1>6, <2>1, <2>2, <2>3, <2>4, <2>5, <2>6, <2>7
    DEF ClientStep, MainStep, HandlerStep, Writing
<1> QED
  BY <1>5, <1>6 DEF Next

LEMMA IInvInit ==
  ASSUME EnoughRoom, Init
  PROVE  IInv
<1>1. 0 <= Cardinality(Counted) /\ 0 <= Cardinality(Done)
  BY CountedSize, DoneSize
<1>2. TypeOK
  BY ConstantsAssumption DEF Init, TypeOK
<1>3. ThreadsOK
  BY DEF Init, ThreadsOK, AtWork
<1>4. ClientsCounted /\ MessagesCounted
  BY <1>1, ConstantsAssumption DEF Init, ClientsCounted, MessagesCounted
<1> QED
  BY <1>2, <1>3, <1>4 DEF IInv

LEMMA IInvStep ==
  ASSUME EnoughRoom, IInv, [Next]_vars
  PROVE  IInv'
<1>1. NoOverrun
  BY NoOverrunFollows
<1> QED
  BY <1>1, TypesStep, ClientsCountedStep, MessagesCountedStep DEF IInv

\* If there is room for all that are started and typed, every variable keeps its type:
\* no thread uses a semaphore that is not its client's, no name is read from outside
\* the list (main(), handle_sigint and the two threads).
THEOREM TypeCorrect == EnoughRoom => (Spec => []TypeOK)
<1> SUFFICES ASSUME EnoughRoom PROVE Spec => []TypeOK
  OBVIOUS
<1>1. Init => IInv
  BY IInvInit
<1>2. IInv /\ [Next]_vars => IInv'
  BY IInvStep
<1>3. IInv => TypeOK
  BY DEF IInv
<1> QED
  BY <1>1, <1>2, <1>3, PTL DEF Spec

\* If there is room for all that are started and typed, the unlocked counters never
\* lead beyond the arrays, whatever increments and decrements are lost.
THEOREM ArraysSuffice == EnoughRoom => (Spec => []NoOverrun)
<1> SUFFICES ASSUME EnoughRoom PROVE Spec => []NoOverrun
  OBVIOUS
<1>1. Init => IInv
  BY IInvInit
<1>2. IInv /\ [Next]_vars => IInv'
  BY IInvStep
<1>3. IInv => NoOverrun
  BY NoOverrunFollows
<1> QED
  BY <1>1, <1>2, <1>3, PTL DEF Spec

-----------------------------------------------------------------------------
(* One arrival after the other, and no orderly departure.                  *)

Orderly == EnoughRoom /\ AfterServer /\ OneByOne /\ Quitters = {}

Entering == {"semget", "slot", "name", "count", "increment", "search", "sem_init"}
Leaving == {"scan", "shift", "uncount", "decrement", "exit"}

\* Nothing is in the segment before the server is ready.
ServerFirst ==
  server \notin {"running", "ended"} =>
    /\ \A c \in Clients : main[c] = "off"
    /\ clients_num = 0 /\ messages_num = 0

OnlyQuittersLeave == \A c \in Clients : main[c] \in Leaving => c \in Quitters

Alone == \A c, d \in Clients : main[c] \in Entering /\ main[d] \in Entering => c = d

\* The list names each client that has counted itself, once.
ListOK ==
  /\ clients_num \in Nat
  /\ \A i, j \in 0..clients_num - 1 : client_list[i] = client_list[j] => i = j
  /\ \A i \in 0..clients_num - 1 :
       /\ client_list[i] \in Clients
       /\ main[client_list[i]] \in {"search", "sem_init", "chatting", "gone"}

OwnSlot(c) ==
  semaphore_number[c] \in 0..clients_num - 1 /\ client_list[semaphore_number[c]] = c

\* How far a client is with its entry.
Entry(c) ==
  /\ main[c] \in {"name", "increment"} => v[c] = clients_num
  /\ main[c] \in {"count", "increment"} => client_list[clients_num] = c
  /\ main[c] \in {"off", "semget", "slot", "name", "count", "increment"} =>
       semaphore_number[c] = -1 /\ k[c] = 0
  /\ main[c] \in {"search", "sem_init", "chatting"} => c \in Listed
  /\ main[c] = "search" =>
       /\ k[c] <= clients_num
       /\ OwnSlot(c) \/ (semaphore_number[c] = -1 /\ \A i \in 0..k[c] - 1 : client_list[i] # c)
  /\ main[c] \in {"sem_init", "chatting"} => OwnSlot(c)

\* The semaphore of a client is free, or one of its two threads has it.
Taken(c) ==
  IF main[c] = "chatting"
  THEN /\ receiver[c] # "off" /\ sender[c] # "off"
       /\ ~(InSection(c, "receiver") /\ InSection(c, "sender"))
       /\ sem[semaphore_number[c]] =
            IF InSection(c, "receiver") \/ InSection(c, "sender") THEN 0 ELSE 1
  ELSE receiver[c] = "off" /\ sender[c] = "off"

ListInv ==
  /\ IInv /\ ServerFirst /\ OnlyQuittersLeave /\ Alone /\ ListOK
  /\ \A c \in Clients : Entry(c) /\ Taken(c)

LEMMA StepOfClient ==
  ASSUME NEW c \in Clients, ClientStep(c)
  PROVE  server' = server
BY DEF ClientStep, MainStep, HandlerStep, Printing, Writing, OpenSegment, OpenSemaphores,
       FindSlot, WriteName, ReadCount, Increment, Search, sem_init, SemInitFails, SemopFails,
       Kill, EarlySigint, Exit, Ends, Sigint, Scan, Shift, ReadUncount, Decrement,
       ReceiverReserve, StartPrint, PrintMessage, EndPrint, ReceiverRelease, ReceiverGoes,
       SenderReserve, Type, ReadIndex, WriteAuthor, WriteText, Publish, SenderRelease, SenderGoes

LEMMA ServerFirstStep ==
  ASSUME AfterServer, TypeOK, ThreadsOK, ServerFirst, [Next]_vars
  PROVE  ServerFirst'
<1>1. CASE ServerStep \/ UNCHANGED vars
  BY <1>1 DEF ServerFirst, ServerStep, ServerGoes, CreateSegment, CreateSemaphores, ZeroClients,
              ZeroMessages, ServerSigint, segmentVars, mainVars, vars
<1>2. ASSUME NEW c \in Clients, ClientStep(c)
      PROVE  server' = server /\ server \in {"running", "ended"}
  <2>1. server' = server
    BY <1>2, StepOfClient
  <2>2. CASE main[c] = "off"
    <3>1. receiver[c] = "off" /\ sender[c] = "off"
      BY <2>2 DEF ThreadsOK, Arriving
    <3>2. OpenSegment(c)
      BY <1>2, <2>2, <3>1
         DEF ClientStep, MainStep, HandlerStep, Printing, Writing, OpenSemaphores, FindSlot,
             WriteName, ReadCount, Increment, Search, sem_init, SemInitFails, SemopFails, Kill,
             EarlySigint, Exit, Sigint, Scan, Shift, ReadUncount, Decrement, MainGoes,
             ReceiverReserve, StartPrint, PrintMessage, EndPrint, ReceiverRelease, ReceiverGoes,
             SenderReserve, Type, ReadIndex, WriteAuthor, WriteText, Publish, SenderRelease,
             SenderGoes
    <3> QED
      BY <2>1, <3>2 DEF OpenSegment, MayStart
  <2>3. CASE main[c] # "off"
    BY <2>1, <2>3 DEF ServerFirst
  <2> QED
    BY <2>2, <2>3, <2>1
<1> QED
  BY <1>1, <1>2 DEF Next, ServerFirst

\* The receiving and the sending thread leave alone what the main thread works with.
LEMMA ThreadFrame ==
  ASSUME NEW c \in Clients,
         ReceiverReserve(c) \/ Printing(c) \/ SenderReserve(c) \/ Type(c) \/ Writing(c)
  PROVE  UNCHANGED <<server, client_list, clients_num, mainVars>>
BY DEF Printing, Writing, ReceiverReserve, StartPrint, PrintMessage, EndPrint, ReceiverRelease,
       ReceiverGoes, SenderReserve, Type, ReadIndex, WriteAuthor, WriteText, Publish, SenderRelease,
       SenderGoes, segmentVars, mainVars

LEMMA OnlyQuittersLeaveStep ==
  ASSUME TypeOK, OnlyQuittersLeave, [Next]_vars
  PROVE  OnlyQuittersLeave'
<1> USE DEF OnlyQuittersLeave, Leaving, TypeOK
<1>1. CASE ServerStep \/ UNCHANGED vars
  BY <1>1, ServerFrame DEF mainVars
<1>2. ASSUME NEW c \in Clients, ClientStep(c) PROVE OnlyQuittersLeave'
  <2>1. CASE OpenSegment(c) \/ MainStep(c) \/ Sigint(c) \/ HandlerStep(c)
    BY <2>1 DEF MainStep, HandlerStep, MainGoes, OpenSegment, OpenSemaphores, FindSlot,
                WriteName, ReadCount, Increment, Search, sem_init, SemInitFails, Ends,
                Sigint, Scan, Shift, ReadUncount, Decrement, Exit
  <2>2. CASE SemopFails(c) \/ Kill(c) \/ EarlySigint(c)
    BY <2>2 DEF SemopFails, Kill, EarlySigint, Ends
  <2>3. CASE ReceiverReserve(c) \/ Printing(c) \/ SenderReserve(c) \/ Type(c) \/ Writing(c)
    BY <2>3, ThreadFrame DEF mainVars
  <2> QED
    BY <1>2, <2>1, <2>2, <2>3 DEF ClientStep
<1> QED
  BY <1>1, <1>2 DEF Next

LEMMA AloneStep ==
  ASSUME OneByOne, TypeOK, Alone, [Next]_vars
  PROVE  Alone'
<1> USE DEF Entering, TypeOK
<1>1. CASE ServerStep \/ UNCHANGED vars
  BY <1>1, ServerFrame DEF Alone, mainVars
<1>2. CASE \E c \in Clients : OpenSegment(c)
  BY <1>2 DEF Alone, OpenSegment, MayStart, MainGoes
<1>3. ASSUME NEW c \in Clients, ClientStep(c), ~OpenSegment(c),
             NEW d \in Clients, main'[d] \in Entering
      PROVE  main[d] \in Entering
  <2>1. CASE MainStep(c)
    BY <1>3, <2>1 DEF MainStep, MainGoes, OpenSemaphores, FindSlot, WriteName, ReadCount,
                      Increment, Search, sem_init, SemInitFails, Ends
  <2>2. CASE Sigint(c) \/ HandlerStep(c)
    BY <1>3, <2>2 DEF HandlerStep, MainGoes, Sigint, Scan, Shift, ReadUncount, Decrement, Exit, Ends
  <2>3. CASE SemopFails(c) \/ Kill(c) \/ EarlySigint(c)
    BY <1>3, <2>3 DEF SemopFails, Kill, EarlySigint, Ends
  <2>4. CASE ReceiverReserve(c) \/ Printing(c) \/ SenderReserve(c) \/ Type(c) \/ Writing(c)
    BY <1>3, <2>4, ThreadFrame DEF mainVars
  <2> QED
    BY <1>3, <2>1, <2>2, <2>3, <2>4 DEF ClientStep
<1>4. CASE \E c \in Clients : ClientStep(c) /\ ~OpenSegment(c)
  BY <1>3, <1>4 DEF Alone
<1> QED
  BY <1>1, <1>2, <1>4 DEF Next

\* A step that leaves the variables of the other clients alone.
Apart(c) ==
  \A d \in Clients \ {c} :
    /\ main'[d] = main[d] /\ k'[d] = k[d] /\ v'[d] = v[d]
    /\ semaphore_number'[d] = semaphore_number[d]
    /\ receiver'[d] = receiver[d] /\ sender'[d] = sender[d]
    /\ main[d] = "chatting" => sem'[semaphore_number[d]] = sem[semaphore_number[d]]

\* The other clients do not notice a step that leaves the list alone, up to the slot
\* behind it.
LEMMA OthersKeep ==
  ASSUME ListInv, NEW c \in Clients, NEW d \in Clients \ {c}, Apart(c),
         clients_num' = clients_num,
         \A i \in 0..clients_num - 1 : client_list'[i] = client_list[i],
         client_list' = client_list \/ main[c] \in Entering
  PROVE  Entry(d)' /\ Taken(d)'
<1>1. main[d] \in {"count", "increment"} => client_list' = client_list
  BY DEF ListInv, Alone, Entering
<1>2. Listed' = Listed
  BY DEF Listed
<1>3. OwnSlot(d)' <=> OwnSlot(d)
  BY DEF Apart, OwnSlot
<1>4. Entry(d)'
  <2>1. Entry(d)
    BY DEF ListInv
  <2>2. main[d] = "search" => \A i \in 0..k[d] - 1 : i \in 0..clients_num - 1
    BY <2>1 DEF Entry, ListInv, ListOK, IInv, TypeOK
  <2> QED
    BY <1>1, <1>2, <1>3, <2>1, <2>2 DEF Entry, Apart
<1>5. Taken(d)'
  BY DEF ListInv, Taken, Apart, InSection
<1> QED
  BY <1>4, <1>5

\* The list after such a step, if the client is not in it or stays where it may be.
LEMMA ListKeeps ==
  ASSUME ListInv, NEW c \in Clients, Apart(c), clients_num' = clients_num,
         \A i \in 0..clients_num - 1 : client_list'[i] = client_list[i],
         \/ main[c] \notin {"search", "sem_init", "chatting", "gone"}
         \/ main'[c] \in {"search", "sem_init", "chatting", "gone"}
  PROVE  ListOK'
BY DEF ListInv, ListOK, Apart

\* Two clients do not have one semaphore.
LEMMA OwnSemaphores ==
  ASSUME NEW c, NEW d, OwnSlot(c), OwnSlot(d), c # d
  PROVE  semaphore_number[c] # semaphore_number[d]
BY DEF OwnSlot

\* What remains to be shown of a step of client c.
LEMMA ListRest ==
  ASSUME ListInv, NEW c \in Clients, Apart(c), clients_num' = clients_num,
         \A i \in 0..clients_num - 1 : client_list'[i] = client_list[i],
         client_list' = client_list \/ main[c] \in Entering,
         \/ main[c] \notin {"search", "sem_init", "chatting", "gone"}
         \/ main'[c] \in {"search", "sem_init", "chatting", "gone"},
         Entry(c)', Taken(c)'
  PROVE  ListOK' /\ \A d \in Clients : Entry(d)' /\ Taken(d)'
BY ListKeeps, OthersKeep

LEMMA EndListed ==
  ASSUME ListInv, NEW c \in Clients, Ends(c)
  PROVE  ListOK' /\ \A d \in Clients : Entry(d)' /\ Taken(d)'
<1> USE DEF Ends, Forget, segmentVars
<1>1. Apart(c)
  BY DEF Apart, ListInv, IInv, TypeOK
<1>2. main'[c] = "gone" /\ receiver'[c] = "off" /\ sender'[c] = "off"
  BY DEF ListInv, IInv, TypeOK
<1>3. Entry(c)' /\ Taken(c)'
  BY <1>2 DEF Entry, Taken
<1> QED
  BY <1>1, <1>2, <1>3, ListRest

LEMMA ThreadListed ==
  ASSUME ListInv, NEW c \in Clients,
         ReceiverReserve(c) \/ Printing(c) \/ SenderReserve(c) \/ Type(c) \/ Writing(c)
  PROVE  ListOK' /\ \A d \in Clients : Entry(d)' /\ Taken(d)'
<1> DEFINE n == semaphore_number[c]
<1>1. UNCHANGED <<server, client_list, clients_num, mainVars>>
  BY ThreadFrame
<1>2. /\ receiver \in [Clients -> {"off", "reserve", "start", "print", "release"}]
      /\ sender \in [Clients -> {"off", "reserve", "keyboard", "author_at", "author",
                                 "text_at", "text", "count", "increment", "release"}]
      /\ sem \in [ClientSlots -> Nat]
  BY DEF ListInv, IInv, TypeOK
<1>3. /\ receiver' = [receiver EXCEPT ![c] = receiver'[c]]
      /\ sender' = [sender EXCEPT ![c] = sender'[c]]
      /\ receiver'[c] # "off" <=> receiver[c] # "off"
      /\ sender'[c] # "off" <=> sender[c] # "off"
      /\ receiver[c] # "off" \/ sender[c] # "off"
      /\ sem' = sem \/ \E m \in {sem[n] - 1, sem[n] + 1} : sem' = [sem EXCEPT ![n] = m]
  BY <1>2 DEF Printing, Writing, ReceiverReserve, StartPrint, PrintMessage, EndPrint,
              ReceiverRelease, ReceiverGoes, SenderReserve, Type, ReadIndex, WriteAuthor,
              WriteText, Publish, SenderRelease, SenderGoes, sem_reserve, sem_release,
              senderVars, receiverVars
<1>4. main[c] = "chatting" /\ OwnSlot(c) /\ Entry(c) /\ Taken(c)
  BY <1>3 DEF ListInv, Taken, Entry
<1>5. n \in ClientSlots
  BY <1>3 DEF ListInv, IInv, ThreadsOK
<1>6. Apart(c)
  <2>1. \A d \in Clients \ {c} : main[d] = "chatting" => semaphore_number[d] # n
    BY <1>4, OwnSemaphores DEF ListInv, Entry
  <2>2. \A d \in Clients \ {c} : main[d] = "chatting" => semaphore_number[d] \in ClientSlots
    BY DEF ListInv, Taken, IInv, ThreadsOK
  <2>3. \A d \in Clients \ {c} : main[d] = "chatting" => sem'[semaphore_number[d]] = sem[semaphore_number[d]]
    BY <1>2, <1>3, <2>1, <2>2
  <2>4. \A d \in Clients \ {c} : receiver'[d] = receiver[d] /\ sender'[d] = sender[d]
    BY <1>2, <1>3
  <2> QED
    BY <1>1, <2>3, <2>4 DEF Apart, mainVars
<1>7. Entry(c)'
  BY <1>1, <1>4 DEF Entry, mainVars, Listed, OwnSlot
<1>8. Taken(c)'
  <2> USE DEF Taken, InSection, mainVars
  <2>1. CASE ReceiverReserve(c)
    BY <1>1, <1>2, <1>4, <1>5, <2>1 DEF ReceiverReserve, ReceiverGoes, sem_reserve, senderVars
  <2>2. CASE StartPrint(c) \/ PrintMessage(c) \/ EndPrint(c)
    BY <1>1, <1>2, <1>4, <1>5, <2>2 DEF StartPrint, PrintMessage, EndPrint, ReceiverGoes, senderVars
  <2>3. CASE ReceiverRelease(c)
    BY <1>1, <1>2, <1>4, <1>5, <2>3 DEF ReceiverRelease, ReceiverGoes, sem_release, senderVars
  <2>4. CASE SenderReserve(c)
    BY <1>1, <1>2, <1>4, <1>5, <2>4 DEF SenderReserve, SenderGoes, sem_reserve, receiverVars
  <2>5. CASE Type(c) \/ ReadIndex(c) \/ WriteAuthor(c) \/ WriteText(c) \/ Publish(c)
    BY <1>1, <1>2, <1>4, <1>5, <2>5
       DEF Type, ReadIndex, WriteAuthor, WriteText, Publish, SenderGoes, receiverVars
  <2>6. CASE SenderRelease(c)
    BY <1>1, <1>2, <1>4, <1>5, <2>6 DEF SenderRelease, SenderGoes, sem_release, receiverVars
  <2> QED
    BY <2>1, <2>2, <2>3, <2>4, <2>5, <2>6 DEF Printing, Writing
<1> QED
  BY <1>1, <1>4, <1>6, <1>7, <1>8, ListRest DEF mainVars

LEMMA EntryListed ==
  ASSUME EnoughRoom, ListInv, NEW c \in Clients, OpenSegment(c) \/ MainStep(c)
  PROVE  ListOK' /\ \A d \in Clients : Entry(d)' /\ Taken(d)'
<1> USE DEF MainGoes, Forget, segmentVars, receiverVars, senderVars
<1>1. TypeOK /\ NoOverrun /\ Entry(c) /\ Taken(c) /\ clients_num \in Nat
  BY NoOverrunFollows DEF ListInv, IInv, ListOK
<1>2. SemInitFails(c) => ListOK' /\ \A d \in Clients : Entry(d)' /\ Taken(d)'
  BY EndListed DEF SemInitFails
<1>3. CASE OpenSegment(c) \/ OpenSemaphores(c) \/ FindSlot(c) \/ ReadCount(c)
  <2>1. /\ Apart(c) /\ UNCHANGED <<client_list, clients_num>>
        /\ main[c] \notin {"search", "sem_init", "chatting", "gone"}
    BY <1>1, <1>3 DEF OpenSegment, OpenSemaphores, FindSlot, ReadCount, Apart, TypeOK
  <2>2. Entry(c)' /\ Taken(c)'
    BY <1>1, <1>3 DEF OpenSegment, OpenSemaphores, FindSlot, ReadCount, Entry, Taken, TypeOK
  <2> QED
    BY <2>1, <2>2, ListRest
<1>4. CASE WriteName(c)
  <2>1. v[c] = clients_num /\ clients_num \in ClientSlots
    BY <1>1, <1>4, ConstantsAssumption DEF WriteName, Entry, NoOverrun, ClientSlots
  <2>2. /\ Apart(c) /\ clients_num' = clients_num
        /\ \A i \in 0..clients_num - 1 : client_list'[i] = client_list[i]
        /\ main[c] = "name" /\ main'[c] = "count" /\ client_list'[clients_num] = c
    BY <1>1, <1>4, <2>1 DEF WriteName, Apart, TypeOK
  <2>3. Entry(c)' /\ Taken(c)'
    BY <1>1, <1>4, <2>2 DEF WriteName, Entry, Taken, TypeOK
  <2> QED
    BY <2>2, <2>3, ListRest DEF Entering
<1>5. CASE Increment(c)
  <2>1. /\ clients_num' = clients_num + 1 /\ client_list' = client_list
        /\ client_list[clients_num] = c
        /\ main[c] = "increment" /\ main'[c] = "search" /\ Apart(c)
    BY <1>1, <1>5 DEF Increment, Entry, Apart, TypeOK
  <2>2. \A i \in 0..clients_num' - 1 : i \in 0..clients_num - 1 \/ i = clients_num
    BY <1>1, <2>1
  <2>3. \A i \in 0..clients_num - 1 : client_list[i] # c
    BY <2>1 DEF ListInv, ListOK
  <2>4. ListOK'
    <3>1. \A i, j \in 0..clients_num' - 1 : client_list[i] = client_list[j] => i = j
      BY <2>1, <2>2, <2>3 DEF ListInv, ListOK
    <3>2. \A i \in 0..clients_num' - 1 :
            /\ client_list[i] \in Clients
            /\ main'[client_list[i]] \in {"search", "sem_init", "chatting", "gone"}
      BY <2>1, <2>2, <2>3 DEF ListInv, ListOK, Apart
    <3> QED
      BY <1>1, <2>1, <3>1, <3>2 DEF ListOK
  <2>5. Entry(c)' /\ Taken(c)'
    <3>1. k'[c] = 0 /\ semaphore_number'[c] = -1 /\ c \in Listed'
      BY <1>1, <1>5, <2>1 DEF Increment, Entry, Listed
    <3> QED
      BY <1>1, <1>5, <2>1, <3>1 DEF Increment, Entry, Taken
  <2>6. ASSUME NEW d \in Clients \ {c} PROVE Entry(d)' /\ Taken(d)'
    <3>1. main[d] \notin Entering /\ main'[d] = main[d]
      BY <2>1 DEF ListInv, Alone, Entering, Apart
    <3>2. /\ main[d] = "chatting" => OwnSlot(d)' /\ d \in Listed'
          /\ main[d] = "off" => semaphore_number'[d] = -1 /\ k'[d] = 0
      BY <1>1, <2>1 DEF ListInv, Entry, OwnSlot, Listed, Apart
    <3>3. Entry(d)'
      BY <3>1, <3>2 DEF Entry, Entering
    <3>4. Taken(d)'
      BY <2>1 DEF ListInv, Taken, Apart, InSection
    <3> QED
      BY <3>3, <3>4
  <2> QED
    BY <2>4, <2>5, <2>6
<1>6. CASE Search(c)
  <2>1. /\ main[c] = "search" /\ main'[c] \in {"search", "sem_init"} /\ Apart(c)
        /\ UNCHANGED <<client_list, clients_num, receiver, sender, sem>>
    BY <1>1, <1>6 DEF Search, Apart, TypeOK
  <2>2. k[c] \in 0..clients_num /\ c \in Listed
    BY <1>1, <2>1 DEF Entry, TypeOK
  <2>3. CASE k[c] < clients_num
    <3>1. /\ main'[c] = "search" /\ k'[c] = k[c] + 1
          /\ semaphore_number'[c] = IF client_list[k[c]] = c THEN k[c] ELSE semaphore_number[c]
      BY <1>1, <1>6, <2>3 DEF Search, TypeOK
    <3>2. \/ OwnSlot(c)'
          \/ semaphore_number'[c] = -1 /\ \A i \in 0..k'[c] - 1 : client_list[i] # c
      BY <1>1, <2>1, <2>2, <2>3, <3>1 DEF Entry, OwnSlot
    <3>3. Entry(c)'
      BY <1>1, <2>1, <2>2, <2>3, <3>1, <3>2 DEF Entry, Listed
    <3> QED
      BY <1>1, <2>1, <3>1, <3>3, ListRest DEF Taken
  <2>4. CASE ~(k[c] < clients_num)
    <3>1. main'[c] = "sem_init" /\ semaphore_number' = semaphore_number /\ k[c] = clients_num
      BY <1>1, <1>6, <2>2, <2>4 DEF Search, TypeOK
    <3>2. OwnSlot(c)'
      BY <1>1, <2>1, <2>2, <3>1 DEF Entry, OwnSlot, Listed
    <3>3. Entry(c)'
      BY <2>1, <2>2, <3>1, <3>2 DEF Entry, Listed
    <3> QED
      BY <1>1, <2>1, <3>1, <3>3, ListRest DEF Taken
  <2> QED
    BY <2>3, <2>4
<1>7. CASE sem_init(c)
  <2>1. /\ main[c] = "sem_init" /\ main'[c] = "chatting" /\ OwnSlot(c)
        /\ receiver'[c] = "reserve" /\ sender'[c] = "reserve"
        /\ sem' = [sem EXCEPT ![semaphore_number[c]] = 1]
        /\ UNCHANGED <<client_list, clients_num, k, v, semaphore_number>>
    BY <1>1, <1>7 DEF sem_init, TypeOK, Entry
  <2>2. semaphore_number[c] \in ClientSlots
    BY <1>1, <2>1, ConstantsAssumption DEF OwnSlot, NoOverrun, ClientSlots
  <2>3. \A d \in Clients \ {c} : main[d] = "chatting" => semaphore_number[d] # semaphore_number[c]
    BY <2>1, OwnSemaphores DEF ListInv, Entry
  <2>4. Apart(c)
    BY <1>1, <1>7, <2>1, <2>3 DEF sem_init, Apart, TypeOK
  <2>5. Entry(c)'
    BY <1>1, <2>1 DEF Entry, OwnSlot, Listed
  <2>6. Taken(c)'
    BY <1>1, <2>1, <2>2 DEF Taken, InSection, TypeOK
  <2> QED
    BY <2>1, <2>4, <2>5, <2>6, ListRest
<1> QED
  BY <1>2, <1>3, <1>4, <1>5, <1>6, <1>7 DEF MainStep

LEMMA ListInvStep ==
  ASSUME Orderly, ListInv, [Next]_vars
  PROVE  ListInv'
<1>1. IInv' /\ ServerFirst' /\ OnlyQuittersLeave' /\ Alone'
  BY IInvStep, ServerFirstStep, OnlyQuittersLeaveStep, AloneStep DEF Orderly, ListInv, IInv
<1>2. CASE ServerStep \/ UNCHANGED vars
  <2>1. /\ UNCHANGED <<client_list, mainVars, sem, receiver, sender>>
        /\ clients_num' = clients_num
    BY <1>2 DEF ServerStep, ServerGoes, CreateSegment, CreateSemaphores, ZeroClients, ZeroMessages,
                ServerSigint, segmentVars, receiverVars, senderVars, vars, ListInv, ServerFirst
  <2>2. ListOK' /\ \A d \in Clients : Entry(d)' /\ Taken(d)'
    BY <2>1 DEF ListInv, ListOK, Entry, Taken, InSection, OwnSlot, Listed, mainVars
  <2> QED
    BY <1>1, <2>2 DEF ListInv
<1>3. ASSUME NEW c \in Clients, ClientStep(c) PROVE ListInv'
  <2>1. CASE SemopFails(c) \/ Kill(c) \/ EarlySigint(c)
    BY <1>1, <2>1, EndListed DEF ListInv, SemopFails, Kill, EarlySigint
  <2>2. CASE Sigint(c) \/ HandlerStep(c)
    BY <2>2 DEF Orderly, ListInv, OnlyQuittersLeave, Leaving, Sigint, HandlerStep, Scan, Shift,
                ReadUncount, Decrement, Exit, MainGoes
  <2>3. CASE OpenSegment(c) \/ MainStep(c)
    BY <1>1, <2>3, EntryListed DEF ListInv, Orderly
  <2>4. CASE ReceiverReserve(c) \/ Printing(c) \/ SenderReserve(c) \/ Type(c) \/ Writing(c)
    BY <1>1, <2>4, ThreadListed DEF ListInv
  <2> QED
    BY <1>3, <2>1, <2>2, <2>3, <2>4 DEF ClientStep
<1> QED
  BY <1>2, <1>3 DEF Next

LEMMA ListInvInit ==
  ASSUME Orderly, Init
  PROVE  ListInv
<1>1. IInv
  BY IInvInit DEF Orderly
<1>2. ServerFirst /\ OnlyQuittersLeave /\ Alone
  BY DEF Init, ServerFirst, OnlyQuittersLeave, Leaving, Alone, Entering
<1>3. ListOK
  BY DEF Init, ListOK
<1>4. \A c \in Clients : Entry(c) /\ Taken(c)
  BY DEF Init, Entry, Taken
<1> QED
  BY <1>1, <1>2, <1>3, <1>4 DEF ListInv

LEMMA ListInvariance ==
  ASSUME Orderly
  PROVE  Spec => []ListInv
<1>1. Init => ListInv
  BY ListInvInit
<1>2. ListInv /\ [Next]_vars => ListInv'
  BY ListInvStep
<1> QED
  BY <1>1, <1>2, PTL DEF Spec

\* If clients arrive one by one after the server and none leaves with Ctrl-C, however
\* many die, a semaphore keeps the two threads of its client apart, and no other
\* client uses it (handle_response and handle_message).
THEOREM ThreadsExclude == Orderly => (Spec => []CriticalSection)
<1> SUFFICES ASSUME Orderly PROVE Spec => []CriticalSection
  OBVIOUS
<1>1. ASSUME ListInv, NEW s \in Threads, NEW t \in Threads, s # t,
             semaphore_number[s[1]] = semaphore_number[t[1]],
             InSection(s[1], s[2]), InSection(t[1], t[2])
      PROVE  FALSE
  <2>1. /\ s[1] \in Clients /\ s[2] \in {"receiver", "sender"} /\ s = <<s[1], s[2]>>
        /\ t[1] \in Clients /\ t[2] \in {"receiver", "sender"} /\ t = <<t[1], t[2]>>
    BY DEF Threads
  <2>2. \A c \in Clients, x \in {"receiver", "sender"} :
          InSection(c, x) => OwnSlot(c) /\ ~(InSection(c, "receiver") /\ InSection(c, "sender"))
    BY <1>1 DEF ListInv, Taken, Entry, InSection
  <2>3. s[1] = t[1]
    BY <1>1, <2>1, <2>2, OwnSemaphores
  <2> QED
    BY <1>1, <2>1, <2>2, <2>3
<1>2. ListInv => CriticalSection
  BY <1>1 DEF CriticalSection
<1> QED
  BY <1>2, ListInvariance, PTL

\* Then every client in the chat is in the list, as main() means it to be.
THEOREM ListComplete == Orderly => (Spec => []ClientsListed)
<1> SUFFICES ASSUME Orderly PROVE Spec => []ClientsListed
  OBVIOUS
<1>1. ListInv => ClientsListed
  BY DEF ListInv, Entry, ClientsListed
<1> QED
  BY <1>1, ListInvariance, PTL

-----------------------------------------------------------------------------
(* One talker.                                                             *)

OneTalker == \A c, d \in Talkers : c = d
TalkerStays == Talkers \cap (Quitters \cup Mortals) = {}

Stands(c, n) == \E m \in 0..messages_num - 1 : author[m] = c /\ text[m] = <<c, n>>

\* The slot behind the last message is the talker's, as far as it has come with it.
Draft(c) ==
  /\ AtWork(c) => c \in Talkers
  /\ sender[c] \in {"author", "text", "increment"} => index[c] = messages_num
  /\ sender[c] \in {"text_at", "text", "count", "increment"} => author[messages_num] = c
  /\ sender[c] \in {"count", "increment"} => text[messages_num] = <<c, typed[c]>>

TextInv ==
  /\ IInv /\ ServerFirst
  /\ \A c \in Clients : Draft(c) /\ (main[c] \in Arriving => typed[c] = 0)

\* Every text that is not being worked on stands in the list, until the server ends.
Standing(c) ==
  server # "ended" =>
    \A n \in 1..typed[c] : n < typed[c] \/ ~AtWork(c) => Stands(c, n)

KeptInv ==
  /\ TextInv /\ OnlyQuittersLeave
  /\ \A c \in Clients : Standing(c) /\ (c \notin Talkers => typed[c] = 0)

LEMMA DraftFacts ==
  ASSUME EnoughRoom, OneTalker, TextInv, NEW c \in Clients
  PROVE  /\ TypeOK /\ ThreadsOK /\ messages_num \in Nat
         /\ \A d \in Clients : Draft(d)
         /\ AtWork(c) => c \in Talkers /\ main[c] \notin Arriving
         /\ c \in Talkers => \A d \in Clients \ {c} : ~AtWork(d)
         /\ sender[c] \in {"author", "text"} => index[c] = messages_num /\ messages_num \in MessageSlots
<1>1. NoOverrun
  BY NoOverrunFollows DEF TextInv
<1>2. TypeOK /\ ThreadsOK /\ messages_num \in Nat
  BY DEF TextInv, IInv, TypeOK
<1>3. \A d \in Clients : Draft(d)
  BY DEF TextInv
<1>4. AtWork(c) => c \in Talkers /\ main[c] \notin Arriving
  BY <1>2, <1>3 DEF Draft, ThreadsOK, AtWork
<1>5. c \in Talkers => \A d \in Clients \ {c} : ~AtWork(d)
  BY <1>3 DEF Draft, OneTalker
<1>6. sender[c] \in {"author", "text"} => index[c] = messages_num /\ messages_num \in MessageSlots
  BY <1>1, <1>2, <1>3, ConstantsAssumption DEF Draft, NoOverrun, MessageSlots
<1> QED
  BY <1>2, <1>3, <1>4, <1>5, <1>6

\* A step of a sending thread changes at most the slot behind the last message.
LEMMA SlotsBelow ==
  ASSUME EnoughRoom, OneTalker, TextInv, NEW c \in Clients,
         SenderReserve(c) \/ Type(c) \/ Writing(c)
  PROVE  /\ \A i \in 0..messages_num - 1 : author'[i] = author[i] /\ text'[i] = text[i]
         /\ messages_num' = messages_num \/ (Publish(c) /\ messages_num' = messages_num + 1)
<1>1. CASE WriteAuthor(c) \/ WriteText(c)
  <2>1. TypeOK /\ index[c] = messages_num /\ messages_num \in MessageSlots
    BY <1>1, DraftFacts DEF WriteAuthor, WriteText, SenderGoes
  <2>2. \A i \in 0..messages_num - 1 : i \in MessageSlots /\ i # messages_num
    BY <2>1, ConstantsAssumption DEF MessageSlots
  <2> QED
    BY <1>1, <2>1, <2>2 DEF WriteAuthor, WriteText, TypeOK
<1>2. CASE Publish(c)
  <2>1. index[c] = messages_num
    BY <1>2, DraftFacts DEF Draft, Publish, SenderGoes
  <2> QED
    BY <1>2, <2>1 DEF Publish
<1>3. CASE SenderReserve(c) \/ Type(c) \/ ReadIndex(c) \/ SenderRelease(c)
  BY <1>3 DEF SenderReserve, Type, ReadIndex, SenderRelease
<1> QED
  BY <1>1, <1>2, <1>3 DEF Writing

LEMMA SenderDrafts ==
  ASSUME EnoughRoom, OneTalker, TextInv, NEW c \in Clients,
         SenderReserve(c) \/ Type(c) \/ Writing(c)
  PROVE  \A d \in Clients : Draft(d)' /\ (main'[d] \in Arriving => typed'[d] = 0)
<1>1. /\ TypeOK /\ ThreadsOK /\ messages_num \in Nat
      /\ AtWork(c) => c \in Talkers /\ main[c] \notin Arriving
      /\ c \in Talkers => \A d \in Clients \ {c} : ~AtWork(d)
      /\ sender[c] \in {"author", "text"} => index[c] = messages_num /\ messages_num \in MessageSlots
      /\ \A d \in Clients : Draft(d)
  BY DraftFacts
<1>2. \A d \in Clients : main[d] \in Arriving => typed[d] = 0
  BY DEF TextInv
<1>3. /\ main' = main
      /\ \A d \in Clients \ {c} : sender'[d] = sender[d] /\ index'[d] = index[d] /\ typed'[d] = typed[d]
  BY <1>1 DEF Writing, SenderReserve, Type, ReadIndex, WriteAuthor, WriteText, Publish,
              SenderRelease, SenderGoes, Forget, mainVars, TypeOK
<1> DEFINE Kept == \A d \in Clients \ {c} : Draft(d)'
<1>4. CASE SenderReserve(c) \/ SenderRelease(c)
  <2>1. sender'[c] \in {"keyboard", "reserve"} /\ UNCHANGED <<author, text, messages_num, typed>>
    BY <1>1, <1>4 DEF SenderReserve, SenderRelease, SenderGoes, TypeOK
  <2>2. Draft(c)'
    BY <2>1 DEF Draft, AtWork
  <2>3. Kept
    BY <1>1, <1>3, <2>1 DEF Draft, AtWork
  <2> QED
    BY <1>2, <1>3, <2>1, <2>2, <2>3
<1>5. CASE Type(c)
  <2>1. /\ sender'[c] = "author_at" /\ c \in Talkers /\ main[c] = "chatting"
        /\ UNCHANGED <<author, text, messages_num>>
    BY <1>1, <1>5 DEF Type, SenderGoes, TypeOK
  <2>2. Draft(c)'
    BY <2>1 DEF Draft, AtWork
  <2>3. Kept
    BY <1>1, <1>3, <2>1 DEF Draft, AtWork
  <2>4. \A d \in Clients : main[d] \in Arriving => d # c
    BY <2>1 DEF Arriving
  <2> QED
    BY <1>2, <1>3, <2>2, <2>3, <2>4
<1>6. CASE ReadIndex(c) \/ WriteAuthor(c) \/ WriteText(c) \/ Publish(c)
  <2>1. AtWork(c) /\ typed' = typed
    BY <1>6 DEF ReadIndex, WriteAuthor, WriteText, Publish, SenderGoes, AtWork
  <2>2. Kept
    <3>1. \A d \in Clients \ {c} : ~AtWork(d)'
      BY <1>1, <1>3, <2>1 DEF AtWork
    <3> QED
      BY <3>1 DEF Draft, AtWork
  <2>3. Draft(c)'
    <3>1. CASE ReadIndex(c)
      BY <1>1, <2>1, <3>1 DEF ReadIndex, SenderGoes, TypeOK, Draft
    <3>2. CASE WriteAuthor(c)
      BY <1>1, <2>1, <3>2 DEF WriteAuthor, SenderGoes, TypeOK, Draft
    <3>3. CASE WriteText(c)
      BY <1>1, <2>1, <3>3 DEF WriteText, SenderGoes, TypeOK, Draft
    <3>4. CASE Publish(c)
      BY <1>1, <2>1, <3>4 DEF Publish, SenderGoes, TypeOK, Draft, AtWork
    <3> QED
      BY <1>6, <3>1, <3>2, <3>3, <3>4
  <2> QED
    BY <1>2, <1>3, <2>1, <2>2, <2>3
<1> QED
  BY <1>4, <1>5, <1>6 DEF Writing

\* Every other step leaves the texts alone, and sending threads at most stop.
LEMMA TextFrame ==
  ASSUME TypeOK, ThreadsOK, ServerFirst, [Next]_vars,
         \A c \in Clients : ~(SenderReserve(c) \/ Type(c) \/ Writing(c))
  PROVE  /\ UNCHANGED <<author, text, messages_num, typed>>
         /\ \A d \in Clients : \/ sender'[d] = sender[d] /\ index'[d] = index[d]
                               \/ ~AtWork(d)'
         /\ \A d \in Clients : main'[d] \in Arriving => main[d] \in Arriving
<1> USE DEF segmentVars, mainVars, receiverVars, senderVars, TypeOK
<1>1. CASE ServerStep \/ UNCHANGED vars
  BY <1>1 DEF ServerStep, ServerGoes, CreateSegment, CreateSemaphores, ZeroClients, ZeroMessages,
              ServerSigint, vars, ServerFirst
<1>2. ASSUME NEW c \in Clients, ClientStep(c)
      PROVE  /\ UNCHANGED <<author, text, messages_num, typed>>
             /\ \A d \in Clients : \/ sender'[d] = sender[d] /\ index'[d] = index[d]
                                   \/ ~AtWork(d)'
             /\ \A d \in Clients : main'[d] \in Arriving => main[d] \in Arriving
  <2>1. CASE SemInitFails(c) \/ SemopFails(c) \/ Kill(c) \/ EarlySigint(c) \/ Exit(c)
    <3>1. Ends(c)
      BY <2>1 DEF SemInitFails, SemopFails, Kill, EarlySigint, Exit
    <3>2. /\ main' = [main EXCEPT ![c] = "gone"] /\ sender' = [sender EXCEPT ![c] = "off"]
          /\ index' = [index EXCEPT ![c] = 0] /\ UNCHANGED <<author, text, messages_num, typed>>
      BY <3>1 DEF Ends, Forget
    <3>3. /\ main'[c] = "gone" /\ sender'[c] = "off"
          /\ \A d \in Clients : d # c => /\ main'[d] = main[d] /\ sender'[d] = sender[d]
                                       /\ index'[d] = index[d]
      BY <3>2
    <3> QED
      BY <3>2, <3>3 DEF AtWork, Arriving
  <2>2. CASE sem_init(c)
    BY <2>2 DEF sem_init, MainGoes, AtWork, Arriving
  <2>3. CASE \/ OpenSegment(c) \/ OpenSemaphores(c) \/ FindSlot(c) \/ WriteName(c) \/ ReadCount(c)
             \/ Increment(c) \/ Search(c) \/ Sigint(c) \/ Scan(c) \/ Shift(c)
             \/ ReadUncount(c) \/ Decrement(c)
    BY <2>3 DEF OpenSegment, OpenSemaphores, FindSlot, WriteName, ReadCount, Increment, Search,
                Sigint, Scan, Shift, ReadUncount, Decrement, MainGoes, Arriving
  <2>4. CASE ReceiverReserve(c) \/ Printing(c)
    BY <2>4 DEF ReceiverReserve, Printing, StartPrint, PrintMessage, EndPrint, ReceiverRelease,
                ReceiverGoes
  <2> QED
    BY <1>2, <2>1, <2>2, <2>3, <2>4 DEF ClientStep, MainStep, HandlerStep
<1> QED
  BY <1>1, <1>2 DEF Next

LEMMA TextInvStep ==
  ASSUME EnoughRoom, AfterServer, OneTalker, TextInv, [Next]_vars
  PROVE  TextInv'
<1>1. IInv' /\ ServerFirst'
  BY IInvStep, ServerFirstStep DEF TextInv, IInv
<1>2. CASE \E c \in Clients : SenderReserve(c) \/ Type(c) \/ Writing(c)
  BY <1>1, <1>2, SenderDrafts DEF TextInv
<1>3. CASE \A c \in Clients : ~(SenderReserve(c) \/ Type(c) \/ Writing(c))
  <2>1. /\ UNCHANGED <<author, text, messages_num, typed>>
        /\ \A d \in Clients : \/ sender'[d] = sender[d] /\ index'[d] = index[d]
                              \/ ~AtWork(d)'
        /\ \A d \in Clients : main'[d] \in Arriving => main[d] \in Arriving
    BY <1>3, TextFrame DEF TextInv, IInv
  <2>2. ASSUME NEW d \in Clients PROVE Draft(d)'
    <3>1. Draft(d)
      BY DEF TextInv
    <3> QED
      BY <2>1, <3>1 DEF Draft, AtWork
  <2> QED
    BY <1>1, <2>1, <2>2 DEF TextInv
<1> QED
  BY <1>2, <1>3

\* Only the end of its process stops a thread that works on a text.
LEMMA SenderStops ==
  ASSUME TypeOK, ThreadsOK, NEW c \in Clients, ClientStep(c),
         ~(SenderReserve(c) \/ Type(c) \/ Writing(c)),
         NEW d \in Clients, AtWork(d), ~AtWork(d)'
  PROVE  c = d /\ (SemInitFails(d) \/ SemopFails(d) \/ Kill(d) \/ EarlySigint(d) \/ Exit(d))
<1> USE DEF AtWork, TypeOK, senderVars
<1>1. CASE SemInitFails(c) \/ SemopFails(c) \/ Kill(c) \/ EarlySigint(c) \/ Exit(c)
  <2>1. sender' = [sender EXCEPT ![c] = "off"]
    BY <1>1 DEF SemInitFails, SemopFails, Kill, EarlySigint, Exit, Ends
  <2> QED
    BY <1>1, <2>1
<1>2. CASE sem_init(c)
  <2>1. sender[c] = "off" /\ sender' = [sender EXCEPT ![c] = "reserve"]
    BY <1>2 DEF sem_init, MainGoes, ThreadsOK, Arriving
  <2> QED
    BY <2>1
<1>3. CASE \/ OpenSegment(c) \/ OpenSemaphores(c) \/ FindSlot(c) \/ WriteName(c) \/ ReadCount(c)
           \/ Increment(c) \/ Search(c) \/ Sigint(c) \/ Scan(c) \/ Shift(c)
           \/ ReadUncount(c) \/ Decrement(c)
  BY <1>3 DEF OpenSegment, OpenSemaphores, FindSlot, WriteName, ReadCount, Increment, Search,
              Sigint, Scan, Shift, ReadUncount, Decrement
<1>4. CASE ReceiverReserve(c) \/ Printing(c)
  BY <1>4 DEF ReceiverReserve, Printing, StartPrint, PrintMessage, EndPrint, ReceiverRelease,
              ReceiverGoes
<1> QED
  BY <1>1, <1>2, <1>3, <1>4 DEF ClientStep, MainStep, HandlerStep

LEMMA KeptInvStep ==
  ASSUME EnoughRoom, AfterServer, OneTalker, TalkerStays, KeptInv, [Next]_vars
  PROVE  KeptInv'
<1>1. TextInv' /\ OnlyQuittersLeave'
  BY TextInvStep, OnlyQuittersLeaveStep DEF KeptInv, TextInv, IInv
<1>2. ASSUME NEW c \in Clients, SenderReserve(c) \/ Type(c) \/ Writing(c), NEW d \in Clients
      PROVE  Standing(d)' /\ (d \notin Talkers => typed'[d] = 0)
  <2>1. TypeOK /\ messages_num \in Nat /\ Draft(c) /\ Standing(d) /\ (d \notin Talkers => typed[d] = 0)
        /\ typed[d] \in Nat
    BY DraftFacts, ConstantsAssumption DEF KeptInv, TypeOK
  <2>2. /\ \A i \in 0..messages_num - 1 : author'[i] = author[i] /\ text'[i] = text[i]
        /\ messages_num' = messages_num \/ (Publish(c) /\ messages_num' = messages_num + 1)
    BY <1>2, SlotsBelow DEF KeptInv
  <2>3. \A n : Stands(d, n) => Stands(d, n)'
    BY <2>1, <2>2 DEF Stands
  <2>4. server' = server
    BY <1>2 DEF Writing, SenderReserve, Type, ReadIndex, WriteAuthor, WriteText, Publish,
                SenderRelease, SenderGoes
  <2>5. CASE d # c
    <3>1. typed'[d] = typed[d] /\ (AtWork(d)' <=> AtWork(d))
      BY <1>2, <2>1, <2>5 DEF Writing, SenderReserve, Type, ReadIndex, WriteAuthor, WriteText,
                              Publish, SenderRelease, SenderGoes, AtWork, TypeOK
    <3> QED
      BY <2>1, <2>3, <2>4, <3>1 DEF Standing
  <2>6. CASE d = c /\ Type(c)
    <3>1. typed'[d] = typed[d] + 1 /\ ~AtWork(d) /\ AtWork(d)' /\ d \in Talkers
      BY <2>1, <2>6 DEF Type, SenderGoes, AtWork, TypeOK
    <3> QED
      BY <2>1, <2>3, <2>4, <3>1 DEF Standing
  <2>7. CASE d = c /\ Publish(c)
    <3>1. /\ typed' = typed /\ messages_num' = messages_num + 1
          /\ author'[messages_num] = c /\ text'[messages_num] = <<c, typed[c]>>
      BY <2>1, <2>7 DEF Publish, SenderGoes, Draft
    <3>2. Stands(c, typed[c])'
      BY <2>1, <3>1 DEF Stands
    <3> QED
      BY <2>1, <2>3, <2>4, <2>7, <3>1, <3>2 DEF Standing
  <2>8. CASE d = c /\ ~Type(c) /\ ~Publish(c)
    <3>1. typed' = typed /\ (AtWork(c)' <=> AtWork(c))
      BY <1>2, <2>1, <2>8 DEF Writing, SenderReserve, ReadIndex, WriteAuthor, WriteText,
                              SenderRelease, SenderGoes, AtWork, TypeOK
    <3> QED
      BY <2>1, <2>3, <2>4, <2>8, <3>1 DEF Standing
  <2> QED
    BY <2>5, <2>6, <2>7, <2>8
<1>3. ASSUME \A c \in Clients : ~(SenderReserve(c) \/ Type(c) \/ Writing(c)), NEW d \in Clients
      PROVE  Standing(d)' /\ (d \notin Talkers => typed'[d] = 0)
  <2>1. /\ UNCHANGED <<author, text, messages_num, typed>>
        /\ sender'[d] = sender[d] \/ ~AtWork(d)'
    BY <1>3, TextFrame DEF KeptInv, TextInv, IInv
  <2>2. server' # "ended" => server # "ended"
    <3>1. CASE ServerStep \/ UNCHANGED vars
      BY <3>1 DEF ServerStep, ServerGoes, CreateSegment, CreateSemaphores, ZeroClients,
                  ZeroMessages, ServerSigint, vars
    <3>2. CASE \E c \in Clients : ClientStep(c)
      BY <3>2, StepOfClient
    <3> QED
      BY <3>1, <3>2 DEF Next
  <2>3. server' # "ended" /\ AtWork(d) => AtWork(d)'
    <3>1. SUFFICES ASSUME server' # "ended", AtWork(d), ~AtWork(d)' PROVE FALSE
      OBVIOUS
    <3>2. d \in Talkers /\ main[d] \notin Arriving /\ TypeOK
      BY <3>1, DraftFacts DEF KeptInv
    <3>3. server = "running"
      BY <2>2, <3>1, <3>2 DEF KeptInv, TextInv, ServerFirst, Arriving
    <3>4. PICK c \in Clients : ClientStep(c)
      <4>1. ~(ServerStep \/ UNCHANGED vars)
        BY <3>1, ServerFrame DEF senderVars, AtWork
      <4> QED
        BY <4>1 DEF Next
    <3>5. SemInitFails(d) \/ SemopFails(d) \/ Kill(d) \/ EarlySigint(d) \/ Exit(d)
      BY <1>3, <3>1, <3>4, SenderStops DEF KeptInv, TextInv, IInv
    <3> QED
      BY <3>2, <3>3, <3>5 DEF SemInitFails, SemopFails, Kill, EarlySigint, Exit, SemaphoresExist,
                              Arriving, TalkerStays, KeptInv, OnlyQuittersLeave, Leaving
  <2>4. \A n : Stands(d, n) => Stands(d, n)'
    BY <2>1 DEF Stands
  <2> QED
    BY <2>1, <2>2, <2>3, <2>4 DEF KeptInv, Standing
<1> QED
  BY <1>1, <1>2, <1>3 DEF KeptInv

LEMMA KeptInvInit ==
  ASSUME EnoughRoom, Init
  PROVE  KeptInv
<1>1. IInv
  BY IInvInit
<1>2. ServerFirst /\ OnlyQuittersLeave
  BY DEF Init, ServerFirst, OnlyQuittersLeave, Leaving
<1>3. \A c \in Clients : Draft(c) /\ typed[c] = 0
  BY DEF Init, Draft, AtWork
<1> QED
  BY <1>1, <1>2, <1>3 DEF KeptInv, TextInv, Standing

\* If one user types, who neither leaves with Ctrl-C nor dies, every text that was sent
\* stands in the list with its author's name, until the server ends: handle_message may
\* read messages_num three times for one message.
THEOREM NoTextIsLost ==
  EnoughRoom /\ AfterServer /\ OneTalker /\ TalkerStays => (Spec => []TextsKept)
<1> SUFFICES ASSUME EnoughRoom, AfterServer, OneTalker, TalkerStays PROVE Spec => []TextsKept
  OBVIOUS
<1>1. Init => KeptInv
  BY KeptInvInit
<1>2. KeptInv /\ [Next]_vars => KeptInv'
  BY KeptInvStep
<1>3. KeptInv => TextsKept
  BY DEF KeptInv, Standing, Stands, TextsKept
<1> QED
  BY <1>1, <1>2, <1>3, PTL DEF Spec

-----------------------------------------------------------------------------
(* The windows.                                                            *)

IsPrefixOfLog(s) ==
  Len(s) <= messages_num /\ \A i \in 1..Len(s) : s[i] = MessageAt(i - 1)

Window(c) ==
  /\ printed[c] \in Seq(Message) /\ shown[c] \in Seq(Message)
  /\ IsPrefixOfLog(printed[c]) /\ IsPrefixOfLog(shown[c])
  /\ receiver[c] = "print" =>
       Len(printed[c]) <= size[c] /\ Len(shown[c]) <= size[c] /\ size[c] <= messages_num
  /\ receiver[c] # "print" => printed[c] = <<>>

\* What is printed and shown begins like the list.
WindowsOK ==
  /\ printed \in [Clients -> Seq(Message)] /\ shown \in [Clients -> Seq(Message)]
  /\ \A c \in Clients : Window(c)

RoomInv == ListInv /\ TextInv /\ WindowsOK

\* The messages in the list, as the abstract chat room has them.
Log == [n \in 1..messages_num |-> MessageAt(n - 1)]

LEMMA AsSequence ==
  ASSUME NEW S, NEW n \in Nat, NEW f \in [1..n -> S]
  PROVE  f \in Seq(S) /\ Len(f) = n
<1>1. f \in Seq(S)
  BY SeqDef
<1>2. Len(f) \in Nat /\ 1..Len(f) = 1..n
  BY <1>1, LenProperties
<1>3. Len(f) = n
  <2>1. CASE Len(f) < n
    <3>1. n \in 1..n /\ n \notin 1..Len(f)
      BY <1>2, <2>1
    <3> QED
      BY <1>2, <3>1
  <2>2. CASE n < Len(f)
    <3>1. Len(f) \in 1..Len(f) /\ Len(f) \notin 1..n
      BY <1>2, <2>2
    <3> QED
      BY <1>2, <3>1
  <2> QED
    BY <1>2, <2>1, <2>2
<1> QED
  BY <1>1, <1>3

LEMMA LogFacts ==
  ASSUME TypeOK, NoOverrun
  PROVE  /\ messages_num \in Nat
         /\ \A i \in 0..messages_num - 1 : i \in MessageSlots /\ MessageAt(i) \in Message
         /\ Log \in Seq(Message) /\ Len(Log) = messages_num
         /\ \A i \in 1..messages_num : Log[i] = MessageAt(i - 1)
<1>1. messages_num \in Nat /\ \A i \in 0..messages_num - 1 : i \in MessageSlots
  BY ConstantsAssumption DEF TypeOK, NoOverrun, MessageSlots
<1>2. \A i \in 0..messages_num - 1 : MessageAt(i) \in Message
  BY <1>1 DEF TypeOK, MessageAt, Message
<1>3. Log \in [1..messages_num -> Message] /\ \A i \in 1..messages_num : Log[i] = MessageAt(i - 1)
  BY <1>1, <1>2 DEF Log
<1> HIDE DEF Log
<1>4. Log \in Seq(Message) /\ Len(Log) = messages_num
  BY <1>1, <1>3, AsSequence
<1> QED
  BY <1>1, <1>2, <1>3, <1>4

\* No step changes the messages in the list.
LEMMA LogGrows ==
  ASSUME EnoughRoom, OneTalker, TextInv, [Next]_vars
  PROVE  /\ messages_num \in Nat
         /\ messages_num' = messages_num \/ messages_num' = messages_num + 1
         /\ \A i \in 0..messages_num - 1 : MessageAt(i)' = MessageAt(i)
<1>1. messages_num \in Nat
  BY DEF TextInv, IInv, TypeOK
<1>2. CASE \E c \in Clients : SenderReserve(c) \/ Type(c) \/ Writing(c)
  BY <1>1, <1>2, SlotsBelow DEF MessageAt
<1>3. CASE \A c \in Clients : ~(SenderReserve(c) \/ Type(c) \/ Writing(c))
  BY <1>1, <1>3, TextFrame DEF TextInv, IInv, MessageAt
<1> QED
  BY <1>2, <1>3

LEMMA PrefixStays ==
  ASSUME EnoughRoom, OneTalker, TextInv, [Next]_vars, NEW s \in Seq(Message), IsPrefixOfLog(s)
  PROVE  Len(s) <= messages_num' /\ \A i \in 1..Len(s) : s[i] = MessageAt(i - 1)'
<1>1. Len(s) \in Nat /\ Len(s) <= messages_num /\ \A i \in 1..Len(s) : s[i] = MessageAt(i - 1)
  BY LenProperties DEF IsPrefixOfLog
<1>2. \A i \in 1..Len(s) : i - 1 \in 0..messages_num - 1
  BY <1>1, LogGrows
<1>3. messages_num \in Nat /\ messages_num <= messages_num' /\ messages_num' \in Nat
  BY LogGrows
<1>4. \A i \in 1..Len(s) : s[i] = MessageAt(i - 1)'
  BY <1>1, <1>2, LogGrows
<1> QED
  BY <1>1, <1>3, <1>4

\* The window of a client whose receiving thread does not print.
LEMMA WindowStays ==
  ASSUME EnoughRoom, OneTalker, TextInv, WindowsOK, [Next]_vars, NEW d \in Clients,
         printed'[d] = printed[d], shown'[d] = shown[d],
         receiver'[d] = "print" => receiver[d] = "print" /\ size'[d] = size[d],
         receiver'[d] # "print" => receiver[d] # "print"
  PROVE  Window(d)'
<1>1. Window(d)
  BY DEF WindowsOK
<1>2. /\ Len(printed[d]) <= messages_num'
      /\ \A i \in 1..Len(printed[d]) : printed[d][i] = MessageAt(i - 1)'
  BY <1>1, PrefixStays DEF Window
<1>3. /\ Len(shown[d]) <= messages_num'
      /\ \A i \in 1..Len(shown[d]) : shown[d][i] = MessageAt(i - 1)'
  BY <1>1, PrefixStays DEF Window
<1>4. receiver'[d] = "print" => size[d] <= messages_num'
  BY <1>1, LogGrows DEF Window, TextInv, IInv, TypeOK
<1> QED
  BY <1>1, <1>2, <1>3, <1>4 DEF Window, IsPrefixOfLog

\* The window of a client whose process ends.
LEMMA WindowEnds ==
  ASSUME EnoughRoom, OneTalker, TextInv, WindowsOK, [Next]_vars, NEW c \in Clients, Ends(c)
  PROVE  \A d \in Clients : Window(d)'
<1>1. /\ printed' = [printed EXCEPT ![c] = <<>>] /\ shown' = shown
      /\ receiver' = [receiver EXCEPT ![c] = "off"] /\ size' = [size EXCEPT ![c] = 0]
      /\ messages_num' = messages_num
  BY DEF Ends, Forget, segmentVars
<1>2. TypeOK /\ WindowsOK /\ messages_num \in Nat
  BY DEF TextInv, IInv, TypeOK
<1>3. \A d \in Clients \ {c} : Window(d)'
  BY <1>1, <1>2, WindowStays DEF TypeOK, WindowsOK
<1>4. printed'[c] = <<>> /\ shown'[c] = shown[c] /\ receiver'[c] = "off"
  BY <1>1, <1>2 DEF TypeOK, WindowsOK
<1>5. /\ <<>> \in Seq(Message) /\ Len(<<>>) = 0 /\ shown[c] \in Seq(Message)
      /\ Len(shown[c]) <= messages_num'
      /\ \A i \in 1..Len(shown[c]) : shown[c][i] = MessageAt(i - 1)'
  BY <1>2, EmptySeq, PrefixStays DEF WindowsOK, Window
<1>6. IsPrefixOfLog(shown[c])'
  BY <1>4, <1>5 DEF IsPrefixOfLog
<1>7. IsPrefixOfLog(printed[c])'
  <2>1. Len(printed'[c]) = 0 /\ 1..0 = {} /\ 0 <= messages_num'
    BY <1>1, <1>2, <1>4, <1>5
  <2> QED
    BY <2>1 DEF IsPrefixOfLog
<1>8. Window(c)'
  BY <1>4, <1>5, <1>6, <1>7 DEF Window
<1> QED
  BY <1>3, <1>8

LEMMA WindowPrints ==
  ASSUME EnoughRoom, OneTalker, TextInv, WindowsOK, [Next]_vars, NEW c \in Clients,
         StartPrint(c) \/ PrintMessage(c) \/ EndPrint(c)
  PROVE  \A d \in Clients : Window(d)'
<1> USE DEF segmentVars
<1>1. /\ TypeOK /\ NoOverrun /\ messages_num \in Nat /\ Window(c)
      /\ printed \in [Clients -> Seq(Message)] /\ shown \in [Clients -> Seq(Message)]
      /\ receiver \in [Clients -> {"off", "reserve", "start", "print", "release"}]
      /\ size \in [Clients -> Int]
  BY NoOverrunFollows DEF TextInv, IInv, TypeOK, WindowsOK
<1>2. UNCHANGED <<author, text, messages_num>>
  BY DEF StartPrint, PrintMessage, EndPrint, ReceiverGoes
<1>3. \A d \in Clients \ {c} : Window(d)'
  <2>1. ASSUME NEW d \in Clients \ {c}
        PROVE  printed'[d] = printed[d] /\ shown'[d] = shown[d] /\ receiver'[d] = receiver[d]
               /\ size'[d] = size[d]
    BY <1>1 DEF StartPrint, PrintMessage, EndPrint, ReceiverGoes
  <2> QED
    BY <2>1, WindowStays
<1>4. Window(c)'
  <2>1. CASE StartPrint(c)
    <3>1. /\ printed' = printed /\ shown' = shown /\ printed[c] = <<>>
          /\ receiver'[c] = "print" /\ size'[c] = messages_num
      BY <1>1, <2>1 DEF StartPrint, ReceiverGoes, Window
    <3> QED
      BY <1>1, <1>2, <3>1, EmptySeq DEF Window, IsPrefixOfLog, MessageAt
  <2>2. CASE PrintMessage(c)
    <3> DEFINE n == Len(printed[c])
    <3>1. /\ n \in Nat /\ n < size[c] /\ size[c] <= messages_num
          /\ receiver[c] = "print" /\ receiver' = receiver
          /\ shown' = shown /\ size' = size
          /\ printed'[c] = Append(printed[c], MessageAt(n))
      BY <1>1, <2>2, LenProperties DEF PrintMessage, ReceiverGoes, Window
    <3>2. n \in 0..messages_num - 1 /\ MessageAt(n) \in Message
      BY <1>1, <3>1, LogFacts
    <3>3. /\ printed'[c] \in Seq(Message) /\ Len(printed'[c]) = n + 1
          /\ printed'[c][n + 1] = MessageAt(n)
          /\ \A i \in 1..n : printed'[c][i] = printed[c][i]
      BY <1>1, <3>1, <3>2, AppendProperties
    <3>4. \A i \in 1..n + 1 : printed'[c][i] = MessageAt(i - 1)
      <4>1. \A i \in 1..n : printed[c][i] = MessageAt(i - 1)
        BY <1>1 DEF Window, IsPrefixOfLog
      <4>2. \A i \in 1..n + 1 : i \in 1..n \/ i = n + 1
        BY <3>1
      <4>3. (n + 1) - 1 = n
        BY <3>1
      <4> QED
        BY <3>3, <4>1, <4>2, <4>3
    <3>5. n + 1 <= messages_num /\ n + 1 <= size[c]
      BY <1>1, <3>1
    <3> HIDE DEF n
    <3> QED
      BY <1>1, <1>2, <3>1, <3>3, <3>4, <3>5 DEF Window, IsPrefixOfLog, MessageAt
  <2>3. CASE EndPrint(c)
    <3>1. /\ shown'[c] = printed[c] /\ printed'[c] = <<>> /\ receiver'[c] = "release"
      BY <1>1, <2>3 DEF EndPrint, ReceiverGoes
    <3>2. <<>> \in Seq(Message) /\ Len(<<>>) = 0
      BY EmptySeq
    <3> QED
      BY <1>1, <1>2, <3>1, <3>2 DEF Window, IsPrefixOfLog, MessageAt
  <2> QED
    BY <2>1, <2>2, <2>3
<1> QED
  BY <1>3, <1>4

LEMMA WindowsStep ==
  ASSUME EnoughRoom, OneTalker, TextInv, WindowsOK, [Next]_vars
  PROVE  WindowsOK'
<1>1. /\ TypeOK /\ ThreadsOK
      /\ printed \in [Clients -> Seq(Message)] /\ shown \in [Clients -> Seq(Message)]
  BY DEF TextInv, IInv, WindowsOK
<1>2. ASSUME UNCHANGED <<printed, shown, size>>,
             \A d \in Clients : receiver'[d] = "print" <=> receiver[d] = "print"
      PROVE  \A d \in Clients : Window(d)'
  BY <1>2, WindowStays
<1>3. ASSUME ServerStep \/ UNCHANGED vars PROVE \A d \in Clients : Window(d)'
  <2>1. UNCHANGED <<printed, shown, size, receiver>>
    BY <1>3, ServerFrame DEF receiverVars
  <2> QED
    BY <1>2, <2>1
<1>4. ASSUME NEW c \in Clients, ClientStep(c) PROVE \A d \in Clients : Window(d)'
  <2>1. CASE SemInitFails(c) \/ SemopFails(c) \/ Kill(c) \/ EarlySigint(c) \/ Exit(c)
    BY <2>1, WindowEnds DEF SemInitFails, SemopFails, Kill, EarlySigint, Exit
  <2>2. CASE sem_init(c)
    <3>1. receiver[c] = "off"
      BY <1>1, <2>2 DEF sem_init, MainGoes, ThreadsOK, Arriving
    <3> QED
      BY <1>1, <1>2, <2>2, <3>1 DEF sem_init, TypeOK
  <2>3. CASE \/ OpenSegment(c) \/ OpenSemaphores(c) \/ FindSlot(c) \/ WriteName(c) \/ ReadCount(c)
             \/ Increment(c) \/ Search(c) \/ Sigint(c) \/ Scan(c) \/ Shift(c)
             \/ ReadUncount(c) \/ Decrement(c)
    BY <1>2, <2>3 DEF OpenSegment, OpenSemaphores, FindSlot, WriteName, ReadCount, Increment, Search,
                      Sigint, Scan, Shift, ReadUncount, Decrement, receiverVars
  <2>4. CASE StartPrint(c) \/ PrintMessage(c) \/ EndPrint(c)
    BY <2>4, WindowPrints
  <2>5. CASE ReceiverReserve(c) \/ ReceiverRelease(c)
    BY <1>1, <1>2, <2>5 DEF ReceiverReserve, ReceiverRelease, ReceiverGoes, TypeOK
  <2>6. CASE SenderReserve(c) \/ Type(c) \/ Writing(c)
    BY <1>2, <2>6 DEF SenderReserve, Type, Writing, ReadIndex, WriteAuthor, WriteText, Publish,
                      SenderRelease, SenderGoes, receiverVars
  <2> QED
    BY <1>4, <2>1, <2>2, <2>3, <2>4, <2>5, <2>6 DEF ClientStep, MainStep, HandlerStep, Printing
<1>5. \A d \in Clients : Window(d)'
  <2>1. \/ ServerStep \/ UNCHANGED vars
        \/ \E c \in Clients : ClientStep(c)
    BY DEF Next
  <2> QED
    BY <2>1, <1>3, <1>4
<1>6. printed' \in [Clients -> Seq(Message)] /\ shown' \in [Clients -> Seq(Message)]
  <2>1. \A d \in Clients : printed'[d] \in Seq(Message) /\ shown'[d] \in Seq(Message)
    BY <1>5 DEF Window
  <2>2. /\ printed' = [d \in Clients |-> printed'[d]]
        /\ shown' = [d \in Clients |-> shown'[d]]
    <3>1. CASE ServerStep \/ UNCHANGED vars
      BY <1>1, <3>1, ServerFrame DEF receiverVars
    <3>2. ASSUME NEW c \in Clients, ClientStep(c)
          PROVE  /\ \E x : printed' = [printed EXCEPT ![c] = x]
                 /\ \E x : shown' = [shown EXCEPT ![c] = x]
      <4>1. CASE UNCHANGED <<printed, shown>>
        BY <1>1, <4>1
      <4>2. CASE SemInitFails(c) \/ SemopFails(c) \/ Kill(c) \/ EarlySigint(c) \/ Exit(c)
        BY <1>1, <4>2 DEF SemInitFails, SemopFails, Kill, EarlySigint, Exit, Ends
      <4>3. CASE PrintMessage(c) \/ EndPrint(c)
        BY <1>1, <4>3 DEF PrintMessage, EndPrint
      <4> QED
        BY <3>2, <4>1, <4>2, <4>3
           DEF ClientStep, MainStep, HandlerStep, Printing, Writing, OpenSegment, OpenSemaphores,
               FindSlot, WriteName, ReadCount, Increment, Search, sem_init, Sigint, Scan, Shift,
               ReadUncount, Decrement, ReceiverReserve, ReceiverRelease, StartPrint, SenderReserve,
               Type, ReadIndex, WriteAuthor, WriteText, Publish, SenderRelease, SenderGoes,
               receiverVars
    <3>3. CASE \E c \in Clients : ClientStep(c)
      BY <1>1, <3>2, <3>3
    <3> QED
      BY <3>1, <3>3 DEF Next
  <2> QED
    BY <2>1, <2>2
<1> QED
  BY <1>5, <1>6 DEF WindowsOK

-----------------------------------------------------------------------------
(* The chat room implements ChatRoom.                                      *)

LEMMA RoomInvStep ==
  ASSUME Orderly, OneTalker, RoomInv, [Next]_vars
  PROVE  RoomInv'
BY ListInvStep, TextInvStep, WindowsStep DEF RoomInv, Orderly

LEMMA RoomInvInit ==
  ASSUME Orderly, Init
  PROVE  RoomInv
<1>1. ListInv
  BY ListInvInit
<1>2. TextInv
  BY KeptInvInit DEF Orderly, KeptInv
<1>3. messages_num = 0
  BY DEF Init
<1>4. <<>> \in Seq(Message) /\ Len(<<>>) = 0
  BY EmptySeq
<1>5. \A c \in Clients : printed[c] = <<>> /\ shown[c] = <<>> /\ receiver[c] = "off"
  BY DEF Init
<1>6. ASSUME NEW c \in Clients PROVE Window(c)
  <2>1. IsPrefixOfLog(printed[c]) /\ IsPrefixOfLog(shown[c])
    BY <1>3, <1>4, <1>5 DEF IsPrefixOfLog
  <2> QED
    BY <1>4, <1>5, <2>1 DEF Window
<1>7. printed \in [Clients -> Seq(Message)] /\ shown \in [Clients -> Seq(Message)]
  BY <1>4 DEF Init
<1> QED
  BY <1>1, <1>2, <1>6, <1>7 DEF RoomInv, WindowsOK

Opened == server \in {"running", "ended"}

\* A step that shows nothing in the abstract room.
LEMMA RoomRests ==
  ASSUME Opened' <=> Opened, Listed' = Listed, Log' = Log, shown' = shown,
         \A c \in Clients : main'[c] = "off" <=> main[c] = "off"
  PROVE  UNCHANGED Abstract!vars
<1>1. Log' = Log /\ Log = [n \in 1..messages_num |-> MessageAt(n - 1)]
  BY DEF Log
<1>2. [n \in 1..messages_num |-> MessageAt(n - 1)]' = [n \in 1..messages_num |-> MessageAt(n - 1)]
  BY <1>1 DEF Log
<1> QED
  BY <1>2 DEF Abstract!vars, Opened

LEMMA LogStays ==
  ASSUME EnoughRoom, OneTalker, TextInv, [Next]_vars, messages_num' = messages_num
  PROVE  Log' = Log
<1>1. messages_num \in Nat /\ \A i \in 0..messages_num - 1 : MessageAt(i)' = MessageAt(i)
  BY LogGrows
<1>2. \A n \in 1..messages_num : n - 1 \in 0..messages_num - 1
  BY <1>1
<1>3. \A n \in 1..messages_num : MessageAt(n - 1)' = MessageAt(n - 1)
  BY <1>1, <1>2
<1> QED
  BY <1>3 DEF Log

\* Nobody but an arriving client changes the list.
LEMMA ListedStays ==
  ASSUME Orderly, ListInv, NEW c \in Clients, ClientStep(c), ~Increment(c)
  PROVE  Listed' = Listed
<1>1. /\ TypeOK /\ clients_num \in Nat /\ main[c] \notin Leaving
      /\ main[c] = "name" => v[c] = clients_num
  BY DEF Orderly, ListInv, OnlyQuittersLeave, ListOK, IInv, Entry
<1>2. CASE WriteName(c)
  <2>1. clients_num' = clients_num /\ client_list' = [client_list EXCEPT ![clients_num] = c]
    BY <1>1, <1>2 DEF WriteName, MainGoes
  <2>2. \A i \in 0..clients_num - 1 : client_list'[i] = client_list[i]
    BY <1>1, <2>1 DEF TypeOK
  <2> QED
    BY <2>1, <2>2 DEF Listed
<1>3. CASE ~WriteName(c)
  <2>1. ~HandlerStep(c) /\ ~Sigint(c)
    BY <1>1 DEF HandlerStep, Leaving, Scan, Shift, ReadUncount, Decrement, Exit, MainGoes,
                Sigint, Orderly
  <2>2. CASE OpenSegment(c) \/ MainStep(c) \/ SemopFails(c) \/ Kill(c) \/ EarlySigint(c)
    BY <1>3, <2>2
       DEF Listed, OpenSegment, MainStep, OpenSemaphores, FindSlot, ReadCount, Search,
           sem_init, SemInitFails, SemopFails, Kill, EarlySigint, Ends, segmentVars
  <2>3. CASE ReceiverReserve(c) \/ Printing(c) \/ SenderReserve(c) \/ Type(c) \/ Writing(c)
    BY <2>3, ThreadFrame DEF Listed
  <2> QED
    BY <2>1, <2>2, <2>3 DEF ClientStep
<1> QED
  BY <1>2, <1>3

\* Increment is the abstract Join.
LEMMA ArrivalJoins ==
  ASSUME Orderly, OneTalker, RoomInv, [Next]_vars, NEW c \in Clients, Increment(c)
  PROVE  Abstract!Join(c)
<1>1. /\ clients_num \in Nat /\ main[c] = "increment" /\ v[c] = clients_num
      /\ client_list[clients_num] = c /\ clients_num' = clients_num + 1
      /\ UNCHANGED <<server, client_list, messages_num, shown>>
      /\ main' = [main EXCEPT ![c] = "search"] /\ TypeOK
  BY DEF RoomInv, ListInv, ListOK, Entry, Increment, MainGoes, receiverVars, IInv
<1>2. Opened
  BY <1>1 DEF RoomInv, ListInv, ServerFirst, Opened
<1>3. c \notin Listed
  BY <1>1 DEF RoomInv, ListInv, ListOK, Listed
<1>4. Listed' = Listed \cup {c}
  <2>1. 0..(clients_num + 1) - 1 = (0..clients_num - 1) \cup {clients_num}
    BY <1>1
  <2> QED
    BY <1>1, <2>1 DEF Listed
<1>5. Log' = Log
  BY <1>1, LogStays DEF RoomInv, Orderly
<1>6. [n \in 1..messages_num |-> MessageAt(n - 1)]' = [n \in 1..messages_num |-> MessageAt(n - 1)]
  BY <1>5 DEF Log
<1>7. \A d \in Clients : main'[d] = "off" <=> main[d] = "off"
  BY <1>1 DEF TypeOK
<1> QED
  BY <1>1, <1>2, <1>3, <1>4, <1>6, <1>7 DEF Abstract!Join, Opened

\* There is a slot for a message that is about to be counted.
LEMMA RoomForOne ==
  ASSUME EnoughRoom, IInv, NEW c \in Clients, sender[c] = "increment"
  PROVE  index[c] < MAX_MESSAGES
<1>1. AtWork(c) /\ typed[c] \in 1..MaxTyped
  BY ConstantsAssumption DEF IInv, TypeOK, ThreadsOK, AtWork
<1>2. <<c, typed[c]>> \in Text \ Done
  BY <1>1, ConstantsAssumption DEF Text, Done
<1>3. Cardinality(Done) \in Nat /\ Cardinality(Done) < MAX_MESSAGES
  BY <1>2, DoneSize
<1> QED
  BY <1>3, ConstantsAssumption DEF IInv, TypeOK, MessagesCounted

\* Publish is the abstract Post.
LEMMA PublishPosts ==
  ASSUME Orderly, OneTalker, RoomInv, [Next]_vars, NEW c \in Clients, Publish(c)
  PROVE  Abstract!Post(c)
<1> DEFINE m == MessageAt(messages_num)
<1>1. /\ sender[c] = "increment" /\ index[c] = messages_num /\ author[messages_num] = c
      /\ messages_num' = messages_num + 1
      /\ UNCHANGED <<server, client_list, clients_num, main, shown, author, text>>
      /\ TypeOK /\ NoOverrun /\ messages_num \in MessageSlots /\ messages_num \in Nat
  <2>1. IInv /\ EnoughRoom /\ index[c] = messages_num /\ author[messages_num] = c
        /\ sender[c] = "increment"
    BY DEF RoomInv, TextInv, Draft, Publish, SenderGoes, Orderly
  <2>2. messages_num < MAX_MESSAGES /\ NoOverrun
    BY <2>1, RoomForOne, NoOverrunFollows
  <2> QED
    BY <2>1, <2>2, ConstantsAssumption
       DEF IInv, TypeOK, Publish, SenderGoes, mainVars, receiverVars, MessageSlots
<1>2. main[c] = "chatting" /\ c \in Listed /\ Opened
  BY <1>1 DEF RoomInv, ListInv, Taken, Entry, ServerFirst, Opened
<1>3. /\ Log \in Seq(Message) /\ Len(Log) = messages_num
      /\ \A i \in 1..messages_num : Log[i] = MessageAt(i - 1)
      /\ \A i \in 0..messages_num - 1 : MessageAt(i) \in Message
  BY <1>1, LogFacts
<1>4. m \in Message /\ m.from = c
  BY <1>1 DEF TypeOK, MessageAt, Message
<1>5. \A i \in MessageSlots : MessageAt(i)' = MessageAt(i)
  BY <1>1 DEF MessageAt
<1>6. \A i \in 1..messages_num + 1 : i - 1 \in MessageSlots /\ MessageAt(i - 1) \in Message
  <2>1. \A i \in 1..messages_num + 1 : i - 1 \in 0..messages_num - 1 \/ i - 1 = messages_num
    BY <1>1
  <2> QED
    BY <1>1, <1>3, <1>4, <2>1, ConstantsAssumption DEF MessageSlots
<1> DEFINE log1 == [i \in 1..messages_num + 1 |-> MessageAt(i - 1)]
<1>7. Log' = log1
  BY <1>1, <1>5, <1>6 DEF Log
<1>8. /\ log1 \in [1..messages_num + 1 -> Message]
      /\ \A i \in 1..messages_num + 1 : log1[i] = MessageAt(i - 1)
  BY <1>6
<1> HIDE DEF log1, m
<1>9. log1 \in Seq(Message) /\ Len(log1) = messages_num + 1
  BY <1>1, <1>8, AsSequence
<1>10. /\ Append(Log, m) \in Seq(Message) /\ Len(Append(Log, m)) = messages_num + 1
       /\ \A i \in 1..messages_num : Append(Log, m)[i] = MessageAt(i - 1)
       /\ Append(Log, m)[messages_num + 1] = m
  BY <1>3, <1>4, AppendProperties
<1>11. \A i \in 1..messages_num + 1 : log1[i] = Append(Log, m)[i]
  <2>1. \A i \in 1..messages_num + 1 : i \in 1..messages_num \/ i = messages_num + 1
    BY <1>1
  <2>2. messages_num + 1 \in 1..messages_num + 1 /\ (messages_num + 1) - 1 = messages_num
    BY <1>1
  <2>3. log1[messages_num + 1] = m
    BY <1>8, <2>2 DEF m
  <2> QED
    BY <1>8, <1>10, <2>1, <2>3
<1>12. Log' = Append(Log, m)
  BY <1>7, <1>9, <1>10, <1>11, SeqEqual
<1> DEFINE room == [s \in 0..1 |-> IF s = 0 THEN <<>> ELSE Log]
<1>13. room' = [room EXCEPT ![1] = Append(@, m)]
  <2> DEFINE more == Append(Log, m)
  <2>1. room' = [s \in 0..1 |-> IF s = 0 THEN <<>> ELSE more]
    BY <1>12
  <2>2. room[1] = Log
    OBVIOUS
  <2>3. [room EXCEPT ![1] = more] = [s \in 0..1 |-> IF s = 0 THEN <<>> ELSE more]
    <3> HIDE DEF more
    <3> QED
      OBVIOUS
  <2> QED
    BY <2>1, <2>2, <2>3
<1>14. Listed' = Listed /\ Opened'
  BY <1>1, <1>2 DEF Listed, Opened
<1>15. room = [s \in 0..1 |-> IF s = 0 THEN <<>>
                              ELSE [n \in 1..messages_num |-> MessageAt(n - 1)]]
  BY DEF Log
<1>16. room' = [s \in 0..1 |-> IF s = 0 THEN <<>>
                               ELSE [n \in 1..messages_num |-> MessageAt(n - 1)]]'
  BY DEF Log
<1> HIDE DEF room
<1> QED
  BY <1>1, <1>2, <1>4, <1>13, <1>14, <1>15, <1>16 DEF Abstract!Post, Opened

\* EndPrint is the abstract Show, or shows nothing new.
LEMMA WindowShows ==
  ASSUME Orderly, OneTalker, RoomInv, [Next]_vars, NEW c \in Clients, EndPrint(c)
  PROVE  Abstract!Show(c) \/ UNCHANGED Abstract!vars
<1> DEFINE n == Len(printed[c])
<1>1. /\ receiver[c] = "print" /\ n >= size[c] /\ shown' = [shown EXCEPT ![c] = printed[c]]
      /\ UNCHANGED <<server, client_list, clients_num, main, messages_num, author, text>>
      /\ TypeOK /\ shown \in [Clients -> Seq(Message)] /\ size[c] \in Int
  BY DEF RoomInv, WindowsOK, TextInv, IInv, TypeOK, EndPrint, ReceiverGoes, segmentVars, mainVars
<1>2. /\ printed[c] \in Seq(Message) /\ shown[c] \in Seq(Message)
      /\ IsPrefixOfLog(printed[c]) /\ IsPrefixOfLog(shown[c])
      /\ n <= size[c] /\ Len(shown[c]) <= size[c] /\ size[c] <= messages_num
  BY <1>1 DEF RoomInv, WindowsOK, Window
<1>3. n \in Nat /\ Len(shown[c]) \in Nat /\ Len(shown[c]) <= n /\ n <= messages_num
  BY <1>1, <1>2, LenProperties
<1>4. main[c] # "off"
  BY <1>1 DEF RoomInv, ListInv, Taken
<1>5. /\ messages_num \in Nat
      /\ \A i \in 0..messages_num - 1 : MessageAt(i) \in Message
      /\ Log \in Seq(Message) /\ Len(Log) = messages_num
      /\ \A i \in 1..messages_num : Log[i] = MessageAt(i - 1)
  BY <1>1, LogFacts, NoOverrunFollows DEF RoomInv, TextInv, Orderly
<1>6. Listed' = Listed /\ (Opened' <=> Opened)
  BY <1>1 DEF Listed, Opened
<1>7. Log' = Log
  BY <1>1 DEF Log, MessageAt
<1>8. CASE Len(shown[c]) = n
  <2>1. shown[c] = printed[c]
    <3>1. \A i \in 1..n : shown[c][i] = printed[c][i]
      BY <1>2, <1>8 DEF IsPrefixOfLog
    <3> QED
      BY <1>2, <1>8, <3>1, SeqEqual
  <2>2. shown' = shown
    BY <1>1, <2>1
  <2> QED
    BY <1>1, <1>6, <1>7, <2>2, RoomRests
<1>9. CASE Len(shown[c]) # n
  <2>1. n \in Len(shown[c]) + 1 .. messages_num
    BY <1>3, <1>5, <1>9
  <2>2. printed[c] = SubSeq(Log, 1, n)
    <3>1. \A i \in 1..n : i \in 1..messages_num
      BY <1>3, <1>5
    <3>2. \A i \in 1..n : Log[i] \in Message
      BY <1>5, <3>1, ElementOfSeq
    <3> DEFINE sub == SubSeq(Log, 1, n)
    <3>3. /\ sub \in Seq(Message)
          /\ Len(sub) = IF 1 <= n THEN n - 1 + 1 ELSE 0
          /\ \A i \in 1..n - 1 + 1 : sub[i] = Log[1 + i - 1]
      <4>1. 1 \in Int /\ n \in Int
        BY <1>3
      <4> HIDE DEF n
      <4> QED
        BY <3>2, <4>1, SubSeqProperties
    <3> HIDE DEF sub
    <3>4. Len(sub) = n /\ \A i \in 1..n : sub[i] = Log[i]
      <4>1. \A i \in 1..n : i \in 1..n - 1 + 1 /\ 1 + i - 1 = i
        BY <1>3
      <4>2. n = (IF 1 <= n THEN n - 1 + 1 ELSE 0)
        BY <1>3
      <4> QED
        BY <3>3, <4>1, <4>2
    <3>5. \A i \in 1..n : printed[c][i] = sub[i]
      BY <1>2, <1>5, <3>1, <3>4 DEF IsPrefixOfLog
    <3>6. printed[c] = sub
      BY <1>2, <3>3, <3>4, <3>5, SeqEqual
    <3> QED
      BY <3>6 DEF sub
  <2> DEFINE room == [s \in 0..1 |-> IF s = 0 THEN <<>> ELSE Log]
             attends == [d \in Clients |-> IF main[d] = "off" THEN 0 ELSE 1]
  <2>3. attends[c] = 1 /\ room[1] = Log /\ room' = room /\ attends' = attends
    BY <1>1, <1>4, <1>7
  <2>4. room = [s \in 0..1 |-> IF s = 0 THEN <<>>
                               ELSE [i \in 1..messages_num |-> MessageAt(i - 1)]]
    BY DEF Log
  <2>5. room' = [s \in 0..1 |-> IF s = 0 THEN <<>>
                                ELSE [i \in 1..messages_num |-> MessageAt(i - 1)]]'
    BY DEF Log
  <2> HIDE DEF room
  <2>6. \E i \in Len(shown[c]) + 1 .. Len(room[attends[c]]) :
          shown' = [shown EXCEPT ![c] = SubSeq(room[attends[c]], 1, i)]
    BY <1>1, <1>5, <2>1, <2>2, <2>3
  <2>7. Abstract!Show(c)
    BY <1>1, <1>6, <2>3, <2>4, <2>5, <2>6 DEF Abstract!Show, Opened
  <2> QED
    BY <2>7
<1> QED
  BY <1>8, <1>9

\* What a step of client c that is none of these leaves as it is.
LEMMA OthersRest ==
  ASSUME Orderly, OneTalker, RoomInv, [Next]_vars, NEW c \in Clients, ClientStep(c),
         ~Increment(c), ~Publish(c), ~EndPrint(c), ~OpenSegment(c)
  PROVE  UNCHANGED Abstract!vars
<1>1. server' = server
  BY StepOfClient
<1>2. Listed' = Listed
  BY ListedStays DEF RoomInv
<1>3. TypeOK /\ EnoughRoom
  BY DEF RoomInv, TextInv, IInv, Orderly
<1>4. messages_num' = messages_num /\ shown' = shown
  BY DEF ClientStep, MainStep, HandlerStep, Printing, Writing, OpenSemaphores, FindSlot,
         WriteName, ReadCount, Search, sem_init, SemInitFails, SemopFails, Kill, EarlySigint,
         Exit, Ends, Sigint, Scan, Shift, ReadUncount, Decrement, ReceiverReserve, StartPrint,
         PrintMessage, ReceiverRelease, ReceiverGoes, SenderReserve, Type, ReadIndex,
         WriteAuthor, WriteText, SenderRelease, SenderGoes, segmentVars, receiverVars
<1>5. Log' = Log
  BY <1>3, <1>4, LogStays DEF RoomInv
<1>6. \A d \in Clients : main'[d] = "off" <=> main[d] = "off"
  <2>1. CASE MainStep(c) \/ Sigint(c) \/ HandlerStep(c)
    <3>1. CASE MainStep(c)
      BY <1>3, <3>1 DEF MainStep, MainGoes, OpenSemaphores, FindSlot, WriteName, ReadCount,
                        Increment, Search, sem_init, SemInitFails, Ends, TypeOK
    <3>2. CASE Sigint(c) \/ HandlerStep(c)
      BY <1>3, <3>2 DEF HandlerStep, MainGoes, Ends, Sigint, Scan, Shift, ReadUncount, Decrement,
                        Exit, TypeOK
    <3> QED
      BY <2>1, <3>1, <3>2
  <2>2. CASE SemopFails(c) \/ Kill(c) \/ EarlySigint(c)
    <3>1. main[c] # "off" /\ main' = [main EXCEPT ![c] = "gone"]
      BY <2>2 DEF SemopFails, Kill, EarlySigint, Ends, RoomInv, ListInv, IInv, ThreadsOK, Arriving
    <3> QED
      BY <1>3, <3>1 DEF TypeOK
  <2>3. CASE ReceiverReserve(c) \/ Printing(c) \/ SenderReserve(c) \/ Type(c) \/ Writing(c)
    BY <2>3, ThreadFrame DEF mainVars
  <2> QED
    BY <2>1, <2>2, <2>3 DEF ClientStep
<1> QED
  BY <1>1, <1>2, <1>4, <1>5, <1>6, RoomRests DEF Opened

LEMMA RoomStep ==
  ASSUME Orderly, OneTalker, RoomInv, [Next]_vars
  PROVE  [Abstract!Next]_Abstract!vars
<1>1. /\ TypeOK /\ EnoughRoom /\ TextInv
      /\ server \notin {"running", "ended"} =>
           (\A c \in Clients : main[c] = "off") /\ clients_num = 0 /\ messages_num = 0
  BY DEF RoomInv, TextInv, IInv, Orderly, ServerFirst
<1>2. CASE ZeroMessages
  <2>1. /\ server = "clients_zero" /\ server' = "running" /\ clients_num = 0
        /\ messages_num = 0 /\ messages_num' = 0
        /\ UNCHANGED <<clients_num, client_list, author, text, main, shown>>
    BY <1>1, <1>2 DEF ZeroMessages, ServerGoes, mainVars, receiverVars
  <2>2. Log' = Log
    BY <2>1 DEF Log, MessageAt
  <2>3. [n \in 1..messages_num |-> MessageAt(n - 1)]' = [n \in 1..messages_num |-> MessageAt(n - 1)]
    BY <2>2 DEF Log
  <2>4. Listed' = {}
    BY <2>1 DEF Listed
  <2>5. Abstract!Open
    BY <2>1, <2>3, <2>4 DEF Abstract!Open
  <2> QED
    BY <2>5 DEF Abstract!Next
<1>3. CASE CreateSegment \/ CreateSemaphores \/ ZeroClients \/ ServerSigint \/ UNCHANGED vars
  <2>1. /\ Opened' <=> Opened
        /\ UNCHANGED <<client_list, author, text, messages_num, main, shown, clients_num>>
    BY <1>1, <1>3 DEF CreateSegment, CreateSemaphores, ZeroClients, ServerSigint, ServerGoes,
                      segmentVars, mainVars, receiverVars, vars, Opened
  <2>2. Listed' = Listed /\ Log' = Log
    BY <2>1 DEF Listed, Log, MessageAt
  <2> QED
    BY <2>1, <2>2, RoomRests
<1>4. ASSUME NEW c \in Clients, OpenSegment(c) PROVE Abstract!Enter(c)
  <2>1. /\ main[c] = "off" /\ main' = [main EXCEPT ![c] = "semget"] /\ server = "running"
        /\ UNCHANGED <<server, client_list, clients_num, author, text, messages_num, shown>>
    BY <1>4 DEF OpenSegment, MayStart, MainGoes, segmentVars, receiverVars, Orderly
  <2>2. Listed' = Listed /\ Log' = Log
    BY <2>1 DEF Listed, Log, MessageAt
  <2>3. [n \in 1..messages_num |-> MessageAt(n - 1)]' = [n \in 1..messages_num |-> MessageAt(n - 1)]
    BY <2>2 DEF Log
  <2> DEFINE attends == [d \in Clients |-> IF main[d] = "off" THEN 0 ELSE 1]
  <2>4. attends[c] = 0 /\ attends' = [attends EXCEPT ![c] = 1]
    BY <1>1, <2>1 DEF TypeOK
  <2> QED
    BY <2>1, <2>2, <2>3, <2>4 DEF Abstract!Enter
<1>5. ASSUME NEW c \in Clients, ClientStep(c) PROVE [Abstract!Next]_Abstract!vars
  <2>1. CASE OpenSegment(c)
    BY <1>4, <2>1 DEF Abstract!Next
  <2>2. CASE Increment(c)
    BY <2>2, ArrivalJoins DEF Abstract!Next
  <2>3. CASE Publish(c)
    BY <2>3, PublishPosts DEF Abstract!Next
  <2>4. CASE EndPrint(c)
    BY <2>4, WindowShows DEF Abstract!Next
  <2>5. CASE ~OpenSegment(c) /\ ~Increment(c) /\ ~Publish(c) /\ ~EndPrint(c)
    BY <1>5, <2>5, OthersRest
  <2> QED
    BY <2>1, <2>2, <2>3, <2>4, <2>5
<1>6. \/ ServerStep \/ UNCHANGED vars
      \/ \E c \in Clients : ClientStep(c)
  BY DEF Next
<1> QED
  BY <1>2, <1>3, <1>5, <1>6 DEF ServerStep

LEMMA RoomStart ==
  ASSUME Orderly, Init
  PROVE  Abstract!Init
<1>1. messages_num = 0 /\ clients_num = 0 /\ server = "off"
  BY DEF Init
<1>2. [n \in 1..messages_num |-> MessageAt(n - 1)] = <<>>
  BY <1>1
<1>3. Listed = {}
  BY <1>1 DEF Listed
<1>4. \A c \in Clients : main[c] = "off"
  BY DEF Init
<1>5. shown = [c \in Clients |-> <<>>]
  BY DEF Init
<1> QED
  BY <1>1, <1>2, <1>3, <1>4, <1>5 DEF Abstract!Init

\* If clients arrive one by one after the server, none leaves with Ctrl-C and one user
\* types, the programs implement the chat room, whoever dies and when: the list of
\* messages only grows, only a listed client adds to it, and each window shows a growing
\* prefix of it, although handle_message and print_messages of different clients run at
\* once.
THEOREM SegmentIsAChatRoom == Orderly /\ OneTalker => (Spec => IsAChatRoom)
<1> SUFFICES ASSUME Orderly, OneTalker PROVE Spec => IsAChatRoom
  OBVIOUS
<1>1. Init => RoomInv /\ Abstract!Init
  BY RoomInvInit, RoomStart
<1>2. RoomInv /\ [Next]_vars => RoomInv'
  BY RoomInvStep
<1>3. RoomInv /\ [Next]_vars => [Abstract!Next]_Abstract!vars
  BY RoomStep
<1> QED
  BY <1>1, <1>2, <1>3, PTL DEF Spec, IsAChatRoom, Abstract!Spec
=============================================================================
