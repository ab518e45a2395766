--------------------------- MODULE ChatRoomMQ_proofs ---------------------------
(***************************************************************************)
(* What holds of ChatRoomMQ for every set of clients, every capacity of    *)
(* the queues and every bound.                                             *)
(***************************************************************************)
EXTENDS ChatRoomMQ, FiniteSetTheorems, SequenceTheorems, WellFoundedInduction, TLAPS

-----------------------------------------------------------------------------
(* Lemmas about the operators on the lists.                                *)

\* Without its i-th element a sequence is shorter by one, and what came after the
\* element has moved down (the loop of remove_client).
LEMMA RemoveAtProperties ==
  ASSUME NEW S, NEW s \in Seq(S), NEW i \in 1..Len(s)
  PROVE  /\ RemoveAt(s, i) \in Seq(S)
         /\ Len(RemoveAt(s, i)) = Len(s) - 1
         /\ \A k \in 1..Len(s) - 1 : RemoveAt(s, i)[k] = IF k < i THEN s[k] ELSE s[k + 1]
<1> DEFINE a == SubSeq(s, 1, i - 1)
           b == SubSeq(s, i + 1, Len(s))
<1>1. /\ a \in Seq(S)
      /\ Len(a) = i - 1
      /\ \A k \in 1..i - 1 : a[k] = s[k]
  <2>1. \A k \in 1..i - 1 : s[k] \in S
    BY ElementOfSeq
  <2>2. QED
    BY <2>1, SubSeqProperties, LenProperties
<1>2. /\ b \in Seq(S)
      /\ Len(b) = Len(s) - i
      /\ \A k \in 1..Len(s) - i : b[k] = s[k + i]
  <2>1. \A k \in i + 1..Len(s) : s[k] \in S
    BY ElementOfSeq
  <2>2. QED
    BY <2>1, SubSeqProperties, LenProperties
<1>3. RemoveAt(s, i) = a \o b
  BY DEF RemoveAt
<1> HIDE DEF a, b
<1>4. /\ a \o b \in Seq(S)
      /\ Len(a \o b) = Len(a) + Len(b)
      /\ \A k \in 1..Len(a) + Len(b) :
           (a \o b)[k] = IF k <= Len(a) THEN a[k] ELSE b[k - Len(a)]
  BY <1>1, <1>2, ConcatProperties
<1>5. ASSUME NEW k \in 1..Len(s) - 1
      PROVE  RemoveAt(s, i)[k] = IF k < i THEN s[k] ELSE s[k + 1]
  <2>1. CASE k < i
    BY <2>1, <1>1, <1>2, <1>3, <1>4
  <2>2. CASE k >= i
    <3>1. k - (i - 1) \in 1..Len(s) - i /\ (k - (i - 1)) + i = k + 1
      BY <2>2, LenProperties
    <3>2. b[k - (i - 1)] = s[k + 1]
      BY <3>1, <1>2
    <3>3. (a \o b)[k] = b[k - (i - 1)]
      BY <2>2, <1>1, <1>2, <1>4, LenProperties
    <3>4. RemoveAt(s, i)[k] = s[k + 1]
      BY <3>2, <3>3, <1>3
    <3>5. i \in Int /\ k \in Int
      BY LenProperties
    <3>6. QED
      BY <2>2, <3>4, <3>5
  <2>3. QED
    BY <2>1, <2>2, LenProperties
<1>6. QED
  BY <1>1, <1>2, <1>3, <1>4, <1>5, LenProperties

\* A set of natural numbers that is not empty has a least element.
LEMMA MinProperties ==
  ASSUME NEW T \in SUBSET Nat, T # {}
  PROVE  Min(T) \in T /\ \A y \in T : Min(T) <= y
<1>1. PICK x \in T : \A y \in T : ~(<<y, x>> \in OpToRel(<, Nat))
  BY NatLessThanWellFounded, WFMin
<1>2. ASSUME NEW y \in T
      PROVE  x <= y
  <2>1. <<y, x>> \in Nat \X Nat
    OBVIOUS
  <2>2. ~(y < x)
    BY <1>1, <2>1 DEF OpToRel
  <2>3. QED
    BY <2>2
<1>3. QED
  BY <1>2 DEF Min

\* get_client_index finds a client exactly if the list contains it.
LEMMA IndexProperties ==
  ASSUME client_list \in Seq(Clients), NEW c \in Clients
  PROVE  /\ get_client_index(c) \in 0..Len(client_list)
         /\ get_client_index(c) # 0 => client_list[get_client_index(c)] = c
         /\ IsRegistered(c) <=> \E k \in 1..Len(client_list) : client_list[k] = c
<1> DEFINE I == {k \in 1..Len(client_list) : client_list[k] = c}
<1>1. I \in SUBSET Nat
  BY LenProperties
<1>2. get_client_index(c) = IF I # {} THEN Min(I) ELSE 0
  BY DEF get_client_index, SelectInSeq
<1>3. I # {} => Min(I) \in I
  BY <1>1, MinProperties
<1>4. QED
  BY <1>2, <1>3, LenProperties DEF IsRegistered

-----------------------------------------------------------------------------
(* Type correctness.  SendResponse reads client_list[si] and the item sj,  *)
(* so the bounds of the two loops are part of the invariant.               *)

Sending == pc \in {"clients", "messages"}

LoopsInBounds ==
  IF Sending THEN si \in 1..Len(client_list) /\ sj \in 1..LoopSize
             ELSE si = 1 /\ sj = 1

TypeInv == TypeOK /\ LoopsInBounds

\* A step that leaves a part of the state alone leaves its type alone.
LEMMA TypesUnchanged ==
  /\ ServerTypeOK /\ UNCHANGED serverVars => ServerTypeOK'
  /\ LoopsInBounds /\ UNCHANGED serverVars => LoopsInBounds'
  /\ ClientsTypeOK /\ UNCHANGED clientVars => ClientsTypeOK'
  /\ QueuesTypeOK /\ UNCHANGED <<server_queue, queue, queue_exists>> => QueuesTypeOK'
<1>1. ServerTypeOK /\ UNCHANGED serverVars => ServerTypeOK'
  BY DEF ServerTypeOK, serverVars
<1>2. LoopsInBounds /\ UNCHANGED serverVars => LoopsInBounds'
  BY DEF LoopsInBounds, Sending, LoopSize, history, serverVars
<1>3. ClientsTypeOK /\ UNCHANGED clientVars => ClientsTypeOK'
  BY DEF ClientsTypeOK, clientVars
<1>4. QueuesTypeOK /\ UNCHANGED <<server_queue, queue, queue_exists>> => QueuesTypeOK'
  BY DEF QueuesTypeOK
<1>5. QED
  BY <1>1, <1>2, <1>3, <1>4

\* A request sent keeps the types: SendRequest waits for room in the queue.
LEMMA SendRequestType ==
  ASSUME QueuesTypeOK, NEW c, NEW type, NEW n,
         [type |-> type, from |-> c, n |-> n] \in Request,
         SendRequest(c, type, n), UNCHANGED <<queue, queue_exists>>
  PROVE  QueuesTypeOK'
BY ConstantsAssumption DEF QueuesTypeOK, SendRequest

LEMMA ServerExitType ==
  ASSUME QueuesTypeOK, NEW cause, ServerExit(cause), UNCHANGED <<queue, queue_exists>>
  PROVE  QueuesTypeOK' /\ LoopsInBounds'
BY ConstantsAssumption DEF QueuesTypeOK, LoopsInBounds, Sending, ServerExit

LEMMA ClientExitType ==
  ASSUME TypeInv, NEW c \in Clients, ClientExit(c) \/ ClientDies(c)
  PROVE  TypeInv'
<1>1. UNCHANGED serverVars
  BY DEF ClientExit, ClientDies
<1>2. ClientsTypeOK'
  BY DEF TypeInv, TypeOK, ClientsTypeOK, ClientExit, ClientDies
<1>3. QueuesTypeOK'
  <2>1. <<>> \in Seq(Response) /\ Len(<<>>) = 0
    BY EmptySeq
  <2>2. CASE ClientExit(c)
    BY <2>1, <2>2, ConstantsAssumption DEF TypeInv, TypeOK, QueuesTypeOK, ClientExit
  <2>3. CASE ClientDies(c)
    BY <2>3 DEF TypeInv, TypeOK, QueuesTypeOK, ClientDies
  <2>4. QED
    BY <2>2, <2>3
<1>4. QED
  BY <1>1, <1>2, <1>3, TypesUnchanged DEF TypeInv, TypeOK

\* What is sent is a response, and it goes to a client.
LEMMA ResponseType ==
  ASSUME TypeInv, Sending
  PROVE  client_list[si] \in Clients /\ resp \in Response
<1>1. /\ client_list \in Seq(Clients)
      /\ history \in Seq(Message)
      /\ si \in 1..Len(client_list)
      /\ sj \in 1..LoopSize
  BY DEF TypeInv, TypeOK, ServerTypeOK, LoopsInBounds, history
<1>2. LoopSize \in Nat
  BY <1>1, LenProperties DEF LoopSize
<1>3. pc = "clients" => client_list[sj] \in Clients
  BY <1>1, ElementOfSeq DEF LoopSize
<1>4. pc # "clients" => history[sj] \in Message
  BY <1>1, ElementOfSeq DEF LoopSize
<1>5. QED
  BY <1>1, <1>2, <1>3, <1>4, ElementOfSeq DEF resp, Response

\* What a batch becomes when a response arrives is a batch.
LEMMA ReceivedType ==
  ASSUME NEW b \in Batch, NEW r \in Response
  PROVE  Received(b, r) \in Batch
<1>1. /\ b.items \in Seq(Clients \cup Message)
      /\ r.item \in Clients \cup Message
  BY DEF Batch, Response
<1>2. /\ Append(b.items, r.item) \in Seq(Clients \cup Message)
      /\ <<r.item>> \in Seq(Clients \cup Message)
  BY <1>1
<1>3. QED
  BY <1>2 DEF Received, Batch, Response

\* Every step keeps the types and the bounds of the loops.
LEMMA TypeInvStep ==
  ASSUME TypeInv, [Next]_vars
  PROVE  TypeInv'
<1> USE DEF TypeInv, TypeOK
<1>1. CASE ServerStart
  <2>1. ServerTypeOK'
    <3>1. <<>> \in Seq(Clients)
      BY EmptySeq
    <3>2. run' \in 0..MaxRuns
      BY <1>1, ConstantsAssumption DEF ServerStart, ServerTypeOK
    <3>3. QED
      BY <1>1, <3>1, <3>2 DEF ServerStart, ServerTypeOK
  <2>2. LoopsInBounds'
    BY <1>1 DEF ServerStart, LoopsInBounds, Sending, ServerQueueExists
  <2>3. UNCHANGED clientVars /\ UNCHANGED <<server_queue, queue, queue_exists>>
    BY <1>1 DEF ServerStart
  <2>4. QED
    BY <2>1, <2>2, <2>3, TypesUnchanged
<1>2. CASE ServerSigint
  <2>1. ServerTypeOK'
    BY <1>2 DEF ServerSigint, ServerExit, ServerTypeOK
  <2>2. QED
    BY <1>2, <2>1, ServerExitType, TypesUnchanged DEF ServerSigint
<1>3. CASE ServerKill
  <2>1. ServerTypeOK' /\ LoopsInBounds'
    BY <1>3 DEF ServerKill, ServerTypeOK, LoopsInBounds, Sending
  <2>2. QED
    BY <1>3, <2>1, TypesUnchanged DEF ServerKill
<1>4. CASE ServerStep
  <2>1. ASSUME server_queue # <<>>, server_queue' = Tail(server_queue),
               UNCHANGED <<queue, queue_exists>>
        PROVE  QueuesTypeOK'
    <3>1. server_queue \in Seq(Request)
      BY DEF QueuesTypeOK
    <3>2. Tail(server_queue) \in Seq(Request) /\ Len(Tail(server_queue)) = Len(server_queue) - 1
      BY <2>1, <3>1, HeadTailProperties
    <3>3. QED
      BY <2>1, <3>1, <3>2, LenProperties, ConstantsAssumption DEF QueuesTypeOK
  <2>2. server_queue # <<>> => Head(server_queue) \in Request /\ Head(server_queue).from \in Clients
    <3>1. server_queue \in Seq(Request)
      BY DEF QueuesTypeOK
    <3>2. server_queue # <<>> => Head(server_queue) \in Request
      BY <3>1, HeadTailProperties
    <3>3. QED
      BY <3>2 DEF Request
  <2>3. CASE ServeRegistration
    <3>1. ServerTypeOK'
      BY <2>2, <2>3 DEF ServeRegistration, TakeRequest, add_client, ServerTypeOK
    <3>2. LoopsInBounds'
      BY <2>2, <2>3 DEF ServeRegistration, TakeRequest, add_client, ServerTypeOK,
                        LoopsInBounds, Sending, LoopSize
    <3>3. QED
      BY <2>1, <2>3, <3>1, <3>2, TypesUnchanged DEF ServeRegistration, TakeRequest
  <2>4. CASE ServeDisconnection
    <3> DEFINE i == get_client_index(Head(server_queue).from)
    <3>1. i \in 1..Len(client_list)
      BY <2>2, <2>4, IndexProperties DEF ServeDisconnection, TakeRequest, IsRegistered, ServerTypeOK
    <3>2. client_list' \in Seq(Clients)
      BY <2>4, <3>1, RemoveAtProperties DEF ServeDisconnection, remove_client, ServerTypeOK
    <3>3. ServerTypeOK'
      BY <2>4, <3>2 DEF ServeDisconnection, ServerTypeOK
    <3>4. LoopsInBounds'
      BY <2>4, <3>2, LenProperties, EmptySeq
         DEF ServeDisconnection, TakeRequest, LoopsInBounds, Sending, LoopSize
    <3>5. QED
      BY <2>1, <2>4, <3>3, <3>4, TypesUnchanged DEF ServeDisconnection, TakeRequest
  <2>5. CASE ServeMessage
    <3> DEFINE m == [from |-> Head(server_queue).from, n |-> Head(server_queue).n]
    <3>1. m \in Message
      BY <2>2, <2>5 DEF ServeMessage, TakeRequest, Message, Request
    <3>2. ServerTypeOK'
      BY SMTT(20), <2>5, <3>1 DEF ServeMessage, add_message, ServerTypeOK
    <3>3. LoopsInBounds'
      <4>1. \E k \in 1..Len(client_list) : client_list[k] = Head(server_queue).from
        BY <2>2, <2>5, IndexProperties DEF ServeMessage, TakeRequest, ServerTypeOK
      <4>2. Len(client_list') \in Nat /\ 1 \in 1..Len(client_list')
        BY <2>5, <4>1, LenProperties DEF ServeMessage, ServerTypeOK
      <4>3. /\ message_list[run] \in Seq(Message)
            /\ message_list'[run] = Append(message_list[run], m)
        BY <2>5 DEF ServeMessage, add_message, ServerTypeOK
      <4>4. Len(message_list'[run]) = Len(message_list[run]) + 1
        BY <3>1, <4>3, AppendProperties
      <4>5. LoopSize' = Len(message_list[run]) + 1
        BY <2>5, <4>4 DEF ServeMessage, LoopSize, history
      <4>6. 1 \in 1..LoopSize'
        BY <4>3, <4>5, LenProperties
      <4>7. QED
        BY <2>5, <4>2, <4>6 DEF ServeMessage, TakeRequest, LoopsInBounds, Sending
    <3>4. QED
      BY <2>1, <2>5, <3>2, <3>3, TypesUnchanged DEF ServeMessage, TakeRequest
  <2>6. CASE ServeStranger
    <3>1. ServerTypeOK'
      BY <2>6 DEF ServeStranger, ServerExit, ServerTypeOK
    <3>2. QED
      BY <2>6, <3>1, ServerExitType, TypesUnchanged DEF ServeStranger
  <2>7. CASE SendResponse
    <3>1. QueuesTypeOK'
      BY <2>7, ResponseType, ConstantsAssumption DEF SendResponse, QueuesTypeOK, Sending
    <3>2. ServerTypeOK'
      BY <2>7 DEF SendResponse, AdvanceLoops, NextLoop, ServerTypeOK
    <3>3. LoopsInBounds'
      BY <2>7, LenProperties, EmptySeq DEF SendResponse, AdvanceLoops, NextLoop, ServerTypeOK,
                   LoopsInBounds, Sending, LoopSize, history
    <3>4. QED
      BY <2>7, <3>1, <3>2, <3>3, TypesUnchanged DEF SendResponse
  <2>8. CASE SendFails
    <3>1. ServerTypeOK'
      BY <2>8 DEF SendFails, ServerExit, ServerTypeOK
    <3>2. QED
      BY <2>8, <3>1, ServerExitType, TypesUnchanged DEF SendFails
  <2>9. QED
    BY <1>4, <2>3, <2>4, <2>5, <2>6, <2>7, <2>8 DEF ServerStep
<1>5. ASSUME NEW c \in Clients, ClientStep(c)
      PROVE  TypeInv'
  <2>1. CASE Connect(c)
    <3>1. QueuesTypeOK' /\ ClientsTypeOK'
      BY <2>1 DEF Connect, QueuesTypeOK, ClientsTypeOK, ServerTypeOK
    <3>2. QED
      BY <2>1, <3>1, TypesUnchanged DEF Connect
  <2>2. CASE register_client(c)
    <3>1. ClientsTypeOK'
      BY <2>2 DEF register_client, ClientsTypeOK
    <3>2. QueuesTypeOK'
      BY <2>2, SendRequestType DEF register_client, Request
    <3>3. QED
      BY <2>2, <3>1, <3>2, TypesUnchanged DEF register_client
  <2>3. CASE disconnect_client(c)
    <3>1. ClientsTypeOK'
      BY <2>3 DEF disconnect_client, ClientsTypeOK
    <3>2. QueuesTypeOK'
      BY <2>3, SendRequestType DEF disconnect_client, Request
    <3>3. QED
      BY <2>3, <3>1, <3>2, TypesUnchanged DEF disconnect_client
  <2>4. CASE SendText(c)
    <3>1. ClientsTypeOK'
      BY <2>4 DEF SendText, ClientsTypeOK
    <3>2. QueuesTypeOK'
      <4>1. [type |-> "MESSAGE_INFO", from |-> c, n |-> typed[c]] \in Request
        BY <2>4 DEF SendText, ClientsTypeOK, Request
      <4>2. QED
        BY <2>4, <4>1, SendRequestType DEF SendText
    <3>3. QED
      BY <2>4, <3>1, <3>2, TypesUnchanged DEF SendText
  <2>5. CASE StartThreads(c) \/ Sigint(c) \/ SenderCancelled(c)
    <3>1. ClientsTypeOK'
      BY <2>5 DEF StartThreads, Sigint, SenderCancelled, ClientsTypeOK
    <3>2. QED
      BY <2>5, <3>1, TypesUnchanged DEF StartThreads, Sigint, SenderCancelled
  <2>6. CASE Type(c)
    <3>1. ClientsTypeOK'
      BY SMTT(20), <2>6, ConstantsAssumption DEF Type, ClientsTypeOK
    <3>2. QED
      BY <2>6, <3>1, TypesUnchanged DEF Type
  <2>7. CASE Receive(c)
    <3> DEFINE b == Received(batch[c], Head(queue[c]))
    <3>1. Head(queue[c]) \in Response /\ Tail(queue[c]) \in Seq(Response)
          /\ Len(Tail(queue[c])) <= ClientCap
      BY <2>7, HeadTailProperties, ConstantsAssumption, LenProperties DEF Receive, QueuesTypeOK
    <3>2. b \in Batch /\ b.items \in Seq(Clients \cup Message)
      BY <3>1, ReceivedType DEF ClientsTypeOK, Batch
    <3> HIDE DEF b
    <3>3. QueuesTypeOK'
      BY <2>7, <3>1 DEF Receive, QueuesTypeOK
    <3>4. ClientsTypeOK'
      BY <2>7, <3>2 DEF Receive, ClientsTypeOK, b
    <3>5. QED
      BY <2>7, <3>3, <3>4, TypesUnchanged DEF Receive
  <2>8. CASE \/ RegisterFails(c) \/ EarlySigint(c) \/ DisconnectFails(c)
             \/ remove_queues(c) \/ Kill(c) \/ SendTextFails(c)
    BY <2>8, ClientExitType
       DEF RegisterFails, EarlySigint, DisconnectFails, remove_queues, Kill, SendTextFails
  <2>9. QED
    BY <1>5, <2>1, <2>2, <2>3, <2>4, <2>5, <2>6, <2>7, <2>8 DEF ClientStep
<1>6. CASE UNCHANGED vars
  BY <1>6, TypesUnchanged DEF vars
<1>7. QED
  BY <1>1, <1>2, <1>3, <1>4, <1>5, <1>6 DEF Next

LEMMA TypeInvInit == Init => TypeInv
<1>1. /\ <<>> \in Seq(Clients) /\ <<>> \in Seq(Message) /\ <<>> \in Seq(Request)
      /\ <<>> \in Seq(Response) /\ <<>> \in Seq(Clients \cup Message) /\ Len(<<>>) = 0
  BY EmptySeq
<1>2. ASSUME Init PROVE ServerTypeOK
  BY <1>1, <1>2, ConstantsAssumption DEF Init, ServerTypeOK
<1>3. ASSUME Init PROVE QueuesTypeOK
  BY <1>1, <1>3, ConstantsAssumption DEF Init, QueuesTypeOK
<1>4. ASSUME Init PROVE ClientsTypeOK
  BY <1>1, <1>4, ConstantsAssumption DEF Init, ClientsTypeOK, NoBatch, Batch
<1>5. Init => LoopsInBounds
  BY DEF Init, LoopsInBounds, Sending
<1>6. QED
  BY <1>2, <1>3, <1>4, <1>5 DEF TypeInv, TypeOK

\* The types and the capacities of the queues hold in every state of every
\* instance: SendRequest and SendResponse wait for room, and the loops of
\* send_clients and send_messages stay within the lists.
THEOREM TypeCorrect == Spec => []TypeOK
<1>1. TypeInv /\ [Next]_vars => TypeInv'
  BY TypeInvStep
<1>2. TypeInv => TypeOK
  BY DEF TypeInv
<1>3. QED
  BY <1>1, <1>2, TypeInvInit, PTL DEF Spec

-----------------------------------------------------------------------------
(* Who may send a request.  The server's queue is first in, first out, so  *)
(* a client's registration is served before anything else it sends.        *)

Member(c) == \E k \in 1..Len(client_list) : client_list[k] = c

\* When the k-th request is taken, its sender c will have been registered.
Introduced(c, k) ==
  \/ Member(c)
  \/ \E i \in 1..Len(server_queue) : /\ i < k
                                    /\ server_queue[i].type = "REGISTRATION"
                                    /\ server_queue[i].from = c

MembersArrived ==
  \A c \in Clients : Member(c) => serverId[c] = run /\ phase[c] \notin {"off", "connected"}

MembersOnce ==
  \A i, j \in 1..Len(client_list) : client_list[i] = client_list[j] => i = j

\* The user of c pressed Ctrl-C, and main() or the handler got this far.
HasLeft(c) == c \in Quitters /\ phase[c] \in {"left", "gone"}

RequestInOrder(k) ==
  LET r == server_queue[k] IN
    /\ serverId[r.from] = run
    /\ phase[r.from] \notin {"off", "connected"}
    /\ r.type = "REGISTRATION" => ~Member(r.from)
    /\ r.type = "DISCONNECTION" => Introduced(r.from, k) /\ HasLeft(r.from)
    /\ r.type = "MESSAGE_INFO" => Introduced(r.from, k) \/ HasLeft(r.from)

RequestsInOrder == \A k \in 1..Len(server_queue) : RequestInOrder(k)

\* Nobody registers or disconnects twice.
RequestsOnce ==
  \A k, l \in 1..Len(server_queue) :
    /\ server_queue[k].from = server_queue[l].from
    /\ server_queue[k].type = server_queue[l].type
    /\ server_queue[k].type # "MESSAGE_INFO"
    => k = l

ClientsIntroduced ==
  \A c \in Clients :
    /\ phase[c] \in {"registered", "chatting", "leaving"}
    /\ serverId[c] = run
    /\ pc # "down"
    => Introduced(c, Len(server_queue) + 1)

ClientsConsistent ==
  /\ pc = "down" => server_queue = <<>>
  /\ \A c \in Clients : /\ serverId[c] <= run
                        /\ sender[c] = "msgsnd" => phase[c] \in {"chatting", "leaving", "left"}
                        /\ phase[c] \in {"leaving", "left"} => c \in Quitters

SenderInv ==
  /\ MembersArrived /\ MembersOnce
  /\ RequestsInOrder /\ RequestsOnce
  /\ ClientsIntroduced /\ ClientsConsistent

-----------------------------------------------------------------------------
(* How the responses follow each other.  The list a client is reading and  *)
(* the responses in its queue form a chain; the server's place in its      *)
(* loops says where the chain ends.                                        *)

Link(c, k) ==
  IF k = 0
  THEN [type |-> batch[c].type, list_size |-> batch[c].list_size, pos |-> Len(batch[c].items)]
  ELSE [type |-> queue[c][k].type, list_size |-> queue[c][k].list_size, pos |-> queue[c][k].pos]

Follows(a, b) ==
  IF a.pos < a.list_size
  THEN b.type = a.type /\ b.list_size = a.list_size /\ b.pos = a.pos + 1
  ELSE b.pos = 1

LinksInBounds ==
  \A c \in Clients :
    /\ Len(batch[c].items) <= batch[c].list_size
    /\ \A k \in 1..Len(queue[c]) : queue[c][k].pos \in 1..queue[c][k].list_size

LinksFollow ==
  \A c \in Clients : \A k \in 1..Len(queue[c]) : Follows(Link(c, k - 1), Link(c, k))

\* A client that may still be sent something, and whether the server is in the
\* middle of a list for it.
Served(c) == pc \in {"recv", "clients", "messages"} /\ serverId[c] = run /\ queue_exists[c]

HalfSent(c) == Sending /\ client_list[si] = c /\ sj > 1

ChainEnds ==
  \A c \in Clients : Served(c) =>
    LET last == Link(c, Len(queue[c])) IN
      IF HalfSent(c)
      THEN last.type = resp.type /\ last.list_size = LoopSize /\ last.pos = sj - 1
      ELSE last.pos = last.list_size

Newcomers ==
  \A c \in Clients :
    phase[c] = "off" => batch[c] = NoBatch /\ shown[c] = <<>> /\ queue[c] = <<>>

FramingInv == LinksInBounds /\ LinksFollow /\ ChainEnds /\ Newcomers

-----------------------------------------------------------------------------
(* What the responses carry.                                               *)

HistoryOf(c) == message_list[serverId[c]]

\* The item of each response is where its pos says in the history, and so are the
\* items of the list being read and of the window.
Content(c) ==
  /\ \A k \in 1..Len(queue[c]) : queue[c][k].type = "MESSAGE_INFO" =>
       /\ queue[c][k].list_size <= Len(HistoryOf(c))
       /\ queue[c][k].item = HistoryOf(c)[queue[c][k].pos]
  /\ batch[c].type = "MESSAGE_INFO" =>
       /\ batch[c].list_size <= Len(HistoryOf(c))
       /\ \A k \in 1..Len(batch[c].items) : batch[c].items[k] = HistoryOf(c)[k]
  /\ Len(shown[c]) <= Len(HistoryOf(c))
  /\ \A k \in 1..Len(shown[c]) : shown[c][k] = HistoryOf(c)[k]

ContentInv == \A c \in Clients : Content(c)

-----------------------------------------------------------------------------
(* SenderInv is inductive.                                                 *)

\* How the phases of the clients may change without touching a queue: a client
\* that has arrived stays arrived, one that has left stays away.
PhasesAdvance ==
  \A d \in Clients :
    /\ phase[d] \notin {"off", "connected"} => phase'[d] \notin {"off", "connected"}
    /\ phase[d] \in {"left", "gone"} => phase'[d] \in {"left", "gone"}
    /\ sender'[d] = "msgsnd" => phase'[d] \in {"chatting", "leaving", "left"}
    /\ phase'[d] \in {"leaving", "left"} => d \in Quitters

NoneEnters ==
  \A d \in Clients :
    phase'[d] \in {"registered", "chatting", "leaving"}
      => phase[d] \in {"registered", "chatting", "leaving"}

\* A step that leaves the server's queue and list alone keeps SenderInv.
LEMMA SenderInvQuiet ==
  ASSUME TypeInv, SenderInv, PhasesAdvance, NoneEnters,
         UNCHANGED <<client_list, server_queue, run, serverId>>,
         pc' = "down" <=> pc = "down"
  PROVE  SenderInv'
<1>1. \A c \in Clients : Member(c)' <=> Member(c)
  BY DEF Member
<1>2. \A c \in Clients : \A k \in Nat : Introduced(c, k)' <=> Introduced(c, k)
  BY <1>1 DEF Introduced
<1>3. \A k \in 1..Len(server_queue) : server_queue[k].from \in Clients /\ k \in Nat
  BY DEF TypeInv, TypeOK, QueuesTypeOK, Request
<1>4. MembersArrived' /\ MembersOnce'
  BY <1>1 DEF SenderInv, MembersArrived, MembersOnce, PhasesAdvance
<1>5. RequestsInOrder'
  BY <1>1, <1>2, <1>3 DEF SenderInv, RequestsInOrder, RequestInOrder, PhasesAdvance, HasLeft
<1>6. RequestsOnce'
  BY DEF SenderInv, RequestsOnce
<1>7. ClientsIntroduced'
  <2>1. Len(server_queue) + 1 \in Nat
    BY LenProperties DEF TypeInv, TypeOK, QueuesTypeOK
  <2>2. QED
    BY <1>2, <2>1 DEF SenderInv, ClientsIntroduced, NoneEnters
<1>8. ClientsConsistent'
  BY DEF SenderInv, ClientsConsistent, PhasesAdvance
<1>9. QED
  BY <1>4, <1>5, <1>6, <1>7, <1>8 DEF SenderInv

\* The queue is removed with the server.
LEMMA SenderInvExit ==
  ASSUME TypeInv, SenderInv, NEW cause, ServerExit(cause),
         UNCHANGED <<run, client_list, clientVars>>
  PROVE  SenderInv'
<1> USE DEF SenderInv, ServerExit, clientVars
<1>1. \A c \in Clients : Member(c)' <=> Member(c)
  BY DEF Member
<1>2. server_queue' = <<>> /\ Len(server_queue') = 0
  BY EmptySeq
<1>3. MembersArrived' /\ MembersOnce'
  BY <1>1 DEF MembersArrived, MembersOnce
<1>4. RequestsInOrder' /\ RequestsOnce'
  BY <1>2 DEF RequestsInOrder, RequestsOnce
<1>5. ClientsIntroduced' /\ ClientsConsistent'
  BY DEF ClientsIntroduced, ClientsConsistent
<1>6. QED
  BY <1>3, <1>4, <1>5

\* A request r that fits to what its sender sent before keeps SenderInv.
LEMMA SenderInvAppend ==
  ASSUME TypeInv, SenderInv, PhasesAdvance, NEW r \in Request,
         UNCHANGED <<client_list, run, serverId, pc>>, pc # "down",
         server_queue' = Append(server_queue, r),
         serverId[r.from] = run,
         phase'[r.from] \notin {"off", "connected"},
         r.type = "REGISTRATION" => ~Member(r.from),
         r.type = "DISCONNECTION" => /\ Introduced(r.from, Len(server_queue) + 1)
                                     /\ HasLeft(r.from)',
         r.type = "MESSAGE_INFO" => \/ Introduced(r.from, Len(server_queue) + 1)
                                    \/ HasLeft(r.from)',
         r.type # "MESSAGE_INFO" => \A k \in 1..Len(server_queue) :
                server_queue[k].from = r.from => server_queue[k].type # r.type,
         \A d \in Clients :
           phase'[d] \in {"registered", "chatting", "leaving"} =>
             \/ phase[d] \in {"registered", "chatting", "leaving"}
             \/ r.from = d /\ r.type = "REGISTRATION"
  PROVE  SenderInv'
<1>1. PICK n \in Nat :
        /\ n = Len(server_queue)
        /\ Len(server_queue') = n + 1
        /\ \A k \in 1..n : server_queue'[k] = server_queue[k]
        /\ server_queue'[n + 1] = r
  <2>1. server_queue \in Seq(Request)
    BY DEF TypeInv, TypeOK, QueuesTypeOK
  <2>2. QED
    BY <2>1, AppendProperties, LenProperties
<1>2. \A k \in 1..n : server_queue[k].from \in Clients
  BY <1>1 DEF TypeInv, TypeOK, QueuesTypeOK, Request
<1>3. r.from \in Clients
  BY DEF Request
<1>4. \A c \in Clients : Member(c)' <=> Member(c)
  BY DEF Member
<1>5. \A c \in Clients : \A k \in 1..n + 1 : Introduced(c, k) => Introduced(c, k)'
  BY <1>1, <1>4 DEF Introduced
<1>6. \A c \in Clients : Introduced(c, n + 1) => Introduced(c, n + 2)'
  BY <1>1, <1>4 DEF Introduced
<1>7. MembersArrived' /\ MembersOnce'
  BY <1>4 DEF SenderInv, MembersArrived, MembersOnce, PhasesAdvance
<1>8. RequestsInOrder'
  <2>1. ASSUME NEW k \in 1..n PROVE RequestInOrder(k)'
    <3>1. RequestInOrder(k)
      BY <1>1 DEF SenderInv, RequestsInOrder
    <3>2. server_queue'[k] = server_queue[k] /\ k \in 1..n + 1
      BY <1>1
    <3>3. QED
      BY <1>2, <1>4, <1>5, <3>1, <3>2 DEF RequestInOrder, PhasesAdvance, HasLeft
  <2>2. RequestInOrder(n + 1)'
    <3>1. server_queue'[n + 1] = r /\ n + 1 \in 1..n + 1
      BY <1>1
    <3>2. Introduced(r.from, Len(server_queue) + 1) => Introduced(r.from, n + 1)'
      BY <1>1, <1>3, <1>5, <3>1
    <3>3. QED
      BY <1>3, <1>4, <3>1, <3>2 DEF RequestInOrder
  <2>3. QED
    BY <2>1, <2>2, <1>1 DEF RequestsInOrder
<1>9. RequestsOnce'
  BY <1>1 DEF SenderInv, RequestsOnce
<1>10. ClientsIntroduced'
  <2> SUFFICES ASSUME NEW d \in Clients,
                      phase'[d] \in {"registered", "chatting", "leaving"}, serverId[d] = run
               PROVE  Introduced(d, n + 2)'
    BY <1>1 DEF ClientsIntroduced
  <2>1. CASE phase[d] \in {"registered", "chatting", "leaving"}
    BY <2>1, <1>1, <1>6 DEF SenderInv, ClientsIntroduced
  <2>2. CASE r.from = d /\ r.type = "REGISTRATION"
    BY <2>2, <1>1 DEF Introduced
  <2>3. QED
    BY <2>1, <2>2
<1>11. ClientsConsistent'
  BY DEF SenderInv, ClientsConsistent, PhasesAdvance
<1>12. QED
  BY <1>7, <1>8, <1>9, <1>10, <1>11 DEF SenderInv

\* Serving the first request h keeps SenderInv if the list changes as h says.
LEMMA SenderInvTake ==
  ASSUME TypeInv, SenderInv, NEW h \in Request,
         server_queue # <<>>, h = Head(server_queue), server_queue' = Tail(server_queue),
         UNCHANGED <<run, clientVars>>, pc # "down", pc' # "down",
         MembersArrived', MembersOnce',
         \A c \in Clients : Member(c) => Member(c)' \/ (h.type = "DISCONNECTION" /\ h.from = c),
         \A c \in Clients : Member(c)' => Member(c) \/ (h.type = "REGISTRATION" /\ h.from = c),
         h.type = "REGISTRATION" => Member(h.from)'
  PROVE  SenderInv'
<1> USE DEF clientVars
<1>1. PICK n \in Nat :
        /\ Len(server_queue) = n + 1
        /\ Len(server_queue') = n
        /\ \A k \in 1..n : server_queue'[k] = server_queue[k + 1]
        /\ server_queue[1] = h
  <2>1. server_queue \in Seq(Request)
    BY DEF TypeInv, TypeOK, QueuesTypeOK
  <2>2. /\ Len(server_queue) \in Nat \ {0}
        /\ Len(Tail(server_queue)) = Len(server_queue) - 1
        /\ \A k \in 1..Len(Tail(server_queue)) : Tail(server_queue)[k] = server_queue[k + 1]
        /\ Head(server_queue) = server_queue[1]
    BY <2>1, HeadTailProperties, EmptySeq
  <2>3. Len(Tail(server_queue)) \in Nat
    BY <2>2
  <2> WITNESS Len(Tail(server_queue)) \in Nat
  <2>4. QED
    BY <2>2
<1>2. \A k \in 1..n + 1 : server_queue[k].from \in Clients
  BY <1>1 DEF TypeInv, TypeOK, QueuesTypeOK, Request
<1>3. \A k \in 1..n + 1 : RequestInOrder(k)
  BY <1>1 DEF SenderInv, RequestsInOrder
<1>4. \A k \in 2..n + 1 :
        server_queue[k].from = h.from /\ h.type # "MESSAGE_INFO" => server_queue[k].type # h.type
  BY <1>1 DEF SenderInv, RequestsOnce
<1>5. h.type = "DISCONNECTION" => HasLeft(h.from)
  BY <1>1, <1>3 DEF RequestInOrder
<1>6. \A c \in Clients : \A k \in 1..n + 1 :
        Introduced(c, k + 1) /\ ~(h.type = "DISCONNECTION" /\ h.from = c) => Introduced(c, k)'
  <2> SUFFICES ASSUME NEW c \in Clients, NEW k \in 1..n + 1, Introduced(c, k + 1),
                      ~(h.type = "DISCONNECTION" /\ h.from = c)
               PROVE  Introduced(c, k)'
    OBVIOUS
  <2>1. CASE Member(c)
    BY <2>1 DEF Introduced
  <2>2. ASSUME NEW i \in 1..Len(server_queue), i < k + 1,
               server_queue[i].type = "REGISTRATION", server_queue[i].from = c
        PROVE  Introduced(c, k)'
    <3>1. CASE i = 1
      BY <2>2, <3>1, <1>1 DEF Introduced
    <3>2. CASE i # 1
      <4>1. i - 1 \in 1..n /\ i - 1 < k /\ server_queue'[i - 1] = server_queue[(i - 1) + 1]
        BY <2>2, <3>2, <1>1
      <4>2. (i - 1) + 1 = i
        BY <2>2, <1>1
      <4>3. QED
        BY <2>2, <4>1, <4>2, <1>1 DEF Introduced
    <3>3. QED
      BY <3>1, <3>2
  <2>3. QED
    BY <2>1, <2>2 DEF Introduced
<1>7. RequestsInOrder'
  <2> SUFFICES ASSUME NEW k \in 1..n PROVE RequestInOrder(k)'
    BY <1>1 DEF RequestsInOrder
  <2> PICK q \in Request : q = server_queue[k + 1]
    BY <1>1 DEF TypeInv, TypeOK, QueuesTypeOK
  <2>1. k + 1 \in 2..n + 1 /\ k + 1 \in 1..n + 1 /\ k \in 1..n + 1
    OBVIOUS
  <2>2. q.from \in Clients /\ RequestInOrder(k + 1) /\ server_queue'[k] = q
    BY <1>1, <1>2, <1>3, <2>1
  <2>3. q.type = "REGISTRATION" => ~Member(q.from)'
    BY <1>4, <2>1, <2>2 DEF RequestInOrder
  <2>4. q.type = "DISCONNECTION" => Introduced(q.from, k)' /\ HasLeft(q.from)
    BY <1>4, <1>6, <2>1, <2>2 DEF RequestInOrder
  <2>5. q.type = "MESSAGE_INFO" => Introduced(q.from, k)' \/ HasLeft(q.from)
    BY <1>5, <1>6, <2>1, <2>2 DEF RequestInOrder
  <2>6. serverId[q.from] = run /\ phase[q.from] \notin {"off", "connected"}
    BY <2>2 DEF RequestInOrder
  <2>7. QED
    BY <2>2, <2>3, <2>4, <2>5, <2>6 DEF RequestInOrder, HasLeft
<1>8. RequestsOnce'
  <2> SUFFICES ASSUME NEW k \in 1..n, NEW l \in 1..n,
                      server_queue'[k].from = server_queue'[l].from,
                      server_queue'[k].type = server_queue'[l].type,
                      server_queue'[k].type # "MESSAGE_INFO"
               PROVE  k = l
    BY <1>1 DEF RequestsOnce
  <2>1. k + 1 \in 1..n + 1 /\ l + 1 \in 1..n + 1
    OBVIOUS
  <2>2. k + 1 = l + 1
    BY <1>1, <2>1 DEF SenderInv, RequestsOnce
  <2>3. QED
    BY <2>2
<1>9. ClientsIntroduced'
  <2> SUFFICES ASSUME NEW c \in Clients, phase[c] \in {"registered", "chatting", "leaving"},
                      serverId[c] = run
               PROVE  Introduced(c, n + 1)'
    BY <1>1 DEF ClientsIntroduced
  <2>1. Introduced(c, (n + 1) + 1)
    BY <1>1 DEF SenderInv, ClientsIntroduced
  <2>2. QED
    BY <1>5, <1>6, <2>1 DEF HasLeft
<1>10. ClientsConsistent'
  BY DEF SenderInv, ClientsConsistent
<1>11. QED
  BY <1>7, <1>8, <1>9, <1>10 DEF SenderInv

\* Every step keeps SenderInv.
LEMMA SenderInvStep ==
  ASSUME TypeInv, SenderInv, [Next]_vars
  PROVE  SenderInv'
<1> USE DEF serverVars, clientVars
<1>1. CASE ServerStart
  <2>1. client_list' = <<>> /\ Len(client_list') = 0
    BY <1>1, EmptySeq DEF ServerStart
  <2>2. server_queue' = <<>> /\ Len(server_queue') = 0
    BY <1>1, EmptySeq DEF ServerStart, ServerQueueExists, SenderInv, ClientsConsistent
  <2>3. \A c \in Clients : serverId'[c] < run'
    BY <1>1 DEF ServerStart, SenderInv, ClientsConsistent, TypeInv, TypeOK, ServerTypeOK, ClientsTypeOK
  <2>4. MembersArrived' /\ MembersOnce'
    BY <2>1 DEF MembersArrived, MembersOnce, Member
  <2>5. RequestsInOrder' /\ RequestsOnce'
    BY <2>2 DEF RequestsInOrder, RequestsOnce
  <2>6. ClientsIntroduced'
    BY SMTT(20), <2>3, TypeInvStep DEF ClientsIntroduced, TypeInv, TypeOK, ServerTypeOK, ClientsTypeOK
  <2>7. ClientsConsistent'
    BY <1>1, <2>2 DEF ServerStart, SenderInv, ClientsConsistent, TypeInv, TypeOK, ServerTypeOK, ClientsTypeOK
  <2>8. QED
    BY <2>4, <2>5, <2>6, <2>7 DEF SenderInv
<1>2. CASE ServerSigint
  BY <1>2, SenderInvExit DEF ServerSigint
<1>3. CASE ServerKill \/ SendResponse
  <2>1. PhasesAdvance /\ NoneEnters
    BY <1>3 DEF ServerKill, SendResponse, PhasesAdvance, NoneEnters, SenderInv, ClientsConsistent
  <2>2. pc' = "down" <=> pc = "down"
    BY <1>3 DEF ServerKill, SendResponse, AdvanceLoops, NextLoop
  <2>3. QED
    BY <1>3, <2>1, <2>2, SenderInvQuiet DEF ServerKill, SendResponse
<1>4. CASE ServeRegistration \/ ServeDisconnection \/ ServeMessage
  <2>1. server_queue # <<>> /\ server_queue \in Seq(Request) /\ client_list \in Seq(Clients)
    BY <1>4 DEF ServeRegistration, ServeDisconnection, ServeMessage, TakeRequest,
                TypeInv, TypeOK, QueuesTypeOK, ServerTypeOK
  <2>2. PICK h \in Request : h = Head(server_queue)
    BY <2>1, HeadTailProperties
  <2>3. h.from \in Clients
    BY DEF Request
  <2>4. RequestInOrder(1) /\ server_queue[1] = h
    BY <2>1, <2>2, HeadTailProperties, EmptySeq DEF SenderInv, RequestsInOrder
  <2>5. PICK n \in Nat : n = Len(client_list)
    BY <2>1, LenProperties
  <2>6. CASE ServeRegistration
    <3>1. h.type = "REGISTRATION" /\ ~Member(h.from) /\ serverId[h.from] = run
          /\ phase[h.from] \notin {"off", "connected"}
      BY <2>2, <2>4, <2>6 DEF ServeRegistration, TakeRequest, RequestInOrder
    <3>2. /\ Len(client_list') = n + 1
          /\ client_list'[n + 1] = h.from
          /\ \A k \in 1..n : client_list'[k] = client_list[k]
      BY <2>1, <2>2, <2>3, <2>5, <2>6, AppendProperties DEF ServeRegistration, add_client
    <3>3. \A c \in Clients : Member(c)' <=> Member(c) \/ c = h.from
      BY <2>5, <3>2 DEF Member
    <3>4. MembersArrived'
      BY <2>6, <3>1, <3>3 DEF ServeRegistration, SenderInv, MembersArrived
    <3>5. MembersOnce'
      <4> SUFFICES ASSUME NEW i \in 1..n + 1, NEW j \in 1..n + 1, client_list'[i] = client_list'[j]
                   PROVE  i = j
        BY <3>2 DEF MembersOnce
      <4>1. \A k \in 1..n : client_list[k] # h.from
        BY <2>5, <3>1 DEF Member
      <4>2. QED
        BY <2>5, <3>2, <4>1 DEF SenderInv, MembersOnce
    <3>6. QED
      BY <2>1, <2>2, <2>3, <2>6, <3>1, <3>3, <3>4, <3>5, SenderInvTake
         DEF ServeRegistration, TakeRequest
  <2>7. CASE ServeDisconnection
    <3>1. PICK i \in 1..n : client_list[i] = h.from /\ client_list' = RemoveAt(client_list, i)
      BY <2>1, <2>2, <2>3, <2>5, <2>7, IndexProperties
         DEF ServeDisconnection, remove_client, IsRegistered
    <3>2. /\ Len(client_list') = n - 1
          /\ \A k \in 1..n - 1 : client_list'[k] = IF k < i THEN client_list[k] ELSE client_list[k + 1]
      BY <2>1, <2>5, <3>1, RemoveAtProperties
    <3>3. \A c \in Clients : Member(c)' => Member(c)
      BY <2>5, <3>2 DEF Member
    <3>4. \A c \in Clients : Member(c) /\ c # h.from => Member(c)'
      <4> SUFFICES ASSUME NEW c \in Clients, c # h.from, NEW k \in 1..n, client_list[k] = c
                   PROVE  Member(c)'
        BY <2>5 DEF Member
      <4>1. CASE k < i
        <5>1. k \in 1..n - 1 /\ client_list'[k] = c
          BY <3>2, <4>1
        <5>2. QED
          BY <3>2, <5>1 DEF Member
      <4>2. CASE k > i
        <5>1. k - 1 \in 1..n - 1 /\ ~(k - 1 < i) /\ (k - 1) + 1 = k
          BY <4>2
        <5>2. client_list'[k - 1] = c
          BY <3>2, <5>1
        <5>3. QED
          BY <3>2, <5>1, <5>2 DEF Member
      <4>3. k # i
        BY <3>1
      <4>4. QED
        BY <4>1, <4>2, <4>3
    <3>5. MembersArrived'
      BY <2>7, <3>3 DEF ServeDisconnection, SenderInv, MembersArrived
    <3>6. MembersOnce'
      <4> SUFFICES ASSUME NEW k \in 1..n - 1, NEW l \in 1..n - 1, client_list'[k] = client_list'[l]
                   PROVE  k = l
        BY <3>2 DEF MembersOnce
      <4>1. \A a, b \in 1..n : client_list[a] = client_list[b] => a = b
        BY <2>5 DEF SenderInv, MembersOnce
      <4>2. k + 1 \in 1..n /\ l + 1 \in 1..n /\ k \in 1..n /\ l \in 1..n
        OBVIOUS
      <4>3. QED
        BY <3>2, <4>1, <4>2
    <3>7. h.type = "DISCONNECTION"
      BY <2>2, <2>7 DEF ServeDisconnection, TakeRequest
    <3>8. pc # "down" /\ pc' # "down"
      BY <2>7 DEF ServeDisconnection, TakeRequest
    <3>9. server_queue' = Tail(server_queue) /\ UNCHANGED <<run, clientVars>>
      BY <2>7 DEF ServeDisconnection
    <3>10. QED
      BY <2>1, <2>2, <3>3, <3>4, <3>5, <3>6, <3>7, <3>8, <3>9, SenderInvTake
  <2>8. CASE ServeMessage
    <3>1. \A c \in Clients : Member(c)' <=> Member(c)
      BY <2>8 DEF ServeMessage, Member
    <3>2. MembersArrived' /\ MembersOnce'
      BY <2>8, <3>1 DEF ServeMessage, SenderInv, MembersArrived, MembersOnce
    <3>3. h.type = "MESSAGE_INFO"
      BY <2>2, <2>8 DEF ServeMessage, TakeRequest
    <3>4. QED
      BY <2>1, <2>2, <2>8, <3>1, <3>2, <3>3, SenderInvTake DEF ServeMessage, TakeRequest
  <2>9. QED
    BY <1>4, <2>6, <2>7, <2>8
<1>5. CASE ServeStranger
  BY <1>5, SenderInvExit DEF ServeStranger
<1>6. CASE SendFails
  BY <1>6, SenderInvExit DEF SendFails
<1>7. ASSUME NEW c \in Clients, ClientStep(c)
      PROVE  SenderInv'
  <2> USE DEF TypeInv, TypeOK, ClientsTypeOK
  <2>1. CASE Connect(c)
    <3>1. ~Member(c) /\ \A k \in 1..Len(server_queue) : server_queue[k].from # c
      BY <2>1 DEF Connect, SenderInv, MembersArrived, RequestsInOrder, RequestInOrder
    <3>2. \A d \in Clients : Member(d)' <=> Member(d)
      BY <2>1 DEF Connect, Member
    <3>3. \A d \in Clients : \A k \in Nat : Introduced(d, k)' <=> Introduced(d, k)
      BY <2>1, <3>2 DEF Connect, Introduced
    <3>4. \A k \in 1..Len(server_queue) : server_queue[k].from \in Clients /\ k \in Nat
      BY DEF QueuesTypeOK, Request
    <3>5. MembersArrived' /\ MembersOnce'
      BY <2>1, <3>1, <3>2 DEF Connect, SenderInv, MembersArrived, MembersOnce
    <3>6. RequestsInOrder'
      BY <2>1, <3>1, <3>2, <3>3, <3>4
         DEF Connect, SenderInv, RequestsInOrder, RequestInOrder, HasLeft
    <3>7. RequestsOnce'
      BY <2>1 DEF Connect, SenderInv, RequestsOnce
    <3>8. ClientsIntroduced'
      <4>1. Len(server_queue) + 1 \in Nat
        BY LenProperties DEF QueuesTypeOK
      <4>2. QED
        BY <2>1, <3>3, <4>1 DEF Connect, SenderInv, ClientsIntroduced
    <3>9. ClientsConsistent'
      BY <2>1 DEF Connect, SenderInv, ClientsConsistent, ServerTypeOK
    <3>10. QED
      BY <3>5, <3>6, <3>7, <3>8, <3>9 DEF SenderInv
  <2>2. CASE register_client(c)
    <3> DEFINE r == [type |-> "REGISTRATION", from |-> c, n |-> 0]
    <3>1. r \in Request /\ r.type = "REGISTRATION" /\ r.from = c
      BY DEF Request
    <3> HIDE DEF r
    <3>2. ~Member(c) /\ \A k \in 1..Len(server_queue) : server_queue[k].from # c
      BY <2>2 DEF register_client, SenderInv, MembersArrived, RequestsInOrder, RequestInOrder
    <3>3. PhasesAdvance
      BY <2>2 DEF register_client, PhasesAdvance, SenderInv, ClientsConsistent
    <3>4. server_queue' = Append(server_queue, r) /\ pc # "down" /\ serverId[c] = run
      BY <2>2 DEF register_client, SendRequest, CanReachServer, ServerQueueExists, r
    <3>5. /\ phase'[c] = "registered"
          /\ \A d \in Clients : phase'[d] = phase[d] \/ d = c
      BY <2>2 DEF register_client
    <3>6. UNCHANGED <<client_list, run, serverId, pc>>
      BY <2>2 DEF register_client
    <3>7. QED
      BY <3>1, <3>2, <3>3, <3>4, <3>5, <3>6, SenderInvAppend
  <2>3. CASE disconnect_client(c)
    <3> DEFINE r == [type |-> "DISCONNECTION", from |-> c, n |-> 0]
    <3>1. r \in Request /\ r.type = "DISCONNECTION" /\ r.from = c
      BY DEF Request
    <3> HIDE DEF r
    <3>2. PhasesAdvance
      BY <2>3 DEF disconnect_client, PhasesAdvance, SenderInv, ClientsConsistent
    <3>3. server_queue' = Append(server_queue, r) /\ pc # "down" /\ serverId[c] = run
          /\ phase[c] = "leaving"
      BY <2>3 DEF disconnect_client, SendRequest, CanReachServer, ServerQueueExists, r
    <3>4. Introduced(c, Len(server_queue) + 1)
      BY <3>3 DEF SenderInv, ClientsIntroduced
    <3>5. \A k \in 1..Len(server_queue) :
            server_queue[k].from = c => server_queue[k].type # "DISCONNECTION"
      BY <3>3 DEF SenderInv, RequestsInOrder, RequestInOrder, HasLeft
    <3>6. /\ phase'[c] = "left"
          /\ \A d \in Clients : phase'[d] = phase[d] \/ d = c
      BY <2>3 DEF disconnect_client
    <3>7. UNCHANGED <<client_list, run, serverId, pc>>
      BY <2>3 DEF disconnect_client
    <3>8. HasLeft(c)'
      BY <3>3, <3>6 DEF SenderInv, ClientsConsistent, HasLeft
    <3>9. QED
      BY <3>1, <3>2, <3>3, <3>4, <3>5, <3>6, <3>7, <3>8, SenderInvAppend
  <2>4. CASE SendText(c)
    <3> DEFINE r == [type |-> "MESSAGE_INFO", from |-> c, n |-> typed[c]]
    <3>1. r \in Request /\ r.type = "MESSAGE_INFO" /\ r.from = c
      BY <2>4 DEF SendText, Request
    <3> HIDE DEF r
    <3>2. PhasesAdvance
      BY <2>4 DEF SendText, PhasesAdvance, SenderInv, ClientsConsistent
    <3>3. server_queue' = Append(server_queue, r) /\ pc # "down" /\ serverId[c] = run
          /\ phase[c] \in {"chatting", "leaving", "left"}
      BY <2>4 DEF SendText, SendRequest, CanReachServer, ServerQueueExists, SenderInv,
                  ClientsConsistent, r
    <3>4. phase[c] # "left" => Introduced(c, Len(server_queue) + 1)
      BY <3>3 DEF SenderInv, ClientsIntroduced
    <3>5. UNCHANGED <<client_list, run, serverId, pc, phase>>
      BY <2>4 DEF SendText
    <3>6. phase[c] = "left" => HasLeft(c)'
      BY <3>5 DEF SenderInv, ClientsConsistent, HasLeft
    <3>7. QED
      BY <3>1, <3>2, <3>3, <3>4, <3>5, <3>6, SenderInvAppend
  <2>5. CASE StartThreads(c) \/ Sigint(c) \/ SenderCancelled(c) \/ Type(c) \/ Receive(c)
    <3>1. PhasesAdvance /\ NoneEnters
      BY <2>5 DEF StartThreads, Sigint, SenderCancelled, Type, Receive, PhasesAdvance,
                  NoneEnters, SenderInv, ClientsConsistent
    <3>2. QED
      BY <2>5, <3>1, SenderInvQuiet
         DEF StartThreads, Sigint, SenderCancelled, Type, Receive
  <2>6. CASE ClientExit(c) \/ ClientDies(c)
    <3>1. PhasesAdvance /\ NoneEnters
      BY <2>6 DEF ClientExit, ClientDies, PhasesAdvance, NoneEnters, SenderInv, ClientsConsistent
    <3>2. QED
      BY <2>6, <3>1, SenderInvQuiet DEF ClientExit, ClientDies
  <2>7. QED
    BY <1>7, <2>1, <2>2, <2>3, <2>4, <2>5, <2>6
       DEF ClientStep, RegisterFails, EarlySigint, DisconnectFails, remove_queues, Kill,
           SendTextFails
<1>8. CASE UNCHANGED vars
  <2>1. PhasesAdvance /\ NoneEnters
    BY <1>8 DEF vars, PhasesAdvance, NoneEnters, SenderInv, ClientsConsistent
  <2>2. QED
    BY <1>8, <2>1, SenderInvQuiet DEF vars
<1>9. QED
  BY <1>1, <1>2, <1>3, <1>4, <1>5, <1>6, <1>7, <1>8 DEF Next, ServerStep

LEMMA SenderInvInit == Init => SenderInv
<1> SUFFICES ASSUME Init PROVE SenderInv
  OBVIOUS
<1>1. Len(client_list) = 0 /\ Len(server_queue) = 0
  BY EmptySeq DEF Init
<1>2. QED
  BY <1>1 DEF Init, SenderInv, MembersArrived, MembersOnce, RequestsInOrder, RequestsOnce,
     ClientsIntroduced, ClientsConsistent, Member

\* The lookup of a requesting client fails at most for a text that was overtaken
\* by its author's disconnection; serve_request never meets a disconnection of a
\* stranger, or a second registration.
THEOREM StrangersAreLate == Spec => []StrangerIsALateText
<1>1. TypeInv /\ SenderInv => StrangerIsALateText
  <2> SUFFICES ASSUME TypeInv, SenderInv, pc = "recv", server_queue # <<>>,
                      NEW r \in Request, r = Head(server_queue)
               PROVE  /\ r.type = "REGISTRATION" => ~IsRegistered(r.from)
                      /\ r.type = "DISCONNECTION" => IsRegistered(r.from)
                      /\ r.type = "MESSAGE_INFO" => \/ IsRegistered(r.from)
                                                    \/ phase[r.from] \in {"left", "gone"}
    BY HeadTailProperties DEF StrangerIsALateText, TypeInv, TypeOK, QueuesTypeOK
  <2>1. server_queue[1] = r /\ Len(server_queue) \in Nat \ {0} /\ r.from \in Clients
    BY HeadTailProperties, EmptySeq DEF TypeInv, TypeOK, QueuesTypeOK, Request
  <2>2. RequestInOrder(1)
    BY <2>1 DEF SenderInv, RequestsInOrder
  <2>3. Introduced(r.from, 1) => Member(r.from)
    BY <2>1 DEF Introduced
  <2>4. IsRegistered(r.from) <=> Member(r.from)
    BY <2>1, IndexProperties DEF Member, TypeInv, TypeOK, ServerTypeOK
  <2>5. QED
    BY <2>1, <2>2, <2>3, <2>4 DEF RequestInOrder, HasLeft
<1>2. Init => TypeInv /\ SenderInv
  BY TypeInvInit, SenderInvInit
<1>3. TypeInv /\ SenderInv /\ [Next]_vars => (TypeInv /\ SenderInv)'
  BY TypeInvStep, SenderInvStep
<1>4. QED
  BY <1>1, <1>2, <1>3, PTL DEF Spec

-----------------------------------------------------------------------------
(* FramingInv is inductive.                                                *)

\* A step that touches no queue and no batch only has to mind where chains end.
LEMMA FramingQuiet ==
  ASSUME FramingInv, UNCHANGED <<batch, queue, shown>>, ChainEnds',
         \A c \in Clients : phase'[c] = "off" => phase[c] = "off"
  PROVE  FramingInv'
<1>1. \A c \in Clients : \A k \in Nat : Link(c, k)' = Link(c, k)
  BY DEF Link
<1>2. LinksInBounds' /\ LinksFollow'
  BY DEF FramingInv, LinksInBounds, LinksFollow, Link
<1>3. Newcomers'
  BY DEF FramingInv, Newcomers
<1>4. QED
  BY <1>2, <1>3 DEF FramingInv

\* When the server is not serving, nobody is served.
LEMMA NobodyServed ==
  ASSUME \A c \in Clients : ~Served(c)'
  PROVE  ChainEnds'
BY DEF ChainEnds

\* The chains end where they did if the loops stand where they did.
LEMMA ChainEndsKept ==
  ASSUME ChainEnds, UNCHANGED <<batch, queue, serverVars>>,
         \A c \in Clients : Served(c)' => Served(c)
  PROVE  ChainEnds'
<1>1. \A c \in Clients : /\ Link(c, Len(queue[c]))' = Link(c, Len(queue[c]))
                         /\ HalfSent(c)' <=> HalfSent(c)
  BY DEF Link, HalfSent, Sending, serverVars
<1>2. resp.type' = resp.type /\ LoopSize' = LoopSize /\ sj' = sj
  BY DEF resp, LoopSize, history, serverVars
<1>3. QED
  BY <1>1, <1>2 DEF ChainEnds

\* One msgsnd of the server lengthens one chain by the link that fits.
LEMMA FramingSend ==
  ASSUME TypeInv, SenderInv, FramingInv, SendResponse
  PROVE  FramingInv'
<1>1. Sending /\ client_list[si] \in Clients /\ resp \in Response
  BY ResponseType DEF SendResponse, Sending
<1>2. PICK to \in Clients : to = client_list[si]
  BY <1>1
<1>3. /\ queue_exists[to]
      /\ queue' = [queue EXCEPT ![to] = Append(@, resp)]
      /\ UNCHANGED <<batch, shown, phase, serverId, queue_exists, run, client_list, message_list>>
  BY <1>2 DEF SendResponse, clientVars
<1>4. PICK n \in Nat :
        /\ n = Len(queue[to])
        /\ Len(queue'[to]) = n + 1
        /\ \A k \in 1..n : queue'[to][k] = queue[to][k]
        /\ queue'[to][n + 1] = resp
  <2>1. queue[to] \in Seq(Response) /\ queue'[to] = Append(queue[to], resp)
    BY <1>2, <1>3 DEF TypeInv, TypeOK, QueuesTypeOK
  <2>2. QED
    BY <1>1, <2>1, AppendProperties, LenProperties
<1>5. /\ resp.list_size = LoopSize
      /\ resp.pos = sj
      /\ resp.type = IF pc = "clients" THEN "CLIENT_INFO" ELSE "MESSAGE_INFO"
  BY DEF resp
<1>6. \A d \in Clients : d # to => queue'[d] = queue[d]
  BY <1>3 DEF TypeInv, TypeOK, QueuesTypeOK
<1>7. sj \in 1..LoopSize /\ LoopSize \in Nat /\ si \in 1..Len(client_list)
  BY <1>1, LenProperties DEF TypeInv, TypeOK, ServerTypeOK, LoopsInBounds, LoopSize, history
<1>8. Served(to)
  <2>1. Member(to)
    BY <1>2, <1>7 DEF Member
  <2>2. QED
    BY <1>1, <1>3, <2>1 DEF Served, Sending, SenderInv, MembersArrived
<1>9. /\ \A k \in 0..n : Link(to, k)' = Link(to, k)
      /\ Link(to, n + 1)' = [type |-> resp.type, list_size |-> LoopSize, pos |-> sj]
  BY <1>3, <1>4, <1>5 DEF Link
<1>10. \A d \in Clients : d # to => \A k \in Nat : Link(d, k)' = Link(d, k)
  BY <1>3, <1>6 DEF Link
<1>11. LET last == Link(to, n) IN
         IF sj > 1
         THEN last.type = resp.type /\ last.list_size = LoopSize /\ last.pos = sj - 1
         ELSE last.pos = last.list_size
  BY <1>1, <1>2, <1>4, <1>8 DEF FramingInv, ChainEnds, HalfSent
<1>12. LinksInBounds'
  <2>1. ASSUME NEW d \in Clients, d # to
        PROVE  /\ Len(batch'[d].items) <= batch'[d].list_size
               /\ \A k \in 1..Len(queue'[d]) : queue'[d][k].pos \in 1..queue'[d][k].list_size
    BY <1>3, <1>6, <2>1 DEF FramingInv, LinksInBounds
  <2>2. /\ Len(batch'[to].items) <= batch'[to].list_size
        /\ \A k \in 1..n : queue'[to][k].pos \in 1..queue'[to][k].list_size
    BY <1>3, <1>4 DEF FramingInv, LinksInBounds
  <2>3. queue'[to][n + 1].pos \in 1..queue'[to][n + 1].list_size
    BY <1>4, <1>5, <1>7
  <2>4. QED
    BY SMTT(20), <1>4, <2>1, <2>2, <2>3 DEF LinksInBounds
<1>13. LinksFollow'
  <2>1. ASSUME NEW d \in Clients, d # to, NEW k \in 1..Len(queue'[d])
        PROVE  Follows(Link(d, k - 1)', Link(d, k)')
    <3>1. k \in Nat /\ k - 1 \in Nat /\ k \in 1..Len(queue[d])
      BY <1>6, <2>1, LenProperties DEF TypeInv, TypeOK, QueuesTypeOK
    <3>2. QED
      BY <1>10, <2>1, <3>1 DEF FramingInv, LinksFollow
  <2>2. ASSUME NEW k \in 1..n
        PROVE  Follows(Link(to, k - 1)', Link(to, k)')
    <3>1. k \in 0..n /\ k - 1 \in 0..n
      OBVIOUS
    <3>2. QED
      BY <1>4, <1>9, <3>1 DEF FramingInv, LinksFollow
  <2>3. Follows(Link(to, n)', Link(to, n + 1)')
    <3>1. Link(to, n).list_size \in Nat
      <4>1. batch[to] \in Batch /\ queue[to] \in Seq(Response)
        BY DEF TypeInv, TypeOK, QueuesTypeOK, ClientsTypeOK
      <4>2. n # 0 => queue[to][n] \in Response
        BY <1>4, <4>1, ElementOfSeq
      <4>3. QED
        BY <4>1, <4>2 DEF Link, Response, Batch
    <3>2. Follows(Link(to, n), [type |-> resp.type, list_size |-> LoopSize, pos |-> sj])
      BY <1>7, <1>11, <3>1 DEF Follows
    <3>3. QED
      BY <1>9, <3>2
  <2>4. \A k \in 1..n + 1 : Follows(Link(to, k - 1)', Link(to, k)')
    <3> TAKE k \in 1..n + 1
    <3>1. CASE k \in 1..n
      BY <2>2, <3>1
    <3>2. CASE k = n + 1
      <4>1. k - 1 = n
        BY <3>2
      <4>2. QED
        BY <2>3, <3>2, <4>1
    <3>3. QED
      BY <3>1, <3>2
  <2>5. QED
    BY <1>4, <2>1, <2>4 DEF LinksFollow, Follows
<1>14. ChainEnds'
  <2> SUFFICES ASSUME NEW d \in Clients, Served(d)'
               PROVE  LET last == Link(d, Len(queue[d]))' IN
                        IF HalfSent(d)'
                        THEN /\ last.type = resp.type' /\ last.list_size = LoopSize'
                             /\ last.pos = sj' - 1
                        ELSE last.pos = last.list_size
    BY DEF ChainEnds
  <2>1. Served(d)
    BY <1>1, <1>3 DEF Served, Sending
  <2>2. CASE d = to
    <3>1. Link(d, Len(queue[d]))' = [type |-> resp.type, list_size |-> LoopSize, pos |-> sj]
      BY <1>4, <1>9, <2>2
    <3>2. CASE sj < LoopSize
      <4>1. sj' = sj + 1 /\ pc' = pc
        BY <1>7, <3>2 DEF SendResponse, AdvanceLoops
      <4>2. resp.type' = resp.type /\ LoopSize' = LoopSize
        BY <1>3, <4>1 DEF resp, LoopSize, history
      <4>3. HalfSent(d)'
        <5>1. si' = si /\ Sending'
          BY <1>1, <1>7, <3>2 DEF SendResponse, AdvanceLoops, Sending
        <5>2. QED
          BY <1>2, <1>3, <1>7, <2>2, <4>1, <5>1 DEF HalfSent
      <4>4. QED
        BY <1>7, <3>1, <4>1, <4>2, <4>3
    <3>3. CASE sj = LoopSize
      <4>1. sj' = 1
        BY <1>7, <3>3 DEF SendResponse, AdvanceLoops
      <4>2. QED
        BY <3>1, <3>3, <4>1 DEF HalfSent
    <3>4. QED
      BY <1>7, <3>2, <3>3
  <2>3. CASE d # to
    <3>1. ~HalfSent(d)
      BY <1>2, <2>3 DEF HalfSent
    <3>2. ~HalfSent(d)'
      <4>1. sj' = 1 \/ (si' = si /\ client_list' = client_list)
        BY <1>3 DEF SendResponse, AdvanceLoops
      <4>2. QED
        BY <1>2, <2>3, <4>1 DEF HalfSent
    <3>3. Link(d, Len(queue[d]))' = Link(d, Len(queue[d]))
      BY <1>3, <1>6, <2>3 DEF Link
    <3>4. QED
      BY <2>1, <3>1, <3>2, <3>3 DEF FramingInv, ChainEnds
  <2>4. QED
    BY <2>2, <2>3
<1>15. Newcomers'
  <2>1. phase[to] # "off"
    BY <1>2, <1>7 DEF SenderInv, MembersArrived, Member
  <2>2. QED
    BY <1>3, <1>6, <2>1 DEF FramingInv, Newcomers
<1>16. QED
  BY <1>12, <1>13, <1>14, <1>15 DEF FramingInv

\* One msgrcv of a client takes the first link of its chain into the batch.
LEMMA FramingReceive ==
  ASSUME TypeInv, FramingInv, NEW c \in Clients, Receive(c)
  PROVE  FramingInv'
<1>1. PICK n \in Nat :
        /\ Len(queue[c]) = n + 1
        /\ Len(queue'[c]) = n
        /\ \A k \in 1..n : queue'[c][k] = queue[c][k + 1]
        /\ queue[c][1] = Head(queue[c])
  <2>1. queue[c] \in Seq(Response) /\ queue[c] # <<>> /\ queue'[c] = Tail(queue[c])
    BY DEF Receive, TypeInv, TypeOK, QueuesTypeOK
  <2>2. /\ Len(queue[c]) \in Nat \ {0}
        /\ Len(Tail(queue[c])) = Len(queue[c]) - 1
        /\ \A k \in 1..Len(Tail(queue[c])) : Tail(queue[c])[k] = queue[c][k + 1]
        /\ Head(queue[c]) = queue[c][1]
    BY <2>1, HeadTailProperties, EmptySeq
  <2>3. Len(Tail(queue[c])) \in Nat
    BY <2>2
  <2> WITNESS Len(Tail(queue[c])) \in Nat
  <2>4. QED
    BY <2>1, <2>2
<1>2. PICK r \in Response : r = queue[c][1]
  BY <1>1 DEF TypeInv, TypeOK, QueuesTypeOK
<1>3. batch[c] \in Batch /\ batch' = [batch EXCEPT ![c] = Received(batch[c], r)]
  BY <1>1, <1>2 DEF Receive, TypeInv, TypeOK, ClientsTypeOK
<1>4. batch'[c] = Received(batch[c], r) /\ \A d \in Clients : d # c => batch'[d] = batch[d]
  BY <1>3 DEF TypeInv, TypeOK, ClientsTypeOK
<1>5. \A d \in Clients : d # c => queue'[d] = queue[d]
  BY DEF Receive, TypeInv, TypeOK, QueuesTypeOK
<1>6. Follows(Link(c, 0), Link(c, 1))
  <2>1. 1 \in 1..Len(queue[c]) /\ 1 - 1 = 0
    BY <1>1
  <2>2. QED
    BY <2>1 DEF FramingInv, LinksFollow
<1>7. Len(batch[c].items) \in Nat /\ batch[c].list_size \in Nat
      /\ Len(batch[c].items) <= batch[c].list_size
      /\ r.pos \in 1..r.list_size
  BY <1>1, <1>2, <1>3, LenProperties DEF FramingInv, LinksInBounds, Batch
<1>8. /\ batch'[c].type = r.type
      /\ batch'[c].list_size = r.list_size
      /\ Len(batch'[c].items) = r.pos
  <2>1. CASE Len(batch[c].items) < batch[c].list_size
    <3>1. r.type = batch[c].type /\ r.list_size = batch[c].list_size
          /\ r.pos = Len(batch[c].items) + 1
      BY <1>2, <1>6, <2>1 DEF Follows, Link
    <3>2. batch'[c] = [batch[c] EXCEPT !.items = Append(batch[c].items, r.item)]
      BY <1>4, <2>1 DEF Received
    <3>3. /\ batch'[c].type = batch[c].type
          /\ batch'[c].list_size = batch[c].list_size
          /\ batch'[c].items = Append(batch[c].items, r.item)
      BY <1>3, <3>2 DEF Batch
    <3>4. Len(Append(batch[c].items, r.item)) = Len(batch[c].items) + 1
      <4>1. batch[c].items \in Seq(Clients \cup Message) /\ r.item \in Clients \cup Message
        BY <1>3 DEF Batch, Response
      <4>2. QED
        BY <4>1, AppendProperties
    <3>5. QED
      BY <3>1, <3>3, <3>4
  <2>2. CASE ~(Len(batch[c].items) < batch[c].list_size)
    <3>1. r.pos = 1
      BY <1>2, <1>6, <2>2 DEF Follows, Link
    <3>2. batch'[c] = [type |-> r.type, list_size |-> r.list_size, items |-> <<r.item>>]
      BY <1>4, <2>2 DEF Received
    <3>3. QED
      BY <3>1, <3>2
  <2>3. QED
    BY <2>1, <2>2
<1>9. \A k \in 0..n : Link(c, k)' = Link(c, k + 1)
  <2>1. Link(c, 0)' = Link(c, 0 + 1)
    BY <1>2, <1>8 DEF Link
  <2>2. ASSUME NEW k \in 1..n PROVE Link(c, k)' = Link(c, k + 1)
    BY <1>1 DEF Link
  <2>3. QED
    BY <2>1, <2>2
<1>10. \A d \in Clients : d # c => \A k \in Nat : Link(d, k)' = Link(d, k)
  BY <1>4, <1>5 DEF Link
<1>11. LinksInBounds'
  <2>1. ASSUME NEW d \in Clients, d # c
        PROVE  /\ Len(batch'[d].items) <= batch'[d].list_size
               /\ \A k \in 1..Len(queue'[d]) : queue'[d][k].pos \in 1..queue'[d][k].list_size
    BY <1>4, <1>5, <2>1 DEF FramingInv, LinksInBounds
  <2>2. Len(batch'[c].items) <= batch'[c].list_size
    BY <1>7, <1>8
  <2>3. ASSUME NEW k \in 1..n
        PROVE  queue'[c][k].pos \in 1..queue'[c][k].list_size
    <3>1. k + 1 \in 1..n + 1
      OBVIOUS
    <3>2. QED
      BY <1>1, <3>1 DEF FramingInv, LinksInBounds
  <2>4. QED
    BY <1>1, <2>1, <2>2, <2>3 DEF LinksInBounds
<1>12. LinksFollow'
  <2>1. ASSUME NEW d \in Clients, d # c, NEW k \in 1..Len(queue'[d])
        PROVE  Follows(Link(d, k - 1)', Link(d, k)')
    <3>1. k \in Nat /\ k - 1 \in Nat /\ k \in 1..Len(queue[d])
      BY <1>5, <2>1, LenProperties DEF TypeInv, TypeOK, QueuesTypeOK
    <3>2. QED
      BY <1>10, <2>1, <3>1 DEF FramingInv, LinksFollow
  <2>2. ASSUME NEW k \in 1..n
        PROVE  Follows(Link(c, k - 1)', Link(c, k)')
    <3>1. k + 1 \in 1..n + 1 /\ k \in 0..n /\ k - 1 \in 0..n /\ (k - 1) + 1 = k /\ (k + 1) - 1 = k
      OBVIOUS
    <3>2. Follows(Link(c, k), Link(c, k + 1))
      BY <1>1, <3>1 DEF FramingInv, LinksFollow
    <3>3. Link(c, k - 1)' = Link(c, k) /\ Link(c, k)' = Link(c, k + 1)
      BY <1>9, <3>1
    <3>4. QED
      BY <3>2, <3>3
  <2>3. QED
    BY <1>1, <2>1, <2>2 DEF LinksFollow, Follows
<1>13. ChainEnds'
  <2>1. UNCHANGED serverVars /\ \A d \in Clients : Served(d)' <=> Served(d)
    BY DEF Receive, Served, serverVars
  <2>2. \A d \in Clients : Link(d, Len(queue[d]))' = Link(d, Len(queue[d]))
    <3> SUFFICES ASSUME NEW d \in Clients
                 PROVE  Link(d, Len(queue[d]))' = Link(d, Len(queue[d]))
      OBVIOUS
    <3>1. CASE d = c
      <4>1. Link(c, n)' = Link(c, n + 1)
        BY <1>9
      <4>2. Link(c, Len(queue[c]))' = Link(c, n)'
        BY <1>1 DEF Link
      <4>3. QED
        BY <1>1, <3>1, <4>1, <4>2
    <3>2. CASE d # c
      BY <1>4, <1>5, <3>2 DEF Link
    <3>3. QED
      BY <3>1, <3>2
  <2>3. \A d \in Clients : HalfSent(d)' <=> HalfSent(d)
    BY <2>1 DEF HalfSent, Sending, serverVars
  <2>4. resp.type' = resp.type /\ LoopSize' = LoopSize /\ sj' = sj
    BY <2>1 DEF resp, LoopSize, history, serverVars
  <2>5. QED
    BY <2>1, <2>2, <2>3, <2>4 DEF FramingInv, ChainEnds
<1>14. Newcomers'
  <2>1. phase' = phase /\ phase[c] # "off"
    BY DEF Receive
  <2>2. \A d \in Clients : d # c => shown'[d] = shown[d]
    BY DEF Receive, TypeInv, TypeOK, ClientsTypeOK
  <2>3. QED
    BY <1>4, <1>5, <2>1, <2>2 DEF FramingInv, Newcomers
<1>15. QED
  BY <1>11, <1>12, <1>13, <1>14 DEF FramingInv

\* A queue that disappears takes its chain with it.
LEMMA FramingExit ==
  ASSUME TypeInv, FramingInv, NEW c \in Clients, ClientExit(c)
  PROVE  FramingInv'
<1>1. /\ queue'[c] = <<>>
      /\ \A d \in Clients : d # c => queue'[d] = queue[d]
      /\ ~queue_exists'[c]
      /\ \A d \in Clients : d # c => queue_exists'[d] = queue_exists[d]
      /\ UNCHANGED <<batch, shown, serverId, serverVars>>
      /\ \A d \in Clients : phase'[d] = "off" => phase[d] = "off"
  BY DEF ClientExit, TypeInv, TypeOK, QueuesTypeOK, ClientsTypeOK
<1>2. Len(<<>>) = 0
  BY EmptySeq
<1>3. LinksInBounds'
  BY <1>1, <1>2 DEF FramingInv, LinksInBounds
<1>4. LinksFollow'
  <2>1. ASSUME NEW d \in Clients, d # c, NEW k \in 1..Len(queue'[d])
        PROVE  Follows(Link(d, k - 1)', Link(d, k)')
    BY <1>1, <2>1 DEF FramingInv, LinksFollow, Link
  <2>2. \A k \in 1..Len(queue'[c]) : FALSE
    BY <1>1, <1>2
  <2>3. QED
    BY <2>1, <2>2 DEF LinksFollow, Follows
<1>5. ChainEnds'
  <2>1. ~Served(c)'
    BY <1>1 DEF Served
  <2>2. \A d \in Clients : d # c => /\ Served(d)' => Served(d)
                                    /\ Link(d, Len(queue[d]))' = Link(d, Len(queue[d]))
    BY <1>1 DEF Served, serverVars, Link
  <2>3. \A d \in Clients : HalfSent(d)' <=> HalfSent(d)
    BY <1>1 DEF HalfSent, Sending, serverVars
  <2>4. resp.type' = resp.type /\ LoopSize' = LoopSize /\ sj' = sj
    BY <1>1 DEF resp, LoopSize, history, serverVars
  <2>5. QED
    BY <2>1, <2>2, <2>3, <2>4 DEF FramingInv, ChainEnds
<1>6. Newcomers'
  BY <1>1 DEF FramingInv, Newcomers
<1>7. QED
  BY <1>3, <1>4, <1>5, <1>6 DEF FramingInv

\* Every step keeps FramingInv.
LEMMA FramingInvStep ==
  ASSUME TypeInv, SenderInv, FramingInv, [Next]_vars
  PROVE  FramingInv'
<1>1. CASE ServerStart
  <2>1. \A c \in Clients : ~Served(c)'
    BY <1>1 DEF ServerStart, Served, clientVars, SenderInv, ClientsConsistent, TypeInv, TypeOK,
                ServerTypeOK, ClientsTypeOK
  <2>2. QED
    BY <1>1, <2>1, NobodyServed, FramingQuiet DEF ServerStart, clientVars
<1>2. CASE ServerSigint \/ ServerKill \/ ServeStranger \/ SendFails
  <2>1. \A c \in Clients : ~Served(c)'
    BY <1>2 DEF ServerSigint, ServerKill, ServeStranger, SendFails, ServerExit, Served
  <2>2. QED
    BY <1>2, <2>1, NobodyServed, FramingQuiet
       DEF ServerSigint, ServerKill, ServeStranger, SendFails, clientVars
<1>3. CASE ServeRegistration \/ ServeDisconnection \/ ServeMessage
  <2>1. /\ pc = "recv" /\ sj = 1 /\ sj' = 1
        /\ UNCHANGED <<batch, queue, shown, phase, serverId, queue_exists, run>>
    BY <1>3 DEF ServeRegistration, ServeDisconnection, ServeMessage, TakeRequest, clientVars,
                TypeInv, LoopsInBounds, Sending
  <2>2. \A c \in Clients : /\ Served(c)' => Served(c)
                           /\ ~HalfSent(c) /\ ~HalfSent(c)'
                           /\ Link(c, Len(queue[c]))' = Link(c, Len(queue[c]))
    BY <2>1 DEF Served, HalfSent, Link
  <2>3. ChainEnds'
    BY <2>2 DEF FramingInv, ChainEnds
  <2>4. QED
    BY <2>1, <2>3, FramingQuiet
<1>4. CASE SendResponse
  BY <1>4, FramingSend
<1>5. ASSUME NEW c \in Clients, ClientStep(c)
      PROVE  FramingInv'
  <2>1. CASE Connect(c)
    <3>1. /\ phase[c] = "off"
          /\ UNCHANGED <<batch, queue, shown, serverVars>>
          /\ \A d \in Clients : d # c => phase'[d] = phase[d] /\ serverId'[d] = serverId[d]
                                         /\ queue_exists'[d] = queue_exists[d]
          /\ phase'[c] = "connected"
      BY <2>1 DEF Connect, TypeInv, TypeOK, ClientsTypeOK, QueuesTypeOK
    <3>2. Link(c, Len(queue[c]))' = [type |-> "CLIENT_INFO", list_size |-> 0, pos |-> 0]
      BY <3>1, EmptySeq DEF Link, FramingInv, Newcomers, NoBatch
    <3>3. ~HalfSent(c)'
      <4>1. ~Member(c)
        BY <3>1 DEF SenderInv, MembersArrived
      <4>2. Sending => si \in 1..Len(client_list)
        BY DEF TypeInv, LoopsInBounds
      <4>3. QED
        BY <3>1, <4>1, <4>2 DEF HalfSent, Sending, serverVars, Member
    <3>4. \A d \in Clients : d # c =>
            /\ Served(d)' => Served(d)
            /\ Link(d, Len(queue[d]))' = Link(d, Len(queue[d]))
            /\ HalfSent(d)' <=> HalfSent(d)
      BY <3>1 DEF Served, serverVars, Link, HalfSent, Sending
    <3>5. resp.type' = resp.type /\ LoopSize' = LoopSize /\ sj' = sj
      BY <3>1 DEF resp, LoopSize, history, serverVars
    <3>6. ChainEnds'
      BY <3>2, <3>3, <3>4, <3>5 DEF FramingInv, ChainEnds
    <3>7. QED
      BY <3>1, <3>6, FramingQuiet
  <2>2. CASE \/ register_client(c) \/ StartThreads(c) \/ Sigint(c) \/ disconnect_client(c)
             \/ Type(c) \/ SendText(c) \/ SenderCancelled(c) \/ ClientDies(c)
    <3>1. UNCHANGED <<batch, queue, shown, serverId, queue_exists, serverVars>>
      BY <2>2 DEF register_client, StartThreads, Sigint, disconnect_client, Type, SendText,
                  SenderCancelled, ClientDies
    <3>2. \A d \in Clients : phase'[d] = "off" => phase[d] = "off"
      BY <2>2 DEF register_client, StartThreads, Sigint, disconnect_client, Type, SendText,
                  SenderCancelled, ClientDies, TypeInv, TypeOK, ClientsTypeOK
    <3>3. \A d \in Clients : Served(d)' => Served(d)
      BY <3>1 DEF Served, serverVars
    <3>4. QED
      BY <3>1, <3>2, <3>3, ChainEndsKept, FramingQuiet DEF FramingInv
  <2>3. CASE ClientExit(c)
    BY <2>3, FramingExit
  <2>4. CASE Receive(c)
    BY <2>4, FramingReceive
  <2>5. QED
    BY <1>5, <2>1, <2>2, <2>3, <2>4
       DEF ClientStep, RegisterFails, EarlySigint, DisconnectFails, remove_queues, Kill,
           SendTextFails
<1>6. CASE UNCHANGED vars
  <2>1. \A d \in Clients : Served(d)' => Served(d)
    BY <1>6 DEF Served, vars, serverVars, clientVars
  <2>2. QED
    BY <1>6, <2>1, ChainEndsKept, FramingQuiet DEF FramingInv, vars, clientVars
<1>7. QED
  BY <1>1, <1>2, <1>3, <1>4, <1>5, <1>6 DEF Next, ServerStep

LEMMA FramingInvInit == Init => FramingInv
<1> SUFFICES ASSUME Init PROVE FramingInv
  OBVIOUS
<1>1. \A c \in Clients : Len(queue[c]) = 0 /\ batch[c] = NoBatch /\ Len(batch[c].items) = 0
  BY EmptySeq DEF Init, NoBatch
<1>2. LinksInBounds /\ LinksFollow
  BY <1>1 DEF LinksInBounds, LinksFollow, NoBatch
<1>3. ChainEnds /\ Newcomers
  BY DEF Init, ChainEnds, Served, Newcomers
<1>4. QED
  BY <1>2, <1>3 DEF FramingInv

\* receive_clients and receive_messages always read the list they have begun, to
\* its end and in its order, for any number of clients and any queue capacities.
THEOREM ListsWhole == Spec => []ListsArriveWhole
<1>1. TypeInv /\ FramingInv => ListsArriveWhole
  <2> SUFFICES ASSUME TypeInv, FramingInv, NEW c \in Clients, queue[c] # <<>>
               PROVE  LET r == Head(queue[c]) IN
                        IF MidBatch(c)
                        THEN /\ r.type = batch[c].type
                             /\ r.list_size = batch[c].list_size
                             /\ r.pos = Len(batch[c].items) + 1
                        ELSE r.pos = 1
    BY DEF ListsArriveWhole
  <2>1. queue[c][1] = Head(queue[c]) /\ Len(queue[c]) \in Nat \ {0}
    BY HeadTailProperties, EmptySeq DEF TypeInv, TypeOK, QueuesTypeOK
  <2>2. Follows(Link(c, 1 - 1), Link(c, 1))
    BY <2>1 DEF FramingInv, LinksFollow
  <2>3. QED
    BY <2>1, <2>2 DEF Follows, Link, MidBatch
<1>2. Init => TypeInv /\ SenderInv /\ FramingInv
  BY TypeInvInit, SenderInvInit, FramingInvInit
<1>3. TypeInv /\ SenderInv /\ FramingInv /\ [Next]_vars => (TypeInv /\ SenderInv /\ FramingInv)'
  BY TypeInvStep, SenderInvStep, FramingInvStep
<1>4. QED
  BY <1>1, <1>2, <1>3, PTL DEF Spec

-----------------------------------------------------------------------------
(* ContentInv is inductive.  The history of a run only gets longer, so     *)
(* what was true of its beginning stays true.                              *)

HistoriesGrow ==
  \A c \in Clients : phase[c] # "off" =>
    /\ Len(HistoryOf(c)) <= Len(HistoryOf(c)')
    /\ \A k \in 1..Len(HistoryOf(c)) : HistoryOf(c)'[k] = HistoryOf(c)[k]

\* No step takes anything back from a history that a client may see.
LEMMA HistoriesOnlyGrow ==
  ASSUME TypeInv, SenderInv, [Next]_vars
  PROVE  HistoriesGrow
<1>1. \A r \in 0..MaxRuns : message_list[r] \in Seq(Message)
  BY DEF TypeInv, TypeOK, ServerTypeOK
<1>2. \A c \in Clients : serverId[c] \in 0..MaxRuns
  BY DEF TypeInv, TypeOK, ClientsTypeOK
<1>3. CASE ServeMessage
  <2>1. PICK m \in Message : message_list' = [message_list EXCEPT ![run] = Append(@, m)]
    <3>1. /\ server_queue \in Seq(Request)
          /\ server_queue # <<>>
          /\ Head(server_queue).type = "MESSAGE_INFO"
      BY <1>3 DEF ServeMessage, TakeRequest, TypeInv, TypeOK, QueuesTypeOK
    <3>2. Head(server_queue) \in Request
      BY <3>1, HeadTailProperties
    <3>3. [from |-> Head(server_queue).from, n |-> Head(server_queue).n] \in Message
      BY <3>1, <3>2 DEF Message, Request
    <3>4. QED
      BY <1>3, <3>3 DEF ServeMessage, add_message
  <2>2. \A r \in 0..MaxRuns : message_list'[r] = IF r = run THEN Append(message_list[r], m)
                                                            ELSE message_list[r]
    BY <2>1 DEF TypeInv, TypeOK, ServerTypeOK
  <2>3. \A r \in 0..MaxRuns : /\ Len(message_list[r]) <= Len(message_list'[r])
                              /\ \A k \in 1..Len(message_list[r]) :
                                   message_list'[r][k] = message_list[r][k]
    <3> TAKE r \in 0..MaxRuns
    <3>1. Len(message_list[r]) \in Nat
      BY <1>1, LenProperties
    <3>2. CASE r = run
      <4>1. message_list[r] \in Seq(Message)
        BY <1>1
      <4>2. /\ Len(Append(message_list[r], m)) = Len(message_list[r]) + 1
            /\ \A k \in 1..Len(message_list[r]) :
                 Append(message_list[r], m)[k] = message_list[r][k]
        BY <4>1, AppendProperties
      <4>3. message_list'[r] = Append(message_list[r], m)
        BY <2>2, <3>2
      <4>4. QED
        BY <3>1, <4>2, <4>3
    <3>3. CASE r # run
      BY <2>2, <3>1, <3>3
    <3>4. QED
      BY <3>2, <3>3
  <2>4. serverId' = serverId
    BY <1>3 DEF ServeMessage, clientVars
  <2>5. QED
    BY <1>2, <2>3, <2>4 DEF HistoriesGrow, HistoryOf
<1>4. CASE UNCHANGED message_list
  <2>1. \A c \in Clients : phase[c] # "off" => serverId'[c] = serverId[c]
    <3>1. CASE \E c \in Clients : Connect(c)
      BY <3>1 DEF Connect, TypeInv, TypeOK, ClientsTypeOK
    <3>2. CASE ~\E c \in Clients : Connect(c)
      BY <3>2 DEF Next, ServerStart, ServerSigint, ServerKill, ServerStep, ServeRegistration,
         ServeDisconnection, ServeMessage, ServeStranger, SendResponse, SendFails, ClientStep,
         register_client, RegisterFails, StartThreads, Sigint, EarlySigint, disconnect_client,
         DisconnectFails, remove_queues, Kill, Type, SendText, SendTextFails, SenderCancelled,
         Receive, ClientExit, ClientDies, clientVars, vars
    <3>3. QED
      BY <3>1, <3>2
  <2>2. \A c \in Clients : Len(HistoryOf(c)) \in Nat
    BY <1>1, <1>2, LenProperties DEF HistoryOf
  <2>3. QED
    BY <1>4, <2>1, <2>2 DEF HistoriesGrow, HistoryOf
<1>5. ServeMessage \/ UNCHANGED message_list
  BY DEF Next, ServerStart, ServerSigint, ServerKill, ServerStep, ServeRegistration,
     ServeDisconnection, ServeStranger, SendResponse, SendFails, ClientStep,
     Connect, register_client, RegisterFails, StartThreads, Sigint, EarlySigint,
     disconnect_client, DisconnectFails, remove_queues, Kill, Type, SendText, SendTextFails,
     SenderCancelled, Receive, ClientExit, ClientDies, serverVars, vars
<1>6. QED
  BY <1>3, <1>4, <1>5

\* Content survives a step that puts nothing new before the client.
LEMMA ContentKept ==
  ASSUME TypeInv, TypeInv', FramingInv, HistoriesGrow, NEW c \in Clients, Content(c),
         batch'[c] = batch[c], shown'[c] = shown[c],
         queue'[c] = queue[c] \/ queue'[c] = <<>>
  PROVE  Content(c)'
<1>1. CASE phase[c] = "off"
  <2>1. batch'[c] = NoBatch /\ shown'[c] = <<>> /\ queue'[c] = <<>>
    BY <1>1 DEF FramingInv, Newcomers
  <2>2. Len(HistoryOf(c)') \in Nat
    BY LenProperties DEF HistoryOf, TypeInv, TypeOK, ServerTypeOK, ClientsTypeOK
  <2>3. Len(<<>>) = 0
    BY EmptySeq
  <2>4. QED
    BY <2>1, <2>2, <2>3 DEF Content, NoBatch
<1>2. CASE phase[c] # "off"
  <2>1. /\ Len(HistoryOf(c)) \in Nat /\ Len(HistoryOf(c)') \in Nat
        /\ Len(HistoryOf(c)) <= Len(HistoryOf(c)')
        /\ \A k \in 1..Len(HistoryOf(c)) : HistoryOf(c)'[k] = HistoryOf(c)[k]
    <3>1. HistoryOf(c) \in Seq(Message) /\ HistoryOf(c)' \in Seq(Message)
      BY DEF HistoryOf, TypeInv, TypeOK, ServerTypeOK, ClientsTypeOK
    <3>2. QED
      BY <1>2, <3>1, LenProperties DEF HistoriesGrow
  <2>2. ASSUME NEW k \in 1..Len(queue'[c]), queue'[c][k].type = "MESSAGE_INFO"
        PROVE  /\ queue'[c][k].list_size <= Len(HistoryOf(c)')
               /\ queue'[c][k].item = HistoryOf(c)'[queue'[c][k].pos]
    <3>1. queue'[c] = queue[c]
      BY EmptySeq
    <3>2. queue[c][k] \in Response /\ queue[c][k].pos \in 1..queue[c][k].list_size
      <4>1. queue[c] \in Seq(Response) /\ k \in 1..Len(queue[c])
        BY <3>1 DEF TypeInv, TypeOK, QueuesTypeOK
      <4>2. QED
        BY <4>1, ElementOfSeq DEF FramingInv, LinksInBounds
    <3>3. /\ queue[c][k].list_size <= Len(HistoryOf(c))
          /\ queue[c][k].item = HistoryOf(c)[queue[c][k].pos]
      BY <2>2, <3>1 DEF Content
    <3>4. queue[c][k].list_size \in Nat
      BY <3>2 DEF Response
    <3>5. queue[c][k].pos \in 1..Len(HistoryOf(c))
      BY <2>1, <3>2, <3>3, <3>4
    <3>6. QED
      BY <2>1, <3>1, <3>3, <3>4, <3>5
  <2>3. batch[c].type = "MESSAGE_INFO" =>
          /\ batch[c].list_size <= Len(HistoryOf(c)')
          /\ \A k \in 1..Len(batch[c].items) : batch[c].items[k] = HistoryOf(c)'[k]
    <3>1. /\ batch[c].list_size \in Nat /\ Len(batch[c].items) \in Nat
          /\ Len(batch[c].items) <= batch[c].list_size
      BY LenProperties DEF TypeInv, TypeOK, ClientsTypeOK, Batch, FramingInv, LinksInBounds
    <3>2. QED
      BY SMTT(20), <2>1, <3>1 DEF Content
  <2>4. /\ Len(shown[c]) <= Len(HistoryOf(c)')
        /\ \A k \in 1..Len(shown[c]) : shown[c][k] = HistoryOf(c)'[k]
    <3>1. Len(shown[c]) \in Nat
      BY LenProperties DEF TypeInv, TypeOK, ClientsTypeOK
    <3>2. QED
      BY <2>1, <3>1 DEF Content
  <2>5. QED
    BY <2>2, <2>3, <2>4 DEF Content
<1>3. QED
  BY <1>1, <1>2

\* What send_messages sends to a registered client is the item of its history.
LEMMA ContentSend ==
  ASSUME TypeInv, TypeInv', SenderInv, FramingInv, ContentInv, HistoriesGrow, SendResponse,
         NEW c \in Clients
  PROVE  Content(c)'
<1>1. PICK to \in Clients : to = client_list[si]
  BY ResponseType DEF SendResponse, Sending
<1>2. /\ queue' = [queue EXCEPT ![to] = Append(@, resp)]
      /\ UNCHANGED <<batch, shown, serverId, message_list>>
  BY <1>1 DEF SendResponse, clientVars
<1>3. CASE c # to
  <2>1. queue'[c] = queue[c]
    BY <1>2, <1>3 DEF TypeInv, TypeOK, QueuesTypeOK
  <2>2. QED
    BY <1>2, <2>1, ContentKept DEF ContentInv
<1>4. CASE c = to
  <2>1. /\ Len(queue'[c]) = Len(queue[c]) + 1
        /\ Len(queue[c]) \in Nat
        /\ \A k \in 1..Len(queue[c]) : queue'[c][k] = queue[c][k]
        /\ queue'[c][Len(queue[c]) + 1] = resp
    <3>1. queue[c] \in Seq(Response) /\ resp \in Response
      BY ResponseType DEF TypeInv, TypeOK, QueuesTypeOK, SendResponse, Sending
    <3>2. queue'[c] = Append(queue[c], resp)
      BY <1>2, <1>4 DEF TypeInv, TypeOK, QueuesTypeOK
    <3>3. QED
      BY <3>1, <3>2, AppendProperties, LenProperties
  <2>2. HistoryOf(c)' = HistoryOf(c)
    BY <1>2 DEF HistoryOf
  <2>3. HistoryOf(c) = history
    <3>1. Member(c)
      BY <1>1, <1>4 DEF SendResponse, Sending, TypeInv, LoopsInBounds, Member
    <3>2. QED
      BY <3>1 DEF SenderInv, MembersArrived, HistoryOf, history
  <2>4. resp.type = "MESSAGE_INFO" =>
          /\ resp.list_size <= Len(HistoryOf(c))
          /\ resp.item = HistoryOf(c)[resp.pos]
    <3>1. Len(history) \in Nat
      BY LenProperties DEF history, TypeInv, TypeOK, ServerTypeOK
    <3>2. QED
      BY <2>3, <3>1 DEF resp, LoopSize
  <2>5. \A k \in 1..Len(queue'[c]) : queue'[c][k].type = "MESSAGE_INFO" =>
          /\ queue'[c][k].list_size <= Len(HistoryOf(c))
          /\ queue'[c][k].item = HistoryOf(c)[queue'[c][k].pos]
    <3> TAKE k \in 1..Len(queue'[c])
    <3>1. CASE k \in 1..Len(queue[c])
      BY <2>1, <3>1 DEF ContentInv, Content
    <3>2. CASE k = Len(queue[c]) + 1
      BY <2>1, <2>4, <3>2
    <3>3. QED
      BY <2>1, <3>1, <3>2
  <2>6. QED
    BY <1>2, <2>2, <2>5 DEF ContentInv, Content
<1>5. QED
  BY <1>3, <1>4

\* What receive_messages puts together is the beginning of the history.
LEMMA ContentReceive ==
  ASSUME TypeInv, FramingInv, ContentInv, NEW c \in Clients, Receive(c)
  PROVE  Content(c)'
<1>1. /\ queue[c] \in Seq(Response)
      /\ Len(queue[c]) \in Nat \ {0}
      /\ queue'[c] = Tail(queue[c])
      /\ Len(Tail(queue[c])) = Len(queue[c]) - 1
      /\ \A k \in 1..Len(Tail(queue[c])) : Tail(queue[c])[k] = queue[c][k + 1]
      /\ Head(queue[c]) = queue[c][1]
  <2>1. queue[c] \in Seq(Response) /\ queue[c] # <<>> /\ queue'[c] = Tail(queue[c])
    BY DEF Receive, TypeInv, TypeOK, QueuesTypeOK
  <2>2. QED
    BY <2>1, HeadTailProperties, EmptySeq
<1>2. PICK r \in Response : r = queue[c][1]
  BY <1>1, ElementOfSeq
<1>3. PICK b \in Batch : b = Received(batch[c], r)
  BY ReceivedType DEF TypeInv, TypeOK, ClientsTypeOK
<1>4. /\ batch'[c] = b
      /\ shown'[c] = IF IsWhole(b, "MESSAGE_INFO") THEN b.items ELSE shown[c]
      /\ HistoryOf(c)' = HistoryOf(c)
  BY <1>1, <1>2, <1>3 DEF Receive, TypeInv, TypeOK, ClientsTypeOK, HistoryOf, serverVars
<1>5. /\ batch[c] \in Batch
      /\ Len(batch[c].items) \in Nat
      /\ batch[c].list_size \in Nat
      /\ r.list_size \in Nat
      /\ Len(HistoryOf(c)) \in Nat
  BY LenProperties DEF TypeInv, TypeOK, ServerTypeOK, ClientsTypeOK, Batch, Response, HistoryOf
<1>6. Follows(Link(c, 0), Link(c, 1))
  <2>1. 1 \in 1..Len(queue[c]) /\ 1 - 1 = 0
    BY <1>1
  <2>2. QED
    BY <2>1 DEF FramingInv, LinksFollow
<1>7. r.type = "MESSAGE_INFO" =>
        r.list_size <= Len(HistoryOf(c)) /\ r.item = HistoryOf(c)[r.pos]
  <2>1. 1 \in 1..Len(queue[c])
    BY <1>1
  <2>2. QED
    BY <1>2, <2>1 DEF ContentInv, Content
<1>8. /\ b.type = r.type
      /\ b.list_size = r.list_size
      /\ Len(b.items) \in Nat /\ Len(b.items) <= b.list_size
      /\ b.type = "MESSAGE_INFO" =>
           \A k \in 1..Len(b.items) : b.items[k] = HistoryOf(c)[k]
  <2>1. CASE Len(batch[c].items) < batch[c].list_size
    <3>1. r.type = batch[c].type /\ r.list_size = batch[c].list_size
          /\ r.pos = Len(batch[c].items) + 1
      BY <1>2, <1>6, <2>1 DEF Follows, Link
    <3>2. b = [batch[c] EXCEPT !.items = Append(batch[c].items, r.item)]
      BY <1>3, <2>1 DEF Received
    <3>3. /\ b.type = batch[c].type
          /\ b.list_size = batch[c].list_size
          /\ b.items = Append(batch[c].items, r.item)
      BY <1>5, <3>2 DEF Batch
    <3>4. /\ Len(b.items) = Len(batch[c].items) + 1
          /\ \A k \in 1..Len(batch[c].items) : b.items[k] = batch[c].items[k]
          /\ b.items[Len(batch[c].items) + 1] = r.item
      <4>1. batch[c].items \in Seq(Clients \cup Message) /\ r.item \in Clients \cup Message
        BY <1>5 DEF Batch, Response
      <4>2. QED
        BY <3>3, <4>1, AppendProperties
    <3>5. b.type = "MESSAGE_INFO" =>
            \A k \in 1..Len(b.items) : b.items[k] = HistoryOf(c)[k]
      <4> SUFFICES ASSUME b.type = "MESSAGE_INFO", NEW k \in 1..Len(b.items)
                   PROVE  b.items[k] = HistoryOf(c)[k]
        OBVIOUS
      <4>1. CASE k \in 1..Len(batch[c].items)
        BY <3>3, <3>4, <4>1 DEF ContentInv, Content
      <4>2. CASE k = Len(batch[c].items) + 1
        BY <1>7, <3>1, <3>3, <3>4, <4>2
      <4>3. QED
        BY SMTT(20), <1>5, <3>4, <4>1, <4>2
    <3>6. QED
      BY SMTT(20), <1>5, <2>1, <3>1, <3>3, <3>4, <3>5
  <2>2. CASE ~(Len(batch[c].items) < batch[c].list_size)
    <3>1. r.pos = 1
      BY <1>2, <1>6, <2>2 DEF Follows, Link
    <3>2. b = [type |-> r.type, list_size |-> r.list_size, items |-> <<r.item>>]
      BY <1>3, <2>2 DEF Received
    <3>3. Len(b.items) = 1 /\ b.items[1] = r.item
      BY <3>2
    <3>4. 1 \in 1..r.list_size
      BY <1>1, <1>2, <3>1 DEF FramingInv, LinksInBounds
    <3>5. QED
      BY <1>5, <1>7, <3>1, <3>2, <3>3, <3>4
  <2>3. QED
    BY <2>1, <2>2
<1>9. \A k \in 1..Len(queue'[c]) : queue'[c][k].type = "MESSAGE_INFO" =>
        /\ queue'[c][k].list_size <= Len(HistoryOf(c))
        /\ queue'[c][k].item = HistoryOf(c)[queue'[c][k].pos]
  <2> TAKE k \in 1..Len(queue'[c])
  <2>1. k + 1 \in 1..Len(queue[c]) /\ queue'[c][k] = queue[c][k + 1]
    BY <1>1
  <2>2. QED
    BY <2>1 DEF ContentInv, Content
<1>10. /\ Len(shown'[c]) <= Len(HistoryOf(c))
       /\ \A k \in 1..Len(shown'[c]) : shown'[c][k] = HistoryOf(c)[k]
  <2>1. CASE IsWhole(b, "MESSAGE_INFO")
    BY <1>4, <1>7, <1>8, <2>1 DEF IsWhole
  <2>2. CASE ~IsWhole(b, "MESSAGE_INFO")
    BY <1>4, <2>2 DEF ContentInv, Content
  <2>3. QED
    BY <2>1, <2>2
<1>11. QED
  BY <1>4, <1>7, <1>8, <1>9, <1>10 DEF Content

\* The other steps leave windows, batches and queues alone, but for the queue that
\* goes with its client.
LEMMA OtherSteps ==
  ASSUME TypeInv, [Next]_vars, NEW c \in Clients, ~SendResponse, ~Receive(c)
  PROVE  /\ batch'[c] = batch[c] /\ shown'[c] = shown[c]
         /\ queue'[c] = queue[c] \/ queue'[c] = <<>>
<1>1. CASE ServerStart \/ ServerSigint \/ ServerKill \/ ServerStep \/ UNCHANGED vars
  BY <1>1 DEF ServerStart, ServerSigint, ServerKill, ServerStep, ServeRegistration,
     ServeDisconnection, ServeMessage, ServeStranger, SendFails, clientVars, vars
<1>2. ASSUME NEW d \in Clients, ClientStep(d)
      PROVE  /\ batch'[c] = batch[c] /\ shown'[c] = shown[c]
             /\ queue'[c] = queue[c] \/ queue'[c] = <<>>
  <2>1. CASE Receive(d)
    BY <2>1 DEF Receive, TypeInv, TypeOK, QueuesTypeOK, ClientsTypeOK
  <2>2. CASE ClientExit(d)
    BY <2>2 DEF ClientExit, TypeInv, TypeOK, QueuesTypeOK
  <2>3. CASE ~Receive(d) /\ ~ClientExit(d)
    BY <1>2, <2>3 DEF ClientStep, Connect, register_client, RegisterFails, StartThreads,
       Sigint, EarlySigint, disconnect_client, DisconnectFails, remove_queues, Kill, Type,
       SendText, SendTextFails, SenderCancelled, ClientDies
  <2>4. QED
    BY <2>1, <2>2, <2>3
<1>3. QED
  BY <1>1, <1>2 DEF Next

LEMMA ContentInvStep ==
  ASSUME TypeInv, TypeInv', SenderInv, FramingInv, ContentInv, [Next]_vars
  PROVE  ContentInv'
<1>1. HistoriesGrow
  BY HistoriesOnlyGrow
<1>2. SUFFICES ASSUME NEW c \in Clients PROVE Content(c)'
  BY DEF ContentInv
<1>3. CASE SendResponse
  BY <1>1, <1>3, ContentSend
<1>4. CASE Receive(c)
  BY <1>4, ContentReceive
<1>5. CASE ~SendResponse /\ ~Receive(c)
  <2>1. /\ batch'[c] = batch[c] /\ shown'[c] = shown[c]
        /\ queue'[c] = queue[c] \/ queue'[c] = <<>>
    BY <1>5, OtherSteps
  <2>2. QED
    BY <1>1, <2>1, ContentKept DEF ContentInv
<1>6. QED
  BY <1>3, <1>4, <1>5

LEMMA ContentInvInit == Init => ContentInv
<1> SUFFICES ASSUME Init, NEW c \in Clients PROVE Content(c)
  BY DEF ContentInv
<1>1. queue[c] = <<>> /\ batch[c] = NoBatch /\ shown[c] = <<>> /\ HistoryOf(c) = <<>>
  BY ConstantsAssumption DEF Init, HistoryOf
<1>2. Len(<<>>) = 0
  BY EmptySeq
<1>3. QED
  BY <1>1, <1>2 DEF Content, NoBatch

\* The message window of every client shows the beginning of the history of the
\* server it came to, and keeps showing it when that server has ended, for any
\* number of clients and servers and any capacities of the queues.
THEOREM WindowsShowHistory == Spec => []ShownIsPrefix
<1>1. TypeInv /\ ContentInv => ShownIsPrefix
  <2> SUFFICES ASSUME TypeInv, ContentInv, NEW c \in Clients
               PROVE  IsPrefix(shown[c], message_list[serverId[c]])
    BY DEF ShownIsPrefix
  <2>1. PICK s \in Seq(Clients \cup Message) : s = shown[c]
    BY DEF TypeInv, TypeOK, ClientsTypeOK
  <2>2. PICK t \in Seq(Message) : t = message_list[serverId[c]]
    BY DEF TypeInv, TypeOK, ClientsTypeOK, ServerTypeOK
  <2>3. Len(s) <= Len(t) /\ \A k \in 1..Len(s) : s[k] = t[k]
    BY <2>1, <2>2 DEF ContentInv, Content, HistoryOf
  <2>4. Len(s) \in Nat /\ Len(t) \in Nat
    BY LenProperties
  <2>5. /\ SubSeq(t, 1, Len(s)) \in Seq(Message)
        /\ Len(SubSeq(t, 1, Len(s))) = Len(s)
        /\ \A k \in 1..Len(s) : SubSeq(t, 1, Len(s))[k] = t[k]
    <3>1. \A k \in 1..Len(s) : t[k] \in Message
      BY <2>3, <2>4, ElementOfSeq
    <3>2. QED
      BY <2>3, <2>4, <3>1, SubSeqProperties
  <2>6. s = SubSeq(t, 1, Len(s))
    BY <2>3, <2>4, <2>5, SeqEqual
  <2>7. QED
    BY <2>1, <2>2, <2>3, <2>6 DEF IsPrefix
<1>2. Init => TypeInv /\ SenderInv /\ FramingInv /\ ContentInv
  BY TypeInvInit, SenderInvInit, FramingInvInit, ContentInvInit
<1>3. TypeInv /\ SenderInv /\ FramingInv /\ ContentInv /\ [Next]_vars
        => (TypeInv /\ SenderInv /\ FramingInv /\ ContentInv)'
  BY TypeInvStep, SenderInvStep, FramingInvStep, ContentInvStep
<1>4. QED
  BY <1>1, <1>2, <1>3, PTL DEF Spec

-----------------------------------------------------------------------------
(* Error exits of the server.  The queue of a registered client goes away  *)
(* while the server is up only if that client's user quits.                *)

QueuesHeld ==
  \A c \in Clients : c \notin Quitters /\ serverId[c] = run /\ pc # "down" => queue_exists[c]

LEMMA QueuesHeldStep ==
  ASSUME TypeInv, SenderInv, QueuesHeld, [Next]_vars
  PROVE  QueuesHeld'
<1> SUFFICES ASSUME NEW c \in Clients, c \notin Quitters, serverId'[c] = run', pc' # "down"
             PROVE  queue_exists'[c]
  BY DEF QueuesHeld
<1>1. CASE ServerStart
  <2>1. serverId[c] <= run /\ serverId[c] = run + 1
    BY <1>1 DEF ServerStart, clientVars, SenderInv, ClientsConsistent
  <2>2. QED
    BY <2>1 DEF TypeInv, TypeOK, ServerTypeOK, ClientsTypeOK
<1>2. CASE ServerSigint \/ ServerKill \/ ServerStep \/ UNCHANGED vars
  BY <1>2 DEF ServerSigint, ServerKill, ServerStep, ServeRegistration, ServeDisconnection,
     ServeMessage, ServeStranger, TakeRequest, SendResponse, SendFails, ServerExit,
     clientVars, serverVars, vars, QueuesHeld
<1>3. ASSUME NEW d \in Clients, ClientStep(d)
      PROVE  queue_exists'[c]
  <2>1. CASE Connect(d)
    BY <2>1 DEF Connect, TypeInv, TypeOK, QueuesTypeOK, ClientsTypeOK, serverVars, QueuesHeld
  <2>2. CASE remove_queues(d) \/ DisconnectFails(d)
    <3>1. d # c
      BY <2>2 DEF remove_queues, DisconnectFails, SenderInv, ClientsConsistent
    <3>2. QED
      BY <2>2, <3>1 DEF remove_queues, DisconnectFails, ClientExit, TypeInv, TypeOK,
         QueuesTypeOK, serverVars, QueuesHeld
  <2>3. CASE SendTextFails(d)
    <3>1. d # c
      BY <2>3 DEF SendTextFails, CanReachServer, ServerQueueExists, ClientExit, serverVars
    <3>2. QED
      BY <2>3, <3>1 DEF SendTextFails, ClientExit, TypeInv, TypeOK, QueuesTypeOK, serverVars,
         QueuesHeld
  <2>4. CASE \/ register_client(d) \/ RegisterFails(d) \/ StartThreads(d) \/ Sigint(d)
             \/ EarlySigint(d) \/ disconnect_client(d) \/ Kill(d) \/ Type(d) \/ SendText(d)
             \/ SenderCancelled(d) \/ Receive(d)
    BY <2>4 DEF register_client, RegisterFails, StartThreads, Sigint, EarlySigint,
       disconnect_client, Kill, Type, SendText, SenderCancelled, Receive, ClientDies,
       serverVars, QueuesHeld
  <2>5. QED
    BY <1>3, <2>1, <2>2, <2>3, <2>4 DEF ClientStep
<1>4. QED
  BY <1>1, <1>2, <1>3 DEF Next

\* If no user quits, get_client_index finds every requesting client.
LEMMA NoStranger ==
  ASSUME TypeInv, SenderInv, Quitters = {}
  PROVE  ~ServeStranger
<1> SUFFICES ASSUME ServeStranger PROVE FALSE
  OBVIOUS
<1>1. server_queue \in Seq(Request) /\ server_queue # <<>> /\ client_list \in Seq(Clients)
  BY DEF ServeStranger, TakeRequest, TypeInv, TypeOK, QueuesTypeOK, ServerTypeOK
<1>2. PICK r \in Request : r = Head(server_queue) /\ server_queue[1] = r
  BY <1>1, HeadTailProperties
<1>3. 1 \in 1..Len(server_queue)
  BY <1>1, EmptySeq, LenProperties
<1>4. r.type \in {"DISCONNECTION", "MESSAGE_INFO"} /\ ~IsRegistered(r.from)
  BY <1>2 DEF ServeStranger, TakeRequest
<1>5. Introduced(r.from, 1)
  BY <1>2, <1>3, <1>4 DEF SenderInv, RequestsInOrder, RequestInOrder, HasLeft
<1>6. Member(r.from)
  BY <1>1, <1>5, LenProperties DEF Introduced
<1>7. r.from \in Clients
  BY DEF Request
<1>8. QED
  BY <1>1, <1>4, <1>6, <1>7, IndexProperties DEF Member

\* If no user quits, msgsnd always finds the queue of the client.
LEMMA NoLostQueue ==
  ASSUME TypeInv, SenderInv, QueuesHeld, Quitters = {}
  PROVE  ~SendFails
<1> SUFFICES ASSUME SendFails PROVE FALSE
  OBVIOUS
<1>1. Sending /\ client_list[si] \in Clients
  BY ResponseType DEF SendFails, Sending
<1>2. Member(client_list[si])
  BY <1>1 DEF TypeInv, LoopsInBounds, Member
<1>3. serverId[client_list[si]] = run
  BY <1>1, <1>2 DEF SenderInv, MembersArrived
<1>4. QED
  BY <1>1, <1>3 DEF QueuesHeld, SendFails, Sending

\* Whatever the clients do, crash or are killed with their queues full: as long as
\* none of them quits with Ctrl-C, serve_request never comes to an err_exit.
THEOREM ServerSurvives == Quitters = {} => (Spec => []ServerEndsOnRequest)
<1> SUFFICES ASSUME Quitters = {} PROVE Spec => []ServerEndsOnRequest
  OBVIOUS
<1> DEFINE Inv == TypeInv /\ SenderInv /\ QueuesHeld /\ ServerEndsOnRequest
<1>1. Init => Inv
  BY TypeInvInit, SenderInvInit DEF Init, QueuesHeld, ServerEndsOnRequest
<1>2. Inv /\ [Next]_vars => Inv'
  <2> SUFFICES ASSUME Inv, [Next]_vars PROVE Inv'
    OBVIOUS
  <2>1. (TypeInv /\ SenderInv /\ QueuesHeld)'
    BY TypeInvStep, SenderInvStep, QueuesHeldStep
  <2>2. ServerEndsOnRequest'
    <3>1. ~ServeStranger /\ ~SendFails
      BY NoStranger, NoLostQueue
    <3>2. CASE UNCHANGED exit_cause
      BY <3>2 DEF ServerEndsOnRequest
    <3>3. CASE ServerStart \/ ServerSigint \/ ServerKill
      BY <3>3 DEF ServerStart, ServerSigint, ServerKill, ServerExit, ServerEndsOnRequest
    <3>4. UNCHANGED exit_cause \/ ServerStart \/ ServerSigint \/ ServerKill
      BY <3>1 DEF Next, ServerStep, ServeRegistration, ServeDisconnection, ServeMessage,
         SendResponse, ClientStep, Connect, register_client, RegisterFails, StartThreads,
         Sigint, EarlySigint, disconnect_client, DisconnectFails, remove_queues, Kill, Type,
         SendText, SendTextFails, SenderCancelled, Receive, ClientExit, ClientDies,
         serverVars, vars
    <3>5. QED
      BY <3>2, <3>3, <3>4
  <2>3. QED
    BY <2>1, <2>2
<1>3. Inv => ServerEndsOnRequest
  OBVIOUS
<1>4. QED
  BY <1>1, <1>2, <1>3, PTL DEF Spec

-----------------------------------------------------------------------------
(* The numbers of the texts.  The texts of a client in the history, and    *)
(* after them those in the server's queue, have the numbers 1, 2, 3, ...   *)

\* How many of the first i messages of s are by c.
Count(s, c, i) == Cardinality({j \in 1..i : s[j].from = c})

Written(r, c, i) == Count(message_list[r], c, i)

Total(c) == Written(run, c, Len(history))

IsTextOf(c, k) == server_queue[k].type = "MESSAGE_INFO" /\ server_queue[k].from = c

\* A client that has a text to send, or may type one.
Active(c) == phase[c] \in {"off", "connected", "registered", "chatting"} \/ sender[c] = "msgsnd"

\* The last number c has sent.
LastSent(c) == IF sender[c] = "msgsnd" THEN typed[c] - 1 ELSE typed[c]

\* The texts of c that wait have the numbers up to s that are not in the history,
\* in this order.
Waiting(c, s) ==
  /\ Total(c) <= s
  /\ \A k \in 1..Len(server_queue) : IsTextOf(c, k) => server_queue[k].n \in Total(c) + 1 .. s
  /\ \A n \in Total(c) + 1 .. s :
       \E k \in 1..Len(server_queue) : IsTextOf(c, k) /\ server_queue[k].n = n
  /\ \A k, l \in 1..Len(server_queue) :
       IsTextOf(c, k) /\ IsTextOf(c, l) /\ k < l => server_queue[k].n < server_queue[l].n
  /\ Active(c) => s = LastSent(c)

AuthorsAttend ==
  \A r \in 0..MaxRuns : \A i \in 1..Len(message_list[r]) :
    /\ serverId[message_list[r][i].from] = r
    /\ phase[message_list[r][i].from] # "off"

NumbersRight ==
  \A r \in 0..MaxRuns : \A i \in 1..Len(message_list[r]) :
    message_list[r][i].n = Written(r, message_list[r][i].from, i)

NothingTyped ==
  \A c \in Clients :
    phase[c] \in {"off", "connected", "registered"} => typed[c] = 0 /\ sender[c] = "keyboard"

TextsWait ==
  \A c \in Clients : serverId[c] = run /\ pc # "down" => \E s \in Nat : Waiting(c, s)

NumbersInv == AuthorsAttend /\ NumbersRight /\ NothingTyped /\ TextsWait

LEMMA CountNext ==
  ASSUME NEW s, NEW t, NEW c, NEW n \in Nat, \A j \in 1..n : t[j] = s[j]
  PROVE  /\ \A i \in 0..n : Count(t, c, i) = Count(s, c, i)
         /\ Count(s, c, n) \in Nat
         /\ Count(t, c, n + 1) = IF t[n + 1].from = c THEN Count(s, c, n) + 1 ELSE Count(s, c, n)
<1> DEFINE A == {j \in 1..n : s[j].from = c}
           B == {j \in 1..n + 1 : t[j].from = c}
<1>1. IsFiniteSet(A) /\ Cardinality(A) \in Nat
  <2>1. IsFiniteSet(1..n) /\ A \subseteq 1..n
    BY FS_Interval
  <2> QED
    BY <2>1, FS_Subset, FS_CardinalityType
<1>2. n + 1 \notin A
  OBVIOUS
<1>3. B = IF t[n + 1].from = c THEN A \cup {n + 1} ELSE A
  <2>1. \A j \in 1..n + 1 : j \in 1..n \/ j = n + 1
    OBVIOUS
  <2>2. 1..n \subseteq 1..n + 1 /\ n + 1 \in 1..n + 1
    OBVIOUS
  <2> QED
    BY <2>1, <2>2
<1>4. ASSUME NEW i \in 0..n PROVE Count(t, c, i) = Count(s, c, i)
  <2>1. 1..i \subseteq 1..n
    OBVIOUS
  <2>2. {j \in 1..i : t[j].from = c} = {j \in 1..i : s[j].from = c}
    BY <2>1
  <2> QED
    BY <2>2 DEF Count
<1> HIDE DEF A, B
<1>5. Cardinality(B) = IF t[n + 1].from = c THEN Cardinality(A) + 1 ELSE Cardinality(A)
  BY <1>1, <1>2, <1>3, FS_AddElement
<1>6. Count(s, c, n) = Cardinality(A) /\ Count(t, c, n + 1) = Cardinality(B)
  BY DEF Count, A, B
<1> QED
  BY <1>1, <1>4, <1>5, <1>6

LEMMA TailFacts ==
  ASSUME NEW S, NEW q \in Seq(S), q # <<>>
  PROVE  /\ Len(q) \in Nat \ {0} /\ Len(Tail(q)) = Len(q) - 1
         /\ \A k \in 1..Len(q) - 1 : Tail(q)[k] = q[k + 1]
         /\ Head(q) = q[1] /\ q[1] \in S
<1>1. Len(q) \in Nat \ {0}
  BY EmptySeq
<1>2. /\ Len(Tail(q)) = Len(q) - 1
      /\ \A k \in 1..Len(Tail(q)) : Tail(q)[k] = q[k + 1]
      /\ Head(q) = q[1] /\ Head(q) \in S
  BY HeadTailProperties
<1> QED
  BY <1>1, <1>2

LEMMA TotalType ==
  ASSUME TypeInv, NEW c \in Clients
  PROVE  /\ history \in Seq(Message) /\ Len(history) \in Nat /\ Total(c) \in Nat
         /\ server_queue \in Seq(Request) /\ Len(server_queue) \in Nat
         /\ \A k \in 1..Len(server_queue) : server_queue[k] \in Request
         /\ \A k \in 1..Len(server_queue) : IsTextOf(c, k) => server_queue[k].n \in 1..MaxTyped
<1>1. history \in Seq(Message) /\ server_queue \in Seq(Request)
  BY DEF TypeInv, TypeOK, ServerTypeOK, QueuesTypeOK, history
<1>2. Len(history) \in Nat /\ Len(server_queue) \in Nat
  BY <1>1, LenProperties
<1>3. Total(c) \in Nat
  BY <1>2, CountNext DEF Total, Written
<1>4. \A k \in 1..Len(server_queue) : server_queue[k] \in Request
  BY <1>1, ElementOfSeq
<1>5. \A k \in 1..Len(server_queue) : IsTextOf(c, k) => server_queue[k].n \in 1..MaxTyped
  BY <1>4 DEF Request, IsTextOf
<1> QED
  BY <1>1, <1>2, <1>3, <1>4, <1>5

\* A step that leaves the history alone and adds at most a request of another kind or
\* of another client.
LEMMA WaitingKept ==
  ASSUME TypeInv, NEW c \in Clients, NEW s \in Nat, Waiting(c, s),
         Total(c)' = Total(c), Active(c)' => Active(c) /\ LastSent(c)' = LastSent(c),
         \/ server_queue' = server_queue
         \/ \E r \in Request : /\ server_queue' = Append(server_queue, r)
                               /\ r.type # "MESSAGE_INFO" \/ r.from # c
  PROVE  Waiting(c, s)'
<1>1. CASE server_queue' = server_queue
  <2>1. \A k : IsTextOf(c, k)' <=> IsTextOf(c, k)
    BY <1>1 DEF IsTextOf
  <2> QED
    BY <1>1, <2>1 DEF Waiting
<1>2. CASE \E r \in Request : /\ server_queue' = Append(server_queue, r)
                              /\ r.type # "MESSAGE_INFO" \/ r.from # c
  <2>1. PICK r \in Request : /\ server_queue' = Append(server_queue, r)
                             /\ r.type # "MESSAGE_INFO" \/ r.from # c
    BY <1>2
  <2>2. PICK n \in Nat : n = Len(server_queue)
    BY TotalType
  <2>3. /\ Len(server_queue') = n + 1
        /\ \A k \in 1..n : server_queue'[k] = server_queue[k]
        /\ server_queue'[n + 1] = r
    BY <2>1, <2>2, TotalType, AppendProperties
  <2>4. /\ \A k \in 1..n : k \in 1..n + 1 /\ (IsTextOf(c, k)' <=> IsTextOf(c, k))
        /\ ~IsTextOf(c, n + 1)'
    BY <2>1, <2>3 DEF IsTextOf
  <2>5. \A k \in 1..n + 1 : IsTextOf(c, k)' => k \in 1..n /\ IsTextOf(c, k)
    BY <2>4
  <2>6. /\ \A k \in 1..n + 1 : IsTextOf(c, k)' => server_queue'[k].n \in Total(c) + 1 .. s
        /\ \A i \in Total(c) + 1 .. s :
             \E k \in 1..n + 1 : IsTextOf(c, k)' /\ server_queue'[k].n = i
        /\ \A k, l \in 1..n + 1 : IsTextOf(c, k)' /\ IsTextOf(c, l)' /\ k < l
                                    => server_queue'[k].n < server_queue'[l].n
    BY <2>2, <2>3, <2>4, <2>5 DEF Waiting
  <2> QED
    BY <2>3, <2>6 DEF Waiting
<1> QED
  BY <1>1, <1>2

\* msgsnd in handle_message appends the next number.
LEMMA WaitingSend ==
  ASSUME TypeInv, NEW c \in Clients, NEW s \in Nat, Waiting(c, s), SendText(c)
  PROVE  Waiting(c, s + 1)'
<1>1. /\ sender[c] = "msgsnd" /\ typed[c] \in Nat /\ sender'[c] = "keyboard" /\ typed' = typed
      /\ Total(c)' = Total(c) /\ Total(c) \in Nat
  BY TotalType DEF SendText, TypeInv, TypeOK, ClientsTypeOK, Total, Written, history, serverVars
<1>2. s = typed[c] - 1 /\ LastSent(c)' = s + 1
  BY <1>1 DEF Waiting, Active, LastSent
<1> DEFINE r == [type |-> "MESSAGE_INFO", from |-> c, n |-> typed[c]]
<1>3. r \in Request /\ server_queue' = Append(server_queue, r)
  BY DEF SendText, SendRequest, TypeInv, TypeOK, ClientsTypeOK, Request
<1>4. PICK n \in Nat : n = Len(server_queue)
  BY TotalType
<1>5. /\ Len(server_queue') = n + 1
      /\ \A k \in 1..n : server_queue'[k] = server_queue[k]
      /\ server_queue'[n + 1] = r
  <2> HIDE DEF r
  <2> QED
    BY <1>3, <1>4, TotalType, AppendProperties
<1>6. /\ \A k \in 1..n : k \in 1..n + 1 /\ (IsTextOf(c, k)' <=> IsTextOf(c, k))
      /\ n + 1 \in 1..n + 1 /\ IsTextOf(c, n + 1)' /\ server_queue'[n + 1].n = s + 1
  <2>1. r.type = "MESSAGE_INFO" /\ r.from = c /\ r.n = s + 1
    BY <1>1, <1>2
  <2> HIDE DEF r
  <2>2. n + 1 \in 1..n + 1 /\ 1..n \subseteq 1..n + 1
    OBVIOUS
  <2> QED
    BY <1>5, <2>1, <2>2 DEF IsTextOf
<1>7. \A k \in 1..n + 1 : k \in 1..n \/ k = n + 1
  OBVIOUS
<1>8. Total(c) <= s /\ s + 1 \in Total(c) + 1 .. s + 1
  BY <1>1 DEF Waiting
<1>9. \A k \in 1..n + 1 : IsTextOf(c, k)' => server_queue'[k].n \in Total(c) + 1 .. s + 1
  <2>1. \A i \in Total(c) + 1 .. s : i \in Total(c) + 1 .. s + 1
    BY <1>1
  <2> QED
    BY <1>4, <1>5, <1>6, <1>7, <1>8, <2>1 DEF Waiting
<1>10. \A i \in Total(c) + 1 .. s + 1 :
         \E k \in 1..n + 1 : IsTextOf(c, k)' /\ server_queue'[k].n = i
  <2>1. \A i \in Total(c) + 1 .. s + 1 : i \in Total(c) + 1 .. s \/ i = s + 1
    BY <1>1
  <2> QED
    BY <1>4, <1>5, <1>6, <2>1 DEF Waiting
<1>11. ASSUME NEW k \in 1..n + 1, NEW l \in 1..n + 1, IsTextOf(c, k)', IsTextOf(c, l)', k < l
       PROVE  server_queue'[k].n < server_queue'[l].n
  <2>1. k \in 1..n
    BY <1>11
  <2>2. CASE l \in 1..n
    BY <1>4, <1>5, <1>6, <1>11, <2>1, <2>2 DEF Waiting
  <2>3. CASE l = n + 1
    <3>1. server_queue'[k].n \in Total(c) + 1 .. s
      BY <1>4, <1>5, <1>6, <1>11, <2>1 DEF Waiting
    <3> QED
      BY <1>1, <1>6, <2>3, <3>1
  <2> QED
    BY <1>7, <2>2, <2>3
<1>12. Total(c)' <= s + 1 /\ (Active(c)' => s + 1 = LastSent(c)')
  BY <1>1, <1>2, <1>8
<1> HIDE DEF r
<1> QED
  BY <1>1, <1>5, <1>9, <1>10, <1>11, <1>12 DEF Waiting

\* The server takes the first request.
LEMMA WaitingTaken ==
  ASSUME TypeInv, NEW c \in Clients, NEW s \in Nat, Waiting(c, s),
         server_queue # <<>>, server_queue' = Tail(server_queue),
         Total(c)' = IF IsTextOf(c, 1) THEN Total(c) + 1 ELSE Total(c),
         UNCHANGED clientVars
  PROVE  Waiting(c, s)' /\ (IsTextOf(c, 1) => server_queue[1].n = Total(c) + 1)
<1>1. PICK n \in Nat :
        /\ Len(server_queue) = n + 1 /\ Len(server_queue') = n
        /\ \A k \in 1..n : server_queue'[k] = server_queue[k + 1]
  <2>1. /\ Len(server_queue) \in Nat \ {0} /\ Len(Tail(server_queue)) = Len(server_queue) - 1
        /\ \A k \in 1..Len(server_queue) - 1 : Tail(server_queue)[k] = server_queue[k + 1]
    BY TotalType, TailFacts
  <2>2. Len(server_queue) - 1 \in Nat
    BY <2>1
  <2> WITNESS Len(server_queue) - 1 \in Nat
  <2> QED
    BY <2>1
<1>2. Total(c) \in Nat /\ Total(c) <= s
  BY TotalType DEF Waiting
<1>3. \A k \in 1..n : k + 1 \in 1..n + 1 /\ (IsTextOf(c, k)' <=> IsTextOf(c, k + 1))
  BY <1>1 DEF IsTextOf
<1>4. \A k \in 1..n + 1 : IsTextOf(c, k) =>
        server_queue[k].n \in Total(c) + 1 .. s
  BY <1>1 DEF Waiting
<1>5. \A k, l \in 1..n + 1 :
        IsTextOf(c, k) /\ IsTextOf(c, l) /\ k < l => server_queue[k].n < server_queue[l].n
  BY <1>1 DEF Waiting
<1>6. \A i \in Total(c) + 1 .. s : \E k \in 1..n + 1 : IsTextOf(c, k) /\ server_queue[k].n = i
  BY <1>1 DEF Waiting
<1>7. \A k \in 1..n + 1 : k = 1 \/ (k - 1 \in 1..n /\ (k - 1) + 1 = k /\ 1 < k)
  OBVIOUS
<1>8. ASSUME IsTextOf(c, 1) PROVE server_queue[1].n = Total(c) + 1
  <2>1. 1 \in 1..n + 1
    OBVIOUS
  <2>2. server_queue[1].n \in Total(c) + 1 .. s
    BY <1>4, <1>8, <2>1
  <2>3. Total(c) + 1 \in Total(c) + 1 .. s
    BY <1>2, <2>2
  <2>4. PICK k \in 1..n + 1 : IsTextOf(c, k) /\ server_queue[k].n = Total(c) + 1
    BY <1>6, <2>3
  <2>5. 1 < k => server_queue[1].n < server_queue[k].n
    BY <1>5, <1>8, <2>1, <2>4
  <2>6. k = 1 \/ 1 < k
    BY <1>7
  <2> QED
    BY <1>2, <2>2, <2>4, <2>5, <2>6
<1>9. ASSUME NEW k \in 1..n, IsTextOf(c, k)'
      PROVE  server_queue'[k].n \in Total(c)' + 1 .. s
  <2>1. k + 1 \in 1..n + 1 /\ 1 < k + 1 /\ 1 \in 1..n + 1 /\ IsTextOf(c, k + 1)
        /\ server_queue'[k] = server_queue[k + 1]
    BY <1>1, <1>3, <1>9
  <2>2. server_queue[k + 1].n \in Total(c) + 1 .. s
    BY <1>4, <2>1
  <2>3. CASE IsTextOf(c, 1)
    <3>1. server_queue[1].n < server_queue[k + 1].n
      BY <1>5, <2>1, <2>3
    <3>2. Total(c)' = Total(c) + 1 /\ Total(c) + 1 < server_queue[k + 1].n
      BY <1>8, <2>3, <3>1
    <3>3. \A b : b \in Total(c) + 1 .. s /\ Total(c) + 1 < b => b \in (Total(c) + 1) + 1 .. s
      BY <1>2
    <3>4. server_queue[k + 1].n \in (Total(c) + 1) + 1 .. s
      BY <2>2, <3>2, <3>3
    <3> QED
      BY <2>1, <3>2, <3>4
  <2>4. CASE ~IsTextOf(c, 1)
    BY <2>1, <2>2, <2>4
  <2> QED
    BY <2>3, <2>4
<1>10. ASSUME NEW i \in Total(c)' + 1 .. s
       PROVE  \E k \in 1..n : IsTextOf(c, k)' /\ server_queue'[k].n = i
  <2>1. i \in Total(c) + 1 .. s /\ (IsTextOf(c, 1) => i # Total(c) + 1)
    BY <1>2
  <2>2. PICK k \in 1..n + 1 : IsTextOf(c, k) /\ server_queue[k].n = i
    BY <1>6, <2>1
  <2>3. k # 1
    BY <1>8, <2>1, <2>2
  <2>4. k - 1 \in 1..n /\ (k - 1) + 1 = k
    BY <1>7, <2>3
  <2>5. server_queue'[k - 1] = server_queue[k] /\ IsTextOf(c, k - 1)'
    <3>1. server_queue'[k - 1] = server_queue[(k - 1) + 1]
      BY <1>1, <2>4
    <3> QED
      BY <2>2, <2>4, <3>1 DEF IsTextOf
  <2> QED
    BY <2>2, <2>4, <2>5
<1>11. ASSUME NEW k \in 1..n, NEW l \in 1..n, IsTextOf(c, k)', IsTextOf(c, l)', k < l
       PROVE  server_queue'[k].n < server_queue'[l].n
  <2>1. k + 1 < l + 1 /\ k + 1 \in 1..n + 1 /\ l + 1 \in 1..n + 1
    BY <1>11
  <2> QED
    BY <1>1, <1>3, <1>5, <1>11, <2>1
<1>12. Total(c)' <= s
  <2>1. IsTextOf(c, 1) => Total(c) + 1 <= s
    <3>1. 1 \in 1..n + 1
      OBVIOUS
    <3> QED
      BY <1>2, <1>4, <1>8, <3>1
  <2> QED
    BY <1>2, <2>1
<1>13. Active(c)' => s = LastSent(c)'
  BY DEF Waiting, Active, LastSent, clientVars
<1> QED
  BY <1>1, <1>8, <1>9, <1>10, <1>11, <1>12, <1>13 DEF Waiting

\* The text the server takes becomes the last of the history, with the next number.
LEMMA NumbersTaken ==
  ASSUME TypeInv, SenderInv, NumbersInv, ServeMessage
  PROVE  NumbersInv'
<1>1. PICK h \in Request : h = Head(server_queue)
  <2>1. server_queue \in Seq(Request) /\ server_queue # <<>>
    BY DEF ServeMessage, TakeRequest, TypeInv, TypeOK, QueuesTypeOK
  <2> QED
    BY <2>1, HeadTailProperties
<1>2. /\ server_queue # <<>> /\ server_queue' = Tail(server_queue) /\ UNCHANGED clientVars
      /\ pc # "down" /\ run' = run /\ h.type = "MESSAGE_INFO" /\ run \in 0..MaxRuns
      /\ message_list \in [0..MaxRuns -> Seq(Message)]
  BY <1>1 DEF ServeMessage, TakeRequest, TypeInv, TypeOK, ServerTypeOK
<1> DEFINE c == h.from
           m == [from |-> h.from, n |-> h.n]
<1>3. m \in Message /\ c \in Clients /\ m.from = c /\ m.n = h.n
  BY <1>2 DEF Request, Message
<1>4. message_list' = [message_list EXCEPT ![run] = Append(@, m)]
  BY <1>1 DEF ServeMessage, add_message
<1> HIDE DEF m
<1>5. PICK n \in Nat :
        /\ n = Len(history) /\ Len(message_list'[run]) = n + 1
        /\ message_list'[run][n + 1] = m
        /\ \A i \in 1..n : message_list'[run][i] = history[i]
  <2>1. history \in Seq(Message) /\ Len(history) \in Nat
    BY <1>3, TotalType
  <2>2. message_list'[run] = Append(history, m)
    BY <1>2, <1>4 DEF history
  <2>3. /\ Len(Append(history, m)) = Len(history) + 1
        /\ Append(history, m)[Len(history) + 1] = m
        /\ \A i \in 1..Len(history) : Append(history, m)[i] = history[i]
    BY <1>3, <2>1, AppendProperties
  <2> QED
    BY <2>1, <2>2, <2>3
<1>6. \A r \in 0..MaxRuns : r # run => message_list'[r] = message_list[r]
  BY <1>2, <1>4
<1>7. \A d \in Clients :
        /\ \A i \in 0..n : Count(message_list'[run], d, i) = Count(history, d, i)
        /\ Count(message_list'[run], d, n + 1)
             = IF d = c THEN Count(history, d, n) + 1 ELSE Count(history, d, n)
  <2> TAKE d \in Clients
  <2> DEFINE t == message_list'[run]
  <2>1. t[n + 1].from = c /\ \A j \in 1..n : t[j] = history[j]
    BY <1>3, <1>5
  <2> HIDE DEF t
  <2>2. /\ \A i \in 0..n : Count(t, d, i) = Count(history, d, i)
        /\ Count(t, d, n + 1) = IF t[n + 1].from = d THEN Count(history, d, n) + 1
                                                     ELSE Count(history, d, n)
    BY <2>1, CountNext
  <2> QED
    BY <2>1, <2>2 DEF t
<1>8. /\ Total(c)' = Total(c) + 1
      /\ \A d \in Clients : Total(d)' = IF d = c THEN Total(d) + 1 ELSE Total(d)
  BY <1>2, <1>3, <1>5, <1>7 DEF Total, Written, history
<1>9. server_queue[1] = h
  BY <1>1, <1>2, <1>3, TotalType, TailFacts
<1>10. \A d \in Clients : IsTextOf(d, 1) <=> d = c
  BY <1>2, <1>9 DEF IsTextOf
<1>11. serverId[c] = run /\ phase[c] # "off"
  <2>1. RequestInOrder(1)
    BY <1>2, <1>3, TotalType, TailFacts DEF SenderInv, RequestsInOrder
  <2> QED
    BY <1>9, <2>1 DEF RequestInOrder
<1>12. h.n = Total(c) + 1
  <2>1. PICK s \in Nat : Waiting(c, s)
    BY <1>2, <1>3, <1>11 DEF NumbersInv, TextsWait
  <2> QED
    BY <1>2, <1>3, <1>8, <1>9, <1>10, <2>1, WaitingTaken
<1>13. TextsWait'
  <2> SUFFICES ASSUME NEW d \in Clients, serverId[d] = run PROVE \E s \in Nat : Waiting(d, s)'
    BY <1>2 DEF TextsWait, clientVars
  <2>1. PICK s \in Nat : Waiting(d, s)
    BY <1>2 DEF NumbersInv, TextsWait
  <2> QED
    BY <1>2, <1>8, <1>10, <2>1, WaitingTaken
<1>14. \A i \in 1..n + 1 : i \in 1..n \/ i = n + 1
  OBVIOUS
<1>15. AuthorsAttend'
  <2>1. \A i \in 1..n + 1 : /\ serverId[message_list'[run][i].from] = run
                            /\ phase[message_list'[run][i].from] # "off"
    <3>1. \A i \in 1..n : /\ serverId[history[i].from] = run /\ phase[history[i].from] # "off"
      BY <1>2, <1>5 DEF NumbersInv, AuthorsAttend, history
    <3>2. message_list'[run][n + 1].from = c
      BY <1>3, <1>5
    <3> QED
      BY <1>5, <1>11, <1>14, <3>1, <3>2
  <2> QED
    BY <1>2, <1>5, <1>6, <2>1 DEF NumbersInv, AuthorsAttend, clientVars
<1>16. NumbersRight'
  <2>1. \A i \in 1..n + 1 :
          message_list'[run][i].n = Count(message_list'[run], message_list'[run][i].from, i)
    <3>1. ASSUME NEW i \in 1..n
          PROVE  message_list'[run][i].n = Count(message_list'[run], message_list'[run][i].from, i)
      <4>1. history[i].n = Count(history, history[i].from, i)
        BY <1>2, <1>5 DEF NumbersInv, NumbersRight, Written, history
      <4>2. history[i].from \in Clients
        <5>1. history \in Seq(Message) /\ i \in 1..Len(history)
          BY <1>3, <1>5, TotalType
        <5>2. history[i] \in Message
          BY <5>1, ElementOfSeq
        <5> QED
          BY <5>2 DEF Message
      <4> QED
        BY <1>5, <1>7, <4>1, <4>2
    <3>2. m.n = Count(message_list'[run], m.from, n + 1)
      BY <1>3, <1>5, <1>7, <1>12 DEF Total, Written, history
    <3> QED
      BY <1>5, <1>14, <3>1, <3>2
  <2>2. \A r \in 0..MaxRuns : r # run =>
          \A i \in 1..Len(message_list'[r]) :
            message_list'[r][i].n = Count(message_list'[r], message_list'[r][i].from, i)
    BY <1>6 DEF NumbersInv, NumbersRight, Written
  <2> QED
    BY <1>5, <2>1, <2>2 DEF NumbersRight, Written
<1>17. NothingTyped'
  BY <1>2 DEF NumbersInv, NothingTyped, clientVars
<1> QED
  BY <1>13, <1>15, <1>16, <1>17 DEF NumbersInv

LEMMA AuthorFacts ==
  ASSUME TypeInv, NumbersInv, NEW r \in 0..MaxRuns, NEW i \in 1..Len(message_list[r])
  PROVE  /\ message_list[r][i].from \in Clients
         /\ serverId[message_list[r][i].from] = r
         /\ phase[message_list[r][i].from] # "off"
<1>1. message_list[r] \in Seq(Message)
  BY DEF TypeInv, TypeOK, ServerTypeOK
<1>2. message_list[r][i] \in Message
  BY <1>1, ElementOfSeq
<1> QED
  BY <1>2 DEF Message, NumbersInv, AuthorsAttend

LEMMA NumbersInvStep ==
  ASSUME TypeInv, TypeInv', SenderInv, NumbersInv, [Next]_vars
  PROVE  NumbersInv'
<1>7. \A r \in 0..MaxRuns : \A i \in 1..Len(message_list[r]) :
        \E a \in Clients : a = message_list[r][i].from /\ serverId[a] = r /\ phase[a] # "off"
  BY AuthorFacts
<1>8. \A c \in Clients : phase[c] = "off" => \A i \in 1..Len(history) : history[i].from # c
  <2>1. run \in 0..MaxRuns
    BY DEF TypeInv, TypeOK, ServerTypeOK
  <2> QED
    BY <1>7, <2>1 DEF history
<1> USE DEF TypeInv, TypeOK, ServerTypeOK, ClientsTypeOK
<1>1. CASE ServeMessage
  BY <1>1, NumbersTaken
<1>2. CASE ServerStart
  <2>1. UNCHANGED <<message_list, clientVars>> /\ \A c \in Clients : serverId'[c] # run'
    BY <1>2 DEF ServerStart, clientVars, SenderInv, ClientsConsistent
  <2> QED
    BY <2>1 DEF NumbersInv, AuthorsAttend, NumbersRight, Written, NothingTyped, TextsWait, clientVars
<1>3. CASE ServerSigint \/ ServeStranger \/ SendFails
  <2>1. UNCHANGED <<message_list, clientVars>> /\ pc' = "down"
    BY <1>3 DEF ServerSigint, ServeStranger, SendFails, ServerExit
  <2> QED
    BY <2>1 DEF NumbersInv, AuthorsAttend, NumbersRight, Written, NothingTyped, TextsWait, clientVars
<1>4. CASE ServeRegistration \/ ServeDisconnection
  <2>1. /\ UNCHANGED <<message_list, clientVars, run>> /\ pc # "down"
        /\ server_queue # <<>> /\ server_queue' = Tail(server_queue)
        /\ Head(server_queue).type # "MESSAGE_INFO"
    BY <1>4 DEF ServeRegistration, ServeDisconnection, TakeRequest
  <2>2. \A c \in Clients : ~IsTextOf(c, 1) /\ Total(c)' = Total(c)
    BY <2>1, TotalType, TailFacts DEF IsTextOf, Total, Written, history
  <2>3. TextsWait'
    <3> SUFFICES ASSUME NEW c \in Clients, serverId[c] = run PROVE \E s \in Nat : Waiting(c, s)'
      BY <2>1 DEF TextsWait, clientVars
    <3>1. PICK s \in Nat : Waiting(c, s)
      BY <2>1 DEF NumbersInv, TextsWait
    <3> QED
      BY <2>1, <2>2, <3>1, WaitingTaken
  <2> QED
    BY <2>1, <2>3 DEF NumbersInv, AuthorsAttend, NumbersRight, Written, NothingTyped, clientVars
<1>5. CASE ServerKill \/ SendResponse \/ UNCHANGED vars
  <2>1. UNCHANGED <<message_list, clientVars, run, server_queue>> /\ (pc' # "down" => pc # "down")
    BY <1>5 DEF ServerKill, SendResponse, AdvanceLoops, NextLoop, vars, serverVars
  <2>2. \A c \in Clients : /\ Total(c)' = Total(c) /\ (Active(c)' <=> Active(c))
                           /\ LastSent(c)' = LastSent(c)
    BY <2>1 DEF Total, Written, history, Active, LastSent, clientVars
  <2>3. TextsWait'
    BY <2>1, <2>2, WaitingKept DEF NumbersInv, TextsWait, clientVars
  <2> QED
    BY <2>1, <2>3 DEF NumbersInv, AuthorsAttend, NumbersRight, Written, NothingTyped, clientVars
<1>6. ASSUME NEW c \in Clients, ClientStep(c) PROVE NumbersInv'
  <2>1. UNCHANGED <<message_list, run, pc>>
    BY <1>6 DEF ClientStep, Connect, register_client, RegisterFails, StartThreads, Sigint,
       EarlySigint, disconnect_client, DisconnectFails, remove_queues, Kill, Type, SendText,
       SendTextFails, SenderCancelled, Receive, ClientExit, ClientDies, serverVars
  <2>2. \A d \in Clients : Total(d)' = Total(d)
    BY <2>1 DEF Total, Written, history
  <2>3. NumbersRight'
    BY <2>1 DEF NumbersInv, NumbersRight, Written
  <2>9. /\ c \in Clients /\ DOMAIN phase = Clients /\ DOMAIN serverId = Clients
        /\ DOMAIN typed = Clients /\ DOMAIN sender = Clients
    BY DEF TypeInv, TypeOK, ClientsTypeOK
  <2>4. \A d \in Clients \ {c} :
          phase'[d] = phase[d] /\ serverId'[d] = serverId[d] /\ typed'[d] = typed[d]
          /\ sender'[d] = sender[d]
    <3>1. CASE Connect(c) \/ register_client(c) \/ StartThreads(c) \/ Sigint(c) \/ Type(c)
      BY ONLY <2>9, <3>1 DEF Connect, register_client, StartThreads, Sigint, Type
    <3>2. CASE disconnect_client(c) \/ SendText(c) \/ SenderCancelled(c) \/ Receive(c)
      BY ONLY <2>9, <3>2 DEF disconnect_client, SendText, SenderCancelled, Receive
    <3>3. CASE \/ RegisterFails(c) \/ EarlySigint(c) \/ remove_queues(c) \/ Kill(c)
               \/ DisconnectFails(c) \/ SendTextFails(c)
      BY ONLY <2>9, <3>3 DEF RegisterFails, EarlySigint, remove_queues, Kill, DisconnectFails,
         SendTextFails, ClientExit, ClientDies
    <3> QED
      BY <1>6, <3>1, <3>2, <3>3 DEF ClientStep
  <2>5. /\ phase'[c] # "off"
        /\ serverId'[c] = serverId[c] \/ phase[c] = "off"
    BY <1>6 DEF ClientStep, Connect, register_client, RegisterFails, StartThreads, Sigint,
       EarlySigint, disconnect_client, DisconnectFails, remove_queues, Kill, Type, SendText,
       SendTextFails, SenderCancelled, Receive, ClientExit, ClientDies, SenderInv, ClientsConsistent
  <2>6. AuthorsAttend'
    <3>1. ASSUME NEW r \in 0..MaxRuns, NEW i \in 1..Len(message_list[r])
          PROVE  /\ serverId'[message_list[r][i].from] = r
                 /\ phase'[message_list[r][i].from] # "off"
      <4>1. PICK a \in Clients :
              a = message_list[r][i].from /\ serverId[a] = r /\ phase[a] # "off"
        BY <1>7
      <4> QED
        BY <2>4, <2>5, <4>1
    <3> QED
      BY <2>1, <3>1 DEF AuthorsAttend
  <2>7. NothingTyped'
    <3>1. phase'[c] \in {"connected", "registered"} => typed'[c] = 0 /\ sender'[c] = "keyboard"
      BY <1>6 DEF NumbersInv, NothingTyped, ClientStep, Connect, register_client, RegisterFails,
         StartThreads, Sigint, EarlySigint, disconnect_client, DisconnectFails, remove_queues,
         Kill, Type, SendText, SendTextFails, SenderCancelled, Receive, ClientExit, ClientDies,
         SenderInv, ClientsConsistent
    <3> QED
      BY <2>4, <2>5, <3>1 DEF NumbersInv, NothingTyped
  <2>8. ASSUME NEW d \in Clients, serverId'[d] = run, pc # "down"
        PROVE  \E s \in Nat : Waiting(d, s)'
    <3>1. CASE Connect(c) /\ d = c
      <4>1. phase[c] = "off" /\ UNCHANGED <<server_queue, sender, typed>>
        BY <3>1 DEF Connect
      <4>2. Total(c) = 0
        <5>1. \A i \in 1..Len(history) : history[i].from # c
          BY <1>8, <4>1
        <5>2. {j \in 1..Len(history) : history[j].from = c} = {}
          BY <5>1
        <5> QED
          BY <5>2, FS_EmptySet DEF Total, Written, Count, history
      <4>3. \A k \in 1..Len(server_queue) : ~IsTextOf(c, k)
        BY <4>1 DEF SenderInv, RequestsInOrder, RequestInOrder, IsTextOf
      <4>4. \A k \in 1..Len(server_queue') : ~IsTextOf(c, k)'
        BY <4>1, <4>3 DEF IsTextOf
      <4>5. LastSent(c)' = 0
        BY <4>1 DEF NumbersInv, NothingTyped, LastSent
      <4>6. Waiting(c, 0)'
        <5>1. Total(c)' = 0 /\ \A i \in 0 + 1 .. 0 : FALSE
          BY <2>2, <4>2
        <5> QED
          BY <4>4, <4>5, <5>1 DEF Waiting
      <4> QED
        BY <3>1, <4>6
    <3>2. CASE ~(Connect(c) /\ d = c)
      <4>1. serverId[d] = run
        BY <1>6, <2>4, <2>8, <3>2 DEF ClientStep, Connect, register_client, RegisterFails,
           StartThreads, Sigint, EarlySigint, disconnect_client, DisconnectFails, remove_queues,
           Kill, Type, SendText, SendTextFails, SenderCancelled, Receive, ClientExit, ClientDies
      <4>2. PICK s \in Nat : Waiting(d, s)
        BY <2>8, <4>1 DEF NumbersInv, TextsWait
      <4>3. CASE SendText(c) /\ d = c
        <5>1. Waiting(c, s + 1)'
          BY <4>2, <4>3, WaitingSend
        <5>2. s + 1 \in Nat
          OBVIOUS
        <5> QED
          BY <4>3, <5>1, <5>2
      <4>4. CASE ~(SendText(c) /\ d = c)
        <5>1. \/ server_queue' = server_queue
              \/ \E r \in Request : /\ server_queue' = Append(server_queue, r)
                                    /\ r.type # "MESSAGE_INFO" \/ r.from # d
          <6>1. CASE register_client(c) \/ disconnect_client(c)
            <7>1. PICK type \in {"REGISTRATION", "DISCONNECTION"} : SendRequest(c, type, 0)
              BY <6>1 DEF register_client, disconnect_client
            <7>2. [type |-> type, from |-> c, n |-> 0] \in Request
              BY DEF Request
            <7> QED
              BY <7>1, <7>2 DEF SendRequest
          <6>2. CASE SendText(c)
            <7>1. c # d
              BY <4>4, <6>2
            <7>2. [type |-> "MESSAGE_INFO", from |-> c, n |-> typed[c]] \in Request
              BY <6>2 DEF SendText, Request
            <7> QED
              BY <6>2, <7>1, <7>2 DEF SendText, SendRequest
          <6>3. CASE ~(register_client(c) \/ disconnect_client(c) \/ SendText(c))
            BY <1>6, <6>3 DEF ClientStep, Connect, RegisterFails, StartThreads, Sigint,
               EarlySigint, DisconnectFails, remove_queues, Kill, Type, SendTextFails,
               SenderCancelled, Receive, ClientExit, ClientDies
          <6> QED
            BY <6>1, <6>2, <6>3
        <5>2. Active(d)' => Active(d) /\ LastSent(d)' = LastSent(d)
          <6>1. CASE d # c
            BY <2>4, <6>1 DEF Active, LastSent
          <6>2. CASE d = c /\ Type(c)
            BY <6>2 DEF Type, Active, LastSent
          <6>3. CASE d = c /\ ~Type(c)
            <7>1. CASE Connect(c) \/ register_client(c) \/ StartThreads(c) \/ Sigint(c)
              BY ONLY <2>9, <6>3, <7>1 DEF Connect, register_client, StartThreads, Sigint, Active, LastSent
            <7>2. CASE disconnect_client(c) \/ SenderCancelled(c) \/ Receive(c)
              BY ONLY <2>9, <6>3, <7>2 DEF disconnect_client, SenderCancelled, Receive, Active,
                 LastSent
            <7>3. CASE \/ RegisterFails(c) \/ EarlySigint(c) \/ remove_queues(c) \/ Kill(c)
                       \/ DisconnectFails(c) \/ SendTextFails(c)
              BY ONLY <2>9, <6>3, <7>3 DEF RegisterFails, EarlySigint, remove_queues, Kill,
                 DisconnectFails, SendTextFails, ClientExit, ClientDies, Active, LastSent
            <7> QED
              BY <1>6, <4>4, <6>3, <7>1, <7>2, <7>3 DEF ClientStep
          <6> QED
            BY <6>1, <6>2, <6>3
        <5> QED
          BY <2>2, <4>2, <5>1, <5>2, WaitingKept
      <4> QED
        BY <4>3, <4>4
    <3> QED
      BY <3>1, <3>2
  <2> QED
    BY <2>1, <2>3, <2>6, <2>7, <2>8 DEF NumbersInv, TextsWait
<1> QED
  BY <1>1, <1>2, <1>3, <1>4, <1>5, <1>6 DEF Next, ServerStep

LEMMA NumbersInvInit == Init => NumbersInv
<1> SUFFICES ASSUME Init PROVE NumbersInv
  OBVIOUS
<1>1. \A r \in 0..MaxRuns : Len(message_list[r]) = 0
  BY EmptySeq DEF Init
<1> QED
  BY <1>1 DEF Init, NumbersInv, AuthorsAttend, NumbersRight, NothingTyped, TextsWait

\* The i-th text of the history that a client wrote is the i-th it typed: no text is
\* lost between two others, doubled or overtaken, whoever crashes between Type and
\* ServeMessage, or is cancelled in msgsnd by its handler.
THEOREM TextsInOrder == Spec => []HistoryInOrder
<1>1. TypeInv /\ NumbersInv => HistoryInOrder
  <2> SUFFICES ASSUME TypeInv, NumbersInv, NEW r \in 1..MaxRuns, NEW i \in DOMAIN message_list[r]
               PROVE  message_list[r][i].n
                        = Cardinality({j \in 1..i : message_list[r][j].from = message_list[r][i].from})
    BY DEF HistoryInOrder
  <2>1. r \in 0..MaxRuns /\ message_list[r] \in Seq(Message)
    BY DEF TypeInv, TypeOK, ServerTypeOK
  <2>2. i \in 1..Len(message_list[r])
    BY <2>1, LenProperties
  <2> QED
    BY <2>1, <2>2 DEF NumbersInv, NumbersRight, Written, Count
<1>2. Init => TypeInv /\ SenderInv /\ NumbersInv
  BY TypeInvInit, SenderInvInit, NumbersInvInit
<1>3. TypeInv /\ SenderInv /\ NumbersInv /\ [Next]_vars => (TypeInv /\ SenderInv /\ NumbersInv)'
  BY TypeInvStep, SenderInvStep, NumbersInvStep
<1> QED
  BY <1>1, <1>2, <1>3, PTL DEF Spec

-----------------------------------------------------------------------------
(* The client window.  lists[k] is the client list that the k-th link of a *)
(* client's chain was taken from: a snapshot, made while the client was    *)
(* registered.                                                             *)

\* A list of clients that names c, and nobody twice.
Snapshot(c, list) ==
  /\ \E i \in 1..Len(list) : list[i] = c
  /\ \A i, j \in 1..Len(list) : list[i] = list[j] => i = j

ClientLists == [Nat -> Seq(Clients)]

\* lists explains what is on its way to c: each response carries an item of its list,
\* what continues a list comes from the same one, and the server is still sending the
\* list it has begun.
Explains(c, lists) ==
  /\ \A k \in 0..Len(queue[c]) :
       Link(c, k).type = "CLIENT_INFO" /\ Link(c, k).list_size > 0 =>
         Snapshot(c, lists[k]) /\ Len(lists[k]) = Link(c, k).list_size
  /\ \A k \in 1..Len(queue[c]) :
       /\ queue[c][k].type = "CLIENT_INFO" => queue[c][k].item = lists[k][queue[c][k].pos]
       /\ Link(c, k - 1).pos < Link(c, k - 1).list_size => lists[k] = lists[k - 1]
  /\ batch[c].type = "CLIENT_INFO" =>
       \A p \in 1..Len(batch[c].items) : batch[c].items[p] = lists[0][p]
  /\ Served(c) /\ HalfSent(c) /\ pc = "clients" => lists[Len(queue[c])] = client_list

WindowNames(c) == names[c] = <<>> \/ Snapshot(c, names[c])

NamesInv ==
  \A c \in Clients : /\ WindowNames(c)
                     /\ \E lists \in ClientLists : Explains(c, lists)

\* One msgsnd, link by link: the chain of the receiver gets one more.
LEMMA SentLinks ==
  ASSUME TypeInv, SenderInv, SendResponse
  PROVE  \E to \in Clients, n \in Nat :
           /\ to = client_list[si] /\ n = Len(queue[to]) /\ Len(queue'[to]) = n + 1
           /\ \A k \in 1..n : queue'[to][k] = queue[to][k]
           /\ queue'[to][n + 1] = resp
           /\ \A k \in 0..n : Link(to, k)' = Link(to, k)
           /\ Link(to, n + 1)' = [type |-> resp.type, list_size |-> LoopSize, pos |-> sj]
           /\ \A d \in Clients : d # to => queue'[d] = queue[d]
           /\ \A d \in Clients : d # to => \A k \in Nat : Link(d, k)' = Link(d, k)
           /\ Served(to)
           /\ sj \in 1..LoopSize /\ LoopSize \in Nat
           /\ UNCHANGED <<batch, shown, names, serverId, phase, queue_exists, run, client_list,
                          message_list>>
<1>1. Sending /\ client_list[si] \in Clients /\ resp \in Response
  BY ResponseType DEF SendResponse, Sending
<1>2. PICK to \in Clients : to = client_list[si]
  BY <1>1
<1>3. /\ queue_exists[to]
      /\ queue' = [queue EXCEPT ![to] = Append(@, resp)]
      /\ UNCHANGED <<batch, shown, names, serverId, phase, queue_exists, run, client_list,
                     message_list>>
  BY <1>2 DEF SendResponse, clientVars
<1>4. PICK n \in Nat :
        /\ n = Len(queue[to])
        /\ Len(queue'[to]) = n + 1
        /\ \A k \in 1..n : queue'[to][k] = queue[to][k]
        /\ queue'[to][n + 1] = resp
  <2>1. queue[to] \in Seq(Response) /\ queue'[to] = Append(queue[to], resp)
    BY <1>2, <1>3 DEF TypeInv, TypeOK, QueuesTypeOK
  <2> QED
    BY <1>1, <2>1, AppendProperties, LenProperties
<1>5. \A d \in Clients : d # to => queue'[d] = queue[d]
  BY <1>3 DEF TypeInv, TypeOK, QueuesTypeOK
<1>6. sj \in 1..LoopSize /\ LoopSize \in Nat /\ si \in 1..Len(client_list)
  BY <1>1, LenProperties DEF TypeInv, TypeOK, ServerTypeOK, LoopsInBounds, LoopSize, history
<1>7. Served(to)
  <2>1. Member(to)
    BY <1>2, <1>6 DEF Member
  <2> QED
    BY <1>1, <1>3, <2>1 DEF Served, Sending, SenderInv, MembersArrived
<1>8. /\ \A k \in 0..n : Link(to, k)' = Link(to, k)
      /\ Link(to, n + 1)' = [type |-> resp.type, list_size |-> LoopSize, pos |-> sj]
  BY <1>3, <1>4 DEF Link, resp
<1>9. \A d \in Clients : d # to => \A k \in Nat : Link(d, k)' = Link(d, k)
  BY <1>3, <1>5 DEF Link
<1> QED
  BY <1>2, <1>3, <1>4, <1>5, <1>6, <1>7, <1>8, <1>9

\* One msgrcv, link by link: the first link becomes the batch, the others move up.
LEMMA ReceivedLinks ==
  ASSUME TypeInv, FramingInv, NEW c \in Clients, Receive(c)
  PROVE  \E n \in Nat, r \in Response :
           /\ Len(queue[c]) = n + 1 /\ Len(queue'[c]) = n
           /\ r = queue[c][1] /\ r.pos \in 1..r.list_size
           /\ \A k \in 1..n : queue'[c][k] = queue[c][k + 1]
           /\ \A k \in 0..n : Link(c, k)' = Link(c, k + 1)
           /\ IF MidBatch(c)
              THEN /\ r.type = batch[c].type /\ r.list_size = batch[c].list_size
                   /\ r.pos = Len(batch[c].items) + 1
                   /\ batch'[c].items = Append(batch[c].items, r.item)
              ELSE r.pos = 1 /\ batch'[c].items = <<r.item>>
           /\ batch'[c].type = r.type /\ batch'[c].list_size = r.list_size
           /\ Len(batch'[c].items) = r.pos
           /\ names'[c] = IF IsWhole(batch'[c], "CLIENT_INFO") THEN batch'[c].items ELSE names[c]
           /\ shown'[c] = IF IsWhole(batch'[c], "MESSAGE_INFO") THEN batch'[c].items ELSE shown[c]
<1>1. PICK n \in Nat :
        /\ Len(queue[c]) = n + 1
        /\ Len(queue'[c]) = n
        /\ \A k \in 1..n : queue'[c][k] = queue[c][k + 1]
        /\ queue[c][1] = Head(queue[c])
  <2>1. queue[c] \in Seq(Response) /\ queue[c] # <<>> /\ queue'[c] = Tail(queue[c])
    BY DEF Receive, TypeInv, TypeOK, QueuesTypeOK
  <2>2. /\ Len(queue[c]) \in Nat \ {0}
        /\ Len(Tail(queue[c])) = Len(queue[c]) - 1
        /\ \A k \in 1..Len(Tail(queue[c])) : Tail(queue[c])[k] = queue[c][k + 1]
        /\ Head(queue[c]) = queue[c][1]
    BY <2>1, HeadTailProperties, EmptySeq
  <2>3. Len(Tail(queue[c])) \in Nat
    BY <2>2
  <2> WITNESS Len(Tail(queue[c])) \in Nat
  <2> QED
    BY <2>1, <2>2
<1>2. PICK r \in Response : r = queue[c][1]
  BY <1>1 DEF TypeInv, TypeOK, QueuesTypeOK
<1>3. /\ batch[c] \in Batch /\ batch'[c] = Received(batch[c], r)
      /\ names'[c] = IF IsWhole(batch'[c], "CLIENT_INFO") THEN batch'[c].items ELSE names[c]
      /\ shown'[c] = IF IsWhole(batch'[c], "MESSAGE_INFO") THEN batch'[c].items ELSE shown[c]
  BY <1>1, <1>2 DEF Receive, TypeInv, TypeOK, ClientsTypeOK
<1>4. Follows(Link(c, 0), Link(c, 1))
  <2>1. 1 \in 1..Len(queue[c]) /\ 1 - 1 = 0
    BY <1>1
  <2> QED
    BY <2>1 DEF FramingInv, LinksFollow
<1>5. r.pos \in 1..r.list_size
  BY <1>1, <1>2 DEF FramingInv, LinksInBounds
<1>6. /\ IF MidBatch(c)
         THEN /\ r.type = batch[c].type /\ r.list_size = batch[c].list_size
              /\ r.pos = Len(batch[c].items) + 1
              /\ batch'[c].items = Append(batch[c].items, r.item)
         ELSE r.pos = 1 /\ batch'[c].items = <<r.item>>
      /\ batch'[c].type = r.type /\ batch'[c].list_size = r.list_size
      /\ Len(batch'[c].items) = r.pos
  <2>1. CASE MidBatch(c)
    <3>1. r.type = batch[c].type /\ r.list_size = batch[c].list_size
          /\ r.pos = Len(batch[c].items) + 1
      BY <1>2, <1>4, <2>1 DEF Follows, Link, MidBatch
    <3>2. batch'[c] = [batch[c] EXCEPT !.items = Append(batch[c].items, r.item)]
      BY <1>3, <2>1 DEF Received, MidBatch
    <3>3. /\ batch'[c].type = batch[c].type
          /\ batch'[c].list_size = batch[c].list_size
          /\ batch'[c].items = Append(batch[c].items, r.item)
      BY <1>3, <3>2 DEF Batch
    <3>4. Len(Append(batch[c].items, r.item)) = Len(batch[c].items) + 1
      <4>1. batch[c].items \in Seq(Clients \cup Message) /\ r.item \in Clients \cup Message
        BY <1>3 DEF Batch, Response
      <4> QED
        BY <4>1, AppendProperties
    <3> QED
      BY <2>1, <3>1, <3>3, <3>4
  <2>2. CASE ~MidBatch(c)
    <3>1. r.pos = 1
      BY <1>2, <1>4, <2>2 DEF Follows, Link, MidBatch
    <3>2. batch'[c] = [type |-> r.type, list_size |-> r.list_size, items |-> <<r.item>>]
      BY <1>3, <2>2 DEF Received, MidBatch
    <3> QED
      BY <2>2, <3>1, <3>2
  <2> QED
    BY <2>1, <2>2
<1>7. \A k \in 0..n : Link(c, k)' = Link(c, k + 1)
  <2>1. Link(c, 0)' = Link(c, 0 + 1)
    BY <1>2, <1>6 DEF Link
  <2>2. ASSUME NEW k \in 1..n PROVE Link(c, k)' = Link(c, k + 1)
    BY <1>1 DEF Link
  <2> QED
    BY <2>1, <2>2
<1> QED
  BY <1>1, <1>2, <1>3, <1>5, <1>6, <1>7

\* What explained a chain explains it after a step that leaves it alone or, with the
\* client's queue, removes it.
LEMMA ExplainsKept ==
  ASSUME TypeInv, NEW c \in Clients, NEW lists \in ClientLists, Explains(c, lists),
         batch'[c] = batch[c],
         \/ /\ queue'[c] = queue[c]
            /\ (Served(c) /\ HalfSent(c) /\ pc = "clients")' =>
                 Served(c) /\ HalfSent(c) /\ pc = "clients" /\ client_list' = client_list
         \/ queue'[c] = <<>> /\ ~Served(c)'
  PROVE  Explains(c, lists)'
<1>1. CASE /\ queue'[c] = queue[c]
           /\ (Served(c) /\ HalfSent(c) /\ pc = "clients")' =>
                Served(c) /\ HalfSent(c) /\ pc = "clients" /\ client_list' = client_list
  <2>1. \A k \in 0..Len(queue[c]) : Link(c, k)' = Link(c, k)
    BY <1>1 DEF Link
  <2>2. \A k \in 1..Len(queue[c]) : Link(c, k - 1)' = Link(c, k - 1)
    BY <1>1 DEF Link
  <2>3. /\ \A k \in 0..Len(queue'[c]) :
             Link(c, k)'.type = "CLIENT_INFO" /\ Link(c, k)'.list_size > 0 =>
               Snapshot(c, lists[k]) /\ Len(lists[k]) = Link(c, k)'.list_size
        /\ \A k \in 1..Len(queue'[c]) :
             /\ queue'[c][k].type = "CLIENT_INFO" => queue'[c][k].item = lists[k][queue'[c][k].pos]
             /\ Link(c, k - 1)'.pos < Link(c, k - 1)'.list_size => lists[k] = lists[k - 1]
    BY <1>1, <2>1, <2>2 DEF Explains
  <2>4. batch'[c].type = "CLIENT_INFO" =>
          \A p \in 1..Len(batch'[c].items) : batch'[c].items[p] = lists[0][p]
    BY DEF Explains
  <2>5. (Served(c) /\ HalfSent(c) /\ pc = "clients")' => lists[Len(queue'[c])] = client_list'
    BY <1>1 DEF Explains
  <2> QED
    BY <2>3, <2>4, <2>5 DEF Explains
<1>2. CASE queue'[c] = <<>> /\ ~Served(c)'
  <2>1. Len(queue'[c]) = 0 /\ Link(c, 0)' = Link(c, 0)
    BY <1>2, EmptySeq DEF Link
  <2>2. Len(queue[c]) \in Nat
    BY LenProperties DEF TypeInv, TypeOK, QueuesTypeOK
  <2>3. \A k \in 0..Len(queue'[c]) : k = 0 /\ k \in 0..Len(queue[c])
    BY <2>1, <2>2
  <2>4. ~\E k \in 1..Len(queue'[c]) : TRUE
    BY <2>1
  <2>5. \A k \in 0..Len(queue'[c]) :
          Link(c, k)'.type = "CLIENT_INFO" /\ Link(c, k)'.list_size > 0 =>
            Snapshot(c, lists[k]) /\ Len(lists[k]) = Link(c, k)'.list_size
    BY <2>1, <2>3 DEF Explains
  <2>6. batch'[c].type = "CLIENT_INFO" =>
          \A p \in 1..Len(batch'[c].items) : batch'[c].items[p] = lists[0][p]
    BY DEF Explains
  <2> QED
    BY <1>2, <2>4, <2>5, <2>6 DEF Explains
<1> QED
  BY <1>1, <1>2

\* send_clients announces, and sends an item of, the list as it is.
LEMMA NamesSend ==
  ASSUME TypeInv, SenderInv, FramingInv, NamesInv, SendResponse
  PROVE  NamesInv'
<1>1. PICK to \in Clients, n \in Nat :
        /\ to = client_list[si] /\ n = Len(queue[to]) /\ Len(queue'[to]) = n + 1
        /\ \A k \in 1..n : queue'[to][k] = queue[to][k]
        /\ queue'[to][n + 1] = resp
        /\ \A k \in 0..n : Link(to, k)' = Link(to, k)
        /\ Link(to, n + 1)' = [type |-> resp.type, list_size |-> LoopSize, pos |-> sj]
        /\ \A d \in Clients : d # to => queue'[d] = queue[d]
        /\ Served(to)
        /\ sj \in 1..LoopSize /\ LoopSize \in Nat
        /\ UNCHANGED <<batch, names, serverId, queue_exists, run, client_list>>
  BY SentLinks
<1>1a. sj \in 1..LoopSize /\ LoopSize \in Nat
  BY <1>1
<1>1b. queue'[to][n + 1] = resp /\ \A k \in 1..n : queue'[to][k] = queue[to][k]
  BY <1>1
<1>1c. /\ \A k \in 0..n : Link(to, k)' = Link(to, k)
       /\ Link(to, n + 1)' = [type |-> resp.type, list_size |-> LoopSize, pos |-> sj]
  BY <1>1
<1>1d. n = Len(queue[to]) /\ Len(queue'[to]) = n + 1
  BY <1>1
<1>2. pc \in {"clients", "messages"} /\ (pc' = "clients" => pc = "clients")
  BY DEF SendResponse, AdvanceLoops, NextLoop
<1>3. \A d \in Clients : Served(d)' => Served(d)
  BY <1>1, <1>2 DEF Served
<1>4. ASSUME NEW d \in Clients, d # to PROVE \E lists \in ClientLists : Explains(d, lists)'
  <2>1. PICK lists \in ClientLists : Explains(d, lists)
    BY DEF NamesInv
  <2>2. ~HalfSent(d)'
    <3>1. sj' = 1 \/ si' = si
      BY DEF SendResponse, AdvanceLoops
    <3> QED
      BY <1>1, <1>4, <3>1 DEF HalfSent
  <2> QED
    BY <1>1, <1>4, <2>1, <2>2, ExplainsKept
<1>5. \E lists \in ClientLists : Explains(to, lists)'
  <2>0. 0 \in 0..n /\ batch'[to] = batch[to]
    BY <1>1
  <2>1. PICK lists \in ClientLists : Explains(to, lists)
    BY DEF NamesInv
  <2>1a. \A k \in 0..n :
           Link(to, k).type = "CLIENT_INFO" /\ Link(to, k).list_size > 0 =>
             Snapshot(to, lists[k]) /\ Len(lists[k]) = Link(to, k).list_size
    BY <1>1d, <2>1 DEF Explains
  <2>1b. \A k \in 1..n :
           /\ queue[to][k].type = "CLIENT_INFO" => queue[to][k].item = lists[k][queue[to][k].pos]
           /\ Link(to, k - 1).pos < Link(to, k - 1).list_size => lists[k] = lists[k - 1]
    BY <1>1d, <2>1 DEF Explains
  <2>2. client_list \in Seq(Clients)
    BY DEF TypeInv, TypeOK, ServerTypeOK
  <2>3. PICK next \in ClientLists :
          /\ \A k \in 0..n : next[k] = lists[k]
          /\ next[n + 1] = IF pc = "clients" THEN client_list ELSE lists[n]
    <3> DEFINE f == [lists EXCEPT ![n + 1] = IF pc = "clients" THEN client_list ELSE lists[n]]
    <3>1. /\ f \in ClientLists
          /\ \A k \in 0..n : f[k] = lists[k]
          /\ f[n + 1] = IF pc = "clients" THEN client_list ELSE lists[n]
      BY <2>2 DEF ClientLists
    <3> HIDE DEF f
    <3> QED
      BY <3>1
  <2>4. /\ resp.type = IF pc = "clients" THEN "CLIENT_INFO" ELSE "MESSAGE_INFO"
        /\ resp.pos = sj /\ resp.list_size = LoopSize
        /\ pc = "clients" => resp.item = client_list[sj] /\ LoopSize = Len(client_list)
    BY DEF resp, LoopSize
  <2>5. Snapshot(to, client_list)
    <3>1. si \in 1..Len(client_list)
      BY <1>2 DEF TypeInv, LoopsInBounds, Sending
    <3> QED
      BY <1>1, <3>1 DEF Snapshot, SenderInv, MembersOnce
  <2>6. \A k \in 0..n + 1 : k \in 0..n \/ k = n + 1
    OBVIOUS
  <2>7. \A k \in 0..n + 1 :
          Link(to, k)'.type = "CLIENT_INFO" /\ Link(to, k)'.list_size > 0 =>
            Snapshot(to, next[k]) /\ Len(next[k]) = Link(to, k)'.list_size
    <3> TAKE k \in 0..n + 1
    <3>1. CASE k \in 0..n
      BY <1>1c, <2>1a, <2>3, <3>1
    <3>2. CASE k = n + 1
      <4>1. Link(to, k)'.type = resp.type /\ Link(to, k)'.list_size = LoopSize
        BY <1>1c, <3>2
      <4>2. next[k] = IF pc = "clients" THEN client_list ELSE lists[n]
        BY <2>3, <3>2
      <4> QED
        BY <2>4, <2>5, <4>1, <4>2
    <3> QED
      BY <2>6, <3>1, <3>2
  <2>8. \A k \in 1..n + 1 :
          queue'[to][k].type = "CLIENT_INFO" => queue'[to][k].item = next[k][queue'[to][k].pos]
    <3> TAKE k \in 1..n + 1
    <3>1. CASE k \in 1..n
      <4>1. k \in 0..n
        BY <3>1
      <4> QED
        BY <1>1b, <2>1b, <2>3, <3>1, <4>1
    <3>2. CASE k = n + 1
      BY <1>1b, <2>3, <2>4, <3>2
    <3> QED
      BY <3>1, <3>2
  <2>9. Link(to, n).pos < Link(to, n).list_size => next[n + 1] = next[n]
    <3> SUFFICES ASSUME Link(to, n).pos < Link(to, n).list_size PROVE next[n + 1] = next[n]
      OBVIOUS
    <3>1. HalfSent(to)
      <4> SUFFICES ASSUME ~HalfSent(to) PROVE FALSE
        OBVIOUS
      <4>1. Link(to, n).pos = Link(to, n).list_size
        BY <1>1 DEF FramingInv, ChainEnds
      <4>2. Link(to, n).list_size \in Nat
        <5>1. batch[to] \in Batch /\ queue[to] \in Seq(Response)
          BY DEF TypeInv, TypeOK, QueuesTypeOK, ClientsTypeOK
        <5>2. n # 0 => queue[to][n] \in Response
          BY <1>1d, <5>1, ElementOfSeq
        <5> QED
          BY <5>1, <5>2 DEF Link, Response, Batch
      <4> QED
        BY <4>1, <4>2
    <3>2. pc = "clients" => lists[n] = client_list
      BY <1>1, <2>1, <3>1 DEF Explains
    <3> QED
      BY <2>3, <3>2
  <2>10. \A k \in 1..n + 1 :
           Link(to, k - 1)'.pos < Link(to, k - 1)'.list_size => next[k] = next[k - 1]
    <3> TAKE k \in 1..n + 1
    <3>1. CASE k \in 1..n
      <4>1. k \in 0..n /\ k - 1 \in 0..n
        BY <3>1
      <4> QED
        BY <1>1c, <2>1b, <2>3, <3>1, <4>1
    <3>2. CASE k = n + 1
      <4>1. k - 1 = n
        BY <3>2
      <4> QED
        BY <1>1c, <2>9, <3>2, <4>1
    <3> QED
      BY <3>1, <3>2
  <2>11. batch'[to].type = "CLIENT_INFO" =>
           \A p \in 1..Len(batch'[to].items) : batch'[to].items[p] = next[0][p]
    <3>1. batch'[to] = batch[to] /\ next[0] = lists[0]
      BY <2>0, <2>3
    <3> QED
      BY <2>1, <3>1 DEF Explains
  <2>12. pc' = "clients" => next[n + 1] = client_list'
    BY <1>1, <1>2, <2>3
  <2>13. Explains(to, next)'
    <3>1. Len(queue'[to]) = n + 1
      BY <1>1d
    <3>2. /\ \A k \in 0..Len(queue'[to]) :
               Link(to, k)'.type = "CLIENT_INFO" /\ Link(to, k)'.list_size > 0 =>
                 Snapshot(to, next[k]) /\ Len(next[k]) = Link(to, k)'.list_size
          /\ \A k \in 1..Len(queue'[to]) :
               /\ queue'[to][k].type = "CLIENT_INFO" =>
                    queue'[to][k].item = next[k][queue'[to][k].pos]
               /\ Link(to, k - 1)'.pos < Link(to, k - 1)'.list_size => next[k] = next[k - 1]
          /\ pc' = "clients" => next[Len(queue'[to])] = client_list'
      BY <2>7, <2>8, <2>10, <2>12, <3>1
    <3> QED
      BY <2>11, <3>2 DEF Explains
  <2> QED
    BY <2>13
<1>6. \A d \in Clients : WindowNames(d)'
  BY <1>1 DEF NamesInv, WindowNames
<1>7. \A d \in Clients : \E lists \in ClientLists : Explains(d, lists)'
  BY <1>4, <1>5
<1> QED
  BY <1>6, <1>7 DEF NamesInv

\* receive_clients takes the items of one list, and prints it when it has them all.
LEMMA NamesReceive ==
  ASSUME TypeInv, FramingInv, NamesInv, NEW c \in Clients, Receive(c)
  PROVE  WindowNames(c)' /\ \E lists \in ClientLists : Explains(c, lists)'
<1>1. PICK n \in Nat, r \in Response :
        /\ Len(queue[c]) = n + 1 /\ Len(queue'[c]) = n
        /\ r = queue[c][1] /\ r.pos \in 1..r.list_size
        /\ \A k \in 1..n : queue'[c][k] = queue[c][k + 1]
        /\ \A k \in 0..n : Link(c, k)' = Link(c, k + 1)
        /\ IF MidBatch(c)
           THEN /\ r.type = batch[c].type /\ r.list_size = batch[c].list_size
                /\ r.pos = Len(batch[c].items) + 1
                /\ batch'[c].items = Append(batch[c].items, r.item)
           ELSE r.pos = 1 /\ batch'[c].items = <<r.item>>
        /\ batch'[c].type = r.type /\ batch'[c].list_size = r.list_size
        /\ Len(batch'[c].items) = r.pos
        /\ names'[c] = IF IsWhole(batch'[c], "CLIENT_INFO") THEN batch'[c].items ELSE names[c]
  BY ReceivedLinks
<1>1a. r.pos \in 1..r.list_size /\ r.list_size \in Nat
  BY <1>1 DEF Response
<1>1b. MidBatch(c) => /\ r.type = batch[c].type /\ r.pos = Len(batch[c].items) + 1
                      /\ batch'[c].items = Append(batch[c].items, r.item)
  BY <1>1
<1>1c. ~MidBatch(c) => r.pos = 1 /\ batch'[c].items = <<r.item>>
  BY <1>1
<1>1d. batch'[c].type = r.type /\ batch'[c].list_size = r.list_size /\ Len(batch'[c].items) = r.pos
  BY <1>1
<1>1e. names'[c] = IF IsWhole(batch'[c], "CLIENT_INFO") THEN batch'[c].items ELSE names[c]
  BY <1>1
<1>2. PICK lists \in ClientLists : Explains(c, lists)
  BY DEF NamesInv
<1> DEFINE next == [k \in Nat |-> lists[k + 1]]
<1>3. next \in ClientLists /\ (\A k \in Nat : next[k] = lists[k + 1]) /\ next[0] = lists[1]
  BY DEF ClientLists
<1> HIDE DEF next
<1>4. Link(c, 0)' = Link(c, 1) /\ Link(c, 1).type = r.type /\ Link(c, 1).list_size = r.list_size
  BY <1>1 DEF Link
<1>5. 1 \in 1..Len(queue[c]) /\ 1 - 1 = 0
  BY <1>1
<1>6. r.type = "CLIENT_INFO" => r.item = lists[1][r.pos]
  BY <1>1, <1>2, <1>5 DEF Explains
<1>7. MidBatch(c) => lists[1] = lists[0]
  <2>1. Link(c, 0).pos < Link(c, 0).list_size => lists[1] = lists[0]
    BY <1>2, <1>5 DEF Explains
  <2> QED
    BY <2>1 DEF MidBatch, Link
<1>8. batch'[c].type = "CLIENT_INFO" =>
        \A p \in 1..Len(batch'[c].items) : batch'[c].items[p] = lists[1][p]
  <2> SUFFICES ASSUME r.type = "CLIENT_INFO", NEW p \in 1..r.pos
               PROVE  batch'[c].items[p] = lists[1][p]
    BY <1>1d
  <2>1. CASE MidBatch(c)
    <3>1. batch[c].items \in Seq(Clients \cup Message) /\ r.item \in Clients \cup Message
      BY DEF TypeInv, TypeOK, ClientsTypeOK, Batch, Response
    <3>1a. batch'[c].items = Append(batch[c].items, r.item)
      BY <1>1b, <2>1
    <3>1b. r.pos = Len(batch[c].items) + 1
      BY <1>1b, <2>1
    <3>2. /\ Len(batch[c].items) \in Nat
          /\ \A q \in 1..Len(batch[c].items) : batch'[c].items[q] = batch[c].items[q]
          /\ batch'[c].items[Len(batch[c].items) + 1] = r.item
      <4>1. Len(batch[c].items) \in Nat
        BY <3>1, LenProperties
      <4>2. /\ \A q \in 1..Len(batch[c].items) :
                 Append(batch[c].items, r.item)[q] = batch[c].items[q]
            /\ Append(batch[c].items, r.item)[Len(batch[c].items) + 1] = r.item
        BY <3>1, AppendProperties
      <4> QED
        BY <3>1a, <4>1, <4>2
    <3>3. CASE p = r.pos
      BY <1>1b, <1>6, <2>1, <3>2, <3>3
    <3>4. CASE p # r.pos
      <4>1. p \in 1..Len(batch[c].items)
        <5>1. Len(batch[c].items) \in Nat
          BY <3>2
        <5> QED
          BY <3>1b, <3>4, <5>1
      <4>2. batch[c].type = "CLIENT_INFO"
        BY <1>1b, <2>1
      <4>3. batch[c].items[p] = lists[0][p]
        BY <1>2, <4>1, <4>2 DEF Explains
      <4> QED
        BY <1>7, <2>1, <3>2, <4>1, <4>3
    <3> QED
      BY <3>3, <3>4
  <2>2. CASE ~MidBatch(c)
    <3>1. p = 1 /\ batch'[c].items[1] = r.item
      BY <1>1c, <2>2
    <3> QED
      BY <1>1c, <1>6, <2>2, <3>1
  <2> QED
    BY <2>1, <2>2
<1>9. r.type = "CLIENT_INFO" => Snapshot(c, lists[1]) /\ Len(lists[1]) = r.list_size
  <2>1. 1 \in 0..Len(queue[c])
    BY <1>1
  <2>2. r.list_size > 0
    BY <1>1a
  <2> QED
    BY <1>2, <1>4, <2>1, <2>2 DEF Explains
<1>10. WindowNames(c)'
  <2>1. CASE IsWhole(batch'[c], "CLIENT_INFO")
    <3>1. r.type = "CLIENT_INFO" /\ names'[c] = batch'[c].items /\ r.pos = r.list_size
      BY <1>1d, <1>1e, <2>1 DEF IsWhole
    <3>2. /\ Len(names'[c]) = Len(lists[1])
          /\ \A p \in 1..Len(names'[c]) : names'[c][p] = lists[1][p]
      BY <1>1d, <1>8, <1>9, <3>1
    <3>3. Snapshot(c, names'[c])
      BY <1>9, <3>1, <3>2 DEF Snapshot
    <3> QED
      BY <3>3 DEF WindowNames
  <2>2. CASE ~IsWhole(batch'[c], "CLIENT_INFO")
    BY <1>1e, <2>2 DEF NamesInv, WindowNames
  <2> QED
    BY <2>1, <2>2
<1>11. \A k \in 0..n : k \in Nat /\ k + 1 \in 0..Len(queue[c]) /\ k + 1 \in 1..Len(queue[c])
  BY <1>1
<1>12. \A k \in 0..n :
         Link(c, k)'.type = "CLIENT_INFO" /\ Link(c, k)'.list_size > 0 =>
           Snapshot(c, next[k]) /\ Len(next[k]) = Link(c, k)'.list_size
  BY <1>1, <1>2, <1>3, <1>11 DEF Explains
<1>13. ASSUME NEW k \in 1..n
       PROVE  /\ queue'[c][k].type = "CLIENT_INFO" =>
                   queue'[c][k].item = next[k][queue'[c][k].pos]
              /\ Link(c, k - 1)'.pos < Link(c, k - 1)'.list_size => next[k] = next[k - 1]
  <2>1. /\ k \in 0..n /\ k - 1 \in 0..n /\ k \in Nat /\ k - 1 \in Nat
        /\ k + 1 \in 1..Len(queue[c]) /\ (k + 1) - 1 = k /\ (k - 1) + 1 = k
    <3>1. k \in 0..n /\ k - 1 \in 0..n /\ k + 1 \in 1..n + 1 /\ (k + 1) - 1 = k /\ (k - 1) + 1 = k
      OBVIOUS
    <3>2. Len(queue[c]) = n + 1
      BY <1>1
    <3> QED
      BY <3>1, <3>2
  <2>2. /\ queue[c][k + 1].type = "CLIENT_INFO" =>
             queue[c][k + 1].item = lists[k + 1][queue[c][k + 1].pos]
        /\ Link(c, k).pos < Link(c, k).list_size => lists[k + 1] = lists[k]
    BY <1>2, <2>1 DEF Explains
  <2>3. Link(c, k - 1)' = Link(c, k)
    BY <1>1, <2>1
  <2>4. next[k] = lists[k + 1] /\ next[k - 1] = lists[k]
    BY <1>3, <2>1
  <2> QED
    BY <1>1, <2>2, <2>3, <2>4
<1>14. batch'[c].type = "CLIENT_INFO" =>
         \A p \in 1..Len(batch'[c].items) : batch'[c].items[p] = next[0][p]
  BY <1>3, <1>8
<1>15. (Served(c) /\ HalfSent(c) /\ pc = "clients")' => next[n] = client_list'
  <2>1. /\ Served(c)' <=> Served(c)
        /\ HalfSent(c)' <=> HalfSent(c)
        /\ pc' = pc /\ client_list' = client_list
    BY DEF Receive, serverVars, Served, HalfSent, Sending
  <2> QED
    BY <1>1, <1>2, <1>3, <2>1 DEF Explains
<1>16. Explains(c, next)'
  BY <1>1, <1>12, <1>13, <1>14, <1>15 DEF Explains
<1> QED
  BY <1>3, <1>10, <1>16

LEMMA NamesInvStep ==
  ASSUME TypeInv, SenderInv, FramingInv, NamesInv, [Next]_vars
  PROVE  NamesInv'
<1>1. CASE SendResponse
  BY <1>1, NamesSend
<1>2. CASE ~SendResponse
  <2> SUFFICES ASSUME NEW c \in Clients
               PROVE  WindowNames(c)' /\ \E lists \in ClientLists : Explains(c, lists)'
    BY DEF NamesInv
  <2>1. CASE Receive(c)
    BY <2>1, NamesReceive
  <2>2. CASE ~Receive(c)
    <3>1. batch'[c] = batch[c] /\ names'[c] = names[c]
      <4>1. CASE \E d \in Clients : Receive(d)
        BY <2>2, <4>1 DEF Receive, TypeInv, TypeOK, ClientsTypeOK
      <4>2. CASE ~\E d \in Clients : Receive(d)
        BY <1>2, <4>2 DEF Next, ServerStart, ServerSigint, ServerKill, ServerStep, ServeRegistration,
           ServeDisconnection, ServeMessage, ServeStranger, SendFails, ClientStep, Connect,
           register_client, RegisterFails, StartThreads, Sigint, EarlySigint, disconnect_client,
           DisconnectFails, remove_queues, Kill, Type, SendText, SendTextFails, SenderCancelled,
           ClientExit, ClientDies, clientVars, vars
      <4> QED
        BY <4>1, <4>2
    <3>2. \/ /\ queue'[c] = queue[c]
             /\ (Served(c) /\ HalfSent(c) /\ pc = "clients")' =>
                  Served(c) /\ HalfSent(c) /\ pc = "clients" /\ client_list' = client_list
          \/ queue'[c] = <<>> /\ ~Served(c)'
      <4>1. CASE ServerStart \/ ServerSigint \/ ServerKill \/ ServeRegistration \/ ServeDisconnection
                   \/ ServeMessage \/ ServeStranger \/ SendFails
        <5>1. queue' = queue
          BY <4>1 DEF ServerStart, ServerSigint, ServerKill, ServeRegistration,
             ServeDisconnection, ServeMessage, ServeStranger, SendFails
        <5>2. ~Sending => sj = 1
          BY DEF TypeInv, LoopsInBounds
        <5>3. ~HalfSent(c)'
          <6>1. CASE ServerSigint \/ ServerKill \/ ServeStranger \/ SendFails
            BY <6>1 DEF ServerSigint, ServerKill, ServeStranger, SendFails, ServerExit, HalfSent
          <6>2. CASE ServerStart \/ ServeRegistration \/ ServeDisconnection \/ ServeMessage
            BY <5>2, <6>2 DEF ServerStart, ServeRegistration, ServeDisconnection, ServeMessage,
               TakeRequest, ServerQueueExists, HalfSent, Sending
          <6> QED
            BY <4>1, <6>1, <6>2
        <5> QED
          BY <5>1, <5>3
      <4>2. ASSUME NEW d \in Clients, ClientStep(d)
            PROVE  \/ /\ queue'[c] = queue[c]
                      /\ (Served(c) /\ HalfSent(c) /\ pc = "clients")' =>
                            Served(c) /\ HalfSent(c) /\ pc = "clients"
                            /\ client_list' = client_list
                   \/ queue'[c] = <<>> /\ ~Served(c)'
        <5>1. UNCHANGED <<pc, run, client_list, si, sj>>
          BY <4>2 DEF ClientStep, Connect, register_client, RegisterFails, StartThreads, Sigint,
             EarlySigint, disconnect_client, DisconnectFails, remove_queues, Kill, Type, SendText,
             SendTextFails, SenderCancelled, Receive, ClientExit, ClientDies, serverVars
        <5>2. HalfSent(c)' <=> HalfSent(c)
          BY <5>1 DEF HalfSent, Sending
        <5>3. CASE ClientExit(d)
          <6>1. CASE d = c
            BY <5>3, <6>1 DEF ClientExit, Served, TypeInv, TypeOK, QueuesTypeOK
          <6>2. CASE d # c
            BY <5>1, <5>2, <5>3, <6>2 DEF ClientExit, Served, TypeInv, TypeOK, QueuesTypeOK
          <6> QED
            BY <6>1, <6>2
        <5>4. CASE Connect(d)
          <6>1. queue' = queue
            BY <5>4 DEF Connect
          <6>2. CASE d = c
            <7>1. ~HalfSent(c)
              <8> SUFFICES ASSUME HalfSent(c) PROVE FALSE
                OBVIOUS
              <8>1. Member(c)
                BY DEF HalfSent, Member, TypeInv, LoopsInBounds
              <8> QED
                BY <5>4, <6>2, <8>1 DEF Connect, SenderInv, MembersArrived
            <7> QED
              BY <5>2, <6>1, <7>1
          <6>3. CASE d # c
            <7>1. Served(c)' <=> Served(c)
              BY <5>1, <5>4, <6>3 DEF Connect, Served, TypeInv, TypeOK, QueuesTypeOK, ClientsTypeOK
            <7> QED
              BY <5>1, <5>2, <6>1, <7>1
          <6> QED
            BY <6>2, <6>3
        <5>5. CASE ~ClientExit(d) /\ ~Connect(d)
          <6>1. /\ queue'[c] = queue[c]
                /\ UNCHANGED <<serverId, queue_exists>>
            <7>1. CASE Receive(d)
              BY <2>2, <7>1 DEF Receive, TypeInv, TypeOK, QueuesTypeOK
            <7>2. CASE ~Receive(d)
              BY <4>2, <5>5, <7>2 DEF ClientStep, register_client, RegisterFails, StartThreads,
                 Sigint, EarlySigint, disconnect_client, DisconnectFails, remove_queues, Kill,
                 Type, SendText, SendTextFails, SenderCancelled, ClientDies
            <7> QED
              BY <7>1, <7>2
          <6>2. Served(c)' <=> Served(c)
            BY <5>1, <6>1 DEF Served
          <6> QED
            BY <5>1, <5>2, <6>1, <6>2
        <5> QED
          BY <5>3, <5>4, <5>5
      <4>3. CASE UNCHANGED vars
        BY <4>3 DEF vars, serverVars, clientVars, Served, HalfSent, Sending
      <4> QED
        BY <1>2, <4>1, <4>2, <4>3 DEF Next, ServerStep
    <3>3. PICK lists \in ClientLists : Explains(c, lists)
      BY DEF NamesInv
    <3>4. Explains(c, lists)'
      BY <3>1, <3>2, <3>3, ExplainsKept DEF ClientLists
    <3>5. WindowNames(c)'
      BY <3>1 DEF NamesInv, WindowNames
    <3> QED
      BY <3>4, <3>5
  <2> QED
    BY <2>1, <2>2
<1> QED
  BY <1>1, <1>2

LEMMA NamesInvInit == Init => NamesInv
<1> SUFFICES ASSUME Init, NEW c \in Clients
             PROVE  WindowNames(c) /\ \E lists \in ClientLists : Explains(c, lists)
  BY DEF NamesInv
<1>1. /\ queue[c] = <<>> /\ batch[c] = NoBatch /\ names[c] = <<>> /\ pc = "down"
      /\ Len(queue[c]) = 0 /\ Len(batch[c].items) = 0
  BY EmptySeq DEF Init, NoBatch
<1>2. [k \in Nat |-> <<>>] \in ClientLists
  <2>1. <<>> \in Seq(Clients)
    BY EmptySeq
  <2> QED
    BY <2>1 DEF ClientLists
<1>3. PICK lists \in ClientLists : TRUE
  BY <1>2
<1>4. \A k \in 0..0 : Link(c, k).list_size = 0
  BY <1>1 DEF Link, NoBatch
<1>5. Explains(c, lists)
  BY <1>1, <1>4 DEF Explains, Served
<1> QED
  BY <1>1, <1>5 DEF WindowNames

\* A client that shows a client list finds itself in it, and nobody twice, whoever
\* registers, disconnects or dies while the lists travel: what it prints is one list,
\* as the server had it at one moment while the client was registered.
THEOREM ClientsSeeThemselves == Spec => []SeesItself
<1>1. TypeInv /\ NamesInv => SeesItself
  <2> SUFFICES ASSUME TypeInv, NamesInv, NEW c \in Clients, names[c] # <<>>
               PROVE  Contains(names[c], c) /\ IsInjective(names[c])
    BY DEF SeesItself
  <2>1. names[c] \in Seq(Clients \cup Message)
    BY DEF TypeInv, TypeOK, ClientsTypeOK
  <2>2. DOMAIN names[c] = 1..Len(names[c])
    BY <2>1, LenProperties
  <2>3. Snapshot(c, names[c])
    BY DEF NamesInv, WindowNames
  <2> QED
    BY <2>2, <2>3 DEF Snapshot, Contains, IsInjective
<1>2. Init => TypeInv /\ SenderInv /\ FramingInv /\ NamesInv
  BY TypeInvInit, SenderInvInit, FramingInvInit, NamesInvInit
<1>3. TypeInv /\ SenderInv /\ FramingInv /\ NamesInv /\ [Next]_vars
        => (TypeInv /\ SenderInv /\ FramingInv /\ NamesInv)'
  BY TypeInvStep, SenderInvStep, FramingInvStep, NamesInvStep
<1> QED
  BY <1>1, <1>2, <1>3, PTL DEF Spec

-----------------------------------------------------------------------------
(* The abstract chat room.                                                 *)

\* The lists of messages before a client get longer, and are no shorter than what its
\* window shows.
Growing(c) ==
  \A k \in 0..Len(queue[c]) : Link(c, k).type = "MESSAGE_INFO" =>
    /\ Len(shown[c]) <= Link(c, k).list_size
    /\ \A l \in k..Len(queue[c]) :
         Link(c, l).type = "MESSAGE_INFO" => Link(c, k).list_size <= Link(c, l).list_size

RoomInv ==
  /\ \A c \in Clients : Growing(c)
  /\ pc # "down" => run > 0
  /\ \A c \in Clients : phase[c] = "off" => serverId[c] = 0

LEMMA GrowingSend ==
  ASSUME TypeInv, SenderInv, ContentInv, RoomInv, SendResponse, NEW c \in Clients
  PROVE  Growing(c)'
<1>1. PICK to \in Clients, n \in Nat :
        /\ to = client_list[si] /\ n = Len(queue[to]) /\ Len(queue'[to]) = n + 1
        /\ \A k \in 0..n : Link(to, k)' = Link(to, k)
        /\ Link(to, n + 1)' = [type |-> resp.type, list_size |-> LoopSize, pos |-> sj]
        /\ \A d \in Clients : d # to => queue'[d] = queue[d]
        /\ \A d \in Clients : d # to => \A k \in Nat : Link(d, k)' = Link(d, k)
        /\ Served(to)
        /\ UNCHANGED <<batch, shown>>
  BY SentLinks
<1>2. CASE c # to
  <2>1. queue'[c] = queue[c] /\ shown' = shown /\ \A k \in Nat : Link(c, k)' = Link(c, k)
    BY <1>1, <1>2
  <2>2. Len(queue[c]) \in Nat
    BY LenProperties DEF TypeInv, TypeOK, QueuesTypeOK
  <2>3. \A k \in 0..Len(queue[c]) : k \in Nat /\ \A l \in k..Len(queue[c]) : l \in Nat
    BY <2>2
  <2> QED
    BY <2>1, <2>3 DEF RoomInv, Growing
<1>3. CASE c = to
  <2>1. /\ n = Len(queue[c]) /\ Len(queue'[c]) = n + 1 /\ shown'[c] = shown[c]
        /\ \A k \in 0..n : Link(c, k)' = Link(c, k)
        /\ Link(c, n + 1)' = [type |-> resp.type, list_size |-> LoopSize, pos |-> sj]
    BY <1>1, <1>3
  <2>2. /\ HistoryOf(c) = history
        /\ resp.type = "MESSAGE_INFO" => LoopSize = Len(HistoryOf(c))
    BY <1>1, <1>3 DEF Served, HistoryOf, history, resp, LoopSize
  <2>3. /\ Len(HistoryOf(c)) \in Nat /\ Len(shown[c]) \in Nat
        /\ Len(shown[c]) <= Len(HistoryOf(c))
        /\ \A k \in 0..n : Link(c, k).type = "MESSAGE_INFO" => Link(c, k).list_size <= Len(HistoryOf(c))
    <3>1. Len(HistoryOf(c)) \in Nat /\ Len(shown[c]) \in Nat
      BY LenProperties DEF HistoryOf, TypeInv, TypeOK, ServerTypeOK, ClientsTypeOK
    <3>2. ASSUME NEW k \in 0..n, Link(c, k).type = "MESSAGE_INFO"
          PROVE  Link(c, k).list_size <= Len(HistoryOf(c))
      <4>1. CASE k = 0
        BY <3>2, <4>1 DEF Link, ContentInv, Content
      <4>2. CASE k # 0
        <5>1. k \in 1..Len(queue[c])
          BY <2>1, <4>2
        <5> QED
          BY <3>2, <4>2, <5>1 DEF Link, ContentInv, Content
      <4> QED
        BY <4>1, <4>2
    <3> QED
      BY <3>1, <3>2 DEF ContentInv, Content
  <2>4. ASSUME NEW k \in 0..n + 1, Link(c, k)'.type = "MESSAGE_INFO"
        PROVE  /\ Len(shown[c]) <= Link(c, k)'.list_size
               /\ \A l \in k..n + 1 :
                    Link(c, l)'.type = "MESSAGE_INFO" => Link(c, k)'.list_size <= Link(c, l)'.list_size
    <3>1. CASE k \in 0..n
      <4>1. Link(c, k)' = Link(c, k) /\ k \in 0..Len(queue[c])
        BY <2>1, <3>1
      <4>2. /\ Len(shown[c]) <= Link(c, k).list_size
            /\ \A l \in k..n :
                 Link(c, l).type = "MESSAGE_INFO" => Link(c, k).list_size <= Link(c, l).list_size
        BY <2>1, <2>4, <4>1 DEF RoomInv, Growing
      <4>3. ASSUME NEW l \in k..n + 1, Link(c, l)'.type = "MESSAGE_INFO"
            PROVE  Link(c, k)'.list_size <= Link(c, l)'.list_size
        <5>1. CASE l = n + 1
          <6>1. Link(c, l)'.list_size = Len(HistoryOf(c))
            BY <2>1, <2>2, <4>3, <5>1
          <6> QED
            BY <2>3, <2>4, <3>1, <4>1, <6>1
        <5>2. CASE l # n + 1
          <6>1. l \in 0..n /\ l \in k..n
            BY <3>1, <5>2
          <6>2. Link(c, l)' = Link(c, l)
            BY <2>1, <6>1
          <6> QED
            BY <4>1, <4>2, <4>3, <6>1, <6>2
        <5> QED
          BY <5>1, <5>2
      <4> QED
        BY <4>1, <4>2, <4>3
    <3>2. CASE k = n + 1
      <4>1. Link(c, k)'.list_size = Len(HistoryOf(c))
        BY <2>1, <2>2, <2>4, <3>2
      <4>2. \A l \in k..n + 1 : l = k
        BY <3>2
      <4> QED
        BY <2>3, <4>1, <4>2
    <3> QED
      BY <3>1, <3>2
  <2> QED
    BY <2>1, <2>4 DEF Growing
<1> QED
  BY <1>2, <1>3

LEMMA GrowingReceive ==
  ASSUME TypeInv, FramingInv, RoomInv, NEW c \in Clients, Receive(c)
  PROVE  Growing(c)'
<1>1. PICK n \in Nat, r \in Response :
        /\ Len(queue[c]) = n + 1 /\ Len(queue'[c]) = n /\ r = queue[c][1]
        /\ \A k \in 0..n : Link(c, k)' = Link(c, k + 1)
        /\ batch'[c].type = r.type /\ batch'[c].list_size = r.list_size
        /\ shown'[c] = IF IsWhole(batch'[c], "MESSAGE_INFO") THEN batch'[c].items ELSE shown[c]
  BY ReceivedLinks
<1>2. ASSUME NEW k \in 0..n, Link(c, k)'.type = "MESSAGE_INFO"
      PROVE  /\ Len(shown'[c]) <= Link(c, k)'.list_size
             /\ \A l \in k..n :
                  Link(c, l)'.type = "MESSAGE_INFO" => Link(c, k)'.list_size <= Link(c, l)'.list_size
  <2>1. /\ k + 1 \in 0..n + 1 /\ k + 1 \in 1..n + 1 /\ 1 \in 0..n + 1
        /\ \A l \in k..n : l \in 0..n /\ l + 1 \in k + 1..n + 1
    OBVIOUS
  <2>2. Link(c, k)' = Link(c, k + 1)
    BY <1>1
  <2>3. \A j \in 0..n + 1 : Link(c, j).type = "MESSAGE_INFO" =>
          /\ Len(shown[c]) <= Link(c, j).list_size
          /\ \A l \in j..n + 1 :
               Link(c, l).type = "MESSAGE_INFO" => Link(c, j).list_size <= Link(c, l).list_size
    BY <1>1 DEF RoomInv, Growing
  <2>4. /\ Len(shown[c]) <= Link(c, k + 1).list_size
        /\ \A l \in k + 1..n + 1 :
             Link(c, l).type = "MESSAGE_INFO" => Link(c, k + 1).list_size <= Link(c, l).list_size
    BY <1>2, <2>1, <2>2, <2>3
  <2>5. \A l \in k..n : Link(c, l)' = Link(c, l + 1)
    BY <1>1, <2>1
  <2>6. Len(shown'[c]) <= Link(c, k)'.list_size
    <3>1. CASE IsWhole(batch'[c], "MESSAGE_INFO")
      <4>1. r.type = "MESSAGE_INFO" /\ Len(shown'[c]) = r.list_size
        BY <1>1, <3>1 DEF IsWhole
      <4>2. Link(c, 1).type = r.type /\ Link(c, 1).list_size = r.list_size
        BY <1>1 DEF Link
      <4> QED
        BY <1>2, <2>1, <2>2, <2>3, <4>1, <4>2
    <3>2. CASE ~IsWhole(batch'[c], "MESSAGE_INFO")
      <4>1. shown'[c] = shown[c]
        BY <1>1, <3>2
      <4> QED
        BY <2>2, <2>4, <4>1
    <3> QED
      BY <3>1, <3>2
  <2>7. ASSUME NEW l \in k..n, Link(c, l)'.type = "MESSAGE_INFO"
        PROVE  Link(c, k)'.list_size <= Link(c, l)'.list_size
    BY <2>1, <2>2, <2>4, <2>5, <2>7
  <2> QED
    BY <2>6, <2>7
<1>3. Len(queue'[c]) = n
  BY <1>1
<1> QED
  BY <1>2, <1>3 DEF Growing

LEMMA RoomInvStep ==
  ASSUME TypeInv, SenderInv, FramingInv, ContentInv, RoomInv, [Next]_vars
  PROVE  RoomInv'
<1>1. ASSUME NEW c \in Clients PROVE Growing(c)'
  <2>1. CASE SendResponse
    BY <2>1, GrowingSend
  <2>2. CASE Receive(c)
    BY <2>2, GrowingReceive
  <2>3. CASE ~SendResponse /\ ~Receive(c)
    <3>1. /\ batch'[c] = batch[c] /\ shown'[c] = shown[c]
          /\ queue'[c] = queue[c] \/ queue'[c] = <<>>
      BY <2>3, OtherSteps
    <3>2. \A k \in Nat : queue'[c] = queue[c] => Link(c, k)' = Link(c, k)
      BY <3>1 DEF Link
    <3>3. Link(c, 0)' = Link(c, 0)
      BY <3>1 DEF Link
    <3>4. Len(queue[c]) \in Nat
      BY LenProperties DEF TypeInv, TypeOK, QueuesTypeOK
    <3>5. Growing(c)
      BY DEF RoomInv
    <3>6. CASE queue'[c] = queue[c]
      <4>1. \A k \in 0..Len(queue[c]) : k \in Nat /\ \A l \in k..Len(queue[c]) : l \in Nat
        BY <3>4
      <4> QED
        BY <3>1, <3>2, <3>5, <3>6, <4>1 DEF Growing
    <3>7. CASE queue'[c] = <<>>
      <4>1. Len(queue'[c]) = 0
        BY <3>7, EmptySeq
      <4>2. \A k \in 0..0 : k = 0 /\ k \in 0..Len(queue[c]) /\ \A l \in k..0 : l = 0
        BY <3>4
      <4>3. Link(c, 0).type = "MESSAGE_INFO" =>
              Len(shown[c]) <= Link(c, 0).list_size /\ Link(c, 0).list_size <= Link(c, 0).list_size
        BY <3>5, <4>2 DEF Growing
      <4> QED
        BY <3>1, <3>3, <4>1, <4>2, <4>3 DEF Growing
    <3> QED
      BY <3>1, <3>6, <3>7
  <2> QED
    BY <2>1, <2>2, <2>3
<1>2. (pc # "down" => run > 0)'
  <2>1. CASE ServerStart
    BY <2>1 DEF ServerStart, TypeInv, TypeOK, ServerTypeOK
  <2>2. CASE ~ServerStart
    <3>1. run' = run /\ (pc' # "down" => pc # "down")
      BY <2>2 DEF Next, ServerSigint, ServerKill, ServerStep, ServerExit, ServeRegistration,
         ServeDisconnection, ServeMessage, ServeStranger, SendResponse, SendFails, TakeRequest,
         ClientStep, Connect, register_client, RegisterFails, StartThreads, Sigint, EarlySigint,
         disconnect_client, DisconnectFails, remove_queues, Kill, Type, SendText, SendTextFails,
         SenderCancelled, Receive, ClientExit, ClientDies, serverVars, vars
    <3> QED
      BY <3>1 DEF RoomInv
  <2> QED
    BY <2>1, <2>2
<1>3. \A c \in Clients : phase'[c] = "off" => serverId'[c] = 0
  <2>1. CASE \E d \in Clients : ClientStep(d)
    <3>1. PICK d \in Clients : ClientStep(d)
      BY <2>1
    <3>2. phase'[d] # "off" /\ \A c \in Clients : c # d => phase'[c] = phase[c] /\ serverId'[c] = serverId[c]
      BY <3>1 DEF TypeInv, TypeOK, ClientsTypeOK, ClientStep, Connect, register_client,
         RegisterFails, StartThreads, Sigint, EarlySigint, disconnect_client, DisconnectFails,
         remove_queues, Kill, Type, SendText, SendTextFails, SenderCancelled, Receive, ClientExit,
         ClientDies, SenderInv, ClientsConsistent
    <3> QED
      BY <3>2 DEF RoomInv
  <2>2. CASE ~\E d \in Clients : ClientStep(d)
    <3>1. phase' = phase /\ serverId' = serverId
      BY <2>2 DEF Next, ServerStart, ServerSigint, ServerKill, ServerStep, ServeRegistration,
         ServeDisconnection, ServeMessage, ServeStranger, SendResponse, SendFails, clientVars, vars
    <3> QED
      BY <3>1 DEF RoomInv
  <2> QED
    BY <2>1, <2>2
<1> QED
  BY <1>1, <1>2, <1>3 DEF RoomInv

LEMMA RoomInvInit == Init => RoomInv
<1> SUFFICES ASSUME Init PROVE RoomInv
  OBVIOUS
<1>1. ASSUME NEW c \in Clients PROVE Growing(c)
  <2>1. Len(queue[c]) = 0 /\ batch[c] = NoBatch
    BY EmptySeq DEF Init
  <2>2. \A k \in 0..0 : Link(c, k).type = "CLIENT_INFO"
    BY <2>1 DEF Link, NoBatch
  <2> QED
    BY <2>1, <2>2 DEF Growing
<1> QED
  BY <1>1 DEF Init, RoomInv

-----------------------------------------------------------------------------
(* Each step is a step of the abstract chat room, or none.                 *)

\* The members of the abstract room are the registered clients.
LEMMA MembersListed ==
  ASSUME TypeInv, NEW c \in Clients
  PROVE  (c \in ToSet(client_list) <=> Member(c)) /\ (IsRegistered(c) <=> Member(c))
<1>1. client_list \in Seq(Clients)
  BY DEF TypeInv, TypeOK, ServerTypeOK
<1>2. DOMAIN client_list = 1..Len(client_list)
  BY <1>1, LenProperties
<1> QED
  BY <1>1, <1>2, IndexProperties DEF Member, ToSet

\* The request at the head of the queue.
LEMMA HeadRequest ==
  ASSUME TypeInv, SenderInv, NEW type, TakeRequest(type)
  PROVE  /\ Head(server_queue) \in Request /\ Head(server_queue) = server_queue[1]
         /\ Head(server_queue).type = type
         /\ Head(server_queue).from \in Clients
         /\ RequestInOrder(1)
<1>1. server_queue \in Seq(Request) /\ server_queue # <<>> /\ Head(server_queue).type = type
  BY DEF TakeRequest, TypeInv, TypeOK, QueuesTypeOK
<1>2. /\ Head(server_queue) \in Request /\ Head(server_queue) = server_queue[1]
      /\ Len(server_queue) \in Nat \ {0}
  BY <1>1, HeadTailProperties, EmptySeq
<1>3. 1 \in 1..Len(server_queue)
  BY <1>2
<1> QED
  BY <1>1, <1>2, <1>3 DEF Request, SenderInv, RequestsInOrder

LEMMA RegistrationJoins ==
  ASSUME TypeInv, SenderInv, ServeRegistration
  PROVE  \E c \in Clients : Abstract!Join(c)
<1>1. PICK c \in Clients : c = Head(server_queue).from /\ RequestInOrder(1) /\ c = server_queue[1].from
                           /\ server_queue[1].type = "REGISTRATION"
  BY HeadRequest DEF ServeRegistration
<1>2. serverId[c] = run /\ c \notin ToSet(client_list)
  BY <1>1, MembersListed DEF RequestInOrder
<1>3. /\ pc = "recv" /\ pc' = "clients" /\ client_list' = Append(client_list, c)
      /\ UNCHANGED <<run, message_list, serverId, shown>>
  BY <1>1 DEF ServeRegistration, TakeRequest, add_client, clientVars
<1>4. ToSet(client_list') = ToSet(client_list) \cup {c}
  <2>1. client_list \in Seq(Clients)
    BY DEF TypeInv, TypeOK, ServerTypeOK
  <2> DEFINE n == Len(client_list)
             t == Append(client_list, c)
  <2>2. /\ t \in Seq(Clients) /\ Len(t) = n + 1 /\ n \in Nat /\ t[n + 1] = c
        /\ \A k \in 1..n : t[k] = client_list[k]
    BY <2>1, AppendProperties, LenProperties
  <2> HIDE DEF t
  <2>3. DOMAIN t = 1..n + 1 /\ DOMAIN client_list = 1..n
    BY <2>1, <2>2, LenProperties
  <2>4. \A k \in 1..n + 1 : k \in 1..n \/ k = n + 1
    BY <2>2
  <2>5. 1..n \subseteq 1..n + 1 /\ n + 1 \in 1..n + 1
    BY <2>2
  <2> HIDE DEF n
  <2>6. {t[k] : k \in 1..n + 1} = {client_list[k] : k \in 1..n} \cup {c}
    BY <2>2, <2>4, <2>5
  <2> QED
    BY <1>3, <2>3, <2>6 DEF ToSet, t
<1> QED
  BY <1>2, <1>3, <1>4 DEF Abstract!Join

LEMMA DisconnectionLeaves ==
  ASSUME TypeInv, SenderInv, ServeDisconnection
  PROVE  \E c \in Clients : Abstract!Leave(c)
<1>1. PICK c \in Clients : c = Head(server_queue).from
  BY HeadRequest DEF ServeDisconnection
<1> DEFINE i == get_client_index(c)
           t == RemoveAt(client_list, i)
<1>2. /\ pc = "recv" /\ pc' \in {"recv", "clients"} /\ client_list' = t /\ IsRegistered(c)
      /\ UNCHANGED <<run, message_list, serverId, shown>>
  BY <1>1 DEF ServeDisconnection, TakeRequest, remove_client, clientVars
<1>3. client_list \in Seq(Clients) /\ Len(client_list) \in Nat
  BY LenProperties DEF TypeInv, TypeOK, ServerTypeOK
<1>4. PICK n \in Nat : n = Len(client_list)
  BY <1>3
<1>5. i \in 1..n /\ client_list[i] = c
  BY <1>2, <1>3, <1>4, IndexProperties DEF IsRegistered
<1>6. /\ t \in Seq(Clients) /\ Len(t) = n - 1
      /\ \A k \in 1..n - 1 : t[k] = IF k < i THEN client_list[k] ELSE client_list[k + 1]
  BY <1>3, <1>4, <1>5, RemoveAtProperties
<1> HIDE DEF i, t
<1>7. \A j, k \in 1..n : client_list[j] = client_list[k] => j = k
  BY <1>4 DEF SenderInv, MembersOnce
<1>8. {t[k] : k \in 1..n - 1} = {client_list[k] : k \in 1..n} \ {c}
  <2>1. ASSUME NEW k \in 1..n - 1
        PROVE  \E j \in 1..n : t[k] = client_list[j] /\ t[k] # c
    <3>1. CASE k < i
      <4>1. k \in 1..n /\ k # i
        BY <1>5, <3>1
      <4> QED
        BY <1>5, <1>6, <1>7, <3>1, <4>1
    <3>2. CASE ~(k < i)
      <4>1. k + 1 \in 1..n /\ k + 1 # i
        BY <1>5, <3>2
      <4> QED
        BY <1>5, <1>6, <1>7, <3>2, <4>1
    <3> QED
      BY <3>1, <3>2
  <2>2. ASSUME NEW j \in 1..n, client_list[j] # c
        PROVE  \E k \in 1..n - 1 : t[k] = client_list[j]
    <3>1. j # i
      BY <1>5, <2>2
    <3>2. CASE j < i
      <4>1. j \in 1..n - 1
        BY <1>5, <3>2
      <4> QED
        BY <1>6, <3>2, <4>1
    <3>3. CASE ~(j < i)
      <4>1. j - 1 \in 1..n - 1 /\ ~(j - 1 < i) /\ (j - 1) + 1 = j
        BY <1>5, <3>1, <3>3
      <4> QED
        BY <1>6, <4>1
    <3> QED
      BY <3>2, <3>3
  <2> QED
    BY <2>1, <2>2
<1>9. DOMAIN t = 1..n - 1 /\ DOMAIN client_list = 1..n
  BY <1>3, <1>4, <1>6, LenProperties
<1>10. ToSet(client_list') = ToSet(client_list) \ {c}
  BY <1>2, <1>8, <1>9 DEF ToSet
<1>11. c \in ToSet(client_list)
  BY <1>2, MembersListed
<1> QED
  BY <1>2, <1>10, <1>11 DEF Abstract!Leave

LEMMA MessagePosts ==
  ASSUME TypeInv, SenderInv, ServeMessage
  PROVE  \E c \in Clients : Abstract!Post(c)
<1> DEFINE h == Head(server_queue)
           m == [from |-> h.from, n |-> h.n]
<1>1. h \in Request /\ h.type = "MESSAGE_INFO" /\ h.from \in Clients
  BY HeadRequest DEF ServeMessage
<1>2. m \in Message /\ m.from = h.from
  BY <1>1 DEF Request, Message
<1>3. /\ pc = "recv" /\ pc' = "messages" /\ IsRegistered(h.from)
      /\ message_list' = [message_list EXCEPT ![run] = Append(@, m)]
      /\ UNCHANGED <<run, client_list, serverId, shown>>
  BY DEF ServeMessage, TakeRequest, add_message, clientVars
<1>4. h.from \in ToSet(client_list)
  BY <1>1, <1>3, MembersListed
<1> HIDE DEF h, m
<1>5. Abstract!Post(h.from)
  BY <1>2, <1>3, <1>4 DEF Abstract!Post
<1> QED
  BY <1>1, <1>5

\* A window that is printed again shows more of the history, or the same.
LEMMA ReceiveShows ==
  ASSUME TypeInv, TypeInv', FramingInv, ContentInv, ContentInv', RoomInv, NEW c \in Clients,
         Receive(c)
  PROVE  Abstract!Show(c) \/ UNCHANGED Abstract!vars
<1>1. UNCHANGED <<pc, run, client_list, message_list, serverId>>
  BY DEF Receive, serverVars
<1>2. shown' = [shown EXCEPT ![c] = shown'[c]]
  BY DEF Receive, TypeInv, TypeOK, ClientsTypeOK
<1> DEFINE log == HistoryOf(c)
           n == Len(shown'[c])
<1>3. /\ log \in Seq(Message) /\ Len(log) \in Nat
      /\ shown[c] \in Seq(Clients \cup Message) /\ Len(shown[c]) \in Nat
      /\ shown'[c] \in Seq(Clients \cup Message) /\ n \in Nat
  BY LenProperties DEF HistoryOf, TypeInv, TypeOK, ServerTypeOK, ClientsTypeOK
<1>4. n <= Len(log) /\ \A k \in 1..n : shown'[c][k] = log[k]
  BY <1>1 DEF ContentInv, Content, HistoryOf
<1>5. Len(shown[c]) <= Len(log) /\ \A k \in 1..Len(shown[c]) : shown[c][k] = log[k]
  BY DEF ContentInv, Content, HistoryOf
<1>6. Len(shown[c]) <= n
  <2>1. PICK q \in Nat, r \in Response :
          /\ Len(queue[c]) = q + 1 /\ r = queue[c][1]
          /\ batch'[c].type = r.type /\ batch'[c].list_size = r.list_size
          /\ shown'[c] = IF IsWhole(batch'[c], "MESSAGE_INFO") THEN batch'[c].items ELSE shown[c]
    BY ReceivedLinks
  <2>2. CASE IsWhole(batch'[c], "MESSAGE_INFO")
    <3>1. r.type = "MESSAGE_INFO" /\ n = r.list_size
      BY <2>1, <2>2 DEF IsWhole
    <3>2. 1 \in 0..Len(queue[c]) /\ Link(c, 1).type = r.type /\ Link(c, 1).list_size = r.list_size
      BY <2>1 DEF Link
    <3> QED
      BY <3>1, <3>2 DEF RoomInv, Growing
  <2>3. CASE ~IsWhole(batch'[c], "MESSAGE_INFO")
    <3>1. shown'[c] = shown[c]
      BY <2>1, <2>3
    <3> QED
      BY <1>3, <3>1
  <2> QED
    BY <2>2, <2>3
<1>7. CASE Len(shown[c]) = n
  <2>1. \A k \in 1..Len(shown[c]) : shown[c][k] = shown'[c][k]
    BY <1>4, <1>5, <1>7
  <2>2. shown'[c] = shown[c]
    BY <1>3, <1>7, <2>1, SeqEqual
  <2>3. shown' = shown
    BY <1>2, <2>2 DEF TypeInv, TypeOK, ClientsTypeOK
  <2> QED
    BY <1>1, <2>3 DEF Abstract!vars
<1>8. CASE Len(shown[c]) # n
  <2>1. n \in Len(shown[c]) + 1 .. Len(log)
    BY <1>3, <1>4, <1>6, <1>8
  <2>2. shown'[c] = SubSeq(log, 1, n)
    <3> DEFINE sub == SubSeq(log, 1, n)
    <3>1. /\ sub \in Seq(Message) /\ Len(sub) = n /\ \A k \in 1..n : sub[k] = log[k]
      <4>1. \A k \in 1..n : log[k] \in Message
        BY <1>3, <1>4, ElementOfSeq
      <4> HIDE DEF log, n
      <4>2. /\ sub \in Seq(Message)
            /\ Len(sub) = IF 1 <= n THEN n - 1 + 1 ELSE 0
            /\ \A k \in 1..n - 1 + 1 : sub[k] = log[1 + k - 1]
        BY <1>3, <4>1, SubSeqProperties
      <4> HIDE DEF sub
      <4>3. \A k \in 1..n : k \in 1..n - 1 + 1 /\ 1 + k - 1 = k
        BY <1>3
      <4>4. n = (IF 1 <= n THEN n - 1 + 1 ELSE 0)
        BY <1>3
      <4> QED
        BY <4>2, <4>3, <4>4
    <3> HIDE DEF sub
    <3>2. sub \in Seq(Clients \cup Message)
      BY <3>1, SeqMonotonic
    <3>3. \A k \in 1..n : shown'[c][k] = sub[k]
      BY <1>4, <3>1
    <3>4. shown'[c] = sub
      BY <1>3, <3>1, <3>2, <3>3, SeqEqual
    <3> QED
      BY <3>4 DEF sub
  <2>3. Abstract!Show(c)
    <3>1. shown' = [shown EXCEPT ![c] = SubSeq(message_list[serverId[c]], 1, n)]
          /\ n \in Len(shown[c]) + 1 .. Len(message_list[serverId[c]])
      BY <1>2, <2>1, <2>2 DEF HistoryOf
    <3> HIDE DEF n
    <3> QED
      BY <1>1, <3>1 DEF Abstract!Show
  <2> QED
    BY <2>3
<1> QED
  BY <1>7, <1>8

LEMMA RoomStep ==
  ASSUME TypeInv, TypeInv', SenderInv, FramingInv, ContentInv, ContentInv', RoomInv, [Next]_vars
  PROVE  [Abstract!Next]_Abstract!vars
<1>1. CASE ServerStart
  <2>1. /\ pc = "down" /\ run < MaxRuns /\ pc' = "recv" /\ run' = run + 1 /\ client_list' = <<>>
        /\ UNCHANGED <<message_list, serverId, shown>>
    BY <1>1 DEF ServerStart, ServerQueueExists, clientVars
  <2>2. ToSet(client_list') = {}
    BY <2>1 DEF ToSet
  <2>3. Abstract!Open
    BY <2>1, <2>2 DEF Abstract!Open
  <2> QED
    BY <2>3 DEF Abstract!Next
<1>2. CASE ServerSigint \/ ServerKill \/ ServeStranger \/ SendFails
  <2>1. /\ pc \notin {"down", "killed"} /\ pc' \in {"down", "killed"}
        /\ UNCHANGED <<run, client_list, message_list, serverId, shown>>
    BY <1>2 DEF ServerSigint, ServerKill, ServeStranger, SendFails, ServerExit, TakeRequest, clientVars
  <2>2. Abstract!Close
    BY <2>1 DEF Abstract!Close
  <2> QED
    BY <2>2 DEF Abstract!Next
<1>3. CASE ServeRegistration
  BY <1>3, RegistrationJoins DEF Abstract!Next
<1>4. CASE ServeDisconnection
  BY <1>4, DisconnectionLeaves DEF Abstract!Next
<1>5. CASE ServeMessage
  BY <1>5, MessagePosts DEF Abstract!Next
<1>6. CASE SendResponse \/ UNCHANGED vars
  <2>1. /\ pc' \in {"down", "killed"} <=> pc \in {"down", "killed"}
        /\ UNCHANGED <<run, client_list, message_list, serverId, shown>>
    BY <1>6 DEF SendResponse, AdvanceLoops, NextLoop, clientVars, serverVars, vars
  <2> QED
    BY <2>1 DEF Abstract!vars
<1>7. ASSUME NEW c \in Clients, ClientStep(c) PROVE [Abstract!Next]_Abstract!vars
  <2>1. CASE Connect(c)
    <3>1. /\ serverId' = [serverId EXCEPT ![c] = run] /\ pc # "down" /\ phase[c] = "off"
          /\ UNCHANGED <<pc, run, client_list, message_list, shown>>
      BY <2>1 DEF Connect, ServerQueueExists, serverVars
    <3>2. serverId[c] = 0 /\ run > 0
      BY <3>1 DEF RoomInv
    <3>3. Abstract!Enter(c)
      BY <3>1, <3>2 DEF Abstract!Enter
    <3> QED
      BY <3>3 DEF Abstract!Next
  <2>2. CASE Receive(c)
    BY <2>2, ReceiveShows DEF Abstract!Next
  <2>3. CASE ~Connect(c) /\ ~Receive(c)
    <3>1. UNCHANGED <<pc, run, client_list, message_list, serverId, shown>>
      BY <1>7, <2>3 DEF ClientStep, register_client, RegisterFails, StartThreads, Sigint,
         EarlySigint, disconnect_client, DisconnectFails, remove_queues, Kill, Type, SendText,
         SendTextFails, SenderCancelled, ClientExit, ClientDies, serverVars
    <3> QED
      BY <3>1 DEF Abstract!vars
  <2> QED
    BY <2>1, <2>2, <2>3
<1> QED
  BY <1>1, <1>2, <1>3, <1>4, <1>5, <1>6, <1>7 DEF Next, ServerStep

LEMMA RoomStart == Init => Abstract!Init
<1> SUFFICES ASSUME Init PROVE Abstract!Init
  OBVIOUS
<1>1. ToSet(client_list) = {}
  BY DEF Init, ToSet
<1> QED
  BY <1>1 DEF Init, Abstract!Init

\* The programs implement the chat room, for any number of clients and runs of the
\* server and any capacities of the queues, whoever leaves or dies and when: the history
\* of a run only grows, only a registered client adds to it, and what a window shows is
\* a prefix of it that never shrinks, although the lists that carry it overtake the
\* texts that are still being typed and sent.
THEOREM QueuesAreAChatRoom == Spec => IsAChatRoom
<1>1. Init => TypeInv /\ SenderInv /\ FramingInv /\ ContentInv /\ RoomInv
  BY TypeInvInit, SenderInvInit, FramingInvInit, ContentInvInit, RoomInvInit
<1>2. TypeInv /\ SenderInv /\ FramingInv /\ ContentInv /\ RoomInv /\ [Next]_vars
        => (TypeInv /\ SenderInv /\ FramingInv /\ ContentInv /\ RoomInv)'
  BY TypeInvStep, SenderInvStep, FramingInvStep, ContentInvStep, RoomInvStep
<1>3. TypeInv /\ SenderInv /\ FramingInv /\ ContentInv /\ RoomInv
      /\ (TypeInv /\ SenderInv /\ FramingInv /\ ContentInv /\ RoomInv)' /\ [Next]_vars
        => [Abstract!Next]_Abstract!vars
  BY RoomStep
<1>4. Init => Abstract!Init
  BY RoomStart
<1> QED
  BY <1>1, <1>2, <1>3, <1>4, PTL DEF Spec, IsAChatRoom, Abstract!Spec
=============================================================================
