--------------------------- MODULE ProducerConsumer ---------------------------
(***************************************************************************)
(* Task16/Subtask2, producer_consumer_sv: the main thread accepts, reads   *)
(* the request itself and puts it with the descriptor into a System V      *)
(* queue; worker threads take requests from the queue, answer and close.   *)
(* The queue outlives the process: it is removed by remove_queue, which    *)
(* atexit runs on every exit but not on SIGKILL, and msgget refuses one    *)
(* that is left over.  remove_queue uses the global msgid, which is 0      *)
(* until msgget has returned.                                              *)
(***************************************************************************)
EXTENDS EchoNet

CONSTANTS QueueCap  \* how many requests the kernel's queue holds

ASSUME QueueAssumption == QueueCap \in Nat

VARIABLES
  queue,    \* the requests in the queue of MSGQ_KEY: message and descriptor
  queue_id  \* the id of that queue, or NoQueue

queueVars == <<queue, queue_id>>
NoQueue == -1
\* The kernel gives the first queue of a system the id 0.
QueueIds == {0, 1}

queue_init == queue = <<>> /\ queue_id = NoQueue

\* remove_queue of a process whose msgid is id.
remove_queue(id) ==
  IF id = queue_id
  THEN queue' = <<>> /\ queue_id' = NoQueue
  ELSE UNCHANGED queueVars

\* inet_listen, msgget and the start of the threads.
producer_start ==
  /\ queue_id = NoQueue
  /\ inet_listen([t \in Threads |-> IF t = Main THEN "accept"
                                    ELSE IF t \in Workers THEN "receive" ELSE "ended"])
  /\ queue_id' \in QueueIds
  /\ queue' = <<>>

\* A queue is left over: msgget gives -1, err_exit, and nothing is removed.
MsggetFails ==
  /\ queue_id # NoQueue
  /\ server # "up"
  /\ MayStart
  /\ server' = "msgget"
  /\ starts' = starts + 1
  /\ remove_queue(-1)
  /\ UNCHANGED <<settings, clientVars, connVars, fds, threadVars>>

\* A second server finds the port in use: err_exit before msgget, with msgid 0.
SecondServer ==
  /\ server = "up"
  /\ MayStart
  /\ starts' = starts + 1
  /\ remove_queue(0)
  /\ UNCHANGED <<settings, clientVars, connVars, server, fds, threadVars>>

producer_accept == Accept(Main, "read") /\ UNCHANGED queueVars
producer_read == Read(Main, "send") /\ UNCHANGED queueVars

msgsnd ==
  /\ queue_id # NoQueue
  /\ Len(queue) < QueueCap
  /\ Goes(Main, "send", "accept")
  /\ queue' = Append(queue, [client_fd |-> fd[Main], data |-> msg[Main]])
  /\ UNCHANGED <<settings, clientVars, connVars, processVars, fds, fd, msg, queue_id>>

\* A slip: the answer goes to the descriptor that main keeps.
Slip_msgrcv(t) ==
  /\ queue # <<>>
  /\ Goes(t, "receive", "write")
  /\ fd' = [fd EXCEPT ![t] = fd[Main]]
  /\ msg' = [msg EXCEPT ![t] = Head(queue).data]
  /\ queue' = Tail(queue)
  /\ UNCHANGED <<settings, clientVars, connVars, processVars, fds, queue_id>>

msgrcv(t) ==
  /\ queue # <<>>
  /\ Goes(t, "receive", "write")
  /\ fd' = [fd EXCEPT ![t] = Head(queue).client_fd]
  /\ msg' = [msg EXCEPT ![t] = Head(queue).data]
  /\ queue' = Tail(queue)
  /\ UNCHANGED <<settings, clientVars, connVars, processVars, fds, queue_id>>

producer_main == producer_accept \/ producer_read \/ msgsnd

consumer_handle_request(t) ==
  \/ msgrcv(t)
  \/ (Write(t, "close") \/ Close(t, "receive")) /\ UNCHANGED queueVars

\* err_exit of the queue's calls: the queue has been removed.
QueueGone(t) ==
  /\ queue_id = NoQueue
  /\ pc[t] \in {"send", "receive"}
  /\ Ends(pc[t])

producer_exit ==
  \/ /\ (\E t \in {Main} \cup Workers : err_exit(t) \/ QueueGone(t)) \/ sig_int
     /\ remove_queue(queue_id)
  \/ Kill /\ UNCHANGED queueVars
=============================================================================
