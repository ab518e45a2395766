----------------------------- MODULE SimpleServer -----------------------------
(***************************************************************************)
(* Task16/Subtask2, simple_par_sv: the main thread accepts and starts a    *)
(* thread for each connection; the descriptor is handed over in memory     *)
(* that main allocates for each thread and the thread frees.  The thread   *)
(* is named after the connection it was started for.                       *)
(***************************************************************************)
EXTENDS EchoNet

VARIABLE arg  \* the descriptor handed to each thread

simple_init == arg = [t \in Threads |-> 0]

simple_start ==
  /\ inet_listen([t \in Threads |-> IF t = Main THEN "accept" ELSE "ended"])
  /\ arg' = [t \in Threads |-> 0]

simple_accept == Accept(Main, "create") /\ UNCHANGED arg

pthread_create ==
  LET k == ConnOf(Main) IN
  /\ pc[Main] = "create"
  /\ pc' = [pc EXCEPT ![Main] = "accept", ![k] = "start"]
  /\ arg' = [arg EXCEPT ![k] = fd[Main]]
  /\ UNCHANGED <<settings, clientVars, connVars, processVars, fds, fd, msg>>

TakeArgument(k) ==
  /\ Goes(k, "start", "read")
  /\ fd' = [fd EXCEPT ![k] = arg[k]]
  /\ UNCHANGED <<settings, clientVars, connVars, processVars, fds, msg, arg>>

simple_handle_request(k) ==
  \/ TakeArgument(k)
  \/ (Read(k, "write") \/ Write(k, "close") \/ Close(k, "ended")) /\ UNCHANGED arg

simple_main == simple_accept \/ pthread_create

simple_exit ==
  /\ (\E t \in {Main} \cup Conns : err_exit(t)) \/ sig_int \/ Kill
  /\ UNCHANGED arg
=============================================================================
