------------------------------ MODULE PoolServer ------------------------------
(***************************************************************************)
(* Task16/Subtask2, pool_par_sv: a fixed number of threads take turns to   *)
(* accept under a mutex; each serves the connection it got and comes back. *)
(* The main thread only spins.                                             *)
(***************************************************************************)
EXTENDS EchoNet

VARIABLE mutex  \* the thread that holds it, or Main: nobody

pool_init == mutex = Main

pool_start ==
  /\ inet_listen([t \in Threads |-> IF t \in Workers THEN "lock" ELSE "ended"])
  /\ mutex' = Main

pthread_mutex_lock(t) ==
  /\ mutex = Main
  /\ Goes(t, "lock", "accept")
  /\ mutex' = t
  /\ UNCHANGED <<settings, clientVars, connVars, processVars, fds, fd, msg>>

\* A slip: the thread keeps the mutex.
Slip_AcceptUnlock(t) == Accept(t, "read") /\ UNCHANGED mutex

\* accept and pthread_mutex_unlock.
AcceptUnlock(t) == Accept(t, "read") /\ mutex' = Main

pool_handle_request(t) ==
  \/ pthread_mutex_lock(t)
  \/ AcceptUnlock(t)
  \/ (Read(t, "write") \/ Write(t, "close") \/ Close(t, "lock")) /\ UNCHANGED mutex

pool_exit ==
  /\ (\E t \in Workers : err_exit(t)) \/ sig_int \/ Kill
  /\ UNCHANGED mutex
=============================================================================
