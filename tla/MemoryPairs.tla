------------------------------ MODULE MemoryPairs ------------------------------
(***************************************************************************)
(* Task14: the server writes the greeting into shared memory and waits at  *)
(* a semaphore for the client, which prints it, writes its answer over it  *)
(* and releases the semaphore.  posix_serv opens a semaphore that may have *)
(* a value already; sysV_serv sets the value to 0 before it waits.         *)
(***************************************************************************)
EXTENDS PairKernel

\* Steps on the open memory and the open semaphore.
Copy(p, from, to, m) ==
  /\ Step(p, from, to)
  /\ mem' = [mem EXCEPT ![chan_of[p]] = m]
  /\ UNCHANGED <<chan, chan_of, chans, queue, semVars>>

PrintMemory(p, to) ==
  /\ Prints(p, "print", to, mem[chan_of[p]])
  /\ mem[chan_of[p]] # ""
  /\ UNCHANGED <<chanVars, semVars>>

SetCount(i, n) == count' = [count EXCEPT ![i] = n] /\ UNCHANGED <<sem, sem_of, sems>>

SemWait(from, to) ==
  /\ Step(Sv, from, to)
  /\ count[sem_of[Sv]] > 0
  /\ SetCount(sem_of[Sv], count[sem_of[Sv]] - 1)
  /\ UNCHANGED chanVars

\* A slip: the client forgets to release.
Slip_SemPost(c) == Step(c, "post", "done") /\ UNCHANGED <<semVars, chanVars>>

SemPost(c) ==
  /\ Step(c, "post", "done")
  /\ SetCount(sem_of[c], count[sem_of[c]] + 1)
  /\ UNCHANGED chanVars

\* The semaphore with the name, made with the value 0 if there is none.
SemOpenOrCreate(p, from, to) ==
  /\ Step(p, from, to)
  /\ IF sem # 0
     THEN sem_of' = [sem_of EXCEPT ![p] = sem] /\ UNCHANGED <<sem, sems, count>>
     ELSE /\ sems < MaxIds
          /\ sems' = sems + 1 /\ sem' = sems'
          /\ sem_of' = [sem_of EXCEPT ![p] = sem']
          /\ count' = [count EXCEPT ![sem'] = 0]
  /\ UNCHANGED chanVars

SemOpen(p, to) ==
  /\ sem # 0
  /\ Step(p, "sem_open", to)
  /\ sem_of' = [sem_of EXCEPT ![p] = sem]
  /\ UNCHANGED <<sem, sems, count, chanVars>>

RemoveMemory(from, to) ==
  /\ chan # 0
  /\ Step(Sv, from, to)
  /\ chan' = 0
  /\ UNCHANGED <<chan_of, chans, queue, mem, semVars>>

RemoveSemaphore(from) ==
  /\ sem # 0
  /\ Step(Sv, from, "done")
  /\ sem' = 0
  /\ UNCHANGED <<sem_of, sems, count, chanVars>>

-----------------------------------------------------------------------------
(* posix_serv, posix_cli.                                                  *)

\* shm_open: new memory has no bytes until ftruncate.
shm_open_create ==
  /\ Step(Sv, "start", "truncate")
  /\ OpenOrCreate(Sv, "")
  /\ UNCHANGED semVars

ftruncate ==
  LET i == chan_of[Sv] IN
  /\ Step(Sv, "truncate", "sem_open")
  /\ mem' = [mem EXCEPT ![i] = IF @ = "" THEN "zeros" ELSE @]
  /\ UNCHANGED <<chan, chan_of, chans, queue, semVars>>

\* A slip: the semaphore is set to 0 after it was opened.
Slip_posix_shm_serv ==
  \/ shm_open_create \/ ftruncate
  \/ SemOpenOrCreate(Sv, "sem_open", "init_sem")
  \/ Step(Sv, "init_sem", "copy") /\ SetCount(sem_of[Sv], 0) /\ UNCHANGED chanVars
  \/ Copy(Sv, "copy", "wait", "Hi")
  \/ SemWait("wait", "print") \/ PrintMemory(Sv, "unlink")
  \/ RemoveMemory("unlink", "sem_unlink") \/ RemoveSemaphore("sem_unlink")

posix_shm_serv ==
  \/ shm_open_create \/ ftruncate
  \/ SemOpenOrCreate(Sv, "sem_open", "copy") \/ Copy(Sv, "copy", "wait", "Hi")
  \/ SemWait("wait", "print") \/ PrintMemory(Sv, "unlink")
  \/ RemoveMemory("unlink", "sem_unlink") \/ RemoveSemaphore("sem_unlink")

shm_open(c) == Step(c, "start", "sem_open") /\ OpenExisting(c) /\ UNCHANGED semVars

\* Reading memory without bytes is a SIGBUS.
posix_shm_cli(c) ==
  \/ shm_open(c) \/ Fails(c, "start", chan = 0)
  \/ SemOpen(c, "print") \/ Fails(c, "sem_open", sem = 0)
  \/ PrintMemory(c, "copy") \/ Fails(c, "print", mem[chan_of[c]] = "")
  \/ Copy(c, "copy", "post", "Hello") \/ SemPost(c)

-----------------------------------------------------------------------------
(* sysV_serv, sysV_cli: a removed semaphore is gone for everybody.         *)

shmget_create ==
  /\ Step(Sv, "start", "copy")
  /\ OpenOrCreate(Sv, "zeros")
  /\ UNCHANGED semVars

init_sem ==
  /\ Step(Sv, "init_sem", "reserve_sem")
  /\ SetCount(sem_of[Sv], 0)
  /\ UNCHANGED chanVars

sysV_shm_serv ==
  \/ shmget_create \/ Copy(Sv, "copy", "semget", "Hi")
  \/ SemOpenOrCreate(Sv, "semget", "init_sem") \/ init_sem
  \/ SemWait("reserve_sem", "print") \/ PrintMemory(Sv, "shm_rmid")
  \/ RemoveMemory("shm_rmid", "sem_rmid") \/ RemoveSemaphore("sem_rmid")

sysV_shm_cli(c) ==
  \/ shm_open(c) \/ Fails(c, "start", chan = 0)
  \/ SemOpen(c, "print") \/ Fails(c, "sem_open", sem = 0)
  \/ PrintMemory(c, "copy") \/ Copy(c, "copy", "post", "Hello")
  \/ sem_of[c] = sem /\ SemPost(c)
  \/ Fails(c, "post", sem_of[c] # sem)
=============================================================================
