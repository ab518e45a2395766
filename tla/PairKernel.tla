------------------------------ MODULE PairKernel ------------------------------
(***************************************************************************)
(* What the pairs of a server and a client of Task12, Task13 and Task14    *)
(* share: one server, some clients, and the objects of the kernel they     *)
(* find by a name or key: a channel (pipe, FIFO, queue or shared memory)   *)
(* and a semaphore.  Objects outlive the processes that made them; a       *)
(* removed object loses its name and is still there for those who have it  *)
(* open.  The server greets with Hi, the client answers with Hello.        *)
(*                                                                         *)
(* Slip_X is the definition X with a plausible programming slip.           *)
(***************************************************************************)
EXTENDS Naturals, FiniteSets

CONSTANTS Sv, Clients,
          MaxRuns,  \* bound: how often each program is run
          MaxIds    \* bound: how many channels and semaphores are made

ASSUME PairAssumption ==
  Sv \notin Clients /\ MaxRuns \in Nat \ {0} /\ MaxIds \in Nat \ {0}

Procs == {Sv} \cup Clients
Ids == 1..MaxIds
Kinds == {"pipe", "fifo", "posix_mq", "sysV_mq", "posix_shm", "sysV_shm"}
Messages == {"Hi", "Hello"}
\* What a process may print: uninitialised memory and zeros are no messages.
Texts == Messages \cup {"", "zeros", "uninitialised"}

\* calm: one server, and one client when the server waits for it;
\* orderly: as often as wanted, at any time; rough: and killed at any time.
Manners == {"calm", "orderly", "rough"}

VARIABLES
  kind,    \* which pair runs
  manner,  \* how the programs are run, see Manners
  at,      \* the next step of each process
  shown,   \* what its last run printed as received
  runs,    \* how often it was started
  child,   \* the client that the server forked last, Sv if it could not
  chan, sem,         \* the objects that have the name now, 0 if none
  chan_of, sem_of,   \* the objects each process has open, 0 if none
  chans, sems,       \* how many were made
  queue,   \* of a channel: how many messages of each text wait in it
  mem,     \* of a channel: what the pipe or the memory holds
  count    \* of a semaphore

setVars == <<kind, manner>>
procVars == <<setVars, at, shown, runs, child>>
chanVars == <<chan, chan_of, chans, queue, mem>>
semVars == <<sem, sem_of, sems, count>>
vars == <<procVars, chanVars, semVars>>

Ended == {"off", "done", "failed", "killed"}
Running(p) == at[p] \notin Ended

Goes(p, from, to) == at[p] = from /\ at' = [at EXCEPT ![p] = to]
Shows(p, text) == shown' = [shown EXCEPT ![p] = text]
Step(p, from, to) == Goes(p, from, to) /\ UNCHANGED <<setVars, shown, runs, child>>
Prints(p, from, to, text) ==
  Goes(p, from, to) /\ Shows(p, text) /\ UNCHANGED <<setVars, runs, child>>

\* A program is started again only once it has ended.
Starts(p, first) ==
  /\ ~Running(p)
  /\ runs[p] < (IF manner = "calm" THEN 1 ELSE MaxRuns)
  /\ at' = [at EXCEPT ![p] = first]
  /\ Shows(p, "")
  /\ runs' = [runs EXCEPT ![p] = @ + 1]
  /\ UNCHANGED <<setVars, child>>

StartServer == Starts(Sv, "start") /\ UNCHANGED <<chanVars, semVars>>

\* By hand.
StartClient(c, waiting) ==
  /\ manner = "calm" => at[Sv] = waiting /\ \A d \in Clients : runs[d] = 0
  /\ Starts(c, "start")
  /\ UNCHANGED <<chanVars, semVars>>

\* fork: the child is client c.
Fork(c, to, first) ==
  /\ ~Running(c)
  /\ at' = [at EXCEPT ![Sv] = to, ![c] = first]
  /\ child' = c
  /\ Shows(c, "")
  /\ runs' = [runs EXCEPT ![c] = @ + 1]
  /\ UNCHANGED setVars

\* A slip: the parent does not wait.
Slip_WaitForChild(to) == Step(Sv, "wait", to) /\ UNCHANGED <<chanVars, semVars>>

\* wait: the child has ended.
WaitForChild(to) ==
  /\ child = Sv \/ ~Running(child)
  /\ Step(Sv, "wait", to)
  /\ UNCHANGED <<chanVars, semVars>>

Kill(p) ==
  /\ manner = "rough" /\ Running(p)
  /\ at' = [at EXCEPT ![p] = "killed"]
  /\ chan_of' = [chan_of EXCEPT ![p] = 0] /\ sem_of' = [sem_of EXCEPT ![p] = 0]
  /\ UNCHANGED <<setVars, shown, runs, child, chan, chans, queue, mem, sem, sems, count>>

\* The channel with the name, made with the given content if there is none.
OpenOrCreate(p, content) ==
  IF chan # 0
  THEN /\ chan_of' = [chan_of EXCEPT ![p] = chan]
       /\ UNCHANGED <<chan, chans, queue, mem>>
  ELSE /\ chans < MaxIds
       /\ chans' = chans + 1 /\ chan' = chans'
       /\ chan_of' = [chan_of EXCEPT ![p] = chan']
       /\ mem' = [mem EXCEPT ![chan'] = content]
       /\ UNCHANGED queue

OpenExisting(p) ==
  /\ chan # 0
  /\ chan_of' = [chan_of EXCEPT ![p] = chan]
  /\ UNCHANGED <<chan, chans, queue, mem>>

\* exit(EXIT_FAILURE) after a call that found no object.
Fails(p, step, failed) ==
  /\ Step(p, step, "failed")
  /\ failed
  /\ UNCHANGED <<chanVars, semVars>>

PairInit ==
  /\ kind \in Kinds /\ manner \in Manners
  /\ at = [p \in Procs |-> "off"] /\ shown = [p \in Procs |-> ""]
  /\ runs = [p \in Procs |-> 0] /\ child = Sv
  /\ chan = 0 /\ chans = 0 /\ chan_of = [p \in Procs |-> 0]
  /\ sem = 0 /\ sems = 0 /\ sem_of = [p \in Procs |-> 0]
  /\ queue = [i \in Ids |-> [m \in Messages |-> 0]]
  /\ mem = [i \in Ids |-> ""]
  /\ count = [i \in Ids |-> 0]
=============================================================================
