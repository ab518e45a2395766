------------------------------ MODULE Pairs_proofs ------------------------------
(***************************************************************************)
(* What holds of the six pairs for every number of clients, runs and       *)
(* objects of the kernel and every capacity of the queues.                 *)
(***************************************************************************)
EXTENDS Pairs, TLAPS

-----------------------------------------------------------------------------
(* The processes and the kernel.                                           *)

Places ==
  {"off", "done", "failed", "killed", "start", "close_read", "write", "close", "wait",
   "close_write", "read", "open", "opening", "unlink", "send", "fork", "receive", "remove",
   "truncate", "sem_open", "copy", "print", "sem_unlink", "post", "semget", "init_sem",
   "reserve_sem", "shm_rmid", "sem_rmid"}

ProcTypes ==
  /\ kind \in Kinds /\ manner \in Manners
  /\ at \in [Procs -> Places] /\ shown \in [Procs -> Texts] /\ runs \in [Procs -> Nat]
  /\ child \in Procs

\* Objects are numbered as they are made, so those of a run are new.
ChanTypes ==
  /\ chans \in 0..MaxIds /\ chan \in 0..chans /\ chan_of \in [Procs -> 0..chans]
  /\ queue \in [Ids -> [Messages -> Nat]]
  /\ mem \in [Ids -> Messages \cup {"", "zeros"}]

SemTypes ==
  /\ sems \in 0..MaxIds /\ sem \in 0..sems /\ sem_of \in [Procs -> 0..sems]
  /\ count \in [Ids -> Nat]

\* A process past its first step has the channel open, until it closes it.
Holding ==
  \A p \in Procs :
    /\ at[p] \notin Ended \cup {"start"}
    /\ ~(kind = "pipe" /\ at[p] = "wait") /\ ~(kind = "fifo" /\ at[p] = "unlink")
    => chan_of[p] # 0

NeverRun == \A p \in Procs : runs[p] = 0 => at[p] = "off" /\ shown[p] = ""

KernelInv == ProcTypes /\ ChanTypes /\ SemTypes /\ Holding /\ NeverRun

-----------------------------------------------------------------------------
(* The pipe: the child that reads is the one the parent forked last, and   *)
(* until it has read the pipe is open for writing or holds the greeting.   *)

PipeInv ==
  kind = "pipe" /\ manner # "rough" =>
    /\ at[Sv] \in {"off", "start", "close_read", "write", "close", "wait", "done"}
    /\ \A c \in Clients :
         /\ Running(c) => /\ c = child /\ at[c] \in {"close_write", "read"}
                          /\ at[Sv] \in {"close_read", "write", "close", "wait"}
         /\ shown[c] \in {"", "Hi"}
    /\ at[Sv] \in {"close_read", "write"} =>
         /\ child \in Clients /\ Running(child)
         /\ chan_of[child] = chan_of[Sv] /\ mem[chan_of[Sv]] = ""
    /\ at[Sv] \in {"close", "wait"} =>
         child \in Clients /\ (Running(child) => mem[chan_of[child]] = "Hi")

(* The FIFO: a client that is the only one ever started reads the greeting. *)

Alone(c) == \A d \in Clients : runs[d] <= IF d = c THEN 1 ELSE 0

FifoInv ==
  kind = "fifo" /\ manner # "rough" =>
    /\ at[Sv] \in {"open", "opening", "write"} => mem[chan_of[Sv]] = ""
    /\ \A c \in Clients : Alone(c) =>
         /\ at[Sv] = "write" => at[c] = "read" /\ chan_of[c] = chan_of[Sv]
         /\ at[Sv] = "close" => at[c] \in {"read", "done"}
         /\ at[c] = "read" => \/ at[Sv] = "write" /\ chan_of[c] = chan_of[Sv]
                              \/ mem[chan_of[c]] = "Hi"
         /\ shown[c] \in {"", "Hi"}

(* The POSIX queue: what is in it while the parent waits.                  *)

Holds(hi, hello) == queue[chan]["Hi"] = hi /\ queue[chan]["Hello"] = hello

PosixQueueInv ==
  kind = "posix_mq" /\ manner # "rough" =>
    /\ at[Sv] \in {"off", "start", "send", "fork", "wait", "receive", "unlink", "done"}
    /\ \A i \in Ids : i > chans => queue[i]["Hi"] = 0 /\ queue[i]["Hello"] = 0
    /\ IF at[Sv] \in {"off", "start", "done"} THEN chan = 0 ELSE chan = chan_of[Sv]
    /\ \A c \in Clients : /\ Running(c) => c = child /\ at[Sv] = "wait"
                          /\ shown[c] \in {"", "Hi"}
    /\ at[Sv] = "send" => Holds(0, 0)
    /\ at[Sv] = "fork" => Holds(1, 0)
    /\ at[Sv] = "wait" =>
         /\ child \in Clients
         /\ \/ at[child] = "start" /\ Holds(1, 0)
            \/ at[child] = "receive" /\ Holds(1, 0) /\ chan_of[child] = chan
            \/ at[child] = "send" /\ Holds(0, 0) /\ chan_of[child] = chan /\ shown[child] = "Hi"
            \/ at[child] = "done" /\ Holds(0, 1) /\ shown[child] = "Hi"
    /\ at[Sv] = "receive" => Holds(0, 1)
    /\ at[Sv] \in {"receive", "unlink"} => child \in Clients /\ shown[child] = "Hi"
    /\ shown[Sv] \in {"", "Hello"}

(* The System V queue: each program reads one type of message.             *)

SysVQueueInv ==
  kind = "sysV_mq" =>
    /\ shown[Sv] \in {"", "Hello"} /\ \A c \in Clients : shown[c] \in {"", "Hi"}
    /\ manner = "calm" =>
         /\ \A c \in Clients : at[c] = "send" => shown[c] = "Hi"
         /\ \A i \in Ids : queue[i]["Hello"] > 0 => \E c \in Clients : shown[c] = "Hi"

(* The POSIX semaphore: it is new when the server opens it, and only the   *)
(* server takes a release.                                                 *)

ReleaseInv ==
  kind = "posix_shm" /\ manner # "rough" =>
    /\ at[Sv] \in {"off", "start", "truncate", "sem_open", "copy", "wait", "print", "unlink",
                   "sem_unlink", "done"}
    /\ IF at[Sv] \in {"off", "start", "truncate", "sem_open", "done"}
       THEN sem = 0 ELSE sem # 0 /\ sem = sem_of[Sv]
    /\ at[Sv] \in {"copy", "wait"} =>
         \A c \in Clients : at[c] = "done" /\ sem_of[c] = sem => count[sem] > 0

(* A calm run of the shared memory pairs: before the server waits there is *)
(* no client, then there is one, and when the server goes on it has gone.  *)

Visited(c) ==
  /\ runs[c] > 0
  /\ \A d \in Clients : d # c => runs[d] = 0
  /\ \/ at[c] = "start" /\ mem[chan] = "Hi" /\ count[sem] = 0
     \/ at[c] = "sem_open" /\ mem[chan] = "Hi" /\ count[sem] = 0 /\ chan_of[c] = chan
     \/ /\ at[c] = "print" /\ mem[chan] = "Hi" /\ count[sem] = 0
        /\ chan_of[c] = chan /\ sem_of[c] = sem
     \/ /\ at[c] = "copy" /\ count[sem] = 0 /\ shown[c] = "Hi"
        /\ chan_of[c] = chan /\ sem_of[c] = sem
     \/ /\ at[c] = "post" /\ mem[chan] = "Hello" /\ count[sem] = 0 /\ shown[c] = "Hi"
        /\ chan_of[c] = chan /\ sem_of[c] = sem
     \/ at[c] = "done" /\ mem[chan] = "Hello" /\ shown[c] = "Hi"

Quiet == \A c \in Clients : runs[c] = 0
Gone == (\A c \in Clients : ~Running(c)) /\ \E c \in Clients : shown[c] = "Hi"

\* The server has the semaphore that has the name, at its value 0.
SemReady == sem # 0 /\ sem = sem_of[Sv] /\ count[sem] = 0

MemoryInv ==
  manner = "calm" /\ kind \in {"posix_shm", "sysV_shm"} =>
    CASE at[Sv] \in {"off", "start"} -> Quiet /\ sem = 0
      [] at[Sv] \in {"truncate", "sem_open"} -> Quiet /\ sem = 0 /\ chan = chan_of[Sv]
      [] at[Sv] = "copy" -> /\ Quiet /\ chan = chan_of[Sv]
                            /\ IF kind = "posix_shm" THEN SemReady ELSE sem = 0
      [] at[Sv] = "semget" -> Quiet /\ sem = 0 /\ chan = chan_of[Sv] /\ mem[chan] = "Hi"
      [] at[Sv] = "init_sem" -> Quiet /\ SemReady /\ chan = chan_of[Sv] /\ mem[chan] = "Hi"
      [] at[Sv] = WaitsAt[kind] ->
           /\ chan = chan_of[Sv] /\ sem # 0 /\ sem = sem_of[Sv]
           /\ \/ Quiet /\ mem[chan] = "Hi" /\ count[sem] = 0
              \/ \E c \in Clients : Visited(c)
      [] at[Sv] = "print" -> Gone /\ mem[chan_of[Sv]] = "Hello"
      [] OTHER -> /\ Gone
                  /\ at[Sv] \in {"unlink", "sem_unlink", "shm_rmid", "sem_rmid", "done"}

(* The server of the pipe and of the FIFO reads nothing.                   *)

ServerSilent == kind \in {"pipe", "fifo"} => shown[Sv] = ""

(* Whoever reads shared memory reads what is in it.                        *)

MemoryRead ==
  kind \in {"posix_shm", "sysV_shm"} => \A p \in Procs : shown[p] # "uninitialised"

(* What is heard in a calm run: the server forks once, or one client is    *)
(* started by hand.                                                        *)

ForkedOnce ==
  manner = "calm" /\ kind \in {"pipe", "posix_mq"} =>
    (at[Sv] \in {"off", "start", "send", "fork"} => Quiet)

OneReader ==
  manner = "calm" /\ kind = "fifo" => \A c \in Clients : runs[c] > 0 => Alone(c)

HeardInv ==
  manner = "calm" =>
    /\ \A c \in Clients : shown[c] \in {"", "Hi"}
    /\ shown[Sv] \in {"", "Hello"}
    /\ shown[Sv] = "Hello" => \E c \in Clients : shown[c] = "Hi"

PairsInv ==
  /\ KernelInv /\ PipeInv /\ FifoInv /\ PosixQueueInv /\ SysVQueueInv
  /\ ServerSilent /\ ReleaseInv /\ MemoryInv /\ MemoryRead /\ ForkedOnce /\ OneReader /\ HeardInv

-----------------------------------------------------------------------------
(* The kernel: which pair runs is fixed, and each kind of call keeps the   *)
(* types, with what a process holds.                                       *)

\* What the name of each place says, where a lemma is about any step.
Past(k, to) == to \in Ended \/ (k = "pipe" /\ to = "wait") \/ (k = "fifo" /\ to = "unlink")

LEMMA IdFacts ==
  ASSUME NEW n \in 0..MaxIds
  PROVE  /\ n \in Nat /\ 0 \in 0..n /\ n # 0 => n \in Ids
         /\ \A i \in 0..n : i \in 0..MaxIds
         /\ n < MaxIds => /\ n + 1 \in 0..MaxIds /\ n + 1 \in 0..(n + 1)
                         /\ n + 1 \in Ids /\ n + 1 # 0
                         /\ \A i \in 0..n : i \in 0..(n + 1)
  BY PairAssumption DEF Ids

LEMMA NoneOfIds == (ChanTypes => 0 \in 0..chans) /\ (SemTypes => 0 \in 0..sems)
<1>1. ASSUME NEW n \in 0..MaxIds PROVE 0 \in 0..n
  BY IdFacts
<1> QED
  BY <1>1 DEF ChanTypes, SemTypes

LEMMA ZeroIds == 0 \in 0..MaxIds /\ 0 \in 0..0
  BY PairAssumption

LEMMA InitKernel == PairInit => KernelInv
<1> SUFFICES ASSUME PairInit PROVE KernelInv
  OBVIOUS
<1>1. ProcTypes
  BY DEF PairInit, ProcTypes, Procs, Places, Texts
<1>2. ChanTypes
  <2>1. chans = 0 /\ chan = 0 /\ chan_of = [p \in Procs |-> 0]
    BY DEF PairInit
  <2>2. chans \in 0..MaxIds /\ chan \in 0..chans
    BY <2>1, ZeroIds
  <2>3. chan_of \in [Procs -> 0..chans]
    BY <2>1, <2>2
  <2>4. queue \in [Ids -> [Messages -> Nat]] /\ mem \in [Ids -> Messages \cup {"", "zeros"}]
    BY DEF PairInit
  <2> QED
    BY <2>2, <2>3, <2>4 DEF ChanTypes
<1>3. SemTypes
  <2>1. sems = 0 /\ sem = 0 /\ sem_of = [p \in Procs |-> 0]
    BY DEF PairInit
  <2>2. sems \in 0..MaxIds /\ sem \in 0..sems
    BY <2>1, ZeroIds
  <2>3. sem_of \in [Procs -> 0..sems]
    BY <2>1, <2>2
  <2>4. count \in [Ids -> Nat]
    BY DEF PairInit
  <2> QED
    BY <2>2, <2>3, <2>4 DEF SemTypes
<1>4. Holding /\ NeverRun
  BY DEF PairInit, Holding, NeverRun, Ended
<1> QED
  BY <1>1, <1>2, <1>3, <1>4 DEF KernelInv

\* A step, with or without a print, that ends with the channel open or is past it.
LEMMA MoveKernel ==
  ASSUME KernelInv, NEW p \in Procs, NEW from \in Places \ {"off"}, NEW to \in Places,
         NEW text \in Texts,
         Step(p, from, to) \/ Prints(p, from, to, text),
         ChanTypes', SemTypes',
         \A q \in Procs : q # p => chan_of'[q] = chan_of[q],
         Past(kind, to) \/ chan_of'[p] # 0
  PROVE  KernelInv'
<1>1. /\ at' = [at EXCEPT ![p] = to] /\ at[p] # "off"
      /\ UNCHANGED <<kind, manner, runs, child>>
  BY DEF Step, Prints, Goes, setVars
<1>2. shown' = shown \/ shown' = [shown EXCEPT ![p] = text]
  BY DEF Step, Prints, Shows
<1>3. ProcTypes'
  BY <1>1, <1>2 DEF KernelInv, ProcTypes
<1>4. Holding'
  BY <1>1 DEF KernelInv, Holding, Past, Ended, ProcTypes
<1>5. NeverRun'
  BY <1>1, <1>2 DEF KernelInv, NeverRun, ProcTypes
<1> QED
  BY <1>3, <1>4, <1>5 DEF KernelInv

LEMMA SameChannels == ChanTypes /\ UNCHANGED chanVars => ChanTypes'
  BY DEF ChanTypes, chanVars

LEMMA SameSemaphores == SemTypes /\ UNCHANGED semVars => SemTypes'
  BY DEF SemTypes, semVars

LEMMA NewOrOldChannel ==
  ASSUME ChanTypes, NEW p \in Procs, NEW content \in {"", "zeros"}, OpenOrCreate(p, content)
  PROVE  /\ ChanTypes' /\ chan_of'[p] = chan' /\ chan' # 0
         /\ chan # 0 => chan' = chan /\ mem' = mem
         /\ chan = 0 => chan' = chans + 1 /\ chan' \in Ids /\ mem' = [mem EXCEPT ![chan'] = content]
         /\ chan_of' = [chan_of EXCEPT ![p] = chan']
         /\ queue' = queue
<1>1. CASE chan # 0
  BY <1>1 DEF OpenOrCreate, ChanTypes
<1>2. CASE chan = 0
  <2>1. /\ chans < MaxIds /\ chans' = chans + 1 /\ chan' = chans'
        /\ chan_of' = [chan_of EXCEPT ![p] = chan']
        /\ mem' = [mem EXCEPT ![chan'] = content] /\ queue' = queue
    BY <1>2 DEF OpenOrCreate
  <2>2. chans \in 0..MaxIds /\ chan_of \in [Procs -> 0..chans]
    BY DEF ChanTypes
  <2>3. chans' \in 0..MaxIds /\ chan' \in 0..chans' /\ chan' \in Ids /\ chan' # 0
    BY <2>1, <2>2, IdFacts
  <2>4. \A i \in 0..chans : i \in 0..chans'
    BY <2>1, <2>2, IdFacts
  <2>5. chan_of' \in [Procs -> 0..chans']
    BY <2>1, <2>2, <2>3, <2>4
  <2>6. /\ queue' \in [Ids -> [Messages -> Nat]]
        /\ mem' \in [Ids -> Messages \cup {"", "zeros"}]
    BY <2>1 DEF ChanTypes
  <2>7. ChanTypes'
    BY <2>3, <2>5, <2>6 DEF ChanTypes
  <2> QED
    BY <2>1, <2>2, <2>3, <2>7, <1>2
<1> QED
  BY <1>1, <1>2

\* The channel that is made next is open nowhere.
LEMMA NewChannel ==
  ASSUME ChanTypes, NEW q \in Procs
  PROVE  chan_of[q] # chans + 1
<1>1. chans \in 0..MaxIds /\ chan_of[q] \in 0..chans
  BY DEF ChanTypes
<1>2. \A n \in 0..MaxIds : \A i \in 0..n : i # n + 1
  BY PairAssumption
<1> QED
  BY <1>1, <1>2

LEMMA OldChannel ==
  ASSUME ChanTypes, NEW p \in Procs, OpenExisting(p)
  PROVE  /\ ChanTypes' /\ chan_of'[p] = chan /\ chan # 0
         /\ chan_of' = [chan_of EXCEPT ![p] = chan]
  BY DEF ChanTypes, OpenExisting

\* The calls that change one thing of the channels.
LEMMA ChannelChange ==
  ASSUME ChanTypes, UNCHANGED chans,
         chan' \in {chan, 0},
         chan_of' = chan_of \/ \E p \in Procs : chan_of' = [chan_of EXCEPT ![p] = 0],
         mem' = mem \/ \E i, m : mem' = [mem EXCEPT ![i] = m] /\ m \in Messages \cup {"", "zeros"},
         \/ queue' = queue
         \/ \E i, m, n : queue' = [queue EXCEPT ![i][m] = n] /\ n \in Nat
  PROVE  ChanTypes'
<1>1. /\ chans \in 0..MaxIds /\ chan \in 0..chans /\ chan_of \in [Procs -> 0..chans]
  BY DEF ChanTypes
<1>1a. 0 \in 0..chans
  BY NoneOfIds
<1>2. chan_of' \in [Procs -> 0..chans']
  BY <1>1, <1>1a
<1>3. mem' \in [Ids -> Messages \cup {"", "zeros"}]
  BY DEF ChanTypes
<1>4. queue' \in [Ids -> [Messages -> Nat]]
  <2>1. queue \in [Ids -> [Messages -> Nat]]
    BY DEF ChanTypes
  <2>2. ASSUME NEW i, NEW m, NEW n \in Nat, queue' = [queue EXCEPT ![i][m] = n]
        PROVE  queue' \in [Ids -> [Messages -> Nat]]
    <3>1. ASSUME NEW k \in Ids PROVE queue'[k] \in [Messages -> Nat]
      BY <2>1, <2>2
    <3>2. queue' = [k \in Ids |-> queue'[k]]
      BY <2>1, <2>2
    <3> QED
      BY <3>1, <3>2
  <2>3. CASE queue' = queue
    BY <2>1, <2>3
  <2>4. CASE \E i, m, n : queue' = [queue EXCEPT ![i][m] = n] /\ n \in Nat
    <3>1. PICK i, m, n : queue' = [queue EXCEPT ![i][m] = n] /\ n \in Nat
      BY <2>4
    <3> QED
      BY <2>2, <3>1
  <2> QED
    BY <2>3, <2>4
<1>5. chans' \in 0..MaxIds /\ chan' \in 0..chans'
  BY <1>1, <1>1a
<1> QED
  BY <1>2, <1>3, <1>4, <1>5 DEF ChanTypes

\* What a process that has the channel open finds there.
LEMMA HeldChannel ==
  ASSUME KernelInv, NEW p \in Procs, ~Past(kind, at[p]), at[p] # "start"
  PROVE  /\ chan_of[p] \in Ids /\ mem[chan_of[p]] \in Messages \cup {"", "zeros"}
         /\ \A m \in Messages : queue[chan_of[p]][m] \in Nat
<1>1. chan_of[p] # 0
  BY DEF KernelInv, Holding, Past
<1>2. chan_of[p] \in Ids
  <2>1. chans \in 0..MaxIds /\ chan_of[p] \in 0..chans
    BY DEF KernelInv, ChanTypes
  <2> QED
    BY <1>1, <2>1, IdFacts
<1> QED
  BY <1>2 DEF KernelInv, ChanTypes

\* The calls that change one thing of the semaphores.
LEMMA SemaphoreChange ==
  ASSUME SemTypes, UNCHANGED sems,
         sem' \in {sem, 0},
         \/ sem_of' = sem_of
         \/ \E p \in Procs : sem_of' = [sem_of EXCEPT ![p] = 0]
         \/ \E p \in Procs : sem_of' = [sem_of EXCEPT ![p] = sem],
         count' = count \/ \E i, n : count' = [count EXCEPT ![i] = n] /\ n \in Nat
  PROVE  SemTypes'
<1>1. sems \in 0..MaxIds /\ sem \in 0..sems /\ sem_of \in [Procs -> 0..sems]
  BY DEF SemTypes
<1>2. 0 \in 0..sems
  BY NoneOfIds
<1>3. sem_of' \in [Procs -> 0..sems']
  BY <1>1, <1>2
<1>4. count' \in [Ids -> Nat]
  BY DEF SemTypes
<1>5. sems' \in 0..MaxIds /\ sem' \in 0..sems'
  BY <1>1, <1>2
<1> QED
  BY <1>3, <1>4, <1>5 DEF SemTypes

LEMMA NewOrOldSemaphore ==
  ASSUME SemTypes, NEW p \in Procs, NEW from, NEW to, SemOpenOrCreate(p, from, to)
  PROVE  /\ SemTypes' /\ sem' # 0 /\ sem' \in Ids
         /\ sem # 0 => sem' = sem /\ count' = count
         /\ sem = 0 => /\ sem' = sems + 1 /\ \A q \in Procs : sem_of[q] # sem'
                       /\ count' = [count EXCEPT ![sem'] = 0]
         /\ sem_of' = [sem_of EXCEPT ![p] = sem']
<1>1. sems \in 0..MaxIds /\ sem \in 0..sems /\ sem_of \in [Procs -> 0..sems]
  BY DEF SemTypes
<1>2. CASE sem # 0
  <2>1. sem' = sem /\ sems' = sems /\ count' = count /\ sem_of' = [sem_of EXCEPT ![p] = sem]
    BY <1>2 DEF SemOpenOrCreate
  <2>2. sem_of' \in [Procs -> 0..sems']
    BY <1>1, <2>1
  <2>3. SemTypes'
    BY <2>1, <2>2 DEF SemTypes
  <2>4. sem \in 0..MaxIds
    BY <1>1, IdFacts
  <2>5. sem' \in Ids
    BY <2>1, <2>4, <1>2, IdFacts
  <2> QED
    BY <2>1, <2>3, <2>5, <1>2
<1>3. CASE sem = 0
  <2>1. /\ sems < MaxIds /\ sems' = sems + 1 /\ sem' = sems'
        /\ sem_of' = [sem_of EXCEPT ![p] = sem'] /\ count' = [count EXCEPT ![sem'] = 0]
    BY <1>3 DEF SemOpenOrCreate
  <2>2. sems' \in 0..MaxIds /\ sem' \in 0..sems' /\ sem' \in Ids /\ sem' # 0
    BY <1>1, <2>1, IdFacts
  <2>3. \A i \in 0..sems : i \in 0..sems' /\ i # sems + 1
    BY <1>1, <2>1, IdFacts
  <2>4. sem_of' \in [Procs -> 0..sems']
    BY <1>1, <2>1, <2>2, <2>3
  <2>5. count' \in [Ids -> Nat]
    BY <2>1 DEF SemTypes
  <2>6. SemTypes'
    BY <2>2, <2>4, <2>5 DEF SemTypes
  <2> QED
    BY <1>1, <1>3, <2>1, <2>2, <2>3, <2>6
<1> QED
  BY <1>2, <1>3

LEMMA RunsCounted ==
  ASSUME KernelInv, NEW p \in Procs
  PROVE  runs \in [Procs -> Nat] /\ runs[p] \in Nat /\ runs[p] + 1 \in Nat /\ runs[p] + 1 # 0
<1>1. runs \in [Procs -> Nat]
  BY DEF KernelInv, ProcTypes
<1>2. runs[p] \in Nat
  BY <1>1
<1> QED
  BY <1>1, <1>2

LEMMA FirstRun ==
  ASSUME KernelInv, NEW p \in Procs, runs' = [runs EXCEPT ![p] = @ + 1], runs[p] < 1
  PROVE  /\ runs[p] = 0 /\ at[p] = "off" /\ runs'[p] > 0
         /\ \A q \in Procs : q # p => runs'[q] = runs[q]
<1>1. runs \in [Procs -> Nat] /\ runs[p] \in Nat
  BY RunsCounted
<1>2. runs[p] = 0
  BY <1>1
<1>3. runs'[p] = 1
  BY <1>1, <1>2
<1>4. \A q \in Procs : q # p => runs'[q] = runs[q]
  BY <1>1
<1> QED
  BY <1>2, <1>3, <1>4 DEF KernelInv, NeverRun

LEMMA StartKernel ==
  ASSUME KernelInv, NEW p \in Procs, Starts(p, "start"), UNCHANGED <<chanVars, semVars>>
  PROVE  KernelInv'
<1>1. /\ at' = [at EXCEPT ![p] = "start"] /\ shown' = [shown EXCEPT ![p] = ""]
      /\ runs' = [runs EXCEPT ![p] = @ + 1] /\ UNCHANGED <<kind, manner, child, chan_of>>
  BY DEF Starts, Shows, setVars, chanVars
<1>2. /\ runs \in [Procs -> Nat] /\ runs[p] + 1 \in Nat /\ runs[p] + 1 # 0
      /\ "start" \in Places /\ "" \in Texts
  BY RunsCounted DEF Places, Texts
<1>2a. ProcTypes'
  BY <1>1, <1>2 DEF KernelInv, ProcTypes
<1>3. Holding'
  BY <1>1 DEF KernelInv, ProcTypes, Holding
<1>4. NeverRun'
  <2>1. runs'[p] # 0 /\ \A q \in Procs : q # p => runs'[q] = runs[q]
    BY <1>1, <1>2
  <2> QED
    BY <1>1, <2>1 DEF KernelInv, ProcTypes, NeverRun
<1> QED
  BY <1>2a, <1>3, <1>4, SameChannels, SameSemaphores DEF KernelInv

LEMMA KillKernel ==
  ASSUME KernelInv, NEW p \in Procs, Kill(p)
  PROVE  KernelInv'
<1>1. /\ at' = [at EXCEPT ![p] = "killed"] /\ chan_of' = [chan_of EXCEPT ![p] = 0]
      /\ sem_of' = [sem_of EXCEPT ![p] = 0] /\ at[p] # "off"
      /\ UNCHANGED <<kind, manner, shown, runs, child, chan, chans, queue, mem, sem, sems, count>>
  BY DEF Kill, setVars, Running, Ended
<1>2. ProcTypes'
  BY <1>1 DEF KernelInv, ProcTypes, Places
<1>3. ChanTypes'
  BY <1>1, ChannelChange DEF KernelInv
<1>4. SemTypes'
  BY <1>1, SemaphoreChange DEF KernelInv
<1>5. Holding'
  BY <1>1 DEF KernelInv, ProcTypes, Holding, Ended
<1>6. NeverRun'
  BY <1>1 DEF KernelInv, ProcTypes, NeverRun
<1> QED
  BY <1>2, <1>3, <1>4, <1>5, <1>6 DEF KernelInv

LEMMA FailKernel ==
  ASSUME KernelInv, NEW p \in Procs, NEW step \in Places \ {"off"}, NEW failed,
         Fails(p, step, failed)
  PROVE  KernelInv'
<1>1. Step(p, step, "failed") /\ UNCHANGED <<chanVars, semVars>>
  BY DEF Fails
<1>2. ChanTypes' /\ SemTypes' /\ chan_of' = chan_of
  BY <1>1, SameChannels, SameSemaphores DEF KernelInv, chanVars
<1>3. Past(kind, "failed") /\ "failed" \in Places /\ "" \in Texts
  BY DEF Past, Ended, Places, Texts
<1> QED
  BY <1>1, <1>2, <1>3, MoveKernel

\* A step that changes neither channels nor semaphores.
LEMMA PlainKernel ==
  ASSUME KernelInv, NEW p \in Procs, NEW from \in Places \ {"off"}, NEW to \in Places,
         NEW text \in Texts,
         Step(p, from, to) \/ Prints(p, from, to, text),
         UNCHANGED <<chanVars, semVars>>,
         from # "start" /\ ~Past(kind, from)
  PROVE  KernelInv'
<1>1. ChanTypes' /\ SemTypes' /\ chan_of' = chan_of
  BY SameChannels, SameSemaphores DEF KernelInv, chanVars
<1>2. at[p] = from
  BY DEF Step, Prints, Goes
<1>3. chan_of[p] # 0
  BY <1>2 DEF KernelInv, Holding, Past
<1> QED
  BY <1>1, <1>3, MoveKernel

-----------------------------------------------------------------------------
(* The programs of Task12 and the kernel.                                  *)

LEMMA WriteKernel ==
  ASSUME KernelInv, NEW readers, Write(readers), kind \in {"pipe", "fifo"}
  PROVE  KernelInv'
<1> DEFINE to == IF readers # {} THEN "close" ELSE "failed"
<1>1. /\ Step(Sv, "write", to) /\ UNCHANGED <<chan, chan_of, chans, queue, semVars>>
      /\ mem' = mem \/ mem' = [mem EXCEPT ![chan_of[Sv]] = "Hi"]
  BY DEF Write
<1>2. ChanTypes' /\ SemTypes'
  BY <1>1, ChannelChange, SameSemaphores DEF KernelInv, Messages
<1>3. /\ Sv \in Procs /\ "write" \in Places \ {"off"} /\ to \in Places /\ "" \in Texts
      /\ at[Sv] = "write" /\ ~Past(kind, "write") /\ kind \in Kinds
  BY <1>1 DEF Procs, Places, Texts, Step, Goes, Past, Ended, KernelInv, ProcTypes
<1>4. chan_of'[Sv] # 0
  BY <1>1, <1>3 DEF KernelInv, Holding, Past
<1> HIDE DEF to
<1> QED
  BY <1>1, <1>2, <1>3, <1>4, MoveKernel

LEMMA ReadKernel ==
  ASSUME KernelInv, NEW c \in Clients, PipeRead(c) \/ FifoRead(c)
  PROVE  KernelInv'
<1> DEFINE text == IF mem[chan_of[c]] # "" THEN mem[chan_of[c]] ELSE "uninitialised"
<1>1. /\ Prints(c, "read", "done", text)
      /\ UNCHANGED <<chan, chans, queue, semVars>>
      /\ mem' = [mem EXCEPT ![chan_of[c]] = ""] /\ chan_of' = [chan_of EXCEPT ![c] = 0]
  BY DEF PipeRead, FifoRead
<1>2. c \in Procs /\ "read" \in Places \ {"off"} /\ "done" \in Places /\ Past(kind, "done")
  BY DEF Procs, Places, Past, Ended
<1>3. at[c] = "read" /\ ~Past(kind, at[c])
  BY <1>1 DEF Prints, Goes, Past, Ended
<1>4. text \in Texts
  BY <1>2, <1>3, HeldChannel DEF Texts
<1>5. ChanTypes' /\ SemTypes'
  BY <1>1, <1>2, ChannelChange, SameSemaphores DEF KernelInv
<1>6. \A q \in Procs : q # c => chan_of'[q] = chan_of[q]
  BY <1>1 DEF KernelInv, ChanTypes
<1> HIDE DEF text
<1> QED
  BY <1>1, <1>2, <1>4, <1>5, <1>6, MoveKernel

LEMMA ForkKernel ==
  ASSUME KernelInv, NEW c \in Clients, NEW to \in Places, NEW first \in Places,
         at[Sv] # "off", Fork(c, to, first), ChanTypes', SemTypes',
         \A q \in Procs : q \notin {Sv, c} => chan_of'[q] = chan_of[q],
         Past(kind, to) \/ chan_of'[Sv] # 0, first = "start" \/ chan_of'[c] # 0
  PROVE  KernelInv'
<1>1. /\ at' = [at EXCEPT ![Sv] = to, ![c] = first] /\ child' = c
      /\ shown' = [shown EXCEPT ![c] = ""] /\ runs' = [runs EXCEPT ![c] = @ + 1]
      /\ UNCHANGED <<kind, manner>>
  BY DEF Fork, Shows, setVars
<1>2. Sv # c /\ Sv \in Procs /\ c \in Procs
  BY PairAssumption DEF Procs
<1>3. runs \in [Procs -> Nat] /\ runs[c] + 1 \in Nat /\ runs[c] + 1 # 0 /\ "" \in Texts
  BY <1>2, RunsCounted DEF Texts
<1>4. ProcTypes'
  BY <1>1, <1>2, <1>3 DEF KernelInv, ProcTypes
<1>5. Holding'
  BY <1>1, <1>2 DEF KernelInv, ProcTypes, Holding, Past, Ended
<1>6. NeverRun'
  <2>1. runs'[c] # 0 /\ \A q \in Procs : q # c => runs'[q] = runs[q]
    BY <1>1, <1>2, <1>3
  <2> QED
    BY <1>1, <1>2, <2>1 DEF KernelInv, ProcTypes, NeverRun
<1> QED
  BY <1>4, <1>5, <1>6 DEF KernelInv

LEMMA PipeKernel ==
  ASSUME KernelInv, kind = "pipe",
         task12_1_parent \/ \E c \in Clients : task12_1_child(c)
  PROVE  KernelInv'
<1>0. Sv \in Procs /\ (\A c \in Clients : c \in Procs) /\ "" \in Texts
  BY DEF Procs, Texts
<1>1. ASSUME NEW c \in Clients, PipeFork(c) PROVE KernelInv'
  <2>1. /\ at[Sv] = "start" /\ Fork(c, "close_read", "close_write")
        /\ chans < MaxIds /\ chans' = chans + 1
        /\ chan_of' = [chan_of EXCEPT ![Sv] = chans', ![c] = chans']
        /\ mem' = [mem EXCEPT ![chans'] = ""] /\ UNCHANGED <<chan, queue, semVars>>
    BY <1>1 DEF PipeFork
  <2>2. chans \in 0..MaxIds /\ chan \in 0..chans /\ chan_of \in [Procs -> 0..chans]
    BY DEF KernelInv, ChanTypes
  <2>3. chans' \in 0..MaxIds /\ chans' \in 0..chans' /\ chans' # 0
    BY <2>1, <2>2, IdFacts
  <2>4. \A i \in 0..chans : i \in 0..chans'
    BY <2>1, <2>2, IdFacts
  <2>5. chan_of' \in [Procs -> 0..chans'] /\ chan' \in 0..chans'
    BY <2>1, <2>2, <2>3, <2>4
  <2>6. /\ queue' \in [Ids -> [Messages -> Nat]]
        /\ mem' \in [Ids -> Messages \cup {"", "zeros"}]
    BY <2>1 DEF KernelInv, ChanTypes
  <2>7. ChanTypes' /\ SemTypes'
    BY <2>1, <2>3, <2>5, <2>6, SameSemaphores DEF ChanTypes, KernelInv
  <2>8. chan_of'[Sv] # 0 /\ chan_of'[c] # 0
        /\ \A q \in Procs : q \notin {Sv, c} => chan_of'[q] = chan_of[q]
    BY <1>0, <2>1, <2>2, <2>3
  <2> QED
    BY <2>1, <2>7, <2>8, ForkKernel DEF Places
<1>2. ASSUME CloseReadEnd PROVE KernelInv'
  <2>1. Step(Sv, "close_read", "write") /\ UNCHANGED <<chanVars, semVars>>
    BY <1>2 DEF CloseReadEnd
  <2>2. "close_read" \in Places \ {"off"} /\ "write" \in Places /\ ~Past(kind, "close_read")
    BY DEF Places, Past, Ended
  <2> QED
    BY <1>0, <2>1, <2>2, PlainKernel
<1>3. ASSUME PipeWrite PROVE KernelInv'
  BY <1>3, WriteKernel DEF PipeWrite
<1>4. ASSUME PipeClose PROVE KernelInv'
  <2>1. /\ Step(Sv, "close", "wait") /\ chan_of' = [chan_of EXCEPT ![Sv] = 0]
        /\ UNCHANGED <<chan, chans, queue, mem, semVars>>
    BY <1>4 DEF PipeClose
  <2>2. ChanTypes' /\ SemTypes'
    BY <1>0, <2>1, ChannelChange, SameSemaphores DEF KernelInv
  <2>3. \A q \in Procs : q # Sv => chan_of'[q] = chan_of[q]
    BY <2>1 DEF KernelInv, ChanTypes
  <2>4. Past(kind, "wait") /\ "close" \in Places \ {"off"} /\ "wait" \in Places
    BY DEF Past, Places
  <2> QED
    BY <1>0, <2>1, <2>2, <2>3, <2>4, MoveKernel
<1>5. ASSUME WaitForChild("done") PROVE KernelInv'
  <2>1. Step(Sv, "wait", "done") /\ UNCHANGED <<chanVars, semVars>>
    BY <1>5 DEF WaitForChild
  <2>2. ChanTypes' /\ SemTypes' /\ chan_of' = chan_of
    BY <2>1, SameChannels, SameSemaphores DEF KernelInv, chanVars
  <2>3. Past(kind, "done") /\ "wait" \in Places \ {"off"} /\ "done" \in Places
    BY DEF Past, Ended, Places
  <2> QED
    BY <1>0, <2>1, <2>2, <2>3, MoveKernel
<1>6. ASSUME NEW c \in Clients, CloseWriteEnd(c) PROVE KernelInv'
  <2>1. Step(c, "close_write", "read") /\ UNCHANGED <<chanVars, semVars>>
    BY <1>6 DEF CloseWriteEnd
  <2>2. "close_write" \in Places \ {"off"} /\ "read" \in Places /\ ~Past(kind, "close_write")
    BY DEF Places, Past, Ended
  <2> QED
    BY <1>0, <2>1, <2>2, PlainKernel
<1>7. ASSUME NEW c \in Clients, PipeRead(c) PROVE KernelInv'
  BY <1>7, ReadKernel
<1> QED
  BY <1>1, <1>2, <1>3, <1>4, <1>5, <1>6, <1>7 DEF task12_1_parent, task12_1_child

LEMMA StayKernel ==
  ASSUME KernelInv, NEW p \in Procs, NEW from \in Places \ {"off"}, NEW to \in Places,
         NEW text \in Texts,
         Step(p, from, to) \/ Prints(p, from, to, text),
         ChanTypes', SemTypes', UNCHANGED chan_of,
         from # "start" /\ ~Past(kind, from)
  PROVE  KernelInv'
<1>1. at[p] = from
  BY DEF Step, Prints, Goes
<1>2. chan_of[p] # 0
  BY <1>1 DEF KernelInv, Holding, Past
<1> QED
  BY <1>2, MoveKernel

LEMMA OpenKernel ==
  ASSUME KernelInv, NEW p \in Procs, NEW from \in Places \ {"off"}, NEW to \in Places,
         Step(p, from, to), UNCHANGED semVars,
         OpenExisting(p) \/ \E content \in {"", "zeros"} : OpenOrCreate(p, content)
  PROVE  KernelInv'
<1>1. ChanTypes' /\ chan_of'[p] # 0 /\ chan_of' = [chan_of EXCEPT ![p] = chan_of'[p]]
  <2>1. CASE OpenExisting(p)
    BY <2>1, OldChannel DEF KernelInv
  <2>2. CASE \E content \in {"", "zeros"} : OpenOrCreate(p, content)
    BY <2>2, NewOrOldChannel DEF KernelInv
  <2> QED
    BY <2>1, <2>2
<1>2. \A q \in Procs : q # p => chan_of'[q] = chan_of[q]
  BY <1>1 DEF KernelInv, ChanTypes
<1>3. SemTypes' /\ "" \in Texts
  BY SameSemaphores DEF KernelInv, Texts
<1> QED
  BY <1>1, <1>2, <1>3, MoveKernel

LEMMA FifoKernel ==
  ASSUME KernelInv, kind = "fifo",
         task12_2_serv \/ \E c \in Clients : task12_2_cli(c)
  PROVE  KernelInv'
<1>0. Sv \in Procs /\ (\A c \in Clients : c \in Procs) /\ "" \in Texts /\ kind \in Kinds
  BY DEF Procs, Texts, KernelInv, ProcTypes
<1>1. ASSUME mkfifo PROVE KernelInv'
  <2>1. Step(Sv, "start", "open") /\ OpenOrCreate(Sv, "") /\ UNCHANGED semVars
    BY <1>1 DEF mkfifo
  <2> QED
    BY <1>0, <2>1, OpenKernel DEF Places
<1>2. ASSUME OpenToWrite PROVE KernelInv'
  <2>1. /\ at[Sv] = "open"
        /\ at' = [p \in Procs |->
                    IF p = Sv
                    THEN (IF FifoReaders(chan_of[Sv]) # {} THEN "write" ELSE "opening")
                    ELSE IF p \in FifoReaders(chan_of[Sv]) THEN "read" ELSE at[p]]
        /\ UNCHANGED <<setVars, shown, runs, child, chanVars, semVars>>
    BY <1>2 DEF OpenToWrite
  <2>2. \A p \in FifoReaders(chan_of[Sv]) : at[p] \in {"opening", "read"}
    BY DEF FifoReaders
  <2>3. /\ UNCHANGED <<kind, manner, shown, runs, child, chan_of>>
        /\ \A p \in Procs : /\ at'[p] \in Places
                            /\ \/ at'[p] = at[p]
                               \/ p = Sv
                               \/ at[p] = "opening" /\ at'[p] = "read"
                               \/ at[p] = "read" /\ at'[p] = "read"
    BY <2>1, <2>2 DEF setVars, chanVars, Places, KernelInv, ProcTypes
  <2>4. ProcTypes'
    BY <2>1, <2>3 DEF KernelInv, ProcTypes
  <2>5. Holding'
    BY <2>1, <2>3, <1>0 DEF KernelInv, Holding, Ended
  <2>6. NeverRun'
    BY <2>1, <2>3, <1>0 DEF KernelInv, NeverRun
  <2> QED
    BY <2>1, <2>4, <2>5, <2>6, SameChannels, SameSemaphores DEF KernelInv
<1>3. ASSUME FifoWrite PROVE KernelInv'
  BY <1>3, WriteKernel DEF FifoWrite
<1>4. ASSUME FifoClose PROVE KernelInv'
  <2>1. /\ Step(Sv, "close", "unlink") /\ chan_of' = [chan_of EXCEPT ![Sv] = 0]
        /\ UNCHANGED <<chan, chans, queue, mem, semVars>>
    BY <1>4 DEF FifoClose
  <2>2. ChanTypes' /\ SemTypes'
    BY <1>0, <2>1, ChannelChange, SameSemaphores DEF KernelInv
  <2>3. \A q \in Procs : q # Sv => chan_of'[q] = chan_of[q]
    BY <2>1 DEF KernelInv, ChanTypes
  <2>4. Past(kind, "unlink") /\ "close" \in Places \ {"off"} /\ "unlink" \in Places
    BY DEF Past, Places
  <2> QED
    BY <1>0, <2>1, <2>2, <2>3, <2>4, MoveKernel
<1>5. ASSUME FifoUnlink PROVE KernelInv'
  <2>1. /\ Step(Sv, "unlink", "done") /\ chan' = 0
        /\ UNCHANGED <<chan_of, chans, queue, mem, semVars>>
    BY <1>5 DEF FifoUnlink
  <2>2. ChanTypes' /\ SemTypes'
    BY <2>1, ChannelChange, SameSemaphores DEF KernelInv
  <2>3. Past(kind, "done") /\ "unlink" \in Places \ {"off"} /\ "done" \in Places
    BY DEF Past, Ended, Places
  <2> QED
    BY <1>0, <2>1, <2>2, <2>3, MoveKernel
<1>6. ASSUME NEW p \in Procs, NEW failed, Fails(p, "start", failed) PROVE KernelInv'
  BY <1>6, FailKernel DEF Places
<1>7. ASSUME NEW c \in Clients, OpenToRead(c) PROVE KernelInv'
  <2> DEFINE writing == FifoWriting(chan)
  <2>1. /\ at[c] = "start" /\ OpenExisting(c)
        /\ at' = [at EXCEPT ![c] = IF writing THEN "read" ELSE "opening",
                            ![Sv] = IF writing /\ @ = "opening" THEN "write" ELSE @]
        /\ UNCHANGED <<kind, manner, shown, runs, child, semVars>>
    BY <1>7 DEF OpenToRead, setVars
  <2>2. c # Sv /\ c \in Procs
    BY PairAssumption, <1>0
  <2> HIDE DEF writing
  <2>3. /\ at'[c] \in {"read", "opening"}
        /\ at'[Sv] = at[Sv] \/ (at[Sv] = "opening" /\ at'[Sv] = "write")
        /\ \A p \in Procs : p \notin {c, Sv} => at'[p] = at[p]
        /\ at' \in [Procs -> Places]
    BY <1>0, <2>1, <2>2 DEF KernelInv, ProcTypes, Places
  <2>4. ProcTypes'
    BY <2>1, <2>3 DEF KernelInv, ProcTypes
  <2>5. /\ ChanTypes' /\ chan_of'[c] # 0
        /\ \A p \in Procs : p # c => chan_of'[p] = chan_of[p]
    BY <2>1, <2>2, OldChannel DEF KernelInv, ChanTypes
  <2>6. Holding'
    BY <1>0, <2>1, <2>2, <2>3, <2>5 DEF KernelInv, Holding, Ended
  <2>7. NeverRun'
    BY <1>0, <2>1, <2>2, <2>3 DEF KernelInv, NeverRun
  <2> QED
    BY <2>1, <2>4, <2>5, <2>6, <2>7, SameSemaphores DEF KernelInv
<1>8. ASSUME NEW c \in Clients, FifoRead(c) PROVE KernelInv'
  BY <1>8, ReadKernel
<1> QED
  BY <1>0, <1>1, <1>2, <1>3, <1>4, <1>5, <1>6, <1>7, <1>8 DEF task12_2_serv, task12_2_cli

-----------------------------------------------------------------------------
(* The programs of Task13 and the kernel.                                  *)

\* A message is put into a queue or taken from it.
LEMMA MessageKernel ==
  ASSUME KernelInv, NEW p \in Procs, NEW from \in {"send", "receive"}, NEW to \in Places,
         NEW text \in Texts, NEW i, NEW m \in Messages, i = chan_of[p],
         kind \in {"posix_mq", "sysV_mq"},
         Step(p, from, to) \/ Prints(p, from, to, text),
         Put(i, m) \/ (Take(i, m) /\ queue[i][m] > 0),
         UNCHANGED <<chan, chan_of, chans, mem, semVars>>
  PROVE  KernelInv'
<1>1. at[p] = from /\ from \in Places \ {"off"} /\ from # "start" /\ ~Past(kind, from)
  BY DEF Step, Prints, Goes, Places, Past, Ended
<1>2. queue[i][m] \in Nat
  BY <1>1, HeldChannel
<1>3. \E n \in Nat : queue' = [queue EXCEPT ![i][m] = n]
  <2>1. CASE Put(i, m)
    <3>1. queue' = [queue EXCEPT ![i][m] = queue[i][m] + 1] /\ queue[i][m] + 1 \in Nat
      BY <1>2, <2>1 DEF Put
    <3> QED
      BY <3>1
  <2>2. CASE Take(i, m) /\ queue[i][m] > 0
    <3>1. queue' = [queue EXCEPT ![i][m] = queue[i][m] - 1] /\ queue[i][m] - 1 \in Nat
      BY <1>2, <2>2 DEF Take
    <3> QED
      BY <3>1
  <2> QED
    BY <2>1, <2>2
<1>4. ChanTypes' /\ SemTypes'
  BY <1>3, ChannelChange, SameSemaphores DEF KernelInv
<1> QED
  BY <1>1, <1>4, StayKernel

LEMMA PosixQueueKernel ==
  ASSUME KernelInv, kind = "posix_mq",
         posix_serv \/ \E c \in Clients : posix_cli(c)
  PROVE  KernelInv'
<1>0. Sv \in Procs /\ (\A c \in Clients : c \in Procs) /\ "" \in Texts /\ kind \in Kinds
  BY DEF Procs, Texts, KernelInv, ProcTypes
<1>1. ASSUME mq_open_create PROVE KernelInv'
  BY <1>0, <1>1, OpenKernel DEF mq_open_create, Places
<1>2. ASSUME NEW p \in Procs, NEW m \in Messages, NEW to \in Places, mq_send(p, m, to)
      PROVE  KernelInv'
  BY <1>0, <1>2, MessageKernel DEF mq_send
<1>3. ASSUME ForkClient PROVE KernelInv'
  <2>1. ChanTypes' /\ SemTypes' /\ chan_of' = chan_of /\ at[Sv] = "fork"
    BY <1>3, SameChannels, SameSemaphores DEF KernelInv, ForkClient, chanVars
  <2>2. chan_of[Sv] # 0
    BY <1>0, <2>1 DEF KernelInv, Holding, Ended
  <2>3. CASE \E c \in Clients : Fork(c, "wait", "start")
    BY <2>1, <2>2, <2>3, ForkKernel DEF Places
  <2>4. ASSUME at' = [at EXCEPT ![Sv] = "wait"], child' = Sv, UNCHANGED <<setVars, shown, runs>>
        PROVE  KernelInv'
    <3>1. ProcTypes'
      BY <1>0, <2>4 DEF KernelInv, ProcTypes, setVars, Places
    <3>2. Holding'
      BY <1>0, <2>1, <2>2, <2>4 DEF KernelInv, ProcTypes, Holding, setVars
    <3>3. NeverRun'
      BY <1>0, <2>1, <2>4 DEF KernelInv, ProcTypes, NeverRun
    <3> QED
      BY <2>1, <3>1, <3>2, <3>3 DEF KernelInv
  <2> QED
    BY <1>3, <2>3, <2>4 DEF ForkClient
<1>4. ASSUME WaitForChild("receive") PROVE KernelInv'
  <2>1. Step(Sv, "wait", "receive") /\ UNCHANGED <<chanVars, semVars>>
    BY <1>4 DEF WaitForChild
  <2>2. "wait" \in Places \ {"off"} /\ "receive" \in Places /\ ~Past(kind, "wait")
    BY DEF Places, Past, Ended
  <2> QED
    BY <1>0, <2>1, <2>2, PlainKernel
<1>5. ASSUME NEW p \in Procs, NEW to \in Places, mq_receive(p, to) PROVE KernelInv'
  <2> DEFINE m == HighestPriority(chan_of[p])
  <2>1. /\ Prints(p, "receive", to, m) /\ Take(chan_of[p], m) /\ queue[chan_of[p]][m] > 0
        /\ UNCHANGED <<chan, chan_of, chans, mem, semVars>>
    BY <1>5 DEF mq_receive
  <2>2. m \in Messages /\ m \in Texts
    BY DEF HighestPriority, Messages, Texts
  <2> HIDE DEF m
  <2> QED
    BY <2>1, <2>2, MessageKernel
<1>6. ASSUME mq_unlink PROVE KernelInv'
  <2>1. /\ Step(Sv, "unlink", "done") /\ chan' = 0 /\ chan_of' = [chan_of EXCEPT ![Sv] = 0]
        /\ UNCHANGED <<chans, queue, mem, semVars>>
    BY <1>6 DEF mq_unlink
  <2>2. ChanTypes' /\ SemTypes'
    BY <1>0, <2>1, ChannelChange, SameSemaphores DEF KernelInv
  <2>3. \A q \in Procs : q # Sv => chan_of'[q] = chan_of[q]
    BY <2>1 DEF KernelInv, ChanTypes
  <2>4. Past(kind, "done") /\ "unlink" \in Places \ {"off"} /\ "done" \in Places
    BY DEF Past, Ended, Places
  <2> QED
    BY <1>0, <2>1, <2>2, <2>3, <2>4, MoveKernel
<1>7. ASSUME NEW c \in Clients, mq_open(c) PROVE KernelInv'
  BY <1>0, <1>7, OpenKernel DEF mq_open, Places
<1>8. ASSUME NEW c \in Clients, Fails(c, "start", chan = 0) PROVE KernelInv'
  BY <1>0, <1>8, FailKernel DEF Places
<1>9. {"fork", "unlink", "send", "done"} \subseteq Places /\ {"Hi", "Hello"} \subseteq Messages
  BY DEF Places, Messages
<1> QED
  BY <1>0, <1>1, <1>2, <1>3, <1>4, <1>5, <1>6, <1>7, <1>8, <1>9 DEF posix_serv, posix_cli

LEMMA SysVQueueKernel ==
  ASSUME KernelInv, kind = "sysV_mq",
         sysV_serv \/ \E c \in Clients : sysV_cli(c)
  PROVE  KernelInv'
<1>0. Sv \in Procs /\ (\A c \in Clients : c \in Procs) /\ "" \in Texts /\ kind \in Kinds
  BY DEF Procs, Texts, KernelInv, ProcTypes
<1>1. ASSUME NEW p \in Procs, NEW to \in Places, msgget(p, to) PROVE KernelInv'
  BY <1>0, <1>1, OpenKernel DEF msgget, Places
<1>2. ASSUME NEW p \in Procs, NEW m \in Messages, NEW to \in Places, msgsnd(p, m, to)
      PROVE  KernelInv'
  BY <1>0, <1>2, MessageKernel DEF msgsnd
<1>3. ASSUME NEW p \in Procs, NEW m \in Messages, NEW to \in Places, msgrcv(p, m, to)
      PROVE  KernelInv'
  BY <1>0, <1>3, MessageKernel DEF msgrcv, Texts
<1>4. ASSUME NEW p \in Procs, QueueRemoved(p) PROVE KernelInv'
  <2>1. PICK failed \in BOOLEAN : Fails(p, at[p], failed) /\ at[p] \in {"send", "receive", "remove"}
    BY <1>4 DEF QueueRemoved, Fails
  <2>2. at[p] \in Places \ {"off"}
    BY <2>1 DEF Places
  <2> QED
    BY <2>1, <2>2, FailKernel
<1>5. ASSUME msgctl_rmid PROVE KernelInv'
  <2>1. /\ Step(Sv, "remove", "done") /\ chan' = 0
        /\ UNCHANGED <<chan_of, chans, queue, mem, semVars>>
    BY <1>5 DEF msgctl_rmid
  <2>2. ChanTypes' /\ SemTypes'
    BY <2>1, ChannelChange, SameSemaphores DEF KernelInv
  <2>3. Past(kind, "done") /\ "remove" \in Places \ {"off"} /\ "done" \in Places
    BY DEF Past, Ended, Places
  <2> QED
    BY <1>0, <2>1, <2>2, <2>3, MoveKernel
<1>6. /\ {"receive", "remove", "send", "done"} \subseteq Places
      /\ {"Hi", "Hello"} \subseteq Messages
  BY DEF Places, Messages
<1> QED
  BY <1>0, <1>1, <1>2, <1>3, <1>4, <1>5, <1>6 DEF sysV_serv, sysV_cli

-----------------------------------------------------------------------------
(* The programs of Task14 and the kernel.                                  *)

LEMMA CopyKernel ==
  ASSUME KernelInv, NEW p \in Procs, NEW to \in Places, NEW m \in Messages,
         Copy(p, "copy", to, m), kind \notin {"pipe", "fifo"}
  PROVE  KernelInv'
<1>1. /\ Step(p, "copy", to) /\ mem' = [mem EXCEPT ![chan_of[p]] = m]
      /\ UNCHANGED <<chan, chan_of, chans, queue, semVars>>
  BY DEF Copy
<1>2. ChanTypes' /\ SemTypes'
  BY <1>1, ChannelChange, SameSemaphores DEF KernelInv
<1>3. "copy" \in Places \ {"off"} /\ ~Past(kind, "copy") /\ "" \in Texts
  BY DEF Places, Past, Ended, Texts
<1> QED
  BY <1>1, <1>2, <1>3, StayKernel

LEMMA PrintKernel ==
  ASSUME KernelInv, NEW p \in Procs, NEW to \in Places, PrintMemory(p, to)
  PROVE  KernelInv'
<1> DEFINE text == mem[chan_of[p]]
<1>1. Prints(p, "print", to, text) /\ UNCHANGED <<chanVars, semVars>>
  BY DEF PrintMemory
<1>2. at[p] = "print" /\ "print" \in Places \ {"off"} /\ ~Past(kind, "print")
  BY <1>1 DEF Prints, Goes, Places, Past, Ended
<1>3. text \in Texts
  BY <1>2, HeldChannel DEF Texts
<1> HIDE DEF text
<1> QED
  BY <1>1, <1>2, <1>3, PlainKernel

\* A step of a process that may change the semaphores and leaves the channels.
LEMMA SemaphoreKernel ==
  ASSUME KernelInv, NEW p \in Procs, NEW from \in Places \ {"off", "start"}, NEW to \in Places,
         Step(p, from, to), UNCHANGED chanVars, SemTypes', ~Past(kind, from)
  PROVE  KernelInv'
  BY StayKernel, SameChannels DEF KernelInv, chanVars, Texts

LEMMA CountKernel ==
  ASSUME KernelInv, NEW p \in Procs, NEW from \in Places \ {"off", "start"}, NEW to \in Places,
         Step(p, from, to), UNCHANGED chanVars, ~Past(kind, from),
         \/ SetCount(sem_of[p], 0) /\ sem_of[p] \in 0..sems
         \/ SetCount(sem_of[p], count[sem_of[p]] + 1)
         \/ SetCount(sem_of[p], count[sem_of[p]] - 1) /\ count[sem_of[p]] > 0
  PROVE  KernelInv'
<1>1. /\ sems' = sems /\ sem' = sem /\ sem_of' = sem_of /\ count \in [Ids -> Nat]
      /\ sems \in 0..MaxIds /\ sem \in 0..sems /\ sem_of \in [Procs -> 0..sems]
  BY DEF SetCount, KernelInv, SemTypes
<1>2. count' \in [Ids -> Nat]
  <2>1. ASSUME NEW i \in Ids PROVE count'[i] \in Nat
    <3>1. count[i] \in Nat /\ count[i] + 1 \in Nat /\ (count[i] > 0 => count[i] - 1 \in Nat)
      BY <1>1
    <3>2. \/ count' = [count EXCEPT ![sem_of[p]] = 0]
          \/ count' = [count EXCEPT ![sem_of[p]] = count[sem_of[p]] + 1]
          \/ count' = [count EXCEPT ![sem_of[p]] = count[sem_of[p]] - 1] /\ count[sem_of[p]] > 0
      BY DEF SetCount
    <3> QED
      BY <1>1, <3>1, <3>2
  <2>2. \E i, n : count' = [count EXCEPT ![i] = n]
    BY DEF SetCount
  <2> QED
    BY <1>1, <2>1, <2>2
<1>3. SemTypes'
  BY <1>1, <1>2 DEF SemTypes
<1> QED
  BY <1>3, SemaphoreKernel

LEMMA SemOpenKernel ==
  ASSUME KernelInv, NEW p \in Procs, NEW from \in {"sem_open", "semget"}, NEW to \in Places,
         SemOpenOrCreate(p, from, to) \/ (SemOpen(p, to) /\ from = "sem_open"),
         kind \in {"posix_shm", "sysV_shm"}
  PROVE  KernelInv'
<1>1. Step(p, from, to) /\ UNCHANGED chanVars
  BY DEF SemOpenOrCreate, SemOpen
<1>2. from \in Places \ {"off", "start"} /\ ~Past(kind, from)
  BY DEF Places, Past, Ended
<1>3. SemTypes'
  <2>1. CASE SemOpenOrCreate(p, from, to)
    BY <2>1, NewOrOldSemaphore DEF KernelInv
  <2>2. CASE SemOpen(p, to)
    BY <2>2, SemaphoreChange DEF KernelInv, SemOpen
  <2> QED
    BY <2>1, <2>2
<1> QED
  BY <1>1, <1>2, <1>3, SemaphoreKernel

LEMMA RemoveKernel ==
  ASSUME KernelInv, NEW from \in {"unlink", "sem_unlink", "shm_rmid", "sem_rmid"},
         NEW to \in Places, kind \in {"posix_shm", "sysV_shm"},
         RemoveMemory(from, to) \/ (RemoveSemaphore(from) /\ to = "done")
  PROVE  KernelInv'
<1>1. Step(Sv, from, to) /\ UNCHANGED chan_of
  BY DEF RemoveMemory, RemoveSemaphore, chanVars
<1>2. /\ Sv \in Procs /\ from \in Places \ {"off"} /\ from # "start" /\ ~Past(kind, from)
      /\ "" \in Texts
  BY DEF Procs, Places, Past, Ended, Texts
<1>3. ChanTypes' /\ SemTypes'
  <2>1. CASE RemoveMemory(from, to)
    BY <2>1, ChannelChange, SameSemaphores DEF RemoveMemory, KernelInv
  <2>2. CASE RemoveSemaphore(from)
    BY <2>2, SemaphoreChange, SameChannels DEF RemoveSemaphore, KernelInv
  <2> QED
    BY <2>1, <2>2
<1> QED
  BY <1>1, <1>2, <1>3, StayKernel

LEMMA SharedKernel ==
  ASSUME KernelInv, kind \in {"posix_shm", "sysV_shm"}, NEW c \in Clients,
         \/ shm_open(c) \/ Fails(c, "start", chan = 0)
         \/ SemOpen(c, "print") \/ Fails(c, "sem_open", sem = 0)
         \/ PrintMemory(c, "copy") \/ Copy(c, "copy", "post", "Hello") \/ SemPost(c)
         \/ \E step \in {"print", "post"}, failed \in BOOLEAN : Fails(c, step, failed)
  PROVE  KernelInv'
<1>0. c \in Procs
  BY DEF Procs
<1>1. ASSUME shm_open(c) PROVE KernelInv'
  BY <1>0, <1>1, OpenKernel DEF shm_open, Places
<1>2. ASSUME NEW step \in {"start", "sem_open", "print", "post"}, NEW failed,
             Fails(c, step, failed)
      PROVE  KernelInv'
  BY <1>0, <1>2, FailKernel DEF Places
<1>3. ASSUME SemOpen(c, "print") PROVE KernelInv'
  BY <1>0, <1>3, SemOpenKernel DEF Places
<1>4. ASSUME PrintMemory(c, "copy") PROVE KernelInv'
  BY <1>0, <1>4, PrintKernel DEF Places
<1>5. ASSUME Copy(c, "copy", "post", "Hello") PROVE KernelInv'
  BY <1>0, <1>5, CopyKernel DEF Places, Messages
<1>6. ASSUME SemPost(c) PROVE KernelInv'
  <2>1. /\ Step(c, "post", "done") /\ UNCHANGED chanVars
        /\ SetCount(sem_of[c], count[sem_of[c]] + 1)
    BY <1>6 DEF SemPost
  <2>2. "post" \in Places \ {"off", "start"} /\ "done" \in Places /\ ~Past(kind, "post")
    BY DEF Places, Past, Ended
  <2> QED
    BY <1>0, <2>1, <2>2, CountKernel
<1> QED
  BY <1>1, <1>2, <1>3, <1>4, <1>5, <1>6

LEMMA WaitKernel ==
  ASSUME KernelInv, NEW from \in {"wait", "reserve_sem"}, SemWait(from, "print"),
         kind \in {"posix_shm", "sysV_shm"}
  PROVE  KernelInv'
<1>1. /\ Step(Sv, from, "print") /\ UNCHANGED chanVars
      /\ SetCount(sem_of[Sv], count[sem_of[Sv]] - 1) /\ count[sem_of[Sv]] > 0
  BY DEF SemWait
<1>2. /\ Sv \in Procs /\ from \in Places \ {"off", "start"} /\ "print" \in Places
      /\ ~Past(kind, from)
  BY DEF Procs, Places, Past, Ended
<1> QED
  BY <1>1, <1>2, CountKernel

LEMMA PosixMemoryKernel ==
  ASSUME KernelInv, kind = "posix_shm",
         posix_shm_serv \/ \E c \in Clients : posix_shm_cli(c)
  PROVE  KernelInv'
<1>0. Sv \in Procs /\ "" \in Texts /\ {"wait", "copy", "print", "unlink", "sem_unlink", "done"} \subseteq Places
  BY DEF Procs, Texts, Places
<1>1. ASSUME shm_open_create PROVE KernelInv'
  BY <1>0, <1>1, OpenKernel DEF shm_open_create, Places
<1>2. ASSUME ftruncate PROVE KernelInv'
  <2>1. /\ Step(Sv, "truncate", "sem_open")
        /\ mem' = mem \/ mem' = [mem EXCEPT ![chan_of[Sv]] = "zeros"]
        /\ UNCHANGED <<chan, chan_of, chans, queue, semVars>>
    <3>1. /\ Step(Sv, "truncate", "sem_open") /\ UNCHANGED <<chan, chan_of, chans, queue, semVars>>
          /\ mem' = [mem EXCEPT ![chan_of[Sv]] = IF @ = "" THEN "zeros" ELSE @]
      BY <1>2 DEF ftruncate
    <3>2. mem \in [Ids -> Messages \cup {"", "zeros"}]
      BY DEF KernelInv, ChanTypes
    <3> QED
      BY <3>1, <3>2
  <2>2. ChanTypes' /\ SemTypes'
    BY <2>1, ChannelChange, SameSemaphores DEF KernelInv
  <2>3. "truncate" \in Places \ {"off"} /\ "sem_open" \in Places /\ ~Past(kind, "truncate")
    BY DEF Places, Past, Ended
  <2> QED
    BY <1>0, <2>1, <2>2, <2>3, StayKernel
<1>3. ASSUME SemOpenOrCreate(Sv, "sem_open", "copy") PROVE KernelInv'
  BY <1>0, <1>3, SemOpenKernel
<1>4. ASSUME Copy(Sv, "copy", "wait", "Hi") PROVE KernelInv'
  BY <1>0, <1>4, CopyKernel DEF Messages
<1>5. ASSUME SemWait("wait", "print") PROVE KernelInv'
  BY <1>5, WaitKernel
<1>6. ASSUME PrintMemory(Sv, "unlink") PROVE KernelInv'
  BY <1>0, <1>6, PrintKernel
<1>7. ASSUME RemoveMemory("unlink", "sem_unlink") \/ RemoveSemaphore("sem_unlink") PROVE KernelInv'
  BY <1>0, <1>7, RemoveKernel
<1> QED
  BY <1>1, <1>2, <1>3, <1>4, <1>5, <1>6, <1>7, SharedKernel DEF posix_shm_serv, posix_shm_cli

LEMMA SysVMemoryKernel ==
  ASSUME KernelInv, kind = "sysV_shm",
         sysV_shm_serv \/ \E c \in Clients : sysV_shm_cli(c)
  PROVE  KernelInv'
<1>0. Sv \in Procs /\ {"semget", "init_sem", "reserve_sem", "print", "copy", "shm_rmid", "sem_rmid", "done"} \subseteq Places
  BY DEF Procs, Places
<1>1. ASSUME shmget_create PROVE KernelInv'
  BY <1>0, <1>1, OpenKernel DEF shmget_create, Places
<1>2. ASSUME Copy(Sv, "copy", "semget", "Hi") PROVE KernelInv'
  BY <1>0, <1>2, CopyKernel DEF Messages
<1>3. ASSUME SemOpenOrCreate(Sv, "semget", "init_sem") PROVE KernelInv'
  BY <1>0, <1>3, SemOpenKernel
<1>4. ASSUME init_sem PROVE KernelInv'
  <2>1. Step(Sv, "init_sem", "reserve_sem") /\ UNCHANGED chanVars /\ SetCount(sem_of[Sv], 0)
    BY <1>4 DEF init_sem
  <2>2. "init_sem" \in Places \ {"off", "start"} /\ ~Past(kind, "init_sem")
    BY DEF Places, Past, Ended
  <2>3. sem_of[Sv] \in 0..sems
    BY <1>0 DEF KernelInv, SemTypes
  <2> QED
    BY <1>0, <2>1, <2>2, <2>3, CountKernel
<1>5. ASSUME SemWait("reserve_sem", "print") PROVE KernelInv'
  BY <1>5, WaitKernel
<1>6. ASSUME PrintMemory(Sv, "shm_rmid") PROVE KernelInv'
  BY <1>0, <1>6, PrintKernel
<1>7. ASSUME RemoveMemory("shm_rmid", "sem_rmid") \/ RemoveSemaphore("sem_rmid") PROVE KernelInv'
  BY <1>0, <1>7, RemoveKernel
<1>8. ASSUME NEW c \in Clients, Fails(c, "post", sem_of[c] # sem)
      PROVE  \E failed \in BOOLEAN : Fails(c, "post", failed)
  BY <1>8 DEF Fails
<1> QED
  BY <1>1, <1>2, <1>3, <1>4, <1>5, <1>6, <1>7, <1>8, SharedKernel DEF sysV_shm_serv, sysV_shm_cli

\* What a step of the pairs is, by the pair that runs.
LEMMA StepsOfKinds ==
  ASSUME KernelInv, Next
  PROVE  \/ StartServer \/ \E c \in Clients : StartByHand(c)
         \/ \E p \in Procs : Kill(p)
         \/ kind = "pipe" /\ (task12_1_parent \/ \E c \in Clients : task12_1_child(c))
         \/ kind = "fifo" /\ (task12_2_serv \/ \E c \in Clients : task12_2_cli(c))
         \/ kind = "posix_mq" /\ (posix_serv \/ \E c \in Clients : posix_cli(c))
         \/ kind = "sysV_mq" /\ (sysV_serv \/ \E c \in Clients : sysV_cli(c))
         \/ kind = "posix_shm" /\ (posix_shm_serv \/ \E c \in Clients : posix_shm_cli(c))
         \/ kind = "sysV_shm" /\ (sysV_shm_serv \/ \E c \in Clients : sysV_shm_cli(c))
<1>1. /\ kind \in {"pipe", "fifo", "posix_mq", "sysV_mq", "posix_shm", "sysV_shm"}
  BY DEF KernelInv, ProcTypes, Kinds
<1>2. CASE Server
  BY <1>1, <1>2 DEF Server
<1>3. CASE \E c \in Clients : Client(c)
  BY <1>1, <1>3 DEF Client
<1> QED
  BY <1>2, <1>3 DEF Next

LEMMA ByHandStarts ==
  ASSUME NEW c \in Clients, StartByHand(c)
  PROVE  /\ kind \in DOMAIN WaitsAt /\ Starts(c, "start") /\ UNCHANGED <<chanVars, semVars>>
         /\ manner = "calm" => at[Sv] = WaitsAt[kind] /\ \A d \in Clients : runs[d] = 0
  BY DEF StartByHand, StartClient

LEMMA KernelNext == KernelInv /\ [Next]_vars => KernelInv'
<1> SUFFICES ASSUME KernelInv, [Next]_vars PROVE KernelInv'
  OBVIOUS
<1>1. CASE Next
  <2>1. Sv \in Procs /\ \A c \in Clients : c \in Procs
    BY DEF Procs
  <2>2. CASE StartServer
    BY <2>1, <2>2, StartKernel DEF StartServer
  <2>3. ASSUME NEW c \in Clients, StartByHand(c) PROVE KernelInv'
    BY <2>1, <2>3, ByHandStarts, StartKernel
  <2> QED
    BY <1>1, <2>2, <2>3, StepsOfKinds, KillKernel, PipeKernel, FifoKernel, PosixQueueKernel,
       SysVQueueKernel, PosixMemoryKernel, SysVMemoryKernel
<1>2. CASE UNCHANGED vars
  BY <1>2 DEF vars, procVars, setVars, chanVars, semVars, KernelInv, ProcTypes, ChanTypes,
              SemTypes, Holding, NeverRun
<1> QED
  BY <1>1, <1>2

\* Which pair runs, and how, never changes.
LEMMA Settled ==
  ASSUME KernelInv, Next
  PROVE  kind' = kind /\ manner' = manner
<1> USE DEF Step, Prints, setVars, procVars
<1>1. ASSUME NEW p, NEW first, Starts(p, first) PROVE UNCHANGED setVars
  BY <1>1 DEF Starts
<1>2. ASSUME NEW c, NEW to, NEW first, Fork(c, to, first) PROVE UNCHANGED setVars
  BY <1>2 DEF Fork
<1>3. ASSUME NEW p \in Procs, Kill(p) PROVE UNCHANGED setVars
  BY <1>3 DEF Kill
<1>4. ASSUME NEW p, NEW step, NEW failed, Fails(p, step, failed) PROVE UNCHANGED setVars
  BY <1>4 DEF Fails
<1>5. ASSUME task12_1_parent \/ \E c \in Clients : task12_1_child(c) PROVE UNCHANGED setVars
  BY <1>2, <1>5 DEF task12_1_parent, task12_1_child, PipeFork, CloseReadEnd, PipeWrite, Write,
       PipeClose, WaitForChild, CloseWriteEnd, PipeRead
<1>6. ASSUME task12_2_serv \/ \E c \in Clients : task12_2_cli(c) PROVE UNCHANGED setVars
  BY <1>4, <1>6 DEF task12_2_serv, task12_2_cli, mkfifo, OpenToWrite, FifoWrite, Write,
       FifoClose, FifoUnlink, OpenToRead, FifoRead
<1>7. ASSUME posix_serv \/ \E c \in Clients : posix_cli(c) PROVE UNCHANGED setVars
  BY <1>2, <1>4, <1>7 DEF posix_serv, posix_cli, mq_open_create, mq_send, ForkClient,
       WaitForChild, mq_receive, mq_unlink, mq_open
<1>8. ASSUME sysV_serv \/ \E c \in Clients : sysV_cli(c) PROVE UNCHANGED setVars
  BY <1>4, <1>8 DEF sysV_serv, sysV_cli, msgget, msgsnd, msgrcv, msgctl_rmid, QueueRemoved
<1>9. ASSUME \/ posix_shm_serv \/ \E c \in Clients : posix_shm_cli(c)
             \/ sysV_shm_serv \/ \E c \in Clients : sysV_shm_cli(c)
      PROVE  UNCHANGED setVars
  BY <1>4, <1>9 DEF posix_shm_serv, posix_shm_cli, sysV_shm_serv, sysV_shm_cli,
       shm_open_create, ftruncate, SemOpenOrCreate, Copy, SemWait, PrintMemory, RemoveMemory,
       RemoveSemaphore, shm_open, SemOpen, SemPost, shmget_create, init_sem
<1> QED
  BY <1>1, <1>3, <1>5, <1>6, <1>7, <1>8, <1>9, StepsOfKinds, ByHandStarts DEF StartServer

-----------------------------------------------------------------------------
(* The pipe.                                                               *)

LEMMA PipeStep ==
  ASSUME KernelInv, KernelInv', Next, PipeInv
  PROVE  PipeInv'
<1> SUFFICES ASSUME kind = "pipe", manner # "rough" PROVE PipeInv'
  BY Settled DEF PipeInv
<1>1. kind' = "pipe" /\ manner' # "rough"
  BY Settled
<1>2. /\ at \in [Procs -> Places] /\ shown \in [Procs -> Texts] /\ Sv \in Procs
      /\ chan_of \in [Procs -> 0..chans] /\ mem \in [Ids -> Messages \cup {"", "zeros"}]
      /\ \A c \in Clients : c # Sv /\ c \in Procs
  BY PairAssumption DEF KernelInv, ProcTypes, ChanTypes, Procs
<1>3. /\ at[Sv] \in {"off", "start", "close_read", "write", "close", "wait", "done"}
      /\ \A c \in Clients :
           /\ at[c] \notin Ended => /\ c = child /\ at[c] \in {"close_write", "read"}
                                    /\ at[Sv] \in {"close_read", "write", "close", "wait"}
           /\ shown[c] \in {"", "Hi"}
      /\ at[Sv] \in {"close_read", "write"} =>
           /\ child \in Clients /\ at[child] \notin Ended
           /\ chan_of[child] = chan_of[Sv] /\ mem[chan_of[Sv]] = ""
      /\ at[Sv] \in {"close", "wait"} =>
           child \in Clients /\ (at[child] \notin Ended => mem[chan_of[child]] = "Hi")
  BY DEF PipeInv, Running
<1> DEFINE Good ==
      /\ at'[Sv] \in {"off", "start", "close_read", "write", "close", "wait", "done"}
      /\ \A c \in Clients :
           /\ at'[c] \notin Ended => /\ c = child' /\ at'[c] \in {"close_write", "read"}
                                     /\ at'[Sv] \in {"close_read", "write", "close", "wait"}
           /\ shown'[c] \in {"", "Hi"}
      /\ at'[Sv] \in {"close_read", "write"} =>
           /\ child' \in Clients /\ at'[child'] \notin Ended
           /\ chan_of'[child'] = chan_of'[Sv] /\ mem'[chan_of'[Sv]] = ""
      /\ at'[Sv] \in {"close", "wait"} =>
           child' \in Clients /\ (at'[child'] \notin Ended => mem'[chan_of'[child']] = "Hi")
<1>4. SUFFICES Good
  BY <1>1 DEF PipeInv, Running
<1> USE <1>2, <1>3 DEF Ended
<1>5. CASE StartServer
  <2>1. /\ at[Sv] \in Ended /\ at' = [at EXCEPT ![Sv] = "start"]
        /\ shown' = [shown EXCEPT ![Sv] = ""] /\ UNCHANGED <<child, chan_of, mem>>
    BY <1>5 DEF StartServer, Starts, Shows, Running, chanVars
  <2> QED
    BY <2>1
<1>6. ASSUME NEW c \in Clients, PipeFork(c) PROVE Good
  <2>1. /\ at[Sv] = "start" /\ at' = [at EXCEPT ![Sv] = "close_read", ![c] = "close_write"]
        /\ child' = c /\ shown' = [shown EXCEPT ![c] = ""]
        /\ chans < MaxIds /\ chans' = chans + 1
        /\ chan_of' = [chan_of EXCEPT ![Sv] = chans', ![c] = chans']
        /\ mem' = [mem EXCEPT ![chans'] = ""]
    BY <1>6 DEF PipeFork, Fork, Shows
  <2>2. chans' \in Ids
    BY <2>1, IdFacts DEF KernelInv, ChanTypes
  <2> QED
    BY <2>1, <2>2
<1>7. CASE CloseReadEnd
  <2>1. /\ at[Sv] = "close_read" /\ at' = [at EXCEPT ![Sv] = "write"]
        /\ UNCHANGED <<shown, child, chan_of, mem>>
    BY <1>7 DEF CloseReadEnd, Step, Goes, chanVars
  <2> QED
    BY <2>1
<1>8. CASE PipeWrite
  <2>1. at[Sv] = "write"
    BY <1>8 DEF PipeWrite, Write, Step, Goes
  <2>2. child \in PipeReaders(chan_of[Sv])
    BY <2>1 DEF PipeReaders, HasOpen
  <2>3. /\ at' = [at EXCEPT ![Sv] = "close"] /\ mem' = [mem EXCEPT ![chan_of[Sv]] = "Hi"]
        /\ UNCHANGED <<shown, child, chan_of>>
    BY <1>8, <2>2 DEF PipeWrite, Write, Step, Goes
  <2>4. chan_of[Sv] \in Ids
    BY <2>1, HeldChannel DEF Past
  <2> QED
    BY <2>1, <2>3, <2>4
<1>9. CASE PipeClose
  <2>1. /\ at[Sv] = "close" /\ at' = [at EXCEPT ![Sv] = "wait"]
        /\ chan_of' = [chan_of EXCEPT ![Sv] = 0] /\ UNCHANGED <<shown, child, mem>>
    BY <1>9 DEF PipeClose, Step, Goes
  <2> QED
    BY <2>1
<1>10. CASE WaitForChild("done")
  <2>1. /\ at[Sv] = "wait" /\ at' = [at EXCEPT ![Sv] = "done"]
        /\ child = Sv \/ at[child] \in Ended
        /\ UNCHANGED <<shown, child, chan_of, mem>>
    BY <1>10 DEF WaitForChild, Step, Goes, chanVars, Running
  <2> QED
    BY <2>1
<1>11. ASSUME NEW c \in Clients, CloseWriteEnd(c) PROVE Good
  <2>1. /\ at[c] = "close_write" /\ at' = [at EXCEPT ![c] = "read"]
        /\ UNCHANGED <<shown, child, chan_of, mem>>
    BY <1>11 DEF CloseWriteEnd, Step, Goes, chanVars
  <2> QED
    BY <2>1
<1>12. ASSUME NEW c \in Clients, PipeRead(c) PROVE Good
  <2>1. /\ at[c] = "read" /\ at' = [at EXCEPT ![c] = "done"]
        /\ mem[chan_of[c]] # "" \/ PipeWriters(chan_of[c]) = {}
        /\ shown' = [shown EXCEPT ![c] = IF mem[chan_of[c]] # "" THEN mem[chan_of[c]]
                                         ELSE "uninitialised"]
        /\ mem' = [mem EXCEPT ![chan_of[c]] = ""]
        /\ chan_of' = [chan_of EXCEPT ![c] = 0] /\ UNCHANGED child
    BY <1>12 DEF PipeRead, Prints, Goes, Shows
  <2>2. c = child
    BY <2>1
  <2>3. at[Sv] \notin {"close_read", "write"}
    <3>1. ASSUME at[Sv] \in {"close_read", "write"} PROVE FALSE
      <4>1. Sv \in PipeWriters(chan_of[c]) /\ mem[chan_of[c]] = ""
        BY <2>2, <3>1 DEF PipeWriters, HasOpen
      <4> QED
        BY <2>1, <4>1
    <3> QED
      BY <3>1
  <2>4. mem[chan_of[c]] = "Hi"
    BY <2>1, <2>2, <2>3
  <2>5. shown' = [shown EXCEPT ![c] = "Hi"]
    BY <2>1, <2>4
  <2> QED
    BY <2>1, <2>2, <2>3, <2>5
<1> QED
  <2>1. /\ \A c \in Clients : ~StartByHand(c)
        /\ \A p \in Procs : ~Kill(p)
    BY ByHandStarts DEF Kill, WaitsAt
  <2> QED
    BY <2>1, <1>5, <1>6, <1>7, <1>8, <1>9, <1>10, <1>11, <1>12, StepsOfKinds
       DEF task12_1_parent, task12_1_child

-----------------------------------------------------------------------------
(* The FIFO.                                                               *)

\* Beside a client that is alone nobody has run.
LEMMA AloneFacts ==
  ASSUME KernelInv, NEW c \in Clients, Alone(c)
  PROVE  \A d \in Clients : d # c => runs[d] = 0 /\ at[d] = "off"
<1>1. ASSUME NEW d \in Clients, d # c PROVE runs[d] = 0
  <2>1. runs[d] <= 0
    BY <1>1 DEF Alone
  <2>2. runs[d] \in Nat
    BY RunsCounted DEF Procs
  <2> QED
    BY <2>1, <2>2
<1> QED
  BY <1>1 DEF KernelInv, NeverRun, Procs

LEMMA AloneStarts ==
  ASSUME KernelInv, KernelInv', NEW c \in Clients, Alone(c)', NEW d \in Clients,
         runs' = [runs EXCEPT ![d] = @ + 1]
  PROVE  d = c /\ Alone(c) /\ at[c] = "off"
<1>1. /\ \A q \in Clients : /\ q \in Procs /\ runs[q] \in Nat /\ runs[q] + 1 > 0
                            /\ runs[q] + 1 <= 1 => runs[q] = 0
      /\ runs \in [Procs -> Nat]
  <2>1. \A n \in Nat : n + 1 > 0 /\ (n + 1 <= 1 => n = 0)
    OBVIOUS
  <2>2. \A q \in Clients : q \in Procs
    BY DEF Procs
  <2>3. runs \in [Procs -> Nat]
    BY DEF KernelInv, ProcTypes
  <2>4. \A q \in Clients : runs[q] \in Nat
    BY <2>2, <2>3
  <2> QED
    BY <2>1, <2>2, <2>3, <2>4
<1>2. runs'[d] <= IF d = c THEN 1 ELSE 0
  BY DEF Alone
<1>3. runs'[d] = runs[d] + 1
  BY <1>1
<1>4. d = c
  <2>1. ASSUME d # c PROVE FALSE
    <3>1. runs[d] + 1 <= 0 /\ runs[d] \in Nat
      BY <1>1, <1>2, <1>3, <2>1
    <3> QED
      BY <3>1
  <2> QED
    BY <2>1
<1>5. runs[c] + 1 <= 1
  BY <1>2, <1>3, <1>4
<1>6. runs[c] = 0
  BY <1>1, <1>5
<1>7. \A q \in Clients : q # c => runs'[q] = runs[q]
  BY <1>1, <1>4
<1>8. runs[c] <= 1
  BY <1>6
<1>9. Alone(c)
  BY <1>7, <1>8 DEF Alone
<1> QED
  BY <1>1, <1>4, <1>6, <1>9 DEF KernelInv, NeverRun

LEMMA FifoStep ==
  ASSUME KernelInv, KernelInv', Next, FifoInv
  PROVE  FifoInv'
<1> SUFFICES ASSUME kind = "fifo", manner # "rough" PROVE FifoInv'
  BY Settled DEF FifoInv
<1>1. kind' = "fifo" /\ manner' # "rough"
  BY Settled
<1>2. /\ at \in [Procs -> Places] /\ shown \in [Procs -> Texts] /\ Sv \in Procs
      /\ chan_of \in [Procs -> 0..chans] /\ mem \in [Ids -> Messages \cup {"", "zeros"}]
      /\ \A c \in Clients : c # Sv /\ c \in Procs
  BY PairAssumption DEF KernelInv, ProcTypes, ChanTypes, Procs
<1> DEFINE Meet(c) ==
      /\ at[Sv] = "write" => at[c] = "read" /\ chan_of[c] = chan_of[Sv]
      /\ at[Sv] = "close" => at[c] \in {"read", "done"}
      /\ at[c] = "read" => \/ at[Sv] = "write" /\ chan_of[c] = chan_of[Sv]
                           \/ mem[chan_of[c]] = "Hi"
      /\ shown[c] \in {"", "Hi"}
<1>3. /\ at[Sv] \in {"open", "opening", "write"} => mem[chan_of[Sv]] = ""
      /\ \A c \in Clients : Alone(c) => Meet(c)
  BY DEF FifoInv
<1> DEFINE Good ==
      /\ at'[Sv] \in {"open", "opening", "write"} => mem'[chan_of'[Sv]] = ""
      /\ \A c \in Clients : Alone(c)' =>
           /\ at'[Sv] = "write" => at'[c] = "read" /\ chan_of'[c] = chan_of'[Sv]
           /\ at'[Sv] = "close" => at'[c] \in {"read", "done"}
           /\ at'[c] = "read" => \/ at'[Sv] = "write" /\ chan_of'[c] = chan_of'[Sv]
                                 \/ mem'[chan_of'[c]] = "Hi"
           /\ shown'[c] \in {"", "Hi"}
<1>4. SUFFICES Good
  BY <1>1 DEF FifoInv
<1>5. ASSUME UNCHANGED runs, NEW c \in Clients, Alone(c)'
      PROVE  Alone(c) /\ Meet(c) /\ \A d \in Clients : d # c => at[d] = "off"
  <2>1. Alone(c)
    BY <1>5 DEF Alone
  <2> QED
    BY <1>3, <2>1, AloneFacts
<1> USE <1>2, <1>3
<1>6. CASE StartServer
  <2>1. /\ at[Sv] \in Ended /\ at' = [at EXCEPT ![Sv] = "start"]
        /\ shown' = [shown EXCEPT ![Sv] = ""] /\ UNCHANGED <<chan_of, mem>>
        /\ runs' = [runs EXCEPT ![Sv] = @ + 1]
    BY <1>6 DEF StartServer, Starts, Shows, Running, chanVars
  <2>2. \A c \in Clients : Alone(c)' => Alone(c)
    <3>1. \A d \in Clients : runs'[d] = runs[d]
      BY <2>1 DEF KernelInv, ProcTypes
    <3> QED
      BY <3>1 DEF Alone
  <2>3. \A c \in Clients : Alone(c)' => Meet(c)
    BY <2>2
  <2>4. /\ at'[Sv] = "start" /\ at[Sv] # "write"
        /\ \A c \in Clients : at'[c] = at[c] /\ shown'[c] = shown[c]
    BY <2>1 DEF Ended
  <2> QED
    BY <2>1, <2>3, <2>4
<1>7. ASSUME NEW d \in Clients, StartByHand(d) PROVE Good
  <2>1. /\ at' = [at EXCEPT ![d] = "start"] /\ shown' = [shown EXCEPT ![d] = ""]
        /\ runs' = [runs EXCEPT ![d] = @ + 1] /\ UNCHANGED <<chan_of, mem>>
    BY <1>7, ByHandStarts DEF Starts, Shows, chanVars
  <2>2. ASSUME NEW c \in Clients, Alone(c)' PROVE d = c /\ at[c] = "off" /\ Meet(c)
    BY <2>1, <2>2, AloneStarts
  <2> QED
    BY <2>1, <2>2
<1>8. CASE mkfifo
  <2>1. /\ at[Sv] = "start" /\ at' = [at EXCEPT ![Sv] = "open"] /\ chan = 0
        /\ OpenOrCreate(Sv, "") /\ UNCHANGED <<shown, runs>>
    BY <1>8 DEF mkfifo, Step, Goes
  <2>2. /\ chan' = chans + 1 /\ chan' \in Ids /\ mem' = [mem EXCEPT ![chan'] = ""]
        /\ chan_of' = [chan_of EXCEPT ![Sv] = chan']
    BY <2>1, NewOrOldChannel DEF KernelInv
  <2>3. \A q \in Procs : chan_of[q] # chan'
    BY <2>2, NewChannel DEF KernelInv
  <2>3a. \A c \in Clients : at[c] = "read" => chan_of[c] \in Ids
    BY HeldChannel DEF Past, Ended
  <2>4. /\ at'[Sv] = "open" /\ mem'[chan_of'[Sv]] = ""
        /\ \A c \in Clients :
             /\ at'[c] = at[c] /\ shown'[c] = shown[c]
             /\ chan_of'[c] = chan_of[c]
             /\ at[c] = "read" => mem'[chan_of[c]] = mem[chan_of[c]]
    BY <2>1, <2>2, <2>3, <2>3a
  <2>5. ASSUME NEW c \in Clients, Alone(c)'
        PROVE  shown'[c] \in {"", "Hi"} /\ (at'[c] = "read" => mem'[chan_of'[c]] = "Hi")
    <3>1. shown[c] \in {"", "Hi"} /\ (at[c] = "read" => mem[chan_of[c]] = "Hi")
      BY <2>1, <2>5, <1>5
    <3>2. /\ shown'[c] = shown[c] /\ at'[c] = at[c] /\ chan_of'[c] = chan_of[c]
          /\ at[c] = "read" => mem'[chan_of[c]] = mem[chan_of[c]]
      BY <2>4
    <3> QED
      BY <3>1, <3>2
  <2> QED
    BY <2>4, <2>5
<1>9. CASE OpenToWrite
  <2>1. /\ at[Sv] = "open"
        /\ at' = [p \in Procs |->
                    IF p = Sv
                    THEN (IF FifoReaders(chan_of[Sv]) # {} THEN "write" ELSE "opening")
                    ELSE IF p \in FifoReaders(chan_of[Sv]) THEN "read" ELSE at[p]]
        /\ UNCHANGED <<shown, runs, chan_of, mem>>
    BY <1>9 DEF OpenToWrite, chanVars
  <2>2. ASSUME NEW c \in Clients, Alone(c)', FifoReaders(chan_of[Sv]) # {}
        PROVE  at[c] \in {"opening", "read"} /\ chan_of[c] = chan_of[Sv] /\ at'[c] = "read"
    <3>1. PICK d \in Clients : d \in FifoReaders(chan_of[Sv])
      BY <2>2 DEF FifoReaders
    <3>2. d = c
      BY <2>1, <2>2, <3>1, <1>5 DEF FifoReaders
    <3> QED
      BY <2>1, <3>1, <3>2 DEF FifoReaders, HasOpen
  <2>3. ASSUME NEW c \in Clients, Alone(c)', at'[c] = "read"
        PROVE  \/ FifoReaders(chan_of[Sv]) # {}
               \/ at[c] = "read"
    BY <2>1, <2>3
  <2>4. at'[Sv] = IF FifoReaders(chan_of[Sv]) # {} THEN "write" ELSE "opening"
    BY <2>1
  <2>5. ASSUME NEW c \in Clients, Alone(c)'
        PROVE  /\ at'[Sv] = "write" => at'[c] = "read" /\ chan_of'[c] = chan_of'[Sv]
               /\ at'[c] = "read" => \/ at'[Sv] = "write" /\ chan_of'[c] = chan_of'[Sv]
                                     \/ mem'[chan_of'[c]] = "Hi"
               /\ shown'[c] \in {"", "Hi"} /\ at'[Sv] # "close"
    <3>1. Meet(c)
      BY <2>1, <2>5, <1>5
    <3> QED
      BY <2>1, <2>2, <2>3, <2>4, <2>5, <3>1
  <2>6. /\ at'[Sv] \in {"open", "opening", "write"} => mem'[chan_of'[Sv]] = ""
    BY <2>1
  <2> QED
    BY <2>5, <2>6
<1>10. CASE FifoWrite
  <2>1. /\ at[Sv] = "write" /\ UNCHANGED <<shown, runs, chan_of>>
        /\ at' = [at EXCEPT ![Sv] = IF FifoReaders(chan_of[Sv]) # {} THEN "close" ELSE "failed"]
        /\ mem' = IF FifoReaders(chan_of[Sv]) # {} THEN [mem EXCEPT ![chan_of[Sv]] = "Hi"]
                  ELSE mem
    BY <1>10 DEF FifoWrite, Write, Step, Goes
  <2>2. chan_of[Sv] \in Ids
    BY <2>1, HeldChannel DEF Past, Ended
  <2>3. ASSUME NEW c \in Clients, Alone(c)'
        PROVE  /\ at'[c] = "read" /\ at'[Sv] = "close" /\ mem'[chan_of'[c]] = "Hi"
               /\ shown'[c] \in {"", "Hi"}
    <3>1. at[c] = "read" /\ chan_of[c] = chan_of[Sv] /\ shown[c] \in {"", "Hi"}
      BY <2>1, <2>3, <1>5
    <3>2. c \in FifoReaders(chan_of[Sv])
      BY <3>1 DEF FifoReaders, HasOpen
    <3> QED
      BY <2>1, <2>2, <3>1, <3>2
  <2>4. at'[Sv] \in {"close", "failed"}
    BY <2>1
  <2> QED
    BY <2>3, <2>4
<1>11. CASE FifoClose
  <2>1. /\ at[Sv] = "close" /\ at' = [at EXCEPT ![Sv] = "unlink"]
        /\ chan_of' = [chan_of EXCEPT ![Sv] = 0] /\ UNCHANGED <<shown, runs, mem>>
    BY <1>11 DEF FifoClose, Step, Goes
  <2> QED
    BY <2>1, <1>5
<1>12. CASE FifoUnlink
  <2>1. /\ at[Sv] = "unlink" /\ at' = [at EXCEPT ![Sv] = "done"]
        /\ UNCHANGED <<shown, runs, chan_of, mem>>
    BY <1>12 DEF FifoUnlink, Step, Goes
  <2>2. at'[Sv] = "done" /\ \A c \in Clients : at'[c] = at[c]
    BY <2>1
  <2>3. \A c \in Clients : Alone(c)' => Meet(c)
    BY <2>1, <1>5
  <2> QED
    BY <2>1, <2>2, <2>3
<1>13. CASE Fails(Sv, "start", chan # 0)
  <2>1. /\ at[Sv] = "start" /\ at' = [at EXCEPT ![Sv] = "failed"]
        /\ UNCHANGED <<shown, runs, chan_of, mem>>
    BY <1>13 DEF Fails, Step, Goes, chanVars
  <2>2. at'[Sv] = "failed" /\ \A c \in Clients : at'[c] = at[c]
    BY <2>1
  <2>3. \A c \in Clients : Alone(c)' => Meet(c)
    BY <2>1, <1>5
  <2> QED
    BY <2>1, <2>2, <2>3
<1>14. ASSUME NEW d \in Clients, OpenToRead(d) PROVE Good
  <2> DEFINE writing == FifoWriting(chan)
  <2>1. /\ at[d] = "start" /\ chan_of' = [chan_of EXCEPT ![d] = chan]
        /\ at' = [at EXCEPT ![d] = IF writing THEN "read" ELSE "opening",
                            ![Sv] = IF writing /\ @ = "opening" THEN "write" ELSE @]
        /\ UNCHANGED <<shown, runs, mem>>
    BY <1>14 DEF OpenToRead, OpenExisting
  <2>2. writing => chan_of[Sv] = chan /\ at[Sv] \in {"opening", "write", "close"}
    BY DEF FifoWriting, HasOpen
  <2> HIDE DEF writing
  <2>3. ASSUME NEW c \in Clients, Alone(c)'
        PROVE  /\ c = d /\ at[Sv] \notin {"write", "close"} /\ shown[c] \in {"", "Hi"}
    BY <2>1, <2>3, <1>5
  <2>4. /\ chan_of'[Sv] = chan_of[Sv] /\ chan_of'[d] = chan
        /\ at'[d] = IF writing THEN "read" ELSE "opening"
        /\ at'[Sv] = IF writing /\ at[Sv] = "opening" THEN "write" ELSE at[Sv]
    BY <2>1
  <2>5. ASSUME NEW c \in Clients, Alone(c)'
        PROVE  /\ at'[Sv] = "write" => at'[c] = "read" /\ chan_of'[c] = chan_of'[Sv]
               /\ at'[c] = "read" => at'[Sv] = "write" /\ chan_of'[c] = chan_of'[Sv]
               /\ shown'[c] \in {"", "Hi"} /\ at'[Sv] # "close"
    BY <2>1, <2>2, <2>3, <2>4, <2>5
  <2>6. /\ at'[Sv] \in {"open", "opening", "write"} => mem'[chan_of'[Sv]] = ""
    BY <2>1, <2>4
  <2> QED
    BY <2>5, <2>6
<1>15. ASSUME NEW d \in Clients, FifoRead(d) PROVE Good
  <2>1. /\ at[d] = "read" /\ at' = [at EXCEPT ![d] = "done"]
        /\ mem[chan_of[d]] # "" \/ ~FifoWriting(chan_of[d])
        /\ shown' = [shown EXCEPT ![d] = IF mem[chan_of[d]] # "" THEN mem[chan_of[d]]
                                         ELSE "uninitialised"]
        /\ mem' = [mem EXCEPT ![chan_of[d]] = ""]
        /\ chan_of' = [chan_of EXCEPT ![d] = 0] /\ UNCHANGED runs
    BY <1>15 DEF FifoRead, Prints, Goes, Shows
  <2>2. chan_of[d] \in Ids
    BY <2>1, HeldChannel DEF Past, Ended
  <2>3. ASSUME NEW c \in Clients, Alone(c)'
        PROVE  c = d /\ at[Sv] # "write" /\ mem[chan_of[d]] = "Hi"
    <3>1. c = d /\ Meet(c)
      BY <2>1, <2>3, <1>5
    <3>2. ASSUME at[Sv] = "write" PROVE FALSE
      <4>1. mem[chan_of[d]] = "" /\ FifoWriting(chan_of[d])
        BY <3>1, <3>2 DEF FifoWriting, HasOpen
      <4> QED
        BY <2>1, <4>1
    <3> QED
      BY <2>1, <3>1, <3>2
  <2>4. /\ at'[Sv] = at[Sv] /\ chan_of'[Sv] = chan_of[Sv] /\ at'[d] = "done"
    BY <2>1
  <2>4a. ASSUME at[Sv] \in {"open", "opening", "write"} PROVE mem'[chan_of[Sv]] = ""
    <3>1. chan_of[Sv] \in Ids
      BY <2>4a, HeldChannel DEF Past, Ended
    <3> QED
      BY <2>1, <2>2, <2>4a, <3>1
  <2>5. ASSUME NEW c \in Clients, Alone(c)'
        PROVE  at'[Sv] # "write" /\ at'[c] = "done" /\ shown'[c] = "Hi"
    BY <2>1, <2>3, <2>4, <2>5
  <2> QED
    BY <2>4, <2>4a, <2>5
<1>16. ASSUME NEW d \in Clients, Fails(d, "start", chan = 0) PROVE Good
  <2>1. /\ at[d] = "start" /\ at' = [at EXCEPT ![d] = "failed"]
        /\ UNCHANGED <<shown, runs, chan_of, mem>>
    BY <1>16 DEF Fails, Step, Goes, chanVars
  <2> QED
    BY <2>1, <1>5
<1> QED
  <2>1. \A p \in Procs : ~Kill(p)
    BY DEF Kill
  <2> QED
    BY <2>1, <1>6, <1>7, <1>8, <1>9, <1>10, <1>11, <1>12, <1>13, <1>14, <1>15, <1>16,
       StepsOfKinds DEF task12_2_serv, task12_2_cli

-----------------------------------------------------------------------------
(* The POSIX queue.                                                        *)

LEMMA PosixQueueStep ==
  ASSUME KernelInv, KernelInv', Next, PosixQueueInv
  PROVE  PosixQueueInv'
<1> SUFFICES ASSUME kind = "posix_mq", manner # "rough" PROVE PosixQueueInv'
  BY Settled DEF PosixQueueInv
<1>1. kind' = "posix_mq" /\ manner' # "rough"
  BY Settled
<1>2. /\ at \in [Procs -> Places] /\ shown \in [Procs -> Texts] /\ Sv \in Procs
      /\ chan_of \in [Procs -> 0..chans] /\ queue \in [Ids -> [Messages -> Nat]]
      /\ \A c \in Clients : c # Sv /\ c \in Procs
      /\ "Hi" \in Messages /\ "Hello" \in Messages
  BY PairAssumption DEF KernelInv, ProcTypes, ChanTypes, Procs, Messages
<1> DEFINE hi == queue[chan]["Hi"]
           hello == queue[chan]["Hello"]
           Empty == \A i \in Ids : i > chans => queue[i]["Hi"] = 0 /\ queue[i]["Hello"] = 0
           Named == IF at[Sv] \in {"off", "start", "done"} THEN chan = 0 ELSE chan = chan_of[Sv]
           Guest == \/ at[child] = "start" /\ hi = 1 /\ hello = 0
                    \/ at[child] = "receive" /\ hi = 1 /\ hello = 0 /\ chan_of[child] = chan
                    \/ /\ at[child] = "send" /\ hi = 0 /\ hello = 0
                       /\ chan_of[child] = chan /\ shown[child] = "Hi"
                    \/ at[child] = "done" /\ hi = 0 /\ hello = 1 /\ shown[child] = "Hi"
           State == /\ at[Sv] \in {"off", "start", "send", "fork", "wait", "receive", "unlink", "done"}
                    /\ \A c \in Clients : /\ at[c] \notin Ended => c = child /\ at[Sv] = "wait"
                                          /\ shown[c] \in {"", "Hi"}
                    /\ at[Sv] = "send" => hi = 0 /\ hello = 0
                    /\ at[Sv] = "fork" => hi = 1 /\ hello = 0
                    /\ at[Sv] = "wait" => child \in Clients /\ Guest
                    /\ at[Sv] = "receive" => hi = 0 /\ hello = 1
                    /\ at[Sv] \in {"receive", "unlink"} => child \in Clients /\ shown[child] = "Hi"
                    /\ shown[Sv] \in {"", "Hello"}
<1>3. Empty /\ Named /\ State
  BY DEF PosixQueueInv, Holds, Running
<1>4. SUFFICES Empty' /\ Named' /\ State'
  BY <1>1 DEF PosixQueueInv, Holds, Running
<1>5. at[Sv] \notin {"off", "start", "done"} => chan \in Ids /\ chan # 0
  <2>1. ASSUME at[Sv] \notin {"off", "start", "done"}
        PROVE  at[Sv] \notin Ended /\ at[Sv] # "start" /\ ~Past(kind, at[Sv]) /\ chan = chan_of[Sv]
    BY <1>3, <2>1 DEF Ended, Past
  <2>2. chan_of[Sv] \in Ids => chan_of[Sv] # 0
    BY DEF Ids
  <2> QED
    BY <1>2, <2>1, <2>2, HeldChannel
<1>6. \A i, j \in Ids : i \in 0..chans /\ j > chans => i # j
  <2>1. ASSUME NEW i \in 0..chans, i > chans PROVE FALSE
    <3>1. chans \in 0..MaxIds /\ MaxIds \in Nat
      BY PairAssumption DEF KernelInv, ChanTypes
    <3> QED
      BY <2>1, <3>1
  <2> QED
    BY <2>1
<1>7. chan \in 0..chans
  BY DEF KernelInv, ChanTypes
\* A step that leaves the queues, and one that changes a message in the named queue.
<1>8. ASSUME UNCHANGED <<queue, chans>> PROVE Empty'
  BY <1>3, <1>8
<1>9. ASSUME NEW m \in Messages, NEW n \in Nat, chan \in Ids,
             \/ Put(chan, m) /\ n = queue[chan][m] + 1
             \/ Take(chan, m) /\ n = queue[chan][m] - 1,
             UNCHANGED <<chan, chans>>
      PROVE  /\ Empty' /\ queue'[chan'][m] = n
             /\ \A k \in Messages : k # m => queue'[chan'][k] = queue[chan][k]
  <2>1. queue' = [queue EXCEPT ![chan][m] = n]
    BY <1>9 DEF Put, Take
  <2>2. \A i \in Ids : i # chan => queue'[i] = queue[i]
    BY <1>2, <1>9, <2>1
  <2>3. \A i \in Ids : i > chans => i # chan
    BY <1>6, <1>7, <1>9
  <2>4. Empty'
    BY <1>3, <1>9, <2>2, <2>3
  <2>5. queue'[chan] = [queue[chan] EXCEPT ![m] = n] /\ queue[chan] \in [Messages -> Nat]
    BY <1>2, <1>9, <2>1
  <2> QED
    BY <1>2, <1>9, <2>4, <2>5
<1>10. CASE StartServer
  <2>1. /\ at[Sv] \in Ended /\ at' = [at EXCEPT ![Sv] = "start"]
        /\ shown' = [shown EXCEPT ![Sv] = ""] /\ UNCHANGED <<child, chan, chans, chan_of, queue>>
    BY <1>10 DEF StartServer, Starts, Shows, Running, chanVars
  <2>2. at'[Sv] = "start" /\ at[Sv] \in {"off", "done"} /\ shown'[Sv] = ""
    BY <1>2, <1>3, <2>1 DEF Ended
  <2>3. \A c \in Clients : at'[c] = at[c] /\ shown'[c] = shown[c]
    BY <1>2, <2>1
  <2> QED
    BY <1>3, <1>8, <2>1, <2>2, <2>3
<1>11. CASE mq_open_create
  <2>1. /\ at[Sv] = "start" /\ at' = [at EXCEPT ![Sv] = "send"]
        /\ OpenOrCreate(Sv, "") /\ UNCHANGED <<shown, child>>
    BY <1>11 DEF mq_open_create, Step, Goes
  <2>2. chan = 0 /\ chans' = chans + 1
    BY <1>3, <2>1 DEF OpenOrCreate
  <2>3. /\ chan' = chans + 1 /\ chan' \in Ids /\ chan_of' = [chan_of EXCEPT ![Sv] = chan']
        /\ queue' = queue
    BY <1>2, <2>1, <2>2, NewOrOldChannel DEF KernelInv
  <2>4. chan' > chans /\ \A i \in Ids : i > chans' => i > chans
    <3>1. chans \in 0..MaxIds /\ MaxIds \in Nat
      BY PairAssumption DEF KernelInv, ChanTypes
    <3>2. \A n \in 0..MaxIds : n + 1 > n /\ \A i \in Ids : i > n + 1 => i > n
      BY PairAssumption DEF Ids
    <3> QED
      BY <2>2, <2>3, <3>1, <3>2
  <2>5. Empty' /\ hi' = 0 /\ hello' = 0
    BY <1>3, <2>3, <2>4
  <2>6. /\ at'[Sv] = "send" /\ chan_of'[Sv] = chan' /\ shown' = shown
        /\ \A c \in Clients : at'[c] = at[c]
    BY <1>2, <2>1, <2>3
  <2> QED
    BY <1>3, <2>1, <2>5, <2>6
<1>12. CASE mq_send(Sv, "Hi", "fork")
  <2>1. /\ at[Sv] = "send" /\ at' = [at EXCEPT ![Sv] = "fork"]
        /\ Put(chan_of[Sv], "Hi") /\ UNCHANGED <<shown, child, chan, chan_of, chans>>
    BY <1>12 DEF mq_send, Step, Goes
  <2>2. chan \in Ids /\ chan = chan_of[Sv] /\ hi = 0 /\ hello = 0
    BY <1>3, <1>5, <2>1
  <2>3. Put(chan, "Hi") /\ 1 = queue[chan]["Hi"] + 1
    BY <2>1, <2>2
  <2>4. Empty' /\ hi' = 1 /\ hello' = 0
    BY <1>2, <1>9, <2>1, <2>2, <2>3
  <2>5. at'[Sv] = "fork" /\ \A c \in Clients : at'[c] = at[c]
    BY <1>2, <2>1
  <2> QED
    BY <1>3, <2>1, <2>2, <2>4, <2>5
<1>13. CASE ForkClient
  <2>1. PICK c \in Clients : Fork(c, "wait", "start")
    BY <1>13 DEF ForkClient
  <2>2. /\ at[Sv] = "fork" /\ at' = [at EXCEPT ![Sv] = "wait", ![c] = "start"]
        /\ child' = c /\ shown' = [shown EXCEPT ![c] = ""]
        /\ UNCHANGED <<chan, chan_of, chans, queue>>
    BY <1>13, <2>1 DEF ForkClient, Fork, Shows, chanVars
  <2>3. /\ at'[Sv] = "wait" /\ at'[c] = "start" /\ shown'[c] = "" /\ shown'[Sv] = shown[Sv]
        /\ \A d \in Clients : d # c => at'[d] = at[d] /\ shown'[d] = shown[d]
    BY <1>2, <2>2
  <2>4. \A d \in Clients : at[d] \in Ended
    BY <1>3, <2>2
  <2>5. hi' = 1 /\ hello' = 0 /\ chan' = chan_of'[Sv]
    BY <1>3, <2>2
  <2> QED
    BY <1>3, <1>8, <2>2, <2>3, <2>4, <2>5
<1>14. CASE WaitForChild("receive")
  <2>1. /\ at[Sv] = "wait" /\ at' = [at EXCEPT ![Sv] = "receive"]
        /\ child = Sv \/ at[child] \in Ended
        /\ UNCHANGED <<shown, child, chan, chan_of, chans, queue>>
    BY <1>14 DEF WaitForChild, Step, Goes, chanVars, Running
  <2>2. child \in Clients /\ at[child] = "done" /\ hi = 0 /\ hello = 1 /\ shown[child] = "Hi"
    BY <1>2, <1>3, <2>1 DEF Ended
  <2>3. at'[Sv] = "receive" /\ \A c \in Clients : at'[c] = at[c]
    BY <1>2, <2>1
  <2> QED
    BY <1>3, <1>8, <2>1, <2>2, <2>3 DEF Ended
<1>15. CASE mq_receive(Sv, "unlink")
  <2>1. /\ at[Sv] = "receive" /\ at' = [at EXCEPT ![Sv] = "unlink"]
        /\ shown' = [shown EXCEPT ![Sv] = HighestPriority(chan_of[Sv])]
        /\ Take(chan_of[Sv], HighestPriority(chan_of[Sv]))
        /\ UNCHANGED <<child, chan, chan_of, chans>>
    BY <1>15 DEF mq_receive, Prints, Goes, Shows
  <2>2. chan \in Ids /\ chan = chan_of[Sv] /\ hi = 0 /\ hello = 1
    BY <1>3, <1>5, <2>1
  <2>3. HighestPriority(chan_of[Sv]) = "Hello"
    BY <2>2 DEF HighestPriority
  <2>4. Take(chan, "Hello") /\ 0 = queue[chan]["Hello"] - 1
    BY <2>1, <2>2, <2>3
  <2>5. Empty'
    BY <1>2, <1>9, <2>1, <2>2, <2>4
  <2>6. /\ at'[Sv] = "unlink" /\ shown'[Sv] = "Hello"
        /\ \A c \in Clients : at'[c] = at[c] /\ shown'[c] = shown[c]
    BY <1>2, <2>1, <2>3
  <2>7. Named'
    BY <1>3, <2>1, <2>2, <2>6
  <2>8. State'
    BY <1>3, <2>1, <2>6
  <2> QED
    BY <2>5, <2>7, <2>8
<1>16. CASE mq_unlink
  <2>1. /\ at[Sv] = "unlink" /\ at' = [at EXCEPT ![Sv] = "done"] /\ chan' = 0
        /\ UNCHANGED <<shown, child, chans, queue>>
    BY <1>16 DEF mq_unlink, Step, Goes
  <2>2. at'[Sv] = "done" /\ \A c \in Clients : at'[c] = at[c]
    BY <1>2, <2>1
  <2> QED
    BY <1>3, <1>8, <2>1, <2>2
<1>17. ASSUME NEW c \in Clients, mq_open(c) PROVE Empty' /\ Named' /\ State'
  <2>1. /\ at[c] = "start" /\ at' = [at EXCEPT ![c] = "receive"]
        /\ chan_of' = [chan_of EXCEPT ![c] = chan] /\ UNCHANGED <<shown, child, chan, chans, queue>>
    BY <1>17 DEF mq_open, Step, Goes, OpenExisting
  <2>2. c = child /\ at[Sv] = "wait" /\ hi = 1 /\ hello = 0
    BY <1>3, <2>1 DEF Ended
  <2>3. /\ at'[c] = "receive" /\ at'[Sv] = "wait" /\ chan_of'[c] = chan /\ chan_of'[Sv] = chan_of[Sv]
        /\ \A d \in Clients : d # c => at'[d] = at[d]
    BY <1>2, <2>1, <2>2
  <2> QED
    BY <1>3, <1>8, <2>1, <2>2, <2>3
<1>18. ASSUME NEW c \in Clients, Fails(c, "start", chan = 0) PROVE FALSE
  <2>1. at[c] = "start" /\ chan = 0
    BY <1>18 DEF Fails, Step, Goes
  <2>2. at[Sv] = "wait"
    BY <1>3, <2>1 DEF Ended
  <2> QED
    BY <1>5, <2>1, <2>2
<1>19. ASSUME NEW c \in Clients, mq_receive(c, "send") PROVE Empty' /\ Named' /\ State'
  <2>1. /\ at[c] = "receive" /\ at' = [at EXCEPT ![c] = "send"]
        /\ shown' = [shown EXCEPT ![c] = HighestPriority(chan_of[c])]
        /\ Take(chan_of[c], HighestPriority(chan_of[c]))
        /\ UNCHANGED <<child, chan, chan_of, chans>>
    BY <1>19 DEF mq_receive, Prints, Goes, Shows
  <2>2. c = child /\ at[Sv] = "wait" /\ hi = 1 /\ hello = 0 /\ chan_of[c] = chan /\ chan \in Ids
    BY <1>3, <1>5, <2>1 DEF Ended
  <2>3. HighestPriority(chan_of[c]) = "Hi"
    BY <2>2 DEF HighestPriority
  <2>4. Take(chan, "Hi") /\ 0 = queue[chan]["Hi"] - 1
    BY <2>1, <2>2, <2>3
  <2>5. Empty' /\ hi' = 0 /\ hello' = 0
    BY <1>2, <1>9, <2>1, <2>2, <2>4
  <2>6. /\ at'[Sv] = "wait" /\ at'[c] = "send" /\ shown'[c] = "Hi" /\ shown'[Sv] = shown[Sv]
        /\ \A d \in Clients : d # c => at'[d] = at[d] /\ shown'[d] = shown[d]
    BY <1>2, <2>1, <2>2, <2>3
  <2> QED
    BY <1>3, <2>1, <2>2, <2>5, <2>6
<1>20. ASSUME NEW c \in Clients, mq_send(c, "Hello", "done") PROVE Empty' /\ Named' /\ State'
  <2>1. /\ at[c] = "send" /\ at' = [at EXCEPT ![c] = "done"]
        /\ Put(chan_of[c], "Hello") /\ UNCHANGED <<shown, child, chan, chan_of, chans>>
    BY <1>20 DEF mq_send, Step, Goes
  <2>2. /\ c = child /\ at[Sv] = "wait" /\ hi = 0 /\ hello = 0 /\ chan_of[c] = chan /\ chan \in Ids
        /\ shown[c] = "Hi"
    BY <1>3, <1>5, <2>1 DEF Ended
  <2>3. Put(chan, "Hello") /\ 1 = queue[chan]["Hello"] + 1
    BY <2>1, <2>2
  <2>4. Empty' /\ hi' = 0 /\ hello' = 1
    BY <1>2, <1>9, <2>1, <2>2, <2>3
  <2>5. /\ at'[Sv] = "wait" /\ at'[c] = "done"
        /\ \A d \in Clients : d # c => at'[d] = at[d]
    BY <1>2, <2>1, <2>2
  <2> QED
    BY <1>3, <2>1, <2>2, <2>4, <2>5 DEF Ended
<1> QED
  <2>1. /\ \A c \in Clients : ~StartByHand(c)
        /\ \A p \in Procs : ~Kill(p)
    BY ByHandStarts DEF Kill, WaitsAt
  <2> HIDE DEF Empty, Named, State
  <2> QED
    BY <2>1, <1>10, <1>11, <1>12, <1>13, <1>14, <1>15, <1>16, <1>17, <1>18, <1>19, <1>20,
       StepsOfKinds DEF posix_serv, posix_cli

-----------------------------------------------------------------------------
(* The System V queue.                                                     *)

LEMMA SysVQueueStep ==
  ASSUME KernelInv, KernelInv', Next, SysVQueueInv
  PROVE  SysVQueueInv'
<1> SUFFICES ASSUME kind = "sysV_mq" PROVE SysVQueueInv'
  BY Settled DEF SysVQueueInv
<1>1. kind' = kind /\ manner' = manner
  BY Settled
<1>2. /\ at \in [Procs -> Places] /\ shown \in [Procs -> Texts] /\ Sv \in Procs
      /\ queue \in [Ids -> [Messages -> Nat]]
      /\ \A c \in Clients : c # Sv /\ c \in Procs
  BY PairAssumption DEF KernelInv, ProcTypes, ChanTypes, Procs
<1> DEFINE Shown == shown[Sv] \in {"", "Hello"} /\ \A c \in Clients : shown[c] \in {"", "Hi"}
           Told == \A c \in Clients : at[c] = "send" => shown[c] = "Hi"
           Answers == \A i \in Ids : queue[i]["Hello"] > 0 => \E c \in Clients : shown[c] = "Hi"
<1>3. Shown /\ (manner = "calm" => Told /\ Answers)
  BY DEF SysVQueueInv
<1>4. SUFFICES Shown' /\ (manner = "calm" => Told' /\ Answers')
  BY <1>1 DEF SysVQueueInv
<1>5. CASE StartServer
  <2>1. /\ at' = [at EXCEPT ![Sv] = "start"] /\ shown' = [shown EXCEPT ![Sv] = ""]
        /\ UNCHANGED queue
    BY <1>5 DEF StartServer, Starts, Shows, chanVars
  <2> QED
    BY <1>2, <1>3, <2>1
<1>6. ASSUME NEW d \in Clients, StartByHand(d)
      PROVE  Shown' /\ (manner = "calm" => Told' /\ Answers')
  <2>1. /\ at' = [at EXCEPT ![d] = "start"] /\ shown' = [shown EXCEPT ![d] = ""]
        /\ UNCHANGED queue /\ (manner = "calm" => \A c \in Clients : runs[c] = 0)
    BY <1>6, ByHandStarts DEF Starts, Shows, chanVars
  <2>2. manner = "calm" => \A c \in Clients : shown[c] = ""
    BY <1>2, <2>1 DEF KernelInv, NeverRun
  <2>3. manner = "calm" => Answers'
    BY <1>3, <2>1, <2>2
  <2>4. Shown' /\ (manner = "calm" => Told')
    BY <1>2, <1>3, <2>1
  <2> QED
    BY <2>3, <2>4
<1>7. ASSUME NEW p \in Procs, Kill(p) PROVE Shown' /\ manner # "calm"
  BY <1>3, <1>7 DEF Kill
<1>8. ASSUME NEW p \in Procs, NEW from, NEW to, to # "send" \/ p = Sv,
             Step(p, from, to), UNCHANGED queue
      PROVE  Shown' /\ (manner = "calm" => Told' /\ Answers')
  <2>1. at' = [at EXCEPT ![p] = to] /\ UNCHANGED <<shown, queue>>
    BY <1>8 DEF Step, Goes
  <2> QED
    BY <1>2, <1>3, <1>8, <2>1
<1>9. ASSUME NEW p \in Procs, NEW to, to # "send", NEW m \in Messages,
             m = "Hello" => p \in Clients, msgsnd(p, m, to)
      PROVE  Shown' /\ (manner = "calm" => Told' /\ Answers')
  <2>1. /\ at[p] = "send" /\ at' = [at EXCEPT ![p] = to] /\ UNCHANGED shown
        /\ queue' = [queue EXCEPT ![chan][m] = queue[chan][m] + 1]
    BY <1>9 DEF msgsnd, Step, Goes, Put
  <2>2. Shown' /\ (manner = "calm" => Told')
    BY <1>2, <1>3, <1>9, <2>1
  <2>3. ASSUME manner = "calm", m = "Hi" PROVE Answers'
    <3>1. \A i \in Ids : queue'[i]["Hello"] = queue[i]["Hello"]
      BY <1>2, <2>1, <2>3 DEF Messages
    <3> QED
      BY <1>3, <2>1, <2>3, <3>1
  <2>4. ASSUME manner = "calm", m = "Hello" PROVE Answers'
    BY <1>3, <1>9, <2>1, <2>4
  <2> QED
    BY <2>2, <2>3, <2>4 DEF Messages
<1>10. ASSUME NEW p \in Procs, NEW to, NEW m \in Messages, msgrcv(p, m, to),
              IF p = Sv THEN m = "Hello" ELSE m = "Hi"
       PROVE  Shown' /\ (manner = "calm" => Told' /\ Answers')
  <2>1. /\ at[p] = "receive" /\ at' = [at EXCEPT ![p] = to] /\ shown' = [shown EXCEPT ![p] = m]
        /\ queue[chan][m] > 0 /\ queue' = [queue EXCEPT ![chan][m] = queue[chan][m] - 1]
        /\ chan_of[p] = chan
    BY <1>10 DEF msgrcv, Prints, Shows, Goes, Take
  <2>2. Shown' /\ (manner = "calm" => Told')
    BY <1>2, <1>3, <1>10, <2>1
  <2>3. chan \in Ids /\ queue[chan][m] \in Nat
    BY <2>1, HeldChannel DEF Past, Ended
  <2>4. \A i \in Ids : queue'[i]["Hello"] > 0 => queue[i]["Hello"] > 0
    <3>1. queue'[chan] = [queue[chan] EXCEPT ![m] = queue[chan][m] - 1]
      BY <1>2, <2>1, <2>3
    <3>2. \A i \in Ids : i # chan => queue'[i] = queue[i]
      BY <1>2, <2>1
    <3>3. queue'[chan]["Hello"] > 0 => queue[chan]["Hello"] > 0
      BY <1>2, <2>1, <2>3, <3>1 DEF Messages
    <3> QED
      BY <3>2, <3>3
  <2>5. ASSUME manner = "calm" PROVE Answers'
    <3>1. \A c \in Clients : shown[c] = "Hi" => shown'[c] = "Hi"
      BY <1>2, <1>10, <2>1
    <3> QED
      BY <1>3, <2>4, <2>5, <3>1
  <2> QED
    BY <2>2, <2>5
<1>11. ASSUME NEW p \in Procs, QueueRemoved(p)
       PROVE  Shown' /\ (manner = "calm" => Told' /\ Answers')
  <2>1. Step(p, at[p], "failed") /\ UNCHANGED queue
    BY <1>11 DEF QueueRemoved, Fails, chanVars
  <2> QED
    BY <1>8, <2>1
<1>12. ASSUME NEW p \in Procs, NEW to, msgget(p, to), to # "send" \/ p = Sv
       PROVE  Shown' /\ (manner = "calm" => Told' /\ Answers')
  <2>1. Step(p, "start", to) /\ UNCHANGED queue
    BY <1>12 DEF msgget, OpenOrCreate
  <2> QED
    BY <1>8, <1>12, <2>1
<1>13. CASE msgctl_rmid
  BY <1>2, <1>8, <1>13 DEF msgctl_rmid
<1> QED
  <2>1. "Hi" \in Messages /\ "Hello" \in Messages
    BY DEF Messages
  <2> HIDE DEF Shown, Told, Answers
  <2> QED
    BY <2>1, <1>2, <1>5, <1>6, <1>7, <1>9, <1>10, <1>11, <1>12, <1>13,
       StepsOfKinds DEF sysV_serv, sysV_cli

-----------------------------------------------------------------------------
(* The semaphore of the POSIX shared memory.                               *)

LEMMA ReleaseStep ==
  ASSUME KernelInv, KernelInv', Next, ReleaseInv
  PROVE  ReleaseInv'
<1> SUFFICES ASSUME kind = "posix_shm", manner # "rough" PROVE ReleaseInv'
  BY Settled DEF ReleaseInv
<1>1. kind' = kind /\ manner' = manner
  BY Settled
<1>2. /\ at \in [Procs -> Places] /\ Sv \in Procs /\ sem_of \in [Procs -> 0..sems]
      /\ count \in [Ids -> Nat] /\ \A c \in Clients : c # Sv /\ c \in Procs
  BY PairAssumption DEF KernelInv, ProcTypes, SemTypes, Procs
<1> DEFINE Stages == at[Sv] \in {"off", "start", "truncate", "sem_open", "copy", "wait", "print",
                                 "unlink", "sem_unlink", "done"}
           Named == IF at[Sv] \in {"off", "start", "truncate", "sem_open", "done"}
                    THEN sem = 0 ELSE sem # 0 /\ sem = sem_of[Sv]
           Kept == at[Sv] \in {"copy", "wait"} =>
                     \A c \in Clients : at[c] = "done" /\ sem_of[c] = sem => count[sem] > 0
<1>3. Stages /\ Named /\ Kept
  BY DEF ReleaseInv
<1>4. SUFFICES Stages' /\ Named' /\ Kept'
  BY <1>1 DEF ReleaseInv
<1>5. CASE StartServer
  <2>1. /\ at[Sv] \in Ended /\ at' = [at EXCEPT ![Sv] = "start"] /\ UNCHANGED <<sem, sem_of, count>>
    BY <1>5 DEF StartServer, Starts, Running, semVars
  <2> QED
    BY <1>2, <1>3, <2>1 DEF Ended
\* A step of a client that does not end well, and leaves the semaphores.
<1>6. ASSUME NEW c \in Clients, NEW to, to # "done", at' = [at EXCEPT ![c] = to],
             UNCHANGED <<sem, sem_of, count>>
      PROVE  Stages' /\ Named' /\ Kept'
  <2>1. at'[Sv] = at[Sv] /\ at'[c] = to /\ \A d \in Clients : d # c => at'[d] = at[d]
    BY <1>2, <1>6
  <2> QED
    BY <1>3, <1>6, <2>1
\* A step of the server that leaves the semaphores.
<1>7. ASSUME NEW from, NEW to, Step(Sv, from, to), UNCHANGED <<sem, sem_of, count>>,
             <<from, to>> \in {<<"start", "truncate">>, <<"truncate", "sem_open">>,
                               <<"copy", "wait">>, <<"unlink", "sem_unlink">>}
      PROVE  Stages' /\ Named' /\ Kept'
  <2>1. at[Sv] = from /\ at'[Sv] = to /\ \A d \in Clients : at'[d] = at[d]
    BY <1>2, <1>7 DEF Step, Goes
  <2> QED
    BY <1>3, <1>7, <2>1
<1>8. CASE shm_open_create \/ ftruncate \/ Copy(Sv, "copy", "wait", "Hi")
  BY <1>7, <1>8 DEF shm_open_create, ftruncate, Copy, semVars
<1>9. CASE SemOpenOrCreate(Sv, "sem_open", "copy")
  <2>1. at[Sv] = "sem_open" /\ at' = [at EXCEPT ![Sv] = "copy"]
    BY <1>9 DEF SemOpenOrCreate, Step, Goes
  <2>2. sem = 0
    BY <1>3, <2>1
  <2>3. /\ sem' # 0 /\ sem_of' = [sem_of EXCEPT ![Sv] = sem']
        /\ \A q \in Procs : sem_of[q] # sem'
    BY <1>2, <1>9, <2>2, NewOrOldSemaphore DEF KernelInv
  <2>4. \A c \in Clients : sem_of'[c] # sem'
    BY <1>2, <2>3
  <2> QED
    BY <1>2, <2>1, <2>3, <2>4
<1>10. CASE SemWait("wait", "print")
  <2>1. at[Sv] = "wait" /\ at' = [at EXCEPT ![Sv] = "print"] /\ UNCHANGED <<sem, sem_of>>
    BY <1>10 DEF SemWait, Step, Goes, SetCount
  <2> QED
    BY <1>2, <1>3, <2>1
<1>11. CASE PrintMemory(Sv, "unlink")
  <2>1. at[Sv] = "print" /\ at' = [at EXCEPT ![Sv] = "unlink"] /\ UNCHANGED <<sem, sem_of, count>>
    BY <1>11 DEF PrintMemory, Prints, Goes, semVars
  <2> QED
    BY <1>2, <1>3, <2>1
<1>12. CASE RemoveMemory("unlink", "sem_unlink")
  BY <1>7, <1>12 DEF RemoveMemory, semVars
<1>13. CASE RemoveSemaphore("sem_unlink")
  <2>1. at[Sv] = "sem_unlink" /\ at' = [at EXCEPT ![Sv] = "done"] /\ sem' = 0
    BY <1>13 DEF RemoveSemaphore, Step, Goes
  <2> QED
    BY <1>2, <2>1
<1>14. ASSUME NEW c \in Clients, StartByHand(c) PROVE Stages' /\ Named' /\ Kept'
  BY <1>6, <1>14, ByHandStarts DEF Starts, semVars
<1>15. ASSUME NEW c \in Clients,
              \/ shm_open(c) \/ PrintMemory(c, "copy") \/ Copy(c, "copy", "post", "Hello")
              \/ \E step, failed : Fails(c, step, failed)
       PROVE  Stages' /\ Named' /\ Kept'
  <2>1. \E to : to # "done" /\ at' = [at EXCEPT ![c] = to]
    BY <1>15 DEF shm_open, PrintMemory, Copy, Fails, Step, Prints, Goes
  <2>2. UNCHANGED <<sem, sem_of, count>>
    BY <1>15 DEF shm_open, PrintMemory, Copy, Fails, semVars
  <2> QED
    BY <1>6, <2>1, <2>2
<1>16. ASSUME NEW c \in Clients, SemOpen(c, "print") PROVE Stages' /\ Named' /\ Kept'
  <2>1. /\ at[c] = "sem_open" /\ at' = [at EXCEPT ![c] = "print"]
        /\ sem_of' = [sem_of EXCEPT ![c] = sem] /\ UNCHANGED <<sem, count>>
    BY <1>16 DEF SemOpen, Step, Goes
  <2>2. /\ at'[Sv] = at[Sv] /\ sem_of'[Sv] = sem_of[Sv] /\ at'[c] = "print"
        /\ \A d \in Clients : d # c => at'[d] = at[d] /\ sem_of'[d] = sem_of[d]
    BY <1>2, <2>1
  <2> QED
    BY <1>3, <2>1, <2>2
<1>17. ASSUME NEW c \in Clients, SemPost(c) PROVE Stages' /\ Named' /\ Kept'
  <2>1. /\ at' = [at EXCEPT ![c] = "done"] /\ UNCHANGED <<sem, sem_of>>
        /\ count' = [count EXCEPT ![sem_of[c]] = count[sem_of[c]] + 1]
    BY <1>17 DEF SemPost, Step, Goes, SetCount
  <2>2. at'[Sv] = at[Sv] /\ \A d \in Clients : d # c => at'[d] = at[d]
    BY <1>2, <2>1
  <2>3. ASSUME at[Sv] \in {"copy", "wait"} PROVE sem \in Ids
    <3>1. sem # 0 /\ sems \in 0..MaxIds /\ sem \in 0..sems
      BY <1>3, <2>3 DEF KernelInv, SemTypes
    <3>2. sem \in 0..MaxIds
      BY <3>1, IdFacts
    <3> QED
      BY <3>1, <3>2, IdFacts
  <2>4. ASSUME sem \in Ids
        PROVE  /\ count[sem] > 0 => count'[sem] > 0
               /\ sem_of[c] = sem => count'[sem] > 0
    <3>1. count[sem] \in Nat /\ count[sem] + 1 > 0
      BY <1>2, <2>4
    <3>2. count'[sem] = IF sem_of[c] = sem THEN count[sem] + 1 ELSE count[sem]
      BY <1>2, <2>1, <2>4
    <3> QED
      BY <3>1, <3>2
  <2> QED
    BY <1>3, <2>1, <2>2, <2>3, <2>4
<1> QED
  <2>1. \A p \in Procs : ~Kill(p)
    BY DEF Kill
  <2> HIDE DEF Stages, Named, Kept
  <2> QED
    BY <2>1, <1>5, <1>8, <1>9, <1>10, <1>11, <1>12, <1>13, <1>14, <1>15, <1>16, <1>17,
       StepsOfKinds DEF posix_shm_serv, posix_shm_cli

-----------------------------------------------------------------------------
(* A calm run with shared memory.                                          *)

\* What the only client does while the server waits.
LEMMA VisitStep ==
  ASSUME KernelInv, NEW d \in Clients, Visited(d), chan \in Ids, sem \in Ids, chan # 0, sem # 0,
         NEW c \in Clients, posix_shm_cli(c) \/ sysV_shm_cli(c)
  PROVE  /\ Visited(d)' /\ at'[Sv] = at[Sv] /\ shown'[Sv] = shown[Sv]
         /\ chan' = chan /\ chan_of'[Sv] = chan_of[Sv]
         /\ sem' = sem /\ sem_of'[Sv] = sem_of[Sv]
<1>1. /\ at \in [Procs -> Places] /\ shown \in [Procs -> Texts] /\ Sv \in Procs
      /\ chan_of \in [Procs -> 0..chans] /\ mem \in [Ids -> Messages \cup {"", "zeros"}]
      /\ sem_of \in [Procs -> 0..sems] /\ count \in [Ids -> Nat]
      /\ \A q \in Clients : q # Sv /\ q \in Procs
  BY PairAssumption DEF KernelInv, ProcTypes, ChanTypes, SemTypes, Procs
<1>2. /\ \/ shm_open(c) \/ SemOpen(c, "print") \/ PrintMemory(c, "copy")
         \/ Copy(c, "copy", "post", "Hello") \/ SemPost(c)
         \/ Fails(c, "start", chan = 0) \/ Fails(c, "sem_open", sem = 0)
         \/ Fails(c, "print", mem[chan_of[c]] = "") \/ Fails(c, "post", sem_of[c] # sem)
  BY DEF posix_shm_cli, sysV_shm_cli
<1>3. at[c] \in {"start", "sem_open", "print", "copy", "post"}
  BY <1>2 DEF shm_open, SemOpen, PrintMemory, Copy, SemPost, Fails, Step, Prints, Goes
<1>4. c = d
  BY <1>1, <1>3 DEF Visited, KernelInv, NeverRun
<1>5. runs[d] > 0 /\ \A q \in Clients : q # d => runs[q] = 0
  BY DEF Visited
<1>6. CASE shm_open(c)
  <2>1. /\ at[d] = "start" /\ at' = [at EXCEPT ![d] = "sem_open"]
        /\ chan_of' = [chan_of EXCEPT ![d] = chan]
        /\ UNCHANGED <<shown, runs, chan, mem, sem, sem_of, count>>
    BY <1>4, <1>6 DEF shm_open, Step, Goes, OpenExisting, semVars
  <2> QED
    BY <1>1, <1>5, <2>1 DEF Visited
<1>7. CASE SemOpen(c, "print")
  <2>1. /\ at[d] = "sem_open" /\ at' = [at EXCEPT ![d] = "print"]
        /\ sem_of' = [sem_of EXCEPT ![d] = sem]
        /\ UNCHANGED <<shown, runs, chan, chan_of, mem, sem, count>>
    BY <1>4, <1>7 DEF SemOpen, Step, Goes, chanVars
  <2> QED
    BY <1>1, <1>5, <2>1 DEF Visited
<1>8. CASE PrintMemory(c, "copy")
  <2>1. /\ at[d] = "print" /\ at' = [at EXCEPT ![d] = "copy"]
        /\ shown' = [shown EXCEPT ![d] = mem[chan_of[d]]]
        /\ UNCHANGED <<runs, chan, chan_of, mem, sem, sem_of, count>>
    BY <1>4, <1>8 DEF PrintMemory, Prints, Goes, Shows, chanVars, semVars
  <2>2. mem[chan_of[d]] = "Hi" /\ count[sem] = 0 /\ chan_of[d] = chan /\ sem_of[d] = sem
    BY <2>1 DEF Visited
  <2> QED
    BY <1>1, <1>5, <2>1, <2>2 DEF Visited
<1>9. CASE Copy(c, "copy", "post", "Hello")
  <2>1. /\ at[d] = "copy" /\ at' = [at EXCEPT ![d] = "post"]
        /\ mem' = [mem EXCEPT ![chan_of[d]] = "Hello"]
        /\ UNCHANGED <<shown, runs, chan, chan_of, sem, sem_of, count>>
    BY <1>4, <1>9 DEF Copy, Step, Goes, semVars
  <2>2. shown[d] = "Hi" /\ count[sem] = 0 /\ chan_of[d] = chan /\ sem_of[d] = sem
    BY <2>1 DEF Visited
  <2> QED
    BY <1>1, <1>5, <2>1, <2>2 DEF Visited
<1>10. CASE SemPost(c)
  <2>1. /\ at[d] = "post" /\ at' = [at EXCEPT ![d] = "done"]
        /\ UNCHANGED <<shown, runs, chan, chan_of, mem, sem, sem_of>>
    BY <1>4, <1>10 DEF SemPost, Step, Goes, SetCount, chanVars
  <2>2. shown[d] = "Hi" /\ mem[chan] = "Hello"
    BY <2>1 DEF Visited
  <2> QED
    BY <1>1, <1>5, <2>1, <2>2 DEF Visited
<1>11. ASSUME \/ Fails(c, "start", chan = 0) \/ Fails(c, "sem_open", sem = 0)
              \/ Fails(c, "print", mem[chan_of[c]] = "") \/ Fails(c, "post", sem_of[c] # sem)
       PROVE  FALSE
  <2>1. \/ at[d] = "print" /\ mem[chan_of[d]] = ""
        \/ at[d] = "post" /\ sem_of[d] # sem
    BY <1>4, <1>11 DEF Fails, Step, Goes
  <2> QED
    BY <2>1 DEF Visited
<1> QED
  BY <1>2, <1>6, <1>7, <1>8, <1>9, <1>10, <1>11

LEMMA MemoryStep ==
  ASSUME KernelInv, KernelInv', Next, MemoryInv
  PROVE  MemoryInv'
<1> SUFFICES ASSUME manner = "calm", kind \in {"posix_shm", "sysV_shm"} PROVE MemoryInv'
  BY Settled DEF MemoryInv
<1>1. kind' = kind /\ manner' = manner
  BY Settled
<1>2. /\ at \in [Procs -> Places] /\ shown \in [Procs -> Texts] /\ Sv \in Procs
      /\ chan_of \in [Procs -> 0..chans] /\ mem \in [Ids -> Messages \cup {"", "zeros"}]
      /\ sem_of \in [Procs -> 0..sems] /\ count \in [Ids -> Nat]
      /\ \A q \in Clients : q # Sv /\ q \in Procs
  BY PairAssumption DEF KernelInv, ProcTypes, ChanTypes, SemTypes, Procs
<1> DEFINE W == WaitsAt[kind]
           Named == sem # 0 /\ sem = sem_of[Sv]
           Ready == \/ Quiet /\ mem[chan] = "Hi" /\ count[sem] = 0
                    \/ \E c \in Clients : Visited(c)
           Stage ==
             \/ at[Sv] \in {"off", "start"} /\ Quiet /\ sem = 0
             \/ at[Sv] \in {"truncate", "sem_open"} /\ Quiet /\ sem = 0 /\ chan = chan_of[Sv]
             \/ /\ at[Sv] = "copy" /\ kind = "posix_shm"
                /\ Quiet /\ Named /\ count[sem] = 0 /\ chan = chan_of[Sv]
             \/ /\ at[Sv] = "copy" /\ kind = "sysV_shm"
                /\ Quiet /\ sem = 0 /\ chan = chan_of[Sv]
             \/ at[Sv] = "semget" /\ Quiet /\ sem = 0 /\ chan = chan_of[Sv] /\ mem[chan] = "Hi"
             \/ /\ at[Sv] = "init_sem" /\ Quiet /\ Named /\ count[sem] = 0
                /\ chan = chan_of[Sv] /\ mem[chan] = "Hi"
             \/ at[Sv] = W /\ Ready /\ Named /\ chan = chan_of[Sv]
             \/ at[Sv] = "print" /\ Gone /\ mem[chan_of[Sv]] = "Hello"
             \/ at[Sv] \in {"unlink", "sem_unlink", "shm_rmid", "sem_rmid", "done"} /\ Gone
<1>3. kind \in DOMAIN WaitsAt /\ W = IF kind = "posix_shm" THEN "wait" ELSE "reserve_sem"
  BY DEF WaitsAt
<1>4. Stage
  BY <1>3 DEF MemoryInv, SemReady
<1>5. SUFFICES Stage'
  <2>1. W' = W
    BY <1>1
  <2> QED
    BY <1>1, <1>3, <2>1 DEF MemoryInv, SemReady
<1>6. ASSUME at[Sv] \notin Ended \cup {"start"} PROVE chan_of[Sv] \in Ids /\ chan_of[Sv] # 0
  <2>1. ~Past(kind, at[Sv]) /\ at[Sv] # "start"
    BY <1>6 DEF Past
  <2>2. chan_of[Sv] \in Ids => chan_of[Sv] # 0
    BY DEF Ids
  <2> QED
    BY <1>2, <2>1, <2>2, HeldChannel
<1>7. sem # 0 => sem \in Ids
  <2>1. sems \in 0..MaxIds /\ sem \in 0..sems
    BY DEF KernelInv, SemTypes
  <2>2. sem \in 0..MaxIds
    BY <2>1, IdFacts
  <2> QED
    BY <2>2, IdFacts
\* Without a client that runs, clients do nothing.
<1>8. ASSUME NEW c \in Clients, posix_shm_cli(c) \/ sysV_shm_cli(c)
      PROVE  at[c] \notin Ended
  BY <1>8 DEF posix_shm_cli, sysV_shm_cli, shm_open, SemOpen, PrintMemory, Copy, SemPost, Fails,
              Step, Prints, Goes, Ended
<1>9. Quiet => \A c \in Clients : at[c] \in Ended
  BY <1>2 DEF Quiet, KernelInv, NeverRun, Ended
<1>10. Gone => \A c \in Clients : at[c] \in Ended
  BY DEF Gone, Running
\* A step of the server leaves the clients alone.
<1>11. ASSUME NEW from, NEW to, NEW text,
              Step(Sv, from, to) \/ (Prints(Sv, from, to, text) /\ from = "print")
       PROVE  /\ at[Sv] = from /\ at'[Sv] = to /\ (Quiet => Quiet') /\ (Gone => Gone')
              /\ \A c \in Clients : at'[c] = at[c]
  <2>1. /\ at[Sv] = from /\ at' = [at EXCEPT ![Sv] = to] /\ UNCHANGED runs
        /\ shown' = shown \/ shown' = [shown EXCEPT ![Sv] = text]
    BY <1>11 DEF Step, Prints, Goes, Shows
  <2>2. \A c \in Clients : at'[c] = at[c] /\ shown'[c] = shown[c]
    BY <1>2, <2>1
  <2> QED
    BY <1>2, <2>1, <2>2 DEF Quiet, Gone, Running
<1>12. CASE StartServer
  <2>1. /\ at[Sv] \in Ended /\ at' = [at EXCEPT ![Sv] = "start"] /\ runs[Sv] < 1
        /\ runs' = [runs EXCEPT ![Sv] = @ + 1] /\ UNCHANGED sem
    BY <1>12 DEF StartServer, Starts, Running, semVars
  <2>2. at[Sv] = "off" /\ \A c \in Clients : runs'[c] = runs[c]
    BY <1>2, <2>1, FirstRun
  <2>4. Quiet /\ sem = 0
    BY <1>3, <1>4, <2>2
  <2>5. Quiet'
    BY <2>2, <2>4 DEF Quiet
  <2> QED
    BY <1>2, <2>1, <2>4, <2>5
<1>13. ASSUME NEW d \in Clients, StartByHand(d) PROVE Stage'
  <2>1. /\ at[Sv] = W /\ Quiet /\ at' = [at EXCEPT ![d] = "start"]
        /\ runs' = [runs EXCEPT ![d] = @ + 1] /\ UNCHANGED <<chan, chan_of, mem, sem, sem_of, count>>
    BY <1>13, ByHandStarts DEF Starts, Quiet, chanVars, semVars
  <2>2. runs'[d] > 0 /\ \A c \in Clients : c # d => runs'[c] = 0
    <3>1. runs[d] < 1
      BY <2>1 DEF Quiet
    <3>2. runs'[d] > 0 /\ \A q \in Procs : q # d => runs'[q] = runs[q]
      BY <1>2, <2>1, <3>1, FirstRun
    <3> QED
      BY <1>2, <2>1, <3>2 DEF Quiet
  <2>3. Ready /\ Named /\ chan = chan_of[Sv]
    BY <1>3, <1>4, <2>1
  <2>4. mem[chan] = "Hi" /\ count[sem] = 0
    <3>1. \A c \in Clients : ~Visited(c)
      <4>1. \A c \in Clients : ~(runs[c] > 0)
        BY <2>1 DEF Quiet
      <4> QED
        BY <4>1 DEF Visited
    <3> QED
      BY <2>3, <3>1
  <2>5. runs'[d] > 0 /\ at'[d] = "start" /\ \A c \in Clients : c # d => runs'[c] = 0
    BY <1>2, <2>1, <2>2
  <2>6. Visited(d)'
    BY <2>1, <2>4, <2>5 DEF Visited
  <2> QED
    BY <1>1, <1>2, <2>1, <2>3, <2>6
<1>14. ASSUME NEW c \in Clients, posix_shm_cli(c) \/ sysV_shm_cli(c) PROVE Stage'
  <2>1. ~Quiet /\ ~Gone
    BY <1>8, <1>9, <1>10, <1>14
  <2>2. at[Sv] = W /\ Named /\ chan = chan_of[Sv] /\ \E d \in Clients : Visited(d)
    BY <1>4, <2>1
  <2>3. PICK d \in Clients : Visited(d)
    BY <2>2
  <2>4. chan \in Ids /\ chan # 0 /\ sem \in Ids /\ sem # 0
    BY <1>3, <1>6, <1>7, <2>2 DEF Ended
  <2>5. /\ Visited(d)' /\ at'[Sv] = at[Sv] /\ chan' = chan /\ chan_of'[Sv] = chan_of[Sv]
        /\ sem' = sem /\ sem_of'[Sv] = sem_of[Sv]
    BY <1>14, <2>3, <2>4, VisitStep
  <2> QED
    BY <1>1, <2>2, <2>5
<1>15. ASSUME NEW to, NEW content \in {"", "zeros"}, Step(Sv, "start", to),
              OpenOrCreate(Sv, content), UNCHANGED semVars,
              \/ to = "truncate"
              \/ to = "copy" /\ kind = "sysV_shm"
       PROVE  Stage'
  <2>0. at[Sv] = "start" /\ at'[Sv] = to /\ (Quiet => Quiet') /\ sem' = sem
    BY <1>11, <1>15 DEF semVars
  <2>1. Quiet' /\ sem' = 0 /\ at'[Sv] = to
    BY <1>3, <1>4, <2>0
  <2>2. chan_of'[Sv] = chan'
    BY <1>2, <1>15, NewOrOldChannel DEF KernelInv
  <2> QED
    BY <1>1, <1>15, <2>1, <2>2
<1>16. CASE ftruncate
  <2>1. Step(Sv, "truncate", "sem_open") /\ UNCHANGED <<chan, chan_of, sem>>
    BY <1>16 DEF ftruncate, semVars
  <2>1a. at[Sv] = "truncate" /\ at'[Sv] = "sem_open" /\ (Quiet => Quiet')
    BY <1>11, <2>1
  <2>2. Quiet /\ sem = 0 /\ chan = chan_of[Sv]
    BY <1>3, <1>4, <2>1a
  <2> QED
    BY <2>1, <2>1a, <2>2
<1>17. ASSUME NEW from \in {"sem_open", "semget"}, NEW to, SemOpenOrCreate(Sv, from, to),
              \/ from = "sem_open" /\ to = "copy" /\ kind = "posix_shm"
              \/ from = "semget" /\ to = "init_sem"
       PROVE  Stage'
  <2>1. Step(Sv, from, to) /\ UNCHANGED <<chan, chan_of, mem>>
    BY <1>17 DEF SemOpenOrCreate, chanVars
  <2>1a. at[Sv] = from /\ at'[Sv] = to /\ (Quiet => Quiet')
    BY <1>11, <2>1
  <2>2. /\ Quiet /\ sem = 0 /\ chan = chan_of[Sv]
        /\ from = "semget" => mem[chan] = "Hi"
    BY <1>3, <1>4, <1>17, <2>1a
  <2>3. /\ sem' # 0 /\ sem' \in Ids /\ count' = [count EXCEPT ![sem'] = 0]
        /\ sem_of' = [sem_of EXCEPT ![Sv] = sem']
    BY <1>2, <1>17, <2>2, NewOrOldSemaphore DEF KernelInv
  <2>4. Named' /\ count'[sem'] = 0
    BY <1>2, <2>3
  <2> QED
    BY <1>1, <1>17, <2>1, <2>1a, <2>2, <2>4
<1>18. ASSUME NEW to, Copy(Sv, "copy", to, "Hi"),
              \/ kind = "posix_shm" /\ to = "wait"
              \/ kind = "sysV_shm" /\ to = "semget"
       PROVE  Stage'
  <2>1. /\ Step(Sv, "copy", to) /\ mem' = [mem EXCEPT ![chan_of[Sv]] = "Hi"]
        /\ UNCHANGED <<chan, chan_of, sem, sem_of, count>>
    BY <1>18 DEF Copy, semVars
  <2>1a. at[Sv] = "copy" /\ at'[Sv] = to /\ (Quiet => Quiet')
    BY <1>11, <2>1
  <2>2. /\ Quiet /\ chan = chan_of[Sv]
        /\ IF kind = "posix_shm" THEN Named /\ count[sem] = 0 ELSE sem = 0
    BY <1>3, <1>4, <2>1a
  <2>2a. chan_of[Sv] \in Ids
    BY <1>6, <2>1a DEF Ended
  <2>3. at'[Sv] = to /\ Quiet' /\ mem'[chan'] = "Hi"
    BY <1>2, <2>1, <2>1a, <2>2, <2>2a
  <2>4. kind = "posix_shm" => W' = "wait"
    BY <1>1, <1>3
  <2> QED
    BY <1>1, <1>18, <2>1, <2>2, <2>3, <2>4
<1>19. CASE init_sem /\ kind = "sysV_shm"
  <2>1. /\ Step(Sv, "init_sem", "reserve_sem") /\ count' = [count EXCEPT ![sem_of[Sv]] = 0]
        /\ UNCHANGED <<chan, chan_of, mem, sem, sem_of>>
    BY <1>19 DEF init_sem, SetCount, chanVars
  <2>1a. at[Sv] = "init_sem" /\ at'[Sv] = "reserve_sem" /\ (Quiet => Quiet')
    BY <1>11, <2>1
  <2>2. Quiet /\ Named /\ chan = chan_of[Sv] /\ mem[chan] = "Hi"
    BY <1>3, <1>4, <2>1a
  <2>3. count'[sem'] = 0 /\ Named'
    BY <1>2, <1>7, <2>1, <2>2
  <2>4. W' = "reserve_sem"
    BY <1>1, <1>3, <1>19
  <2> QED
    BY <2>1, <2>1a, <2>2, <2>3, <2>4
<1>20. ASSUME NEW from \in {"wait", "reserve_sem"}, SemWait(from, "print") PROVE Stage'
  <2>1. /\ Step(Sv, from, "print") /\ count[sem_of[Sv]] > 0 /\ UNCHANGED <<chan_of, mem, shown>>
    BY <1>20 DEF SemWait, Step, chanVars
  <2>1a. at[Sv] = from /\ at'[Sv] = "print" /\ (Gone => Gone')
    BY <1>11, <2>1
  <2>2. Ready /\ Named /\ chan = chan_of[Sv]
    BY <1>3, <1>4, <2>1a
  <2>3. PICK c \in Clients : at[c] = "done" /\ mem[chan] = "Hello" /\ shown[c] = "Hi" /\ Visited(c)
    <3>1. count[sem] # 0
      <4>1. ~(0 > 0)
        OBVIOUS
      <4> QED
        BY <2>1, <2>2, <4>1
    <3>2. PICK c \in Clients : Visited(c)
      BY <2>2, <3>1
    <3> QED
      BY <3>1, <3>2 DEF Visited
  <2>4. \A d \in Clients : at[d] \in Ended
    <3>1. \A d \in Clients : d # c => runs[d] = 0
      BY <2>3 DEF Visited
    <3> QED
      BY <1>2, <2>3, <3>1 DEF KernelInv, NeverRun, Ended
  <2>5. Gone
    BY <2>3, <2>4 DEF Gone, Running
  <2> QED
    BY <2>1, <2>1a, <2>2, <2>3, <2>5
<1>21. ASSUME NEW to \in {"unlink", "shm_rmid"}, PrintMemory(Sv, to) PROVE Stage'
  <2>1. Prints(Sv, "print", to, mem[chan_of[Sv]])
    BY <1>21 DEF PrintMemory
  <2>2. at[Sv] = "print" /\ at'[Sv] = to /\ (Gone => Gone')
    BY <1>11, <2>1
  <2> QED
    BY <1>3, <1>4, <2>2
<1>22. ASSUME NEW from \in {"unlink", "sem_unlink", "shm_rmid", "sem_rmid"},
              NEW to \in {"sem_unlink", "sem_rmid", "done"}, Step(Sv, from, to)
       PROVE  Stage'
  <2>1. at[Sv] = from /\ at'[Sv] = to /\ (Gone => Gone')
    BY <1>11, <1>22
  <2> QED
    BY <1>3, <1>4, <2>1
<1> HIDE DEF Stage
<1>23. ASSUME posix_shm_serv, kind = "posix_shm" PROVE Stage'
  BY <1>15, <1>16, <1>17, <1>18, <1>20, <1>21, <1>22, <1>23
     DEF posix_shm_serv, shm_open_create, RemoveMemory, RemoveSemaphore
<1>24. ASSUME sysV_shm_serv, kind = "sysV_shm" PROVE Stage'
  BY <1>15, <1>17, <1>18, <1>19, <1>20, <1>21, <1>22, <1>24
     DEF sysV_shm_serv, shmget_create, RemoveMemory, RemoveSemaphore
<1> QED
  <2>1. \A p \in Procs : ~Kill(p)
    BY DEF Kill
  <2> QED
    BY <2>1, <1>12, <1>13, <1>14, <1>23, <1>24, StepsOfKinds

LEMMA ServerSilentStep ==
  ASSUME KernelInv, Next, ServerSilent
  PROVE  ServerSilent'
<1> SUFFICES ASSUME kind \in {"pipe", "fifo"} PROVE shown'[Sv] = ""
  BY Settled DEF ServerSilent
<1>1. /\ shown \in [Procs -> Texts] /\ Sv \in Procs /\ shown[Sv] = ""
      /\ \A c \in Clients : c # Sv /\ c \in Procs
  BY PairAssumption DEF KernelInv, ProcTypes, Procs, ServerSilent
<1>2. ASSUME UNCHANGED shown \/ \E p \in Clients : \E text : shown' = [shown EXCEPT ![p] = text]
      PROVE  shown'[Sv] = ""
  BY <1>1, <1>2
<1>3. CASE StartServer
  BY <1>1, <1>3 DEF StartServer, Starts, Shows
<1>4. ASSUME NEW c \in Clients, StartByHand(c) PROVE shown'[Sv] = ""
  BY <1>2, <1>4, ByHandStarts DEF Starts, Shows
<1>5. CASE task12_1_parent
  BY <1>2, <1>5 DEF task12_1_parent, PipeFork, Fork, Shows, CloseReadEnd, PipeWrite, Write,
                    PipeClose, WaitForChild, Step
<1>6. CASE task12_2_serv
  BY <1>2, <1>6 DEF task12_2_serv, mkfifo, OpenToWrite, FifoWrite, Write, FifoClose, FifoUnlink,
                    Fails, Step
<1>7. ASSUME NEW c \in Clients, task12_1_child(c) \/ task12_2_cli(c) PROVE shown'[Sv] = ""
  BY <1>2, <1>7 DEF task12_1_child, task12_2_cli, CloseWriteEnd, PipeRead, OpenToRead, FifoRead,
                    Fails, Step, Prints, Shows
<1>8. ASSUME NEW p \in Procs, Kill(p) PROVE shown'[Sv] = ""
  BY <1>1, <1>8 DEF Kill
<1> QED
  BY <1>3, <1>4, <1>5, <1>6, <1>7, <1>8, StepsOfKinds

LEMMA MemoryReadStep ==
  ASSUME KernelInv, KernelInv', Next, MemoryRead
  PROVE  MemoryRead'
<1> SUFFICES ASSUME kind \in {"posix_shm", "sysV_shm"} PROVE \A p \in Procs : shown'[p] # "uninitialised"
  BY Settled DEF MemoryRead
<1>1. shown \in [Procs -> Texts] /\ Sv \in Procs /\ \A c \in Clients : c \in Procs
  BY DEF KernelInv, ProcTypes, Procs
<1>2. \A p \in Procs : shown[p] # "uninitialised"
  BY DEF MemoryRead
<1>3. ASSUME NEW q \in Procs, NEW first, Starts(q, first) PROVE \A p \in Procs : shown'[p] # "uninitialised"
  BY <1>1, <1>2, <1>3 DEF Starts, Shows
<1>4. ASSUME NEW q \in Procs, NEW to, PrintMemory(q, to) PROVE \A p \in Procs : shown'[p] # "uninitialised"
  <2>1. shown' = [shown EXCEPT ![q] = mem[chan_of[q]]] /\ at[q] = "print"
    BY <1>4 DEF PrintMemory, Prints, Goes, Shows
  <2>2. mem[chan_of[q]] \in {"Hi", "Hello", "", "zeros"}
    BY <2>1, HeldChannel DEF Messages, Past, Ended
  <2> QED
    BY <1>1, <1>2, <2>1, <2>2
<1>5. ASSUME UNCHANGED shown PROVE \A p \in Procs : shown'[p] # "uninitialised"
  BY <1>2, <1>5
<1>6. CASE posix_shm_serv \/ \E c \in Clients : posix_shm_cli(c)
  BY <1>1, <1>4, <1>5, <1>6
     DEF posix_shm_serv, posix_shm_cli, Fails, shm_open_create, ftruncate, SemOpenOrCreate, Copy,
         SemWait, RemoveMemory, RemoveSemaphore, shm_open, SemOpen, SemPost, Step
<1>7. CASE sysV_shm_serv \/ \E c \in Clients : sysV_shm_cli(c)
  BY <1>1, <1>4, <1>5, <1>7
     DEF sysV_shm_serv, sysV_shm_cli, Fails, shmget_create, SemOpenOrCreate, Copy, init_sem,
         SemWait, RemoveMemory, RemoveSemaphore, shm_open, SemOpen, SemPost, Step
<1>8. ASSUME NEW p \in Procs, Kill(p) PROVE UNCHANGED shown
  BY <1>8 DEF Kill
<1> QED
  BY <1>1, <1>3, <1>5, <1>6, <1>7, <1>8, StepsOfKinds, ByHandStarts DEF StartServer

-----------------------------------------------------------------------------
(* What is heard in a calm run.                                            *)

LEMMA CalmStart ==
  ASSUME KernelInv, NEW p \in Procs, NEW first, Starts(p, first), manner = "calm"
  PROVE  /\ shown' = shown /\ at[p] = "off"
         /\ runs[p] = 0 /\ \A q \in Procs : q # p => runs'[q] = runs[q]
<1>1. /\ runs' = [runs EXCEPT ![p] = @ + 1] /\ runs[p] < 1
      /\ shown' = [shown EXCEPT ![p] = ""]
  BY DEF Starts, Shows
<1>2. at[p] = "off" /\ runs[p] = 0 /\ \A q \in Procs : q # p => runs'[q] = runs[q]
  BY <1>1, FirstRun
<1>3. shown[p] = "" /\ shown \in [Procs -> Texts]
  BY <1>2 DEF KernelInv, NeverRun, ProcTypes
<1> QED
  BY <1>1, <1>2, <1>3

LEMMA ForkedOnceStep ==
  ASSUME KernelInv, KernelInv', Next, ForkedOnce
  PROVE  ForkedOnce'
<1> SUFFICES ASSUME manner = "calm", kind \in {"pipe", "posix_mq"},
                    at'[Sv] \in {"off", "start", "send", "fork"}
             PROVE  Quiet'
  BY Settled DEF ForkedOnce
<1>1. at \in [Procs -> Places] /\ Sv \in Procs /\ \A c \in Clients : c # Sv /\ c \in Procs
  BY PairAssumption DEF KernelInv, ProcTypes, Procs
<1>2. at[Sv] \in {"off", "start", "send", "fork"} => Quiet
  BY DEF ForkedOnce
<1>3. CASE StartServer
  BY <1>1, <1>2, <1>3, CalmStart DEF StartServer, Quiet
<1>4. ASSUME UNCHANGED runs, at[Sv] \in {"off", "start", "send", "fork"} PROVE Quiet'
  BY <1>2, <1>4 DEF Quiet
<1>5. CASE task12_1_parent
  <2>1. ~\E c \in Clients : PipeFork(c)
    BY <1>1 DEF PipeFork, Fork
  <2>2. ~(CloseReadEnd \/ PipeWrite \/ PipeClose \/ WaitForChild("done"))
    BY <1>1 DEF CloseReadEnd, PipeWrite, Write, PipeClose, WaitForChild, Step, Goes
  <2> QED
    BY <1>5, <2>1, <2>2 DEF task12_1_parent
<1>6. CASE posix_serv
  <2>1. ~ForkClient
    BY <1>1 DEF ForkClient, Fork
  <2>2. ~(WaitForChild("receive") \/ mq_receive(Sv, "unlink") \/ mq_unlink)
    BY <1>1 DEF WaitForChild, mq_receive, mq_unlink, Step, Prints, Goes
  <2>3. CASE mq_open_create \/ mq_send(Sv, "Hi", "fork")
    <3>1. UNCHANGED runs /\ at[Sv] \in {"start", "send"}
      BY <2>3 DEF mq_open_create, mq_send, Step, Goes
    <3> QED
      BY <1>4, <3>1
  <2> QED
    BY <1>6, <2>1, <2>2, <2>3 DEF posix_serv
<1>7. ASSUME NEW c \in Clients, task12_1_child(c) \/ posix_cli(c) PROVE Quiet'
  <2>1. UNCHANGED runs /\ at'[Sv] = at[Sv]
    BY <1>1, <1>7 DEF task12_1_child, posix_cli, CloseWriteEnd, PipeRead, mq_open, Fails,
                      mq_receive, mq_send, Step, Prints, Goes
  <2> QED
    BY <1>4, <2>1
<1> QED
  <2>1. /\ \A c \in Clients : ~StartByHand(c)
        /\ \A p \in Procs : ~Kill(p)
    BY ByHandStarts DEF Kill, WaitsAt
  <2> QED
    BY <2>1, <1>3, <1>5, <1>6, <1>7, StepsOfKinds

LEMMA OneReaderStep ==
  ASSUME KernelInv, KernelInv', Next, OneReader
  PROVE  OneReader'
<1> SUFFICES ASSUME manner = "calm", kind = "fifo" PROVE \A c \in Clients : runs'[c] > 0 => Alone(c)'
  BY Settled DEF OneReader
<1>1. \A c \in Clients : runs[c] > 0 => Alone(c)
  BY DEF OneReader
<1>2. Sv \in Procs /\ \A c \in Clients : c # Sv /\ c \in Procs
  BY PairAssumption DEF Procs
<1>3. ASSUME \A c \in Clients : runs'[c] = runs[c]
      PROVE  \A c \in Clients : runs'[c] > 0 => Alone(c)'
  BY <1>1, <1>3 DEF Alone
<1>4. CASE StartServer
  BY <1>2, <1>3, <1>4, CalmStart DEF StartServer
<1>5. ASSUME NEW d \in Clients, StartByHand(d)
      PROVE  \A c \in Clients : runs'[c] > 0 => Alone(c)'
  <2>1. runs' = [runs EXCEPT ![d] = @ + 1] /\ \A c \in Clients : runs[c] = 0
    BY <1>5, ByHandStarts DEF Starts
  <2>2. runs \in [Procs -> Nat]
    BY DEF KernelInv, ProcTypes
  <2>3. runs'[d] = 1 /\ \A c \in Clients : c # d => runs'[c] = 0
    BY <1>2, <2>1, <2>2
  <2>4. \A c \in Clients : runs'[c] > 0 => c = d
    BY <2>3
  <2>5. Alone(d)'
    BY <2>3 DEF Alone
  <2> QED
    BY <2>4, <2>5
<1>6. CASE task12_2_serv \/ \E c \in Clients : task12_2_cli(c)
  <2>1. UNCHANGED runs
    BY <1>6 DEF task12_2_serv, task12_2_cli, mkfifo, OpenToWrite, FifoWrite, Write, FifoClose,
                FifoUnlink, OpenToRead, FifoRead, Fails, Step, Prints
  <2> QED
    BY <1>3, <2>1
<1> QED
  <2>1. \A p \in Procs : ~Kill(p)
    BY DEF Kill
  <2> QED
    BY <2>1, <1>4, <1>5, <1>6, StepsOfKinds

\* A step of a calm run: nothing is printed, or the greeting, or the answer.
CalmHears ==
  \/ shown' = shown
  \/ \E c \in Clients : shown' = [shown EXCEPT ![c] = "Hi"]
  \/ shown' = [shown EXCEPT ![Sv] = "Hello"] /\ \E c \in Clients : shown[c] = "Hi"

LEMMA CalmStep ==
  ASSUME PairsInv, PipeInv', FifoInv', PosixQueueInv', OneReader', KernelInv', Next,
         manner = "calm"
  PROVE  CalmHears
<1> USE DEF CalmHears
<1>1. /\ at \in [Procs -> Places] /\ shown \in [Procs -> Texts] /\ Sv \in Procs /\ KernelInv
      /\ \A c \in Clients : c # Sv /\ c \in Procs
  BY PairAssumption DEF PairsInv, KernelInv, ProcTypes, Procs
<1>2. kind' = kind /\ manner' = manner
  BY <1>1, Settled
<1>3. ASSUME NEW p \in Procs, NEW first, Starts(p, first) PROVE CalmHears
  BY <1>1, <1>3, CalmStart
\* fork starts the client for the first time.
<1>4. ASSUME NEW c \in Clients, NEW to, NEW first, Fork(c, to, first), Quiet PROVE CalmHears
  <2>1. runs[c] = 0 /\ shown' = [shown EXCEPT ![c] = ""]
    BY <1>4 DEF Quiet, Fork, Shows
  <2>2. shown[c] = ""
    BY <1>1, <2>1 DEF KernelInv, NeverRun
  <2> QED
    BY <1>1, <2>1, <2>2
<1>5. ASSUME NEW p \in Procs, NEW step, NEW failed, Fails(p, step, failed) PROVE CalmHears
  BY <1>5 DEF Fails, Step
<1>6. CASE kind = "pipe" /\ (task12_1_parent \/ \E c \in Clients : task12_1_child(c))
  <2>1. ASSUME NEW c \in Clients, PipeFork(c) PROVE CalmHears
    <3>1. at[Sv] = "start" /\ Quiet
      BY <1>6, <2>1 DEF PipeFork, PairsInv, ForkedOnce
    <3> QED
      BY <1>4, <2>1, <3>1 DEF PipeFork
  <2>2. ASSUME NEW c \in Clients, PipeRead(c) PROVE CalmHears
    <3>1. /\ shown' = [shown EXCEPT ![c] = shown'[c]] /\ shown'[c] # ""
      <4>1. shown' = [shown EXCEPT ![c] = IF mem[chan_of[c]] # "" THEN mem[chan_of[c]]
                                          ELSE "uninitialised"]
        BY <2>2 DEF PipeRead, Prints, Shows
      <4> QED
        BY <1>1, <4>1
    <3>2. shown'[c] \in {"", "Hi"}
      BY <1>2, <1>6 DEF PipeInv
    <3> QED
      BY <3>1, <3>2
  <2>3. CASE CloseReadEnd \/ PipeWrite \/ PipeClose \/ WaitForChild("done")
    BY <2>3 DEF CloseReadEnd, PipeWrite, Write, PipeClose, WaitForChild, Step
  <2>4. ASSUME NEW c \in Clients, CloseWriteEnd(c) PROVE CalmHears
    BY <2>4 DEF CloseWriteEnd, Step
  <2> QED
    BY <1>6, <2>1, <2>2, <2>3, <2>4 DEF task12_1_parent, task12_1_child
<1>7. CASE kind = "fifo" /\ (task12_2_serv \/ \E c \in Clients : task12_2_cli(c))
  <2>1. ASSUME NEW c \in Clients, FifoRead(c) PROVE CalmHears
    <3>1. /\ shown' = [shown EXCEPT ![c] = shown'[c]] /\ shown'[c] # ""
      <4>1. shown' = [shown EXCEPT ![c] = IF mem[chan_of[c]] # "" THEN mem[chan_of[c]]
                                          ELSE "uninitialised"]
        BY <2>1 DEF FifoRead, Prints, Shows
      <4> QED
        BY <1>1, <4>1
    <3>2. Alone(c)'
      <4>1. at[c] = "read" /\ UNCHANGED runs
        BY <2>1 DEF FifoRead, Prints, Goes
      <4>2. runs[c] # 0 /\ runs[c] \in Nat
        BY <1>1, <4>1, RunsCounted DEF KernelInv, NeverRun
      <4>3. runs'[c] > 0
        BY <4>1, <4>2
      <4> QED
        BY <1>2, <1>7, <4>3 DEF OneReader
    <3>3. shown'[c] \in {"", "Hi"}
      BY <1>2, <1>7, <3>2 DEF FifoInv
    <3> QED
      BY <3>1, <3>3
  <2>2. CASE mkfifo \/ OpenToWrite \/ FifoWrite \/ FifoClose \/ FifoUnlink
    BY <2>2 DEF mkfifo, OpenToWrite, FifoWrite, Write, FifoClose, FifoUnlink, Step
  <2>3. ASSUME NEW c \in Clients, OpenToRead(c) PROVE CalmHears
    BY <2>3 DEF OpenToRead
  <2> QED
    BY <1>1, <1>5, <1>7, <2>1, <2>2, <2>3 DEF task12_2_serv, task12_2_cli
<1>8. CASE kind = "posix_mq" /\ (posix_serv \/ \E c \in Clients : posix_cli(c))
  <2>1. CASE ForkClient
    <3>1. at[Sv] = "fork" /\ Quiet
      BY <1>8, <2>1 DEF ForkClient, PairsInv, ForkedOnce
    <3>2. PICK c \in Clients : Fork(c, "wait", "start")
      BY <2>1 DEF ForkClient
    <3> QED
      BY <1>4, <3>1, <3>2
  <2>2. ASSUME NEW p \in Procs, NEW to, mq_receive(p, to), p = Sv \/ p \in Clients,
               p = Sv => at[p] = "receive"
        PROVE  CalmHears
    <3>1. shown' = [shown EXCEPT ![p] = shown'[p]] /\ shown'[p] \in {"Hi", "Hello"}
      <4>1. shown' = [shown EXCEPT ![p] = HighestPriority(chan_of[p])]
        BY <2>2 DEF mq_receive, Prints, Shows
      <4> QED
        BY <1>1, <4>1 DEF HighestPriority
    <3>2. /\ shown'[Sv] \in {"", "Hello"} /\ \A c \in Clients : shown'[c] \in {"", "Hi"}
      BY <1>2, <1>8 DEF PosixQueueInv
    <3>3. p = Sv => child \in Clients /\ shown[child] = "Hi"
      BY <1>8, <2>2 DEF PairsInv, PosixQueueInv
    <3> QED
      BY <2>2, <3>1, <3>2, <3>3
  <2>3. CASE mq_receive(Sv, "unlink")
    <3>1. at[Sv] = "receive"
      BY <2>3 DEF mq_receive, Prints, Goes
    <3> QED
      BY <1>1, <2>2, <2>3, <3>1
  <2>4. CASE mq_open_create \/ mq_send(Sv, "Hi", "fork") \/ WaitForChild("receive") \/ mq_unlink
    BY <2>4 DEF mq_open_create, mq_send, WaitForChild, mq_unlink, Step
  <2>5. ASSUME NEW c \in Clients, mq_open(c) \/ mq_send(c, "Hello", "done") PROVE CalmHears
    BY <2>5 DEF mq_open, mq_send, Step
  <2> QED
    BY <1>1, <1>5, <1>8, <2>1, <2>2, <2>3, <2>4, <2>5 DEF posix_serv, posix_cli
<1>9. CASE kind = "sysV_mq" /\ (sysV_serv \/ \E c \in Clients : sysV_cli(c))
  <2>1. CASE msgrcv(Sv, "Hello", "remove")
    <3>1. /\ shown' = [shown EXCEPT ![Sv] = "Hello"] /\ queue[chan]["Hello"] > 0
          /\ chan_of[Sv] = chan /\ at[Sv] = "receive"
      BY <2>1 DEF msgrcv, Prints, Shows, Goes
    <3>2. chan \in Ids
      BY <1>1, <1>9, <3>1, HeldChannel DEF Past, Ended
    <3> QED
      BY <1>9, <3>1, <3>2 DEF PairsInv, SysVQueueInv
  <2>2. ASSUME NEW c \in Clients, msgrcv(c, "Hi", "send") PROVE CalmHears
    BY <2>2 DEF msgrcv, Prints, Shows
  <2>3. ASSUME NEW p \in Procs, NEW m, NEW to, msgget(p, to) \/ msgsnd(p, m, to) PROVE CalmHears
    BY <2>3 DEF msgget, msgsnd, Step
  <2>4. CASE msgctl_rmid
    BY <2>4 DEF msgctl_rmid, Step
  <2> QED
    BY <1>1, <1>5, <1>9, <2>1, <2>2, <2>3, <2>4 DEF sysV_serv, sysV_cli, QueueRemoved
<1>10. ASSUME kind \in {"posix_shm", "sysV_shm"}, NEW to, PrintMemory(Sv, to) PROVE CalmHears
  <2>1. at[Sv] = "print" /\ shown' = [shown EXCEPT ![Sv] = mem[chan_of[Sv]]]
    BY <1>10 DEF PrintMemory, Prints, Goes, Shows
  <2>2. Gone /\ mem[chan_of[Sv]] = "Hello"
    BY <1>10, <2>1 DEF PairsInv, MemoryInv, WaitsAt
  <2> QED
    BY <2>1, <2>2 DEF Gone
<1>11. ASSUME kind \in {"posix_shm", "sysV_shm"}, NEW c \in Clients, NEW to, PrintMemory(c, to)
       PROVE  CalmHears
  <2>1. at[c] = "print" /\ shown' = [shown EXCEPT ![c] = mem[chan_of[c]]]
    BY <1>11 DEF PrintMemory, Prints, Goes, Shows
  <2>2. runs[c] # 0 /\ ~Quiet /\ ~Gone
    BY <1>1, <2>1 DEF KernelInv, NeverRun, Quiet, Gone, Running, Ended
  <2>3. PICK d \in Clients : Visited(d)
    BY <1>11, <2>2 DEF PairsInv, MemoryInv
  <2>4. c = d /\ mem[chan_of[c]] = "Hi"
    BY <2>1, <2>2, <2>3 DEF Visited
  <2> QED
    BY <2>1, <2>4
<1>12. CASE kind = "posix_shm" /\ (posix_shm_serv \/ \E c \in Clients : posix_shm_cli(c))
  BY <1>1, <1>10, <1>11, <1>12, <1>5
     DEF posix_shm_serv, posix_shm_cli, shm_open_create, ftruncate, SemOpenOrCreate, Copy,
         SemWait, RemoveMemory, RemoveSemaphore, shm_open, SemOpen, SemPost, Step
<1>13. CASE kind = "sysV_shm" /\ (sysV_shm_serv \/ \E c \in Clients : sysV_shm_cli(c))
  BY <1>1, <1>10, <1>11, <1>13, <1>5
     DEF sysV_shm_serv, sysV_shm_cli, shmget_create, SemOpenOrCreate, Copy, init_sem,
         SemWait, RemoveMemory, RemoveSemaphore, shm_open, SemOpen, SemPost, Step
<1> QED
  <2>1. \A p \in Procs : ~Kill(p)
    BY DEF Kill
  <2> QED
    BY <2>1, <1>1, <1>3, <1>6, <1>7, <1>8, <1>9, <1>12, <1>13, StepsOfKinds, ByHandStarts
       DEF StartServer

LEMMA HeardStep ==
  ASSUME HeardInv, CalmHears, KernelInv, manner = "calm"
  PROVE  HeardInv'
<1>1. /\ shown \in [Procs -> Texts] /\ Sv \in Procs /\ \A c \in Clients : c # Sv /\ c \in Procs
  BY PairAssumption DEF KernelInv, ProcTypes, Procs
<1>2. /\ \A c \in Clients : shown[c] \in {"", "Hi"}
      /\ shown[Sv] \in {"", "Hello"}
      /\ shown[Sv] = "Hello" => \E c \in Clients : shown[c] = "Hi"
  BY DEF HeardInv
<1> QED
  BY <1>1, <1>2 DEF HeardInv, CalmHears

-----------------------------------------------------------------------------
(* The theorems.                                                           *)

LEMMA PairsInit == PairInit => PairsInv
<1> SUFFICES ASSUME PairInit PROVE PairsInv
  OBVIOUS
<1>1. KernelInv
  BY InitKernel
<1>2. /\ \A p \in Procs : at[p] = "off" /\ shown[p] = "" /\ runs[p] = 0
      /\ chan = 0 /\ sem = 0
      /\ \A i \in Ids : queue[i]["Hi"] = 0 /\ queue[i]["Hello"] = 0
      /\ Sv \in Procs /\ \A c \in Clients : c \in Procs
  BY DEF PairInit, Procs, Messages
<1>3. PipeInv
  BY <1>2 DEF PipeInv, Running, Ended
<1>4. FifoInv
  BY <1>2 DEF FifoInv
<1>5. PosixQueueInv
  BY <1>2 DEF PosixQueueInv, Running, Ended
<1>6. SysVQueueInv
  <2>1. \A i \in Ids : ~(queue[i]["Hello"] > 0)
    <3>1. ~(0 > 0)
      OBVIOUS
    <3> QED
      BY <1>2, <3>1
  <2> QED
    BY <1>2, <2>1 DEF SysVQueueInv
<1>7. ReleaseInv
  BY <1>2 DEF ReleaseInv
<1>8. MemoryInv /\ MemoryRead /\ ForkedOnce /\ ServerSilent
  <2>1. at[Sv] = "off" /\ Quiet /\ sem = 0
    BY <1>2 DEF Quiet
  <2>2. MemoryInv
    <3> SUFFICES ASSUME kind \in {"posix_shm", "sysV_shm"} PROVE MemoryInv
      BY DEF MemoryInv
    <3>1. WaitsAt[kind] = IF kind = "posix_shm" THEN "wait" ELSE "reserve_sem"
      BY DEF WaitsAt
    <3> QED
      BY <2>1, <3>1 DEF MemoryInv, SemReady
  <2>3. MemoryRead /\ ForkedOnce /\ ServerSilent
    BY <1>2, <2>1 DEF MemoryRead, ForkedOnce, ServerSilent
  <2> QED
    BY <2>2, <2>3
<1>9. OneReader
  <2>1. \A c \in Clients : ~(runs[c] > 0)
    <3>1. ~(0 > 0)
      OBVIOUS
    <3> QED
      BY <1>2, <3>1
  <2> QED
    BY <2>1 DEF OneReader
<1>10. HeardInv
  BY <1>2 DEF HeardInv
<1> QED
  BY <1>1, <1>3, <1>4, <1>5, <1>6, <1>7, <1>8, <1>9, <1>10 DEF PairsInv

LEMMA PairsNext == PairsInv /\ [Next]_vars => PairsInv'
<1>1. ASSUME PairsInv, Next PROVE PairsInv'
  <2>1. KernelInv /\ KernelInv'
    BY <1>1, KernelNext DEF PairsInv
  <2>2. PipeInv' /\ FifoInv' /\ PosixQueueInv' /\ SysVQueueInv'
    BY <1>1, <2>1, PipeStep, FifoStep, PosixQueueStep, SysVQueueStep DEF PairsInv
  <2>3. ReleaseInv' /\ MemoryInv' /\ MemoryRead' /\ ServerSilent'
    BY <1>1, <2>1, ReleaseStep, MemoryStep, MemoryReadStep, ServerSilentStep DEF PairsInv
  <2>4. ForkedOnce' /\ OneReader'
    BY <1>1, <2>1, ForkedOnceStep, OneReaderStep DEF PairsInv
  <2>5. HeardInv'
    <3>1. manner' = manner
      BY <1>1, <2>1, Settled
    <3>2. CASE manner = "calm"
      BY <1>1, <2>1, <2>2, <2>4, <3>2, CalmStep, HeardStep DEF PairsInv
    <3>3. CASE manner # "calm"
      BY <3>1, <3>3 DEF HeardInv
    <3> QED
      BY <3>2, <3>3
  <2> QED
    BY <2>1, <2>2, <2>3, <2>4, <2>5 DEF PairsInv
<1>2. ASSUME PairsInv, UNCHANGED vars PROVE PairsInv'
  <2>1. /\ UNCHANGED <<kind, manner, at, shown, runs, child, chan, chan_of, chans, queue, mem>>
        /\ UNCHANGED <<sem, sem_of, sems, count>>
    BY <1>2 DEF vars, procVars, setVars, chanVars, semVars
  <2>2. KernelInv'
    BY <1>2, KernelNext DEF PairsInv
  <2>3. PipeInv' /\ PosixQueueInv' /\ SysVQueueInv'
    BY <1>2, <2>1 DEF PairsInv, PipeInv, PosixQueueInv, SysVQueueInv, Holds, Running
  <2>4. FifoInv' /\ OneReader'
    BY <1>2, <2>1 DEF PairsInv, FifoInv, OneReader, Alone
  <2>5. ReleaseInv' /\ MemoryRead' /\ ServerSilent' /\ HeardInv' /\ ForkedOnce'
    BY <1>2, <2>1 DEF PairsInv, ReleaseInv, MemoryRead, ServerSilent, HeardInv, ForkedOnce, Quiet
  <2>6. MemoryInv'
    BY <1>2, <2>1 DEF PairsInv, MemoryInv, Quiet, Gone, Running, SemReady, Visited
  <2> QED
    BY <2>2, <2>3, <2>4, <2>5, <2>6 DEF PairsInv
<1> QED
  BY <1>1, <1>2

\* What a program finds open, named and filled when it gets to each of its calls, for
\* every order of starts and, where the part says nothing of the manner, for crashes too.
THEOREM PairsInvariant == Spec => []PairsInv
<1> QED
  BY PairsInit, PairsNext, PTL DEF Spec

\* A server takes its own greeting for an answer only where OwnGreetingOnlyIf says:
\* never in the pipe, the FIFO and the System V queue, not even after crashes; in the
\* POSIX queue only after a crash, and in shared memory only if a client does not wait
\* for the server.
THEOREM GreetingsTold == Spec => []OwnGreetingOnlyIf
<1>1. ASSUME PairsInv PROVE OwnGreetingOnlyIf
  <2>1. kind \in {"pipe", "fifo", "posix_mq", "sysV_mq", "posix_shm", "sysV_shm"}
    BY <1>1 DEF PairsInv, KernelInv, ProcTypes, Kinds
  <2>2. kind \in {"pipe", "fifo"} => shown[Sv] = ""
    BY <1>1 DEF PairsInv, ServerSilent
  <2>3. kind = "posix_mq" /\ manner # "rough" => shown[Sv] \in {"", "Hello"}
    BY <1>1 DEF PairsInv, PosixQueueInv
  <2>4. kind = "sysV_mq" => shown[Sv] \in {"", "Hello"}
    BY <1>1 DEF PairsInv, SysVQueueInv
  <2>5. manner = "calm" => shown[Sv] \in {"", "Hello"}
    BY <1>1 DEF PairsInv, HeardInv
  <2> QED
    BY <2>1, <2>2, <2>3, <2>4, <2>5 DEF OwnGreetingOnlyIf
<1> QED
  BY <1>1, PairsInvariant, PTL

\* Whatever is printed was read, unless the writer was killed or a FIFO has had a second
\* reader (task12_1.c, task12_2_cli.c print their buffer whatever read returned).
THEOREM BuffersRead == Spec => []BufferNotRead
<1>1. ASSUME PairsInv PROVE BufferNotRead
  <2> SUFFICES ASSUME NEW c \in Clients, shown[c] = "uninitialised", manner # "rough",
                      ~(kind = "fifo" /\ \E d \in Clients : runs[d] > IF d = c THEN 1 ELSE 0)
               PROVE  FALSE
    BY DEF BufferNotRead
  <2>1. kind \in {"pipe", "fifo", "posix_mq", "sysV_mq", "posix_shm", "sysV_shm"} /\ c \in Procs
    BY <1>1 DEF PairsInv, KernelInv, ProcTypes, Kinds, Procs
  <2>2. kind # "pipe"
    BY <1>1 DEF PairsInv, PipeInv
  <2>3. kind # "fifo"
    <3>1. ASSUME kind = "fifo" PROVE Alone(c)
      <4>1. \A d \in Clients : runs[d] \in Nat
        BY <1>1, RunsCounted DEF PairsInv, Procs
      <4>2. \A d \in Clients : ~(runs[d] > IF d = c THEN 1 ELSE 0)
        BY <3>1
      <4> QED
        BY <4>1, <4>2 DEF Alone
    <3> QED
      BY <1>1, <3>1 DEF PairsInv, FifoInv
  <2>4. kind # "posix_mq"
    BY <1>1 DEF PairsInv, PosixQueueInv
  <2>5. kind # "sysV_mq"
    BY <1>1 DEF PairsInv, SysVQueueInv
  <2>6. kind \notin {"posix_shm", "sysV_shm"}
    BY <1>1, <2>1 DEF PairsInv, MemoryRead
  <2> QED
    BY <2>1, <2>2, <2>3, <2>4, <2>5, <2>6
<1> QED
  BY <1>1, PairsInvariant, PTL

\* The release of a client of the POSIX shared memory waits for the server that waits
\* for it (Task14/posix_serv.c:27-35).
THEOREM ReleasesKept == Spec => []ReleaseNotLost
<1>1. ASSUME PairsInv PROVE ReleaseNotLost
  BY <1>1 DEF PairsInv, ReleaseInv, ReleaseNotLost
<1> QED
  BY <1>1, PairsInvariant, PTL

-----------------------------------------------------------------------------
(* A calm run is an exchange.                                              *)

HeardIs ==
  /\ Heard(Clients) = IF manner = "calm" /\ \E c \in Clients : shown[c] = "Hi" THEN "Hi" ELSE ""
  /\ Heard({Sv}) = IF manner = "calm" THEN shown[Sv] ELSE ""

LEMMA HeardMeans ==
  ASSUME HeardInv, KernelInv
  PROVE  HeardIs
<1>1. CASE manner # "calm"
  BY <1>1 DEF HeardIs, Heard
<1>2. CASE manner = "calm"
  <2>1. /\ \A c \in Clients : shown[c] \in {"", "Hi"}
        /\ shown[Sv] \in {"", "Hello"}
    BY <1>2 DEF HeardInv
  <2>2. Heard(Clients) = IF \E c \in Clients : shown[c] = "Hi" THEN "Hi" ELSE ""
    <3>1. CASE \E c \in Clients : shown[c] = "Hi"
      <4>1. {shown[p] : p \in Clients} \ {""} = {"Hi"}
        BY <2>1, <3>1
      <4> QED
        BY <1>2, <3>1, <4>1 DEF Heard
    <3>2. CASE ~\E c \in Clients : shown[c] = "Hi"
      <4>1. {shown[p] : p \in Clients} \ {""} = {}
        BY <2>1, <3>2
      <4> QED
        BY <1>2, <3>2, <4>1 DEF Heard
    <3> QED
      BY <3>1, <3>2
  <2>3. Heard({Sv}) = shown[Sv]
    <3>1. CASE shown[Sv] = "Hello"
      <4>1. {shown[p] : p \in {Sv}} \ {""} = {"Hello"}
        BY <3>1
      <4> QED
        BY <1>2, <3>1, <4>1 DEF Heard
    <3>2. CASE shown[Sv] = ""
      <4>1. {shown[p] : p \in {Sv}} \ {""} = {}
        BY <3>2
      <4> QED
        BY <1>2, <3>2, <4>1 DEF Heard
    <3> QED
      BY <2>1, <3>1, <3>2
  <2> QED
    BY <1>2, <2>2, <2>3 DEF HeardIs
<1> QED
  BY <1>1, <1>2

LEMMA ExchangeStep ==
  ASSUME PairsInv, PairsInv', HeardIs, HeardIs', [Next]_vars
  PROVE  [E!Next]_(E!vars)
<1> DEFINE ToldClients == \E c \in Clients : shown[c] = "Hi"
<1>1. /\ Heard(Clients) = IF manner = "calm" /\ ToldClients THEN "Hi" ELSE ""
      /\ Heard({Sv}) = IF manner = "calm" THEN shown[Sv] ELSE ""
  BY DEF HeardIs
<1>2. /\ Heard(Clients)' = IF manner' = "calm" /\ ToldClients' THEN "Hi" ELSE ""
      /\ Heard({Sv})' = IF manner' = "calm" THEN shown'[Sv] ELSE ""
  BY DEF HeardIs
<1>3. SUFFICES
        \/ UNCHANGED <<Heard(Clients), Heard({Sv})>>
        \/ /\ Heard(Clients) = "" /\ Heard(Clients)' = "Hi"
           /\ UNCHANGED Heard({Sv})
        \/ /\ Heard(Clients) = "Hi" /\ Heard({Sv}) = "" /\ Heard({Sv})' = "Hello"
           /\ UNCHANGED Heard(Clients)
  BY DEF E!Next, E!ClientHears, E!ServerHears, E!vars
<1>4. CASE UNCHANGED vars
  BY <1>1, <1>2, <1>4 DEF vars, procVars, setVars
<1>5. CASE Next
  <2>1. manner' = manner
    BY <1>5, Settled DEF PairsInv
  <2>2. CASE manner # "calm"
    BY <1>1, <1>2, <2>1, <2>2
  <2>3. CASE manner = "calm"
    <3>1. CalmHears
      BY <1>5, <2>3, CalmStep DEF PairsInv
    <3>2. /\ shown \in [Procs -> Texts] /\ Sv \in Procs /\ shown[Sv] \in {"", "Hello"}
          /\ \A c \in Clients : c # Sv /\ c \in Procs
      BY <2>3, PairAssumption DEF PairsInv, KernelInv, ProcTypes, Procs, HeardInv
    <3>3. CASE shown' = shown
      BY <1>1, <1>2, <2>1, <3>3
    <3>4. ASSUME NEW c \in Clients, shown' = [shown EXCEPT ![c] = "Hi"]
          PROVE  ToldClients' /\ shown'[Sv] = shown[Sv]
      BY <3>2, <3>4
    <3>5. CASE shown' = [shown EXCEPT ![Sv] = "Hello"] /\ ToldClients
      <4>1. ToldClients' /\ shown'[Sv] = "Hello"
        BY <3>2, <3>5
      <4> QED
        BY <1>1, <1>2, <2>1, <2>3, <3>2, <3>5, <4>1
    <3> HIDE DEF ToldClients
    <3>6. CASE ToldClients' /\ shown'[Sv] = shown[Sv]
      BY <1>1, <1>2, <2>1, <2>3, <3>6
    <3> QED
      BY <3>1, <3>3, <3>4, <3>5, <3>6 DEF CalmHears, ToldClients
  <2> QED
    BY <2>2, <2>3
<1> QED
  BY <1>4, <1>5

\* Whichever pair it is, in a calm run a client hears the greeting first and the server
\* then nothing but the answer, each once.
THEOREM CalmRunsExchange == Spec => IsAnExchange
<1>1. PairsInv => HeardIs
  BY HeardMeans DEF PairsInv
<1>2. PairsInv /\ PairsInv' /\ [Next]_vars => [E!Next]_(E!vars)
  <2> SUFFICES ASSUME PairsInv, PairsInv', [Next]_vars PROVE [E!Next]_(E!vars)
    OBVIOUS
  <2>1. HeardIs /\ HeardIs'
    BY <1>1, PTL
  <2> QED
    BY <2>1, ExchangeStep
<1>3. PairInit => E!Init
  <2>1. ASSUME PairInit PROVE HeardIs /\ \A p \in Procs : shown[p] = ""
    BY <1>1, <2>1, PairsInit DEF PairInit
  <2> QED
    BY <2>1 DEF HeardIs, E!Init, Procs
<1> QED
  BY <1>2, <1>3, PairsInvariant, PTL DEF Spec, IsAnExchange, E!Spec
=============================================================================
