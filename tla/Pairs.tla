--------------------------------- MODULE Pairs ---------------------------------
(***************************************************************************)
(* The six pairs of Task12, Task13 and Task14 on one machine, run calmly,  *)
(* in any order, or with processes killed.  What a crash leaves behind is  *)
(* found by the next run.                                                  *)
(***************************************************************************)
EXTENDS StreamPairs, QueuePairs, MemoryPairs

\* Where a server waits for a client that is started by hand.
WaitsAt == [fifo |-> "opening", sysV_mq |-> "receive",
            posix_shm |-> "wait", sysV_shm |-> "reserve_sem"]

Server ==
  CASE kind = "pipe" -> task12_1_parent
    [] kind = "fifo" -> task12_2_serv
    [] kind = "posix_mq" -> posix_serv
    [] kind = "sysV_mq" -> sysV_serv
    [] kind = "posix_shm" -> posix_shm_serv
    [] kind = "sysV_shm" -> sysV_shm_serv

Client(c) ==
  CASE kind = "pipe" -> task12_1_child(c)
    [] kind = "fifo" -> task12_2_cli(c)
    [] kind = "posix_mq" -> posix_cli(c)
    [] kind = "sysV_mq" -> sysV_cli(c)
    [] kind = "posix_shm" -> posix_shm_cli(c)
    [] kind = "sysV_shm" -> sysV_shm_cli(c)

StartByHand(c) == kind \in DOMAIN WaitsAt /\ StartClient(c, WaitsAt[kind])

Next ==
  \/ StartServer \/ Server
  \/ \E c \in Clients : StartByHand(c) \/ Client(c)
  \/ \E p \in Procs : Kill(p)

Spec == PairInit /\ [][Next]_vars

\* A process that can go on does, and in a calm run both programs are started.
FairSpec ==
  /\ Spec
  /\ WF_vars(Server)
  /\ \A c \in Clients : WF_vars(Client(c))
  /\ WF_vars(manner = "calm" /\ StartServer)
  /\ WF_vars(manner = "calm" /\ \E c \in Clients : StartByHand(c))

-----------------------------------------------------------------------------
\* A server takes its own greeting for the client's answer only in these pairs.
\* posix_serv of Task13 receives it when the child could not be started, or was
\* killed before it read (Task13/posix_serv.c:58); the types of the messages of
\* the System V queue keep the directions apart, whatever a crash left behind
\* (Task13/sysV_serv.c:49).  In shared memory the server copies its message after
\* a client may have answered (Task14/posix_serv.c:33), and a client may answer in
\* memory that an earlier server removed and release the semaphore of the next
\* one (Task14/sysV_cli.c:27-48); both need a client that does not wait.
OwnGreetingOnlyIf ==
  shown[Sv] = "Hi" =>
    \/ kind = "posix_mq" /\ manner = "rough"
    \/ kind \in {"posix_shm", "sysV_shm"} /\ manner # "calm"

\* task12_1 and task12_2 print their buffer whatever read returned: it holds no
\* message only when the writer was killed, or when the FIFO is read by a second
\* client before the server has closed it (Task12/task12_1.c:38,
\* task12_2_cli.c:22).
BufferNotRead ==
  \A c \in Clients :
    shown[c] = "uninitialised" =>
      \/ manner = "rough"
      \/ kind = "fifo" /\ \E d \in Clients : runs[d] > IF d = c THEN 1 ELSE 0

\* The posix_serv of Task14 opens the semaphore before a client can release it
\* and never sets it back: a server that waits while a client of its memory has
\* ended finds the release (Task14/posix_serv.c:27-35).  The System V server,
\* which sets the value after it made the semaphore, has no such property.
ReleaseNotLost ==
  kind = "posix_shm" /\ manner # "rough" /\ at[Sv] = "wait" =>
    \A c \in Clients :
      at[c] = "done" /\ sem_of[c] = sem_of[Sv] => count[sem_of[Sv]] > 0

\* What the calm processes in P have shown.
Heard(P) ==
  LET texts == {shown[p] : p \in P} \ {""} IN
  IF manner # "calm" \/ texts = {} THEN "" ELSE CHOOSE m \in texts : TRUE

E == INSTANCE Exchange WITH client_heard <- Heard(Clients), server_heard <- Heard({Sv})

\* A calm run is an exchange of greetings, whichever pair it is.
IsAnExchange == E!Spec

\* In a calm run the client hears the greeting, the server all the answers the
\* pair has, both programs end, and no name is left.
CalmRunEnds ==
  manner = "calm" =>
    <>[](/\ at[Sv] = "done" /\ chan = 0 /\ sem = 0
         /\ \E c \in Clients : at[c] = "done" /\ shown[c] = "Hi"
         /\ kind \notin {"pipe", "fifo"} => shown[Sv] = "Hello")
=============================================================================
