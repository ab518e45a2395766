------------------------------ MODULE StreamPairs ------------------------------
(***************************************************************************)
(* Task12: a message through a pipe to a forked child (task12_1), and      *)
(* through a FIFO that the server makes and unlinks (task12_2).  A read    *)
(* finds the message, or nothing once no writer is left; the programs do   *)
(* not tell the two apart and print their buffer.                          *)
(***************************************************************************)
EXTENDS PairKernel

HasOpen(p, i) == chan_of[p] = i

\* Without a reader SIGPIPE ends the writer.
Write(readers) ==
  /\ Step(Sv, "write", IF readers # {} THEN "close" ELSE "failed")
  /\ mem' = IF readers # {} THEN [mem EXCEPT ![chan_of[Sv]] = "Hi"] ELSE mem
  /\ UNCHANGED <<chan, chan_of, chans, queue, semVars>>

-----------------------------------------------------------------------------
(* task12_1: both processes have both ends until they close one.           *)

PipeWriters(i) ==
  {p \in Procs : HasOpen(p, i) /\ at[p] \in {"close_read", "write", "close", "close_write"}}
PipeReaders(i) ==
  {p \in Procs : HasOpen(p, i) /\ at[p] \in {"close_read", "close_write", "read"}}

\* pipe and fork: the child goes on as client c.
PipeFork(c) ==
  /\ at[Sv] = "start"
  /\ Fork(c, "close_read", "close_write")
  /\ chans < MaxIds
  /\ chans' = chans + 1
  /\ chan_of' = [chan_of EXCEPT ![Sv] = chans', ![c] = chans']
  /\ mem' = [mem EXCEPT ![chans'] = ""]
  /\ UNCHANGED <<chan, queue, semVars>>

\* A slip: both ends are closed before the message is written.
Slip_CloseReadEnd == Step(Sv, "close_read", "close") /\ UNCHANGED <<chanVars, semVars>>

CloseReadEnd == Step(Sv, "close_read", "write") /\ UNCHANGED <<chanVars, semVars>>

PipeWrite == Write(PipeReaders(chan_of[Sv]))

\* close, then wait for the child.
PipeClose ==
  /\ Step(Sv, "close", "wait")
  /\ chan_of' = [chan_of EXCEPT ![Sv] = 0]
  /\ UNCHANGED <<chan, chans, queue, mem, semVars>>

CloseWriteEnd(c) == Step(c, "close_write", "read") /\ UNCHANGED <<chanVars, semVars>>

PipeRead(c) ==
  LET i == chan_of[c] IN
  /\ Prints(c, "read", "done", IF mem[i] # "" THEN mem[i] ELSE "uninitialised")
  /\ mem[i] # "" \/ PipeWriters(i) = {}
  /\ mem' = [mem EXCEPT ![i] = ""]
  /\ chan_of' = [chan_of EXCEPT ![c] = 0]
  /\ UNCHANGED <<chan, chans, queue, semVars>>

task12_1_child(c) == CloseWriteEnd(c) \/ PipeRead(c)
task12_1_parent ==
  \/ \E c \in Clients : PipeFork(c)
  \/ CloseReadEnd \/ PipeWrite \/ PipeClose \/ WaitForChild("done")

-----------------------------------------------------------------------------
(* task12_2: opening one end waits for the other.                          *)

FifoReaders(i) == {c \in Clients : HasOpen(c, i) /\ at[c] \in {"opening", "read"}}
FifoWriting(i) == HasOpen(Sv, i) /\ at[Sv] \in {"opening", "write", "close"}

\* A name that is left over makes mkfifo fail.
mkfifo ==
  /\ chan = 0
  /\ Step(Sv, "start", "open")
  /\ OpenOrCreate(Sv, "")
  /\ UNCHANGED semVars

\* Readers that wait for a writer go on.
OpenToWrite ==
  LET i == chan_of[Sv] IN
  /\ at[Sv] = "open"
  /\ at' = [p \in Procs |->
              IF p = Sv THEN (IF FifoReaders(i) # {} THEN "write" ELSE "opening")
              ELSE IF p \in FifoReaders(i) THEN "read" ELSE at[p]]
  /\ UNCHANGED <<setVars, shown, runs, child, chanVars, semVars>>

FifoWrite == Write(FifoReaders(chan_of[Sv]))

FifoClose ==
  /\ Step(Sv, "close", "unlink")
  /\ chan_of' = [chan_of EXCEPT ![Sv] = 0]
  /\ UNCHANGED <<chan, chans, queue, mem, semVars>>

FifoUnlink ==
  /\ chan # 0
  /\ Step(Sv, "unlink", "done")
  /\ chan' = 0
  /\ UNCHANGED <<chan_of, chans, queue, mem, semVars>>

task12_2_serv ==
  \/ mkfifo \/ OpenToWrite \/ FifoWrite \/ FifoClose \/ FifoUnlink
  \/ Fails(Sv, "start", chan # 0)

\* A writer that waits goes on.
OpenToRead(c) ==
  /\ at[c] = "start"
  /\ OpenExisting(c)
  /\ at' = [at EXCEPT ![c] = IF FifoWriting(chan) THEN "read" ELSE "opening",
                      ![Sv] = IF FifoWriting(chan) /\ @ = "opening" THEN "write" ELSE @]
  /\ UNCHANGED <<setVars, shown, runs, child, semVars>>

FifoRead(c) ==
  LET i == chan_of[c] IN
  /\ Prints(c, "read", "done", IF mem[i] # "" THEN mem[i] ELSE "uninitialised")
  /\ mem[i] # "" \/ ~FifoWriting(i)
  /\ mem' = [mem EXCEPT ![i] = ""]
  /\ chan_of' = [chan_of EXCEPT ![c] = 0]
  /\ UNCHANGED <<chan, chans, queue, semVars>>

task12_2_cli(c) == OpenToRead(c) \/ FifoRead(c) \/ Fails(c, "start", chan = 0)
=============================================================================
