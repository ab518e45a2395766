------------------------------ MODULE QueuePairs ------------------------------
(***************************************************************************)
(* Task13: greeting and answer through one queue.  posix_serv sends the    *)
(* greeting with priority 1, starts posix_cli as its child, waits for it   *)
(* and takes the message of the highest priority, the answer having        *)
(* priority 0.  sysV_serv and sysV_cli, started by hand, use one type of   *)
(* message for each direction.                                             *)
(***************************************************************************)
EXTENDS PairKernel

CONSTANT QueueCap  \* how many messages a queue holds

Put(i, m) == queue' = [queue EXCEPT ![i][m] = @ + 1]
Take(i, m) == queue' = [queue EXCEPT ![i][m] = @ - 1]
HasRoom(i) == queue[i]["Hi"] + queue[i]["Hello"] < QueueCap

-----------------------------------------------------------------------------
(* posix_serv, posix_cli.                                                  *)

mq_open_create ==
  /\ Step(Sv, "start", "send")
  /\ OpenOrCreate(Sv, "")
  /\ UNCHANGED semVars

mq_send(p, m, to) ==
  /\ Step(p, "send", to)
  /\ HasRoom(chan_of[p])
  /\ Put(chan_of[p], m)
  /\ UNCHANGED <<chan, chan_of, chans, mem, semVars>>

\* fork and execl; without the program posix_cli the child ends at once.
ForkClient ==
  /\ at[Sv] = "fork"
  /\ \/ \E c \in Clients : Fork(c, "wait", "start")
     \/ /\ manner = "rough"
        /\ at' = [at EXCEPT ![Sv] = "wait"] /\ child' = Sv
        /\ UNCHANGED <<setVars, shown, runs>>
  /\ UNCHANGED <<chanVars, semVars>>

HighestPriority(i) == IF queue[i]["Hi"] > 0 THEN "Hi" ELSE "Hello"

mq_receive(p, to) ==
  LET i == chan_of[p] IN
  /\ Prints(p, "receive", to, HighestPriority(i))
  /\ queue[i][HighestPriority(i)] > 0
  /\ Take(i, HighestPriority(i))
  /\ UNCHANGED <<chan, chan_of, chans, mem, semVars>>

\* mq_close and mq_unlink.
mq_unlink ==
  /\ chan # 0
  /\ Step(Sv, "unlink", "done")
  /\ chan' = 0 /\ chan_of' = [chan_of EXCEPT ![Sv] = 0]
  /\ UNCHANGED <<chans, queue, mem, semVars>>

posix_serv ==
  \/ mq_open_create \/ mq_send(Sv, "Hi", "fork") \/ ForkClient \/ WaitForChild("receive")
  \/ mq_receive(Sv, "unlink") \/ mq_unlink

mq_open(c) == Step(c, "start", "receive") /\ OpenExisting(c) /\ UNCHANGED semVars

posix_cli(c) ==
  \/ mq_open(c) \/ Fails(c, "start", chan = 0)
  \/ mq_receive(c, "send") \/ mq_send(c, "Hello", "done")

-----------------------------------------------------------------------------
(* sysV_serv, sysV_cli: a removed queue is gone for everybody.             *)

msgget(p, to) == Step(p, "start", to) /\ OpenOrCreate(p, "") /\ UNCHANGED semVars

msgsnd(p, m, to) ==
  /\ Step(p, "send", to)
  /\ chan_of[p] = chan
  /\ HasRoom(chan)
  /\ Put(chan, m)
  /\ UNCHANGED <<chan, chan_of, chans, mem, semVars>>

\* A slip: msgrcv of type 0, the first message whatever its type.
Slip_msgrcv(p, m, to) ==
  \E first \in Messages :
    /\ Prints(p, "receive", to, first)
    /\ chan_of[p] = chan
    /\ queue[chan][first] > 0
    /\ Take(chan, first)
    /\ UNCHANGED <<chan, chan_of, chans, mem, semVars>>

\* msgrcv of one type: the greeting has type 1, the answer type 2.
msgrcv(p, m, to) ==
  /\ Prints(p, "receive", to, m)
  /\ chan_of[p] = chan
  /\ queue[chan][m] > 0
  /\ Take(chan, m)
  /\ UNCHANGED <<chan, chan_of, chans, mem, semVars>>

QueueRemoved(p) ==
  Fails(p, at[p], at[p] \in {"send", "receive", "remove"} /\ chan_of[p] # chan)

msgctl_rmid ==
  /\ chan_of[Sv] = chan
  /\ Step(Sv, "remove", "done")
  /\ chan' = 0
  /\ UNCHANGED <<chan_of, chans, queue, mem, semVars>>

sysV_serv ==
  \/ msgget(Sv, "send") \/ msgsnd(Sv, "Hi", "receive")
  \/ msgrcv(Sv, "Hello", "remove") \/ msgctl_rmid \/ QueueRemoved(Sv)

sysV_cli(c) ==
  \/ msgget(c, "receive") \/ msgrcv(c, "Hi", "send") \/ msgsnd(c, "Hello", "done")
  \/ QueueRemoved(c)
=============================================================================
