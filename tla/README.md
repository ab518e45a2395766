# Eltex_Tasks in TLA+

A verification development for the programs of this repository: TLA+ modules
translated from the C sources, TLC configurations that check them on small
instances, and theorems checked by TLAPS.  `PROJECT.json` maps every definition
to the lines it models.

The repository is a collection of exercises on systems programming, one
directory per task.  Most are short sequential programs; the ones worth a
model are those in which processes, threads or the kernel's objects meet.

## 1. The system's parts

| Part | Sources | State | Operations | What is hard |
|---|---|---|---|---|
| **Chat room over message queues** | `Task13/Chatroom` | server: client list, message list; clients: two threads, windows; kernel: one request queue, a response queue per client | register, disconnect, send a text, send the lists, Ctrl-C handlers | bounded queues that block both ends, lists split over messages, cancelled threads, queues removed under a sender, crash and restart |
| **Chat room over shared memory** | `Task14/Chatroom` | one segment with clients and messages, a set of semaphores | arrive, type, refresh the windows, leave | no lock around registration and removal, semaphores numbered by a position that changes |
| **Stores** | `Task11/task11_3.c`, `threadfunc.c` | five stores with a busy flag and a capacity, three customers, a loader | enter, take, leave, load | test-then-set, unprotected read-modify-write, termination |
| **Parallel servers** | `Task16/Subtask2` | per design: a thread per client, a pool, a queue between producer and workers, one thread for two protocols; kernel: backlog, descriptors, a System V queue | accept, read, answer, close | descriptors that are reused and travel between threads, a worker's failure that ends the server, a silent client that keeps the rest waiting, a queue that outlives the server |
| **Message queue pairs** | `Task13/posix_*`, `sysV_*` | one queue | send, receive | left-over queues, receiving one's own message |
| **Shared memory pairs** | `Task14/posix_*`, `sysV_*` | a segment, a semaphore | write, post, wait, answer | initialisation after publication, names of an earlier run |
| **Pipe and FIFO** | `Task12/task12_1.c`, `task12_2_*` | a pipe | write, read | opening order, an end of file taken for a message |
| **Directory managers** | `Task9/task9_2.c`, `Task10/task10_3.c`, `Task12/task12_3.c` and their ncurses helpers | a list of names shared by two windows, a path and a cursor for each | move, enter, switch, run a file or a command | cursors that outlive the list, remainder by zero, files that disappear, arrays of fixed size |
| Process trees | `Task10/task10_1.c`, `task10_2.c` | processes | fork, wait | orphans |
| Mutex counter, numbered threads | `Task11/task11_1.c`, `task11_2.c` | a counter | lock, add, unlock | mutual exclusion |
| **Phone books** | `Task4`, `Task6` | an array with free slots and a counter; an array that grows | add, remove, search, show | a counter apart from what it counts, realloc that fails |
| One-shot sockets, broadcast, multicast, raw sockets | `Task16/Subtask1`, `3`, `4` | one exchange | send, receive | the checksum is arithmetic of a fixed width |
| Signals, calculator, bits, matrices, strings, files | `Task15`, `Task7`, `Task8`, `Task1`-`3`, `Task5` | none to speak of | - | - |
| Texts and pictures | `Task17`-`19` | no code | | |

The parts are separate programs: they share no code at run time, and interact
only within a task (server with its clients, threads with their creator).  A
composition therefore is a module of its own for each task.

What makes each part correct, in a sentence:

- *chat rooms*: every participant sees a growing prefix of one log, nobody is
  lost, doubled or sent to the wrong window, a departure disturbs nobody;
- *stores*: goods are conserved, a store serves one visitor at a time, the
  program ends;
- *parallel servers*: each request gets exactly its own answer, and the silence of one client
  does not keep the others from theirs;
- *pairs*: each message is received once, by the other side, and both end;
- *directory managers*: a cursor always points at an entry of the list shown;
- *phone books*: the array represents the set of contacts entered.

The hazards behind these sentences are listed with their lines in
`PROJECT.json`.

## 2. Modules

Sections 2.1 to 2.5 are about `ChatRoomMQ`, 3 about `ShmChat`, 4 about `Stores`,
5 about the parallel servers, 6 about the pairs, 7 about the directory managers, 8
about the phone books.

| Module | What it is |
|---|---|
| `ChatRoom` | abstract: what a chat room promises, whatever carries its messages |
| `ChatRoomMQ` | `Task13/Chatroom`: server, clients, handlers and queues |
| `MCChatRoomMQ` | small instances of it for TLC |
| `ChatRoomMQ_proofs` | theorems about `ChatRoomMQ` |
| `ShmChat` | `Task14/Chatroom`: server, clients, handlers and the shared segment |
| `MCShmChat`, `ShmChat_proofs` | small instances and theorems of it |
| `Stores` | `Task11/task11_3.c`: customers, loader and main thread |
| `MCStores`, `Stores_proofs` | small instances and theorems of it |
| `EchoService` | abstract: what a server of `Task16/Subtask2` promises its clients |
| `EchoNet` | the clients, sockets and descriptors the four servers share |
| `SimpleServer`, `PoolServer`, `ProducerConsumer`, `MultiProtocol` | the four servers, each on top of `EchoNet` |
| `EchoServers`, `MCEchoServers`, `EchoServers_proofs` | their composition, in which the initial state picks the design; a small instance, theorems |
| `Exchange` | abstract: greeting and answer |
| `PairKernel` | the named objects of the kernel and the ways of starting and killing a pair |
| `StreamPairs`, `QueuePairs`, `MemoryPairs` | the pairs of `Task12`, `Task13`, `Task14` |
| `Pairs`, `MCPairs`, `Pairs_proofs` | their composition, in which the initial state picks the pair; a small instance, theorems |
| `DirManager`, `MCDirManager`, `DirManager_proofs` | the file managers of `Task9`, `Task10`, `Task12`, a small file tree, theorems |
| `PhoneBook` | abstract: what a phone book promises |
| `Phonebooks`, `MCPhonebooks`, `Phonebooks_proofs` | those of `Task4` and `Task6`, a small instance, theorems |

`ChatRoomMQ` and `ShmChat` are two implementations of the same exercise, and both
implement `ChatRoom` (the property `IsAChatRoom`): the first whatever fails, the
second only under an etiquette its users would have to keep.

### 2.1 ChatRoomMQ

One step of the model makes at most one system call on a queue; everything a
process does between two such calls is local and is part of the step before.

*Server* (`cr_serv.c`, `msgserver.c`).  `pc` is the point of the server's loop:
`recv` is the `msgrcv` at its top, `clients` and `messages` are the two pairs of
nested loops `send_clients` and `send_messages` with their indices `si` (whose
queue) and `sj` (which item), `down` is no process and no queue, `killed` a
process that died without its handler and left its queue.  `ServerStart` is
`main()` up to the loop; `ServeRegistration`, `ServeDisconnection` and
`ServeMessage` are the cases of `serve_request`, each with the change of the list it
makes; `ServeStranger` is the error exit when `get_client_index` finds nobody;
`SendResponse` is one `msgsnd` of either loop together with the loops' advance,
and `SendFails` its failure.  `ServerSigint` and `ServerKill` are the two ways of
ending a server from outside.

*Client* (`cr_cli.c`, `msgclient.c`, `threadfunc.c`).  `phase` is the main thread:
`Connect` (look up the server's queue, create the own), `register_client`, `StartThreads`, then,
in the signal handler, `Sigint` (which cancels the threads), `disconnect_client`
and `remove_queues`.  `sender` is the thread at the keyboard: `Type`, then
`SendText`.  The receiving thread is `Receive`: one `msgrcv`, with the list it is
part of in `batch`, and the window it prints in `shown` or `names` when the list
is complete.  `RegisterFails`, `DisconnectFails`, `SendTextFails` are the error
exits, which differ in whether they remove the client's queue; `EarlySigint` is Ctrl-C
before both threads exist, when the handler cancels a thread that is not there;
`Kill` is a death without the handler.

*Kernel*.  `server_queue` and `queue[c]` are the message queues, with capacities
`ServerCap` and `ClientCap`; a sender waits (the action is disabled) while a
queue is full, fails when the queue is gone.

Choices that deserve a word:

- Clients are named by the identifier of their queue, which the kernel does not
  reuse; a client program started again is another client.
- The handler runs in the main thread, which waits in `pthread_join`; the other
  threads can not be interrupted by it, only cancelled.  `pthread_cancel` asks
  for the cancellation and the handler does not join: a `msgsnd` under way may
  still be completed (`SendText` stays enabled) or be cancelled
  (`SenderCancelled`).  The receiving thread is taken to stop at once; one
  more message it could take would be seen by nobody.
- `message_list[r]` for an old run `r`, and `Response.pos`, are auxiliary: no action
  reads them.
- Names, dates and texts are left out (a text is its author and number), and
  with them the truncation of a text to the buffer.  So are the allocations
  and their failures, and the drawing of the windows.
- The sizes given to `msgsnd` and `msgrcv` count the type field, so both touch 8
  bytes beyond their structures; what lies there is memory layout and not modelled.
- A client that finds no server calls `remove_queues` with an identifier of 0. That
  is the first queue the system ever created, no queue of a chat, and is left out.

### 2.2 Runs

| Run | Instance | What it shows |
|---|---|---|
| `mq_faults` | 2 clients that type 2 texts each and may die, one of which may quit, server that may be ended, killed and started twice, queues of 2 | the type invariant, the safety invariants and the refinement of `ChatRoom`, with every fault the model has |
| `mq_live` | 2 clients, 2 texts each, either may be killed, fairness | every text comes to every window of a client that lives and the windows converge to the server's lists, unless the server gets stuck before the full queue of a dead client; nothing else stops it; no error exit of the server is ever reached while nobody quits |
| `mq_leave` | 2 clients, one may press Ctrl-C | violated: the departure of one ends the server |
| `mq_stuck` | queues of 1, fairness | violated: a client that leaves waits for ever |

*Bounds.*  `Clients`, `MaxRuns` (starts of the server), `MaxTyped` (texts per
user) and the capacities are constants.  The real queues hold 16384 bytes: some
60 requests and 48 responses.  What matters is that a list may be cut by a full
queue and that the server's queue may be full while it blocks on a client's:
two responses and lists of two items do both, and capacity 1 does it with the
shortest trace.  Two runs of the server are enough for a client of the old one
to meet the new one.  Two clients are enough for each property that relates a
client to another, and two texts of one client are the fewest of which one can overtake the other
or be lost between others; `mq_faults` has both in about 1.6 million
states.  In it one client may quit and both may die, so that one leaves while the other stays or dies; the theorems are
for any number of either.

The system may really stop (users pause, clients leave, the server ends, everyone
blocks on a killed process), so no run checks for deadlock; `LeavingEnds` and the liveness
properties take its place.

*Fairness.*  Weak fairness of the server's step, of a client's main thread, of
its sending thread once a text is typed and of its receiving thread: each is a
thread that the scheduler runs when it is ready, and a thread blocked on a full
queue is not ready (the action is disabled).  Nothing is assumed of users, of arrivals or of
faults.  Weak fairness of a blocked `msgsnd` is enough in `mq_live` because the
receiver never fills the queue again by itself.

`AtADeadQueue` is what a death costs.  A client that is killed leaves its queue and its name in the list,
and once the queue is full the server waits for room for ever: that is what the code does, and
`TextsArrive` and `WindowsConverge` name it.  What they deny is that anybody who lives, or the order of the
loops, can have the same effect.

### 2.3 What the violations say

1. `mq_leave`: the handler sends DISCONNECTION and removes the client's queue at
   once.  The server may be in the middle of a send loop, or have older
   requests to serve first, and its `msgsnd` to that queue fails: `err_exit`. One
   orderly departure ends the chat.
2. `mq_stuck`: the handler stops the thread that empties the client's queue,
   and then waits for room in the server's queue, while the server waits for
   room in the client's.

A third way of ending the server needs no violated run, because `StrangerIsALateText`
describes it: a sending thread that is cancelled within `msgsnd` may still complete it after the
handler's disconnection (`cr_cli.c:161` says that the threads are finished by then), and
the server ends over the text of somebody it no longer knows (`ServeStranger`).

### 2.4 What is proved

`ChatRoomMQ_proofs` proves, for all values of the constants that satisfy
`ConstantsAssumption` (any set of clients, any bounds, queues of at least one
message), with no other assumption:

| Theorem | Statement |
|---|---|
| `TypeCorrect` | `Spec => []TypeOK` |
| `StrangersAreLate` | `Spec => []StrangerIsALateText` |
| `ListsWhole` | `Spec => []ListsArriveWhole` |
| `WindowsShowHistory` | `Spec => []ShownIsPrefix` |
| `ServerSurvives` | `Quitters = {} => (Spec => []ServerEndsOnRequest)` |
| `TextsInOrder` | `Spec => []HistoryInOrder` |
| `ClientsSeeThemselves` | `Spec => []SeesItself` |
| `QueuesAreAChatRoom` | `Spec => IsAChatRoom` |

The inductive invariants, each built on the ones before:

- `TypeInv`: `TypeOK` with `LoopsInBounds`.  The types alone are not inductive,
  since `client_list[si]` has a type only while `si` is within the list.
- `SenderInv`: where the requests of each client stand.  Registration, texts and
  disconnection leave a client in this order, the queue keeps it, and the
  server's list has exactly those whose registration has been served and whose disconnection has
  not.  This is what makes every lookup but that of a late text succeed.
- `FramingInv`: `batch[c]` followed by `queue[c]` is a chain: each response is the next
  item of the list before it or the first of a new one, and the end of the chain
  is where the server's loops are, if they are serving `c`.  Only with the server's
  position in it does the statement survive a blocked or an interrupted list.
- `ContentInv`: the message items on their way to a client, and those shown, are
  the ones of the history of its run at their `pos`, and their `list_size` does
  not exceed it.  With `FramingInv` a complete list is a prefix.
- `QueuesHeld`: the queue of a client of the present run that does not quit still
  exists.  With `SenderInv` neither of the server's error exits is enabled.
- `NumbersInv`: the texts of a client that wait in the server's queue have the numbers from the last
  one in the history to the last one sent, each once and in this order.  That last one is `typed[c]`
  or, while `msgsnd` may still be completed or cancelled, `typed[c] - 1`; for a client that is gone
  the invariant only says that there is such a number.
- `NamesInv`: each client list on its way to a client is a snapshot.  The server's list may change
  while one is read, so the invariant is an existence statement: there is a sequence of lists, one for
  each link of the chain of `FramingInv`, which the items come from and which names the client.
- `RoomInv`, for the refinement: the lists of messages in a client's queue get longer towards
  its end and none is shorter than what the window shows.  `ContentInv` alone makes the window a prefix; only
  this makes it one that grows.

The map to `ChatRoom` takes its log of a run from `message_list[r]`, its members from `client_list` and its
windows from `shown`.  The start and the end of the server are `Open` and `Close`, a client that finds the
server is `Enter`; a registration, a text and a departure that is served (or a death that is noticed) are
`Join`, `Post` and `Leave`, and a complete list of messages is `Show`.  Every other step is a stutter.

### 2.5 Only model-checked

`TextsArrive`, `WindowsConverge` and the violation of `LeavingEnds`: liveness is out of the prover's reach.

## 3. ShmChat

### 3.1 The model

The clients write the shared segment themselves; the server (`server`, five
steps in the order of `main()`, and `ServerSigint`, which may come between any two of them) only creates
and clears it.  The build uses `-g` and no optimisation, so each access to `clients_num` or `messages_num`
and each copy of a name or a text is a step of its own: `clients_num++` is `ReadCount` and
`Increment`, `strncpy(chat->client_list[chat->clients_num], ...)` is `FindSlot`
and `WriteName`, and an iteration of a loop over a list is a step (`Search`, `Scan`,
`Shift`, `PrintMessage`), because the list may change between two of them.

`main[c]` is the main thread, and after `Sigint` its handler; `receiver[c]` and
`sender[c]` are the two threads.  They share the semaphore
`semaphore_number[c]` and nothing else keeps anybody apart.  `Ends` is every way a
process ends: at the end of the handler (`Exit`), by `err_exit` when a semaphore is gone
(`SemInitFails`, `SemopFails`), by a crash of the handler that cancels threads not yet
created (`EarlySigint`), from outside (`Kill`).  Only the handler takes the name off the list; none gives
the semaphore back.  A server interrupted before its loop is `aborted`: what it had not created yet it
removes under the number 0, which is not the chat's.

`AfterServer` and `OneByOne` are assumptions on the users: that clients are
started after the server's announcement, and that each waits until the one
before it is in the chat.  No code enforces them.  All runs
take the first; `shm_crowd` drops the second.  Of the theorems, `TypeCorrect` and `ArraysSuffice`
need neither.

Left out: writes beyond the arrays (`NoOverrun` says when there are none at the upper
end; a client that leaves while the starting server clears the counter makes
`clients_num` negative, and nothing is claimed of that); a second life of the
server (a segment that is to be destroyed can not be found, so an old client meets the new
server only between its own `shmget` and `semget`); `print_clients`, which
changes nothing that is read; the date, which goes with the text.

A cancelled receiving thread may go on until the process has exited; the
sending thread is not taken beyond the keyboard once Ctrl-C was pressed.

### 3.2 Runs

| Run | Instance | What it shows |
|---|---|---|
| `shm_careful` | 2 clients, one after the other, one types 2 texts, nobody leaves, fairness | types, the two threads of a client exclude each other, clients are listed, texts are kept, refinement of `ChatRoom`; a thread that waits for the semaphore gets to the keyboard |
| `shm_crowd` | 2 talkers that start together, one may leave or die | no index passes its array |
| `shm_texts` | 2 talkers | violated: a text is lost |

The positive run looks narrow, and that is the result: with a second talker,
`shm_texts` shows that what it promises is false, two arrivals at a time break `ClientsListed` (give the run
`OneByOne = FALSE` to see it), and after a departure nothing keeps `CriticalSection` (section 3.3).
`NoOverrun`, in contrast, needs no etiquette, as the theorem `ArraysSuffice` shows.

*Bounds.*  `MAX_CLIENTS` and `MAX_MESSAGES` equal the number of clients and of
texts, so an overrun by one is possible as far as the arrays go; lost updates and
shared slots need two actors, which `shm_crowd` and `shm_texts` have.

*Fairness.*  A thread that is not blocked goes on (weak).  A thread that waits
for a semaphore released again and again gets it (strong): Linux keeps the waiting
`semop` calls of a set in order.  Nothing is assumed of users, arrivals, departures and the server's end.
The reverse of `KeyboardReached` does not hold: the sending thread holds
the semaphore while it waits for the user, and the receiving thread with its windows waits
as long as the user types nothing.

### 3.3 What does not hold

1. `shm_texts`: `semV.c:18` speaks of a critical section, but every client has its own
   semaphore, so two clients write one message slot.
2. Two arrivals at a time, without a run of its own: the name is written at `clients_num`, which is read and incremented afterwards
   (`cr_cli.c:66-67`).  Of two clients that do this at once one overwrites the other's name.
3. A departure, without a run of its own: the semaphore's number is the client's index (`cr_cli.c:69`) only until somebody before it
   leaves: then the clients behind move down in the list and keep their semaphores, and the next newcomer gets
   the number of one in use and sets it to 1.

### 3.4 What is proved

Under `EnoughRoom` (finitely many clients, at most `MAX_CLIENTS`, which type at most
`MAX_MESSAGES` texts in all), for all other constants, with any users:

| Theorem | Statement |
|---|---|
| `TypeCorrect` | `EnoughRoom => (Spec => []TypeOK)` |
| `ArraysSuffice` | `EnoughRoom => (Spec => []NoOverrun)` |
| `ThreadsExclude` | `Orderly => (Spec => []CriticalSection)` |
| `ListComplete` | `Orderly => (Spec => []ClientsListed)` |
| `NoTextIsLost` | `EnoughRoom /\ AfterServer /\ OneTalker /\ TalkerStays => (Spec => []TextsKept)` |
| `SegmentIsAChatRoom` | `Orderly /\ OneTalker => (Spec => IsAChatRoom)` |

`Orderly` is the etiquette: `EnoughRoom`, `AfterServer`, `OneByOne`, and nobody presses Ctrl-C
(`Quitters = {}`).  Any client may die (`Mortals` is arbitrary) but, in `NoTextIsLost`, the one
that types.  `OneTalker` says that at most one user types.  None of the hypotheses can be dropped: section 3.2
says what is violated without it.  `shm_careful` is an instance of all of them.

The first invariant is a counting argument.  A counter is written from a value read
earlier, so neither it nor a value somebody still holds can exceed the number of
increments done.  `Counted` is the set of clients past their increment and bounds
`clients_num` and every reading of it that is still to be used; who holds such a reading before its
own increment is not in `Counted`, so the reading is less than `MAX_CLIENTS`.
`Done`, the texts whose increment is done, bounds `messages_num` and `index` in the same way.
Lost increments only make the counters smaller.

`ListInv` adds what the etiquette gives.  At most one client is entering (`Alone`), so the value of
`clients_num` it has read is still the value (`Entry`) and the list names each counted client once
(`ListOK`); then the slot a client finds itself in is its own for ever, its semaphore is nobody
else's, and is 0 exactly while one of its threads is in the section (`Taken`).  `TextInv` does the same for the
messages: with one talker the slot behind the last message is its own, filled as far as the thread has come
(`Draft`), although `messages_num` is read anew for the author, the text and the count.  `KeptInv` adds that
every text but the one being worked on stands in the list.  For the refinement, `WindowsOK` says that what is
printed, and what was printed before, are prefixes of the list, no longer than the count the thread has
read; the log of `ChatRoom` is the list up to `messages_num`, so a text enters it with the increment.

Liveness (`KeyboardReached`) is model-checked only.

## 4. Stores

### 4.1 The model

`at[c]` is the next access of a customer to the store `i[c]`: `TestBusy`,
`TestStock`, `Enter`, `Compare` and `TakeAll` (the conditional expression reads `capacity`
a second time when it takes everything), `Subtract` and `StoreLeft` (the read and the write of `-=`),
`Leave`, and `WakeUp` at the head of the outer loop.  The loader searches a store that is not busy
(`FindFree`; the stores it looked at in vain leave no trace), and adds in `ReadCapacity` and
`StoreSum`; `Cancelled` is its end at a cancellation point, `printf` or `sleep`, which it
meets before an addition and after it but not within.  `main` joins the customers, cancels the loader
(`CancelLoader`), joins it and exits.  Which of `Customers` take part is chosen in
the initial state.

Left out: what is printed (the stock is read once more for it), a failing
`pthread_create`, and the overflow of `int`, which needs 400000 loads of one store.

### 4.2 The run

`stores` has 1 or 2 customers, 2 stores and 1 load, with fairness.  A store marked as busy
has somebody inside; with a single customer the stock never goes below zero and the program
ends.

*Bounds.*  Needs and stocks are small numbers that let a customer need less,
as much and more than a store holds.  `MaxLoads` bounds the loader, which has no end of its own.
`ProgramEnds` therefore says more than the program needs: the initial stock and the load
suffice, although the load may be overwritten.

*Fairness.*  Each thread goes on when it can.  `sleep` always ends.

With two customers `StockNotNegative` is false: `is_busy` is tested and set in two
steps, so both may be in one store and take the same goods, and the first to leave marks it as
free.  What then remains true is `BusyMeansOccupied`.

### 4.3 What does not hold

`threaddefines.h:15` calls `capacity` the quantity of goods.  With two customers it falls below zero.  Moreover the loader does not mark its
store, so its addition and a customer's subtraction overwrite each other, and `capacity`
is not what was brought less what was taken.

### 4.4 What is proved

For any number of stores and any customers: `TypeCorrect` (`TypeOK`),
`BusyIsOccupied` (`BusyMeansOccupied`, inductive with the types), and
`OneCustomerNeverOverdraws` (`StockNotNegative` for `Customers = {c}`).  The last
one needs `ReadingsHold`: the loader's sum, made from an older reading, is never below
the stock, since only the customer changes it in between and only downwards; so the loader's
write never lowers a stock, and what the only customer has read and not yet taken is
still there.

## 5. The parallel servers

### 5.1 The model

`EchoNet` has what the four servers share.  A client (`par_client`'s children,
`tcp_cl_inet`) connects, writes a request, reads the answer and connects again for the
next one; `cl`, `req` and `got` are its next call, its request and what it read.  A
connection is named by its client and the number of the request.  The kernel is `backlog` (what
`accept` will return), `link` (whether the server is still there), `inbox` and `outbox`
(what each side has sent) and `fds`, the descriptors of the server: `accept` takes
the lowest free number, `close` frees it, so a number is reused at once.  `Accept`, `Read`,
`Write` and `Close` are the calls of a thread, `pc`, `fd` and `msg` its next call, the number
it holds and its buffer.  `err_exit` is the end of the whole process after any of these
calls has failed; `sig_int` and `Kill` end it from outside.

- `SimpleServer`: `main` accepts and starts a thread for each connection; the number is
  handed over in memory (`arg`), and the thread reads it when it gets to run.
- `PoolServer`: the threads accept in turn under `mutex`.
- `ProducerConsumer`: `main` accepts and reads, and puts number and message into a System V
  queue, from which the workers answer and close.  The queue outlives the process:
  `remove_queue`, which `atexit` runs, is part of every exit but `SIGKILL`, and is run
  with the `msgid` the process has at that time, 0 before `msgget`.  So a second server that can not
  listen (`SecondServer`) removes queue 0, which may be the one in use, and a server
  killed leaves a queue that keeps the next from starting (`MsggetFails`).
- `MultiProtocol`: one thread, `select`, a TCP and a UDP socket; datagrams may be lost both
  ways, and `udp_addr` is where the answer goes.

`EchoServers` composes them.  The initial state picks the design, the set `mute` of clients that
connect and never send, and whether the weather is `rough`: then clients of `Vandals` vanish or send
less than `BUF_SIZE`, datagrams get lost, and the server is stopped and started again.

Left out: addresses, `malloc`, `pthread_create` that fails, a connection that is reset while
the server writes to it (the client of this program reads until its answer is there).  A message
is always read whole or short: `BUF_SIZE` bytes travel in one segment.

### 5.2 The run `echo`

Two clients with two requests each (one over UDP in the fourth design), two workers,
a backlog of one, three descriptors, a queue of one message, two starts of the server, fairness.

| Property | What it says |
|---|---|
| `OwnAnswers` | each client reads its own requests in upper case, in order |
| `EndsForAReason` | no server writes to or closes a number it does not have; it ends by itself only for a short message, a queue removed by a second start, or fewer descriptors than its design can have open at once (`Needed`) |
| `IsAnEchoService` | every step of every design is a step of `EchoService`: an answer is written once, after its request, and never changes |
| `EverybodyIsServed` | without failures, every client that sends is answered, as long as `Unharmed` says that the silent ones leave somebody to serve it.  A UDP client whose datagram is lost waits for ever, which is what the code does: there is no timeout |

*Bounds.*  Two clients and two requests reuse every number and meet in every queue;
two workers are enough for two to hold a request at once.  Three descriptors are more than the pool
and the fourth design need and fewer than `simple_par_sv` with four connections and
`producer_consumer_sv` with a full queue need, so the run reaches both sides of the last clause of `EndsForAReason`.  The
real limits (1024 descriptors, a queue of 16384 bytes) differ in size only.

*Fairness.*  Each client and each thread that can go on does (weak), and the first
server is started.  A thread blocked in a call is one whose action is disabled.  No
signal, restart or request of a silent client is assumed.  The pool's mutex needs no
strong fairness: whichever thread gets it serves the next connection.

`Unharmed` is the answer to what a silent client costs: nothing where each connection has
its thread; a thread of the pool; the whole server in `producer_consumer_sv`, whose accepting
thread reads itself, and in `multi_prot_sv`, unless the silent client uses UDP.

### 5.3 What is proved

`EchoServers_proofs`, for any finite sets of clients and workers, any number of requests, descriptors, starts and
any capacities, under the assumptions `EchoAssumption`, `QueueAssumption` and `TextAssumption` (the answer
that is not there is no text), with every failure of the model:

| Theorem | Statement |
|---|---|
| `AnswersAreOwn` | `Spec => []OwnAnswers` |
| `NoOtherEnd` | `Spec => []EndsForAReason` |
| `ServersImplementService` | `Spec => IsAnEchoService` |

All three follow from one invariant, `Inv`, whose idea is ownership.  `Connections`: a connection is in one place, not
made yet, in the backlog, or behind one descriptor.  `Holders`, `Arguments`, `Queued`: an open descriptor
is held by one thread at a call that uses it, or is the argument of one thread that has not started, or is in one
message of the queue, and never in two of these; and the message held with it is the request of its
connection, read and not answered (`InHand`).  `Datagram` says the same of `udp_addr`.  So an answer goes
where its request came from although the number of the descriptor was used before, and `write` and `close`
do not fail.  `Strays` counts the descriptors that no thread holds, at most one for each place
of the queue, which with `Crew` bounds the open descriptors by `Needed`.  `Reasons` is the rest of `EndsForAReason`: without
a second start the queue is there while the server is up.

In the refinement the answers of `EchoService` are the outboxes with what was read from them; only `write` and `sendto` are
not stutters, besides the steps of the clients.

`EverybodyIsServed` is liveness and only model-checked.

## 6. The pairs

### 6.1 The model

`PairKernel` has one server, some clients, and the objects of the kernel with a name or a key:
`chan` and `sem` are the ones that have the name now, `chan_of` and `sem_of` those each
process has open.  An object that was removed lives on for the processes that have it
(POSIX objects and shared memory) or is gone for everybody (System V queues and semaphores:
the steps ask for `chan_of[p] = chan`).  `at[p]` is the next call of a process, `shown[p]` what it
printed as received.  Each call is a step.

`StreamPairs` is the pipe, whose ends both processes have until they close them, and the FIFO,
where opening one end waits for the other; `QueuePairs` the two queues; `MemoryPairs` the
shared memory with a semaphore, in the order of the calls in the sources, which differ: the POSIX
server opens the semaphore before it copies its greeting, the System V server copies first, then
makes the semaphore and sets it to 0.

`manner` says how the programs are run: `calm` once, the client when the server waits; `orderly` any
number of times up to `MaxRuns` and at any moment; `rough` also killed at any moment.

Left out: sizes of messages, permissions, and calls that fail for want of memory.

### 6.2 The run `pairs`

Two clients, each program run twice, three objects of each kind, fairness.

| Property | What it says |
|---|---|
| `OwnGreetingOnlyIf` | in which pairs, and only after which histories, a server takes its own greeting for the answer |
| `BufferNotRead` | when a client of the pipe or the FIFO prints a buffer nobody wrote |
| `ReleaseNotLost` | the POSIX server that waits finds the release of a client that has ended |
| `IsAnExchange` | a calm run of any pair is an exchange of two greetings (`Exchange`) |
| `CalmRunEnds` | it comes to its end, with both messages received, and leaves no name |

`OwnGreetingOnlyIf` and `BufferNotRead` list the cases; that each of them does occur was seen by
checking the property without it: the POSIX server of shared memory, for one, prints "received from the client" over its
own greeting when a client starts before the server has copied that greeting, answers first and is overwritten.  The System V server loses a release that comes before
`semctl(SETVAL)`, and then waits for ever: `ReleaseNotLost` is not stated for it, and
`CalmRunEnds` only for calm runs.

*Bounds.*  Two runs of the server are the fewest in which one finds what another left, and
two clients the fewest of which one belongs to the old and one to the new server.

*Fairness.*  A process that can go on does (weak); in a calm run both programs are started.

### 6.3 What is proved

`Pairs_proofs`, for any finite or infinite set of clients, any number of runs and objects and any capacity, under
`PairAssumption`:

| Theorem | Statement |
|---|---|
| `GreetingsTold` | `Spec => []OwnGreetingOnlyIf` |
| `BuffersRead` | `Spec => []BufferNotRead` |
| `ReleasesKept` | `Spec => []ReleaseNotLost` |
| `CalmRunsExchange` | `Spec => IsAnExchange` |

They follow from `PairsInvariant`, `Spec => []PairsInv`.  `KernelInv` is common to the six: types, that objects are
numbered as they are made, so that a new one is open nowhere, and that a process past its first call has the channel open.
The rest is a part for each pair, with no more than it needs:

- `PipeInv`: the child that reads is the one forked last; until it has read, the parent has the pipe open for writing
  or the greeting is in it.
- `FifoInv`: of a client that is the only one ever started (`Alone`), that the server writes only while this client
  reads the same FIFO.
- `PosixQueueInv`: what is in the queue at each step of the parent and its child; without a kill the parent
  finds the answer only, because it waits for the child.
- `SysVQueueInv`: each side reads its own type of message, in every manner of running.
- `ReleaseInv`: the semaphore is new when the POSIX server opens it, and only the server takes a release.
- `MemoryInv`: a calm run of the shared memory pairs, by the place the server is at: before it waits no client has run
  (`Quiet`), while it waits one client is at a known place (`Visited`), and when it goes on the client has
  read the greeting and gone (`Gone`).
- `ForkedOnce`, `OneReader`, `HeardInv`: what the calm manner adds for the refinement.  The abstract variables are what
  was printed (`Heard`), which `HeardIs` computes; `CalmStep` shows that a step prints nothing, a client the greeting, or
  the server the answer after a client has.

The six parts were checked together by TLC on the instance of the run before they were proved.

`CalmRunEnds` is liveness and only model-checked.

## 7. The directory managers

### 7.1 The model

A name is the node of the file tree it stands for, or `..`, or a line that is no name.  `path[w]` has
the directory window `w` is in, the directories its text goes through (`..` undoes none of
them, so a directory removed anywhere on the way makes the path useless) and its length in names.
`files` is the array as far as it was ever written, `num_files` its length for the program: reading
a shorter directory leaves the old names behind (`Overwrite`).  `read_directory` is the whole
function: a directory that can not be opened is replaced by `/home`, and `/home` that can
not be opened ends in an endless recursion.  `Outcomes` is the set of ways in which the reading of an open directory can end: with a
list, in a `stat` that fails (a dangling link, or an entry removed since `readdir` returned it), or with an array
overrun (more files than `MAX_FILES`, or a name after a path of `PATH_SIZE` names, which may be past
`full_path`).  A directory removed between `opendir` and `readdir` gives an empty list.

The keys are actions: `KeyUp`, `KeyDown` (with the remainder as C computes it), `KeyTab`, `KeyQ`, Enter
in its two forms (`OpenUnderCursor` of `task9_2`, `handle_enter` of the others) and
`execute_command`, whose `num_files` is one less than the lines it put into the list; a line is a
name in the directory, `..`, or other text.  `state` tells
why a manager has ended.  `Disappear` is any other process that removes a node.

Left out: drawing, resizing, the text of commands, failing `fork` and `pipe`, and lines of a command's output that
are paths to somewhere else (`.` or `a/b`, as `find` prints them), which stand as text.  The
order of the entries is fixed but arbitrary.

### 7.2 The run `managers`

The three programs over a tree of four directories, a program and a dangling link, of which the link, the
program and a directory may disappear, also while they are read, and a directory may be locked; arrays of three files
and paths of three names; commands of no, one, two and four lines.

| Property | What it says |
|---|---|
| `CursorOnAName` | the name under a cursor was written once, never uninitialised, whatever but `/home` itself disappears (a `/home` removed while it is read first leaves nothing written at all) |
| `ListIsOfActive` | while nothing is removed and no command given, the shared list is that of the window with the focus, and both paths can be opened |
| `CursorInDirectory` | then each cursor is inside the directory of its own window |
| `EndsForAReason` | what can end a manager: division by zero only after a command of one line in `task12_3` or a directory removed while it was read, recursion only without `/home`, in a calm tree `stat` only for a dangling link in the directory just read, arrays only by length |

*Bounds.*  Directories with one, two and three entries beside `..`, so that a cursor can be beyond a
shorter list and a list can overrun the array; a path of three names reaches the deepest directory and
overruns by going up and down.  About 1.7 million states.

### 7.3 What is proved

`DirManager_proofs`, for every file tree, every size of the arrays and every output of a
command, under `DirAssumption`: `TypeCorrect`, `CursorsOnNames`, `SharedList`,
`CursorsInDirectories` and `Reasons`, the five properties of the run.  They follow from one invariant, `Inv`:

- `CursorOnAName` with `num_files <= Len(files)`: the array never gets shorter, and the remainder is
  below `num_files`;
- `EmptyList`: a list of length 0 while the manager runs comes from a command of one line
  or a directory removed while it was read (any other has `..`);
- `CalmTree`: the list, both cursors and both paths fit while nothing is removed; it includes that
  the directory shown has no dangling entry, so that `stat` of the entry under the cursor can not fail
  (`EntryIsThere`) and the one branch that keeps the cursor while the directory changes
  (`StatFails`) is not taken;
- `Ends`, which needs `EmptyList` for the division and that removing nodes opens no directory.

`Reading` states once what `read_directory` does, and `ReadingKeeps` that any step made of it keeps the
invariant; Start, Enter and Tab are instances.

## 8. The phone books

### 8.1 The model

An entry of the menu with everything the user types is a step: `AddAbonent`, `DeleteAbonent`,
`SearchAbonent`, `PrintAbonents` of `Task4`; `AddAbonentEnd`, `DeleteAbonentAt` or `Refused` (what
the user answers), `FindAbonentsByName`, `PrintAllAbonents` of `Task6`; the messages "full" and
"empty" where the menu refuses.  In `Task4` a slot is free when the name in it is "0", which a user may
type as well, as the name of a contact or of one to search or delete (deleting "0" "0" finds the free slots and makes the
counter drift although nobody has that name); in `Task6` `realloc` may fail, which leaves the null pointer, after an addition
the old size and after a deletion the new one.
`benign` is the choice, in the initial state, that neither happens: nobody types "0", and `realloc` succeeds.  `reply` and `shown` are what the
program says and which contacts it shows.

Left out: the lengths of what is typed, input that is no number.

### 8.2 The run `books`

Two contacts of the same two names and a third, two called "0", books of three places.

| Property | What it says |
|---|---|
| `CounterCounts` | benign: the counter of `Task4` is the number of slots in use |
| `OnlyDeletionRemoves` | a contact leaves its slot only by a deletion, even with a wrong counter |
| `ArrayHoldsTheBook` | benign: the array of `Task6` is null exactly when the book is empty, has only contacts, and nothing crashes |
| `IsAPhoneBook` | benign: both programs implement `PhoneBook`, replies and lists included |

*Bounds.*  Three places are enough for a gap between two contacts, and for a list that is full of
contacts with the same names.  `MinCounter` bounds how low a typed "0" drives
the counter of `Task4`, which the program does not.

Outside benign runs the books are not phone books.  `DeleteAbonent` of `Task6` says by its 0 that nothing was deleted, but
when the `realloc` that shrinks the array fails, the contact is gone and the others with it.

### 8.3 What is proved

`Phonebooks_proofs`, for any contacts and any `SIZE`, under `BookAssumption`: `TypeCorrect`,
`CounterIsUsed` (`CounterCounts`: the free slot found is one, which needs that a set of slots has a
least element, and a deletion frees exactly the slots it counts), `NothingIsOverwritten`
(`OnlyDeletionRemoves`), `ArrayIsKept` (`ArrayHoldsTheBook`, from `ArrayInv`: null if the size is 0, an
array of that many contacts otherwise) and `BothArePhoneBooks` (`IsAPhoneBook`).

The refinement counts.  A phone book is a number of copies for each contact, and its size the number of numbered
copies, a set; `CopiesArePlaces` builds a bijection from the copies to the places of the list that hold a
contact, so the size is the counter of `Task4` and the `size` of `Task6`, on which "full" and "empty" depend.  `PlaceAdded`,
`PlaceRemoved` (the shift of the places behind is a bijection) and `Parting` say what an addition and a deletion do to the
count of one contact, `Searching` and `OneShown` what is shown.

## 9. What is only model-checked

Liveness and everything with fairness is out of the prover's reach: `TextsArrive`, `WindowsConverge`,
`KeyboardReached`, `ProgramEnds`, `EverybodyIsServed`, `CalmRunEnds`.  Every invariant, action property and refinement
that a passing run checks is a theorem too; `ServerEndsOnRequest` (while nobody quits), `CriticalSection`, `ClientsListed`,
`TextsKept`, the refinement of `ShmChat`, and `StockNotNegative` (for one customer) under
the hypotheses under which the runs check them, which their statements name.

No run checks for deadlock: all these programs stop, or wait for a user who may never come back.
Where standing still would be wrong, a liveness property says so.

## 10. Not modelled, and why

| Part | Reason |
|---|---|
| ncurses windows of the chat room | drawing; what is drawn is in `shown` and `names` |
| one-shot socket pairs (`Task16/Subtask1`) | one request and one reply without a second client, a thread or a timeout: the sequential case of the connections `EchoNet` has |
| broadcast, multicast (`Task16/Subtask3`) | one datagram from one sender, no answer, no protocol |
| raw sockets (`Task16/Subtask4`) | the layout of headers and one exchange of packets; what matters there is the position of bytes, which these models abstract |
| process trees (`Task10/task10_1.c`, `task10_2.c`) | `fork` and `wait` in a fixed tree without shared state |
| mutex counter, numbered threads (`Task11/task11_1.c`, `task11_2.c`) | a lock around one increment, threads that print a number |
| signals (`Task15`), calculator (`Task7`, `Task8`), `Task1`-`3`, `Task5`, `Task9/task9_1.c` | sequential, no state that outlives a call, or input and output only |
| texts and pictures (`Task17`-`19`) | no code |

Of the modelled parts: queue identifiers that are 0 by accident (`Task13/Chatroom/cr_cli.c:49`) and
messages 8 bytes longer than their structures (`cr_cli.c:113`) are matters of memory outside the models'
state.

## 11. Plan

1. `StockNotNegative` has no counterpart for several customers, since it is false; how far a stock can go below zero
   (by no more than the customers inside hold) would be a property and a theorem of its own.
2. What a crash leaves behind in the pairs, as a theorem for each name: which of them the next run of the server finds.
3. The safety half of the liveness properties: for `EverybodyIsServed`, that a client which waits is
   in the backlog, behind a descriptor held by a thread, or in the queue; for `WindowsConverge`, that
   a window that is behind has the rest on its way.
