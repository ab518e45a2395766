-------------------------------- MODULE Stores --------------------------------
(***************************************************************************)
(* Task11, task11_3: customers and a loader, one thread each, share an     *)
(* array of stores without a lock; a store has a flag is_busy and a number *)
(* of goods, capacity.  The program is compiled without optimisation, so   *)
(* each access to a field of a store is a step of its own, in the order of *)
(* the source: testing the flag and setting it are two steps, and so are   *)
(* the read and the write of += and -=.                                    *)
(*                                                                         *)
(* Slip_X is the definition X with a plausible programming slip.           *)
(***************************************************************************)
EXTENDS Integers, FiniteSets

CONSTANTS Customers,
          STORES_NUM,
          LOADER_CAPACITY,
          InitialCapacities,  \* what init_stores may put into a store
          InitialNeeds,       \* what a customer may need
          MaxLoads            \* bound: loads of the loader

ASSUME ConstantsAssumption ==
  /\ STORES_NUM \in Nat \ {0}
  /\ LOADER_CAPACITY \in Nat
  /\ InitialCapacities \subseteq Nat
  /\ InitialNeeds \subseteq Nat \ {0}
  /\ MaxLoads \in Nat

Stores == 1..STORES_NUM

VARIABLES
  is_busy, capacity,  \* the fields of the stores
  at,                 \* at[c]: the next step of customer c
  i,                  \* the store a customer tests or is in
  need, taken,        \* what it needs and what it takes
  left,               \* the result of capacity - taken, before it is stored
  loader,             \* the next step of the loader
  li, sum,            \* its store and the result of capacity + LOADER_CAPACITY
  loads,              \* how often it has loaded
  customers,          \* those for whom main has created a thread
  main                \* the main thread: join (the customers), cancel, ended

storeVars == <<is_busy, capacity>>
customerVars == <<at, i, need, taken, left>>
loaderVars == <<loader, li, sum, loads>>
mainVars == <<main, customers>>
vars == <<storeVars, customerVars, loaderVars, mainVars>>

-----------------------------------------------------------------------------
(* A customer: the rounds of customer_func.                                *)

GoTo(c, step) == at' = [at EXCEPT ![c] = step]

\* A slip: the index is not compared with the number of stores.
Slip_NextStore(c) ==
  /\ GoTo(c, "test")
  /\ i' = [i EXCEPT ![c] = @ + 1]

\* The for loop goes on with the next store or ends in sleep.
NextStore(c) ==
  IF i[c] < STORES_NUM
  THEN /\ GoTo(c, "test")
       /\ i' = [i EXCEPT ![c] = @ + 1]
  ELSE /\ GoTo(c, "sleep")
       /\ UNCHANGED i

TestBusy(c) ==
  /\ at[c] = "test"
  /\ IF is_busy[i[c]] = 0
     THEN GoTo(c, "stock") /\ UNCHANGED i
     ELSE NextStore(c)
  /\ UNCHANGED <<storeVars, need, taken, left, loaderVars, mainVars>>

TestStock(c) ==
  /\ at[c] = "stock"
  /\ IF capacity[i[c]] # 0
     THEN GoTo(c, "enter") /\ UNCHANGED i
     ELSE NextStore(c)
  /\ UNCHANGED <<storeVars, need, taken, left, loaderVars, mainVars>>

Enter(c) ==
  /\ at[c] = "enter"
  /\ is_busy' = [is_busy EXCEPT ![i[c]] = 1]
  /\ GoTo(c, "compare")
  /\ UNCHANGED <<capacity, i, need, taken, left, loaderVars, mainVars>>

\* taken = (capacity < need) ? capacity : need reads capacity twice.
Compare(c) ==
  /\ at[c] = "compare"
  /\ IF capacity[i[c]] < need[c]
     THEN /\ GoTo(c, "all")
          /\ UNCHANGED taken
     ELSE /\ taken' = [taken EXCEPT ![c] = need[c]]
          /\ GoTo(c, "subtract")
  /\ UNCHANGED <<storeVars, i, need, left, loaderVars, mainVars>>

TakeAll(c) ==
  /\ at[c] = "all"
  /\ taken' = [taken EXCEPT ![c] = capacity[i[c]]]
  /\ GoTo(c, "subtract")
  /\ UNCHANGED <<storeVars, i, need, left, loaderVars, mainVars>>

\* need -= taken, and the read of capacity -= taken.
Subtract(c) ==
  /\ at[c] = "subtract"
  /\ need' = [need EXCEPT ![c] = @ - taken[c]]
  /\ left' = [left EXCEPT ![c] = capacity[i[c]] - taken[c]]
  /\ GoTo(c, "store")
  /\ UNCHANGED <<storeVars, i, taken, loaderVars, mainVars>>

StoreLeft(c) ==
  /\ at[c] = "store"
  /\ capacity' = [capacity EXCEPT ![i[c]] = left[c]]
  /\ GoTo(c, "leave")
  /\ UNCHANGED <<is_busy, i, need, taken, left, loaderVars, mainVars>>

\* A slip: an empty store is left through a break before the flag is reset.
Slip_Leave(c) ==
  /\ at[c] = "leave"
  /\ is_busy' = [is_busy EXCEPT ![i[c]] = IF capacity[i[c]] = 0 THEN @ ELSE 0]
  /\ GoTo(c, "sleep")
  /\ UNCHANGED <<capacity, i, need, taken, left, loaderVars, mainVars>>

Leave(c) ==
  /\ at[c] = "leave"
  /\ is_busy' = [is_busy EXCEPT ![i[c]] = 0]
  /\ GoTo(c, "sleep")
  /\ UNCHANGED <<capacity, i, need, taken, left, loaderVars, mainVars>>

\* A slip: the loop goes on while need >= 0.
Slip_WakeUp(c) ==
  /\ at[c] = "sleep"
  /\ IF need[c] >= 0
     THEN /\ GoTo(c, "test")
          /\ i' = [i EXCEPT ![c] = 1]
     ELSE /\ GoTo(c, "done")
          /\ UNCHANGED i
  /\ UNCHANGED <<storeVars, need, taken, left, loaderVars, mainVars>>

WakeUp(c) ==
  /\ at[c] = "sleep"
  /\ IF need[c] > 0
     THEN /\ GoTo(c, "test")
          /\ i' = [i EXCEPT ![c] = 1]
     ELSE /\ GoTo(c, "done")
          /\ UNCHANGED i
  /\ UNCHANGED <<storeVars, need, taken, left, loaderVars, mainVars>>

customer_func(c) ==
  \/ TestBusy(c) \/ TestStock(c) \/ Enter(c) \/ Compare(c) \/ TakeAll(c)
  \/ Subtract(c) \/ StoreLeft(c) \/ Leave(c) \/ WakeUp(c)

-----------------------------------------------------------------------------
(* The loader.                                                             *)

\* Choose stores until one is found free; its flag is tested and not set.
FindFree ==
  /\ loader = "find"
  /\ loads < MaxLoads
  /\ \E s \in Stores :
       /\ is_busy[s] = 0
       /\ li' = s
  /\ loader' = "read"
  /\ UNCHANGED <<storeVars, customerVars, sum, loads, mainVars>>

ReadCapacity ==
  /\ loader = "read"
  /\ sum' = capacity[li] + LOADER_CAPACITY
  /\ loader' = "store"
  /\ UNCHANGED <<storeVars, customerVars, li, loads, mainVars>>

\* A slip: the store is filled up to LOADER_CAPACITY (= instead of +=).
Slip_StoreSum ==
  /\ loader = "store"
  /\ capacity' = [capacity EXCEPT ![li] = LOADER_CAPACITY]
  /\ loads' = loads + 1
  /\ loader' = "find"
  /\ UNCHANGED <<is_busy, customerVars, li, sum, mainVars>>

StoreSum ==
  /\ loader = "store"
  /\ capacity' = [capacity EXCEPT ![li] = sum]
  /\ loads' = loads + 1
  /\ loader' = "find"
  /\ UNCHANGED <<is_busy, customerVars, li, sum, mainVars>>

\* A cancelled thread ends at the next cancellation point: printf, which stands
\* before the addition, or sleep.
Cancelled ==
  /\ main = "cancel"
  /\ loader \in {"find", "read"}
  /\ loader' = "cancelled"
  /\ UNCHANGED <<storeVars, customerVars, li, sum, loads, mainVars>>

loader_func == FindFree \/ ReadCapacity \/ StoreSum \/ Cancelled

-----------------------------------------------------------------------------
(* The main thread: join the customers, cancel and join the loader.        *)

CancelLoader ==
  /\ main = "join"
  /\ \A c \in customers : at[c] = "done"
  /\ main' = "cancel"
  /\ UNCHANGED <<storeVars, customerVars, loaderVars, customers>>

Exit ==
  /\ main = "cancel"
  /\ loader = "cancelled"
  /\ main' = "ended"
  /\ UNCHANGED <<storeVars, customerVars, loaderVars, customers>>

Init ==
  /\ is_busy = [s \in Stores |-> 0]
  /\ capacity \in [Stores -> InitialCapacities]
  /\ at = [c \in Customers |-> "test"]
  /\ i = [c \in Customers |-> 1]
  /\ need \in [Customers -> InitialNeeds]
  /\ taken = [c \in Customers |-> 0]
  /\ left = [c \in Customers |-> 0]
  /\ loader = "find" /\ li = 1 /\ sum = 0 /\ loads = 0
  /\ customers \in SUBSET Customers \ {{}}
  /\ main = "join"

Next ==
  \/ \E c \in customers : customer_func(c)
  \/ loader_func
  \/ CancelLoader \/ Exit

Spec == Init /\ [][Next]_vars

\* Every thread that can take a step takes one.
Fairness ==
  /\ \A c \in Customers : WF_vars(c \in customers /\ customer_func(c))
  /\ WF_vars(loader_func)
  /\ WF_vars(CancelLoader \/ Exit)

FairSpec == Spec /\ Fairness

-----------------------------------------------------------------------------
(* Properties.                                                             *)

Steps == {"test", "stock", "enter", "compare", "all", "subtract", "store",
          "leave", "sleep", "done"}

\* Every variable keeps its type; a store's number is always one of the array.
TypeOK ==
  /\ is_busy \in [Stores -> {0, 1}]
  /\ capacity \in [Stores -> Int]
  /\ at \in [Customers -> Steps]
  /\ i \in [Customers -> Stores]
  /\ need \in [Customers -> Int]
  /\ taken \in [Customers -> Int]
  /\ left \in [Customers -> Int]
  /\ loader \in {"find", "read", "store", "cancelled"}
  /\ li \in Stores
  /\ sum \in Int
  /\ loads \in Nat
  /\ customers \subseteq Customers
  /\ main \in {"join", "cancel", "ended"}

Inside(c) == at[c] \in {"compare", "all", "subtract", "store", "leave"}

\* However the customers overtake each other, a store that is marked as busy has a
\* customer inside: no store stays locked, and none is when the program ends.
BusyMeansOccupied ==
  \A s \in Stores :
    is_busy[s] = 1 => \E c \in Customers : Inside(c) /\ i[c] = s

Alone == \E c \in Customers : customers = {c}

\* The stock of a store is never below zero if there is a single customer: the
\* unlocked loader can not spoil what the customer has read and not yet taken.
StockNotNegative == Alone => \A s \in Stores : capacity[s] >= 0

\* If the stores hold what a single customer needs, the customer ends and so does
\* the program, although loads may be overwritten.
ProgramEnds == Alone => <>(main = "ended")
=============================================================================
