---------------------------- MODULE Stores_proofs ----------------------------
(* Theorems about Stores, for any number of stores, customers and goods.   *)
EXTENDS Stores, TLAPS

LEMMA TypeOKStep ==
  ASSUME TypeOK, [Next]_vars
  PROVE  TypeOK'
<1> USE DEF TypeOK, GoTo, Steps
<1>1. ASSUME NEW c \in Customers, customer_func(c) PROVE TypeOK'
  <2> USE DEF storeVars, loaderVars, mainVars
  <2>0. ASSUME NextStore(c) PROVE at' \in [Customers -> Steps] /\ i' \in [Customers -> Stores]
    <3>1. CASE i[c] < STORES_NUM
      <4>1. i[c] \in Stores /\ i[c] + 1 \in Stores
        BY <3>1, ConstantsAssumption DEF Stores
      <4> QED
        BY <2>0, <3>1, <4>1 DEF NextStore
    <3>2. CASE ~(i[c] < STORES_NUM)
      BY <2>0, <3>2 DEF NextStore
    <3> QED
      BY <3>1, <3>2
  <2>1. CASE TestBusy(c)
    BY <2>0, <2>1 DEF TestBusy
  <2>2. CASE TestStock(c)
    BY <2>0, <2>2 DEF TestStock
  <2>3. CASE Enter(c)
    BY <2>3 DEF Enter
  <2>4. CASE Compare(c)
    BY <2>4 DEF Compare
  <2>5. CASE TakeAll(c)
    BY <2>5 DEF TakeAll
  <2>6. CASE Subtract(c)
    BY <2>6 DEF Subtract
  <2>7. CASE StoreLeft(c)
    BY <2>7 DEF StoreLeft
  <2>8. CASE Leave(c)
    BY <2>8 DEF Leave
  <2>9. CASE WakeUp(c)
    <3>1. 1 \in Stores
      BY ConstantsAssumption DEF Stores
    <3> QED
      BY <2>9, <3>1 DEF WakeUp
  <2> QED
    BY <1>1, <2>1, <2>2, <2>3, <2>4, <2>5, <2>6, <2>7, <2>8, <2>9 DEF customer_func
<1>2. CASE loader_func
  BY <1>2, ConstantsAssumption
  DEF loader_func, FindFree, ReadCapacity, StoreSum, Cancelled, storeVars, customerVars, mainVars
<1>3. CASE CancelLoader \/ Exit
  BY <1>3 DEF CancelLoader, Exit, storeVars, customerVars, loaderVars
<1>4. CASE UNCHANGED vars
  BY <1>4 DEF vars, storeVars, customerVars, loaderVars, mainVars
<1> QED
  BY <1>1, <1>2, <1>3, <1>4 DEF Next

LEMMA TypeOKInit == Init => TypeOK
<1> SUFFICES ASSUME Init PROVE TypeOK
  OBVIOUS
<1>1. /\ \A n \in InitialCapacities : n \in Nat
      /\ \A n \in InitialNeeds : n \in Nat /\ n > 0
  BY ConstantsAssumption
<1>2. capacity \in [Stores -> Int]
  <2>1. capacity \in [Stores -> InitialCapacities]
    BY DEF Init
  <2>2. \A s \in Stores : capacity[s] \in Int
    BY <1>1, <2>1
  <2> QED
    BY <2>1, <2>2
<1>3. need \in [Customers -> Int]
  <2>1. need \in [Customers -> InitialNeeds]
    BY DEF Init
  <2>2. \A c \in Customers : need[c] \in Int
    BY <1>1, <2>1
  <2> QED
    BY <2>1, <2>2
<1>4. 1 \in Stores
  BY ConstantsAssumption DEF Stores
<1> QED
  BY <1>2, <1>3, <1>4 DEF Init, TypeOK, Steps

\* Every variable keeps its type and no index leaves the array of stores (the loops
\* of customer_func and loader_func).
THEOREM TypeCorrect == Spec => []TypeOK
BY TypeOKInit, TypeOKStep, PTL DEF Spec

-----------------------------------------------------------------------------
(* A busy store is occupied.                                               *)

LEMMA BusyStep ==
  ASSUME TypeOK, BusyMeansOccupied, [Next]_vars
  PROVE  BusyMeansOccupied'
<1> SUFFICES ASSUME NEW s \in Stores, is_busy'[s] = 1
             PROVE  \E c \in Customers : Inside(c)' /\ i'[c] = s
  BY DEF BusyMeansOccupied
<1>1. ASSUME NEW c \in Customers, customer_func(c)
      PROVE  \E d \in Customers : Inside(d)' /\ i'[d] = s
  <2> USE DEF TypeOK, GoTo, Inside
  <2>1. CASE Enter(c)
    <3>1. CASE s = i[c]
      BY <2>1, <3>1 DEF Enter
    <3>2. CASE s # i[c]
      BY <2>1, <3>2 DEF Enter, BusyMeansOccupied
    <3> QED
      BY <3>1, <3>2
  <2>2. CASE Leave(c)
    <3>1. s # i[c] /\ is_busy[s] = 1
      BY <2>2 DEF Leave
    <3>2. PICK d \in Customers : Inside(d) /\ i[d] = s
      BY <3>1 DEF BusyMeansOccupied
    <3> QED
      BY <2>2, <3>1, <3>2 DEF Leave
  <2>3. CASE ~Enter(c) /\ ~Leave(c)
    <3>1. /\ is_busy' = is_busy
          /\ \A d \in Customers : Inside(d) => Inside(d)' /\ i'[d] = i[d]
      BY <1>1, <2>3 DEF customer_func, TestBusy, TestStock, NextStore, Compare, TakeAll,
                        Subtract, StoreLeft, WakeUp, storeVars, mainVars
    <3> QED
      BY <3>1 DEF BusyMeansOccupied
  <2> QED
    BY <2>1, <2>2, <2>3
<1>2. CASE UNCHANGED <<is_busy, at, i>>
  BY <1>2 DEF BusyMeansOccupied, Inside
<1>3. loader_func \/ CancelLoader \/ Exit \/ UNCHANGED vars => UNCHANGED <<is_busy, at, i>>
  BY DEF loader_func, FindFree, ReadCapacity, StoreSum, Cancelled, CancelLoader, Exit,
         vars, storeVars, customerVars, mainVars
<1> QED
  BY <1>1, <1>2, <1>3 DEF Next, TypeOK

\* However many customers overtake each other between the test and the setting of
\* is_busy, a store marked as busy has a customer inside who will reset the mark.
THEOREM BusyIsOccupied == Spec => []BusyMeansOccupied
<1>1. Init => BusyMeansOccupied
  BY DEF Init, BusyMeansOccupied
<1> QED
  BY <1>1, TypeOKInit, TypeOKStep, BusyStep, PTL DEF Spec

-----------------------------------------------------------------------------
(* The stock is not negative, if there is one customer.                    *)

\* What customer c and the loader have read is still true enough when they use
\* it: nobody but this customer takes, and the loader's sum is never out of date
\* downwards.
ReadingsHold(c) ==
  /\ \A s \in Stores : capacity[s] >= 0
  /\ loader = "store" => capacity[li] <= sum
  /\ at[c] \in {"test", "stock", "enter", "compare", "all"} => need[c] > 0
  /\ at[c] = "subtract" => 0 <= taken[c] /\ taken[c] <= capacity[i[c]]
  /\ at[c] = "store" => 0 <= left[c] /\ left[c] <= capacity[i[c]]

OneReads == \A c \in Customers : customers = {c} => ReadingsHold(c)

LEMMA OneReadsInit == Init => OneReads
<1> SUFFICES ASSUME Init, NEW c \in Customers PROVE ReadingsHold(c)
  BY DEF OneReads
<1>0. /\ \A n \in InitialCapacities : n \in Nat
      /\ \A n \in InitialNeeds : n \in Nat /\ n > 0
  BY ConstantsAssumption
<1>1. \A s \in Stores : capacity[s] >= 0
  <2>1. capacity \in [Stores -> InitialCapacities]
    BY DEF Init
  <2>2. \A s \in Stores : capacity[s] \in InitialCapacities
    BY <2>1
  <2> QED
    BY <1>0, <2>2
<1>2. need[c] > 0 /\ at[c] = "test"
  <2>1. need \in [Customers -> InitialNeeds] /\ at = [d \in Customers |-> "test"]
    BY DEF Init
  <2>2. need[c] \in InitialNeeds
    BY <2>1
  <2> QED
    BY <1>0, <2>1, <2>2
<1> QED
  BY <1>1, <1>2 DEF ReadingsHold, Init

LEMMA OneReadsStep ==
  ASSUME TypeOK, OneReads, [Next]_vars
  PROVE  OneReads'
<1> SUFFICES ASSUME NEW c \in Customers, customers' = {c}
             PROVE  ReadingsHold(c)'
  BY DEF OneReads
<1>0. customers = {c} /\ ReadingsHold(c)
  <2>1. customers' = customers
    BY DEF Next, customer_func, TestBusy, TestStock, Enter, Compare, TakeAll, Subtract,
           StoreLeft, Leave, WakeUp, loader_func, FindFree, ReadCapacity, StoreSum,
           Cancelled, CancelLoader, Exit, vars, mainVars
  <2> QED
    BY <2>1 DEF OneReads
<1> USE <1>0 DEF TypeOK, ReadingsHold, GoTo
<1>1. CASE customer_func(c)
  <2> USE DEF storeVars, loaderVars
  <2>1. CASE TestBusy(c) \/ TestStock(c) \/ Enter(c) \/ WakeUp(c)
    BY <2>1 DEF TestBusy, TestStock, NextStore, Enter, WakeUp
  <2>2. CASE Compare(c) \/ TakeAll(c)
    BY <2>2 DEF Compare, TakeAll
  <2>3. CASE Subtract(c)
    BY <2>3 DEF Subtract
  <2>4. CASE StoreLeft(c)
    BY <2>4 DEF StoreLeft
  <2>5. CASE Leave(c)
    BY <2>5 DEF Leave
  <2> QED
    BY <1>1, <2>1, <2>2, <2>3, <2>4, <2>5 DEF customer_func
<1>2. CASE loader_func
  <2> USE DEF customerVars, storeVars
  <2>1. CASE FindFree \/ Cancelled
    BY <2>1 DEF FindFree, Cancelled
  <2>2. CASE ReadCapacity
    BY <2>2, ConstantsAssumption DEF ReadCapacity
  <2>3. CASE StoreSum
    BY <2>3 DEF StoreSum
  <2> QED
    BY <1>2, <2>1, <2>2, <2>3 DEF loader_func
<1>3. CASE CancelLoader \/ Exit \/ UNCHANGED vars
  BY <1>3 DEF CancelLoader, Exit, vars, storeVars, customerVars, loaderVars
<1> QED
  BY <1>1, <1>2, <1>3 DEF Next

\* One customer and the unlocked loader never drive a store below zero: the two
\* reads of capacity in customer_func can only be followed by an increase.
THEOREM OneCustomerNeverOverdraws == Spec => []StockNotNegative
<1>1. OneReads => StockNotNegative
  BY DEF OneReads, ReadingsHold, StockNotNegative, Alone
<1> QED
  BY <1>1, OneReadsInit, OneReadsStep, TypeOKInit, TypeOKStep, PTL DEF Spec
=============================================================================
