--------------------------- MODULE Phonebooks_proofs ---------------------------
(***************************************************************************)
(* Theorems about Phonebooks, for any contacts, any SIZE and any bound on  *)
(* the counter.                                                            *)
(***************************************************************************)
EXTENDS Phonebooks, FiniteSetTheorems, FunctionTheorems, WellFoundedInduction, TLAPS

Entries == Contacts \cup ZeroContacts \cup {Garbage}

-----------------------------------------------------------------------------
(* Places and slots.                                                       *)

LEMMA SizeType == SIZE \in Nat \ {0}
BY BookAssumption

LEMMA Minimum ==
  ASSUME NEW T, T \subseteq Nat, T # {}
  PROVE  \E i \in T : \A j \in T : i <= j
<1> DEFINE R == OpToRel(<, Nat)
<1>1. IsWellFoundedOn(R, Nat)
  BY NatLessThanWellFounded
<1>2. \A x, y \in Nat : (<<y, x>> \in R) <=> y < x
  BY DEF OpToRel
<1> HIDE DEF R
<1>3. PICK i \in T : \A j \in T : ~(<<j, i>> \in R)
  BY <1>1, WFMin
<1>4. ASSUME NEW j \in T PROVE i <= j
  <2>1. i \in Nat /\ j \in Nat
    OBVIOUS
  <2>2. ~(j < i)
    BY <1>2, <1>3, <2>1
  <2> QED
    BY <2>1, <2>2
<1> QED
  BY <1>4

\* The slot a new contact is written to is a free one.
LEMMA FirstFreeIsFree ==
  ASSUME Used # Slots
  PROVE  FirstFree \in Slots \ Used
<1>1. Slots \ Used # {} /\ Slots \ Used \subseteq Nat
  BY BookAssumption DEF Used, Slots
<1>2. \E i \in Slots \ Used : \A j \in Slots \ Used : i <= j
  BY <1>1, Minimum
<1> QED
  BY <1>2 DEF FirstFree

LEMMA SlotsAreFinite ==
  ASSUME NEW n \in Nat, NEW P \in SUBSET (1..n)
  PROVE  IsFiniteSet(P) /\ Cardinality(P) \in 0..n
<1>1. IsFiniteSet(1..n) /\ Cardinality(1..n) = n
  BY FS_Interval
<1>2. IsFiniteSet(P) /\ Cardinality(P) <= n
  BY <1>1, FS_Subset
<1>3. Cardinality(P) \in Nat
  BY <1>2, FS_CardinalityType
<1> QED
  BY <1>2, <1>3

\* Nothing is shown more often than there are places.
LEMMA CountType ==
  ASSUME NEW list, NEW n \in 0..SIZE, NEW P \in SUBSET (1..n)
  PROVE  Count(list, P) \in [Contacts -> 0..SIZE]
<1>1. ASSUME NEW c \in Contacts PROVE Cardinality({i \in P : list[i] = c}) \in 0..SIZE
  <2>1. {i \in P : list[i] = c} \in SUBSET (1..n)
    OBVIOUS
  <2>2. n \in Nat /\ SIZE \in Nat /\ n <= SIZE
    BY SizeType
  <2>3. Cardinality({i \in P : list[i] = c}) \in 0..n
    BY <2>1, <2>2, SlotsAreFinite
  <2> QED
    BY <2>2, <2>3
<1> QED
  BY <1>1 DEF Count

LEMMA NobodyType == Nobody \in [Contacts -> 0..SIZE]
BY SizeType DEF Nobody

-----------------------------------------------------------------------------
(* Types.                                                                  *)

LEMMA TypeOKInit == Init => TypeOK
<1> SUFFICES ASSUME Init PROVE TypeOK
  OBVIOUS
<1>1. abonents \in [Slots -> Contacts \cup ZeroContacts \cup {Free}]
  BY DEF Init
<1>2. size \in 0..SIZE
  <2>1. size = 0
    BY Zenon DEF Init
  <2> QED
    BY <2>1, SizeType
<1>3. shown \in [Contacts -> 0..SIZE]
  BY NobodyType DEF Init
<1>4. abonentsCounter \in Int /\ array = Null
  <2>1. abonentsCounter = 0 /\ array = Null
    BY Zenon DEF Init
  <2> QED
    BY <2>1
<1>5. program \in {"task4", "task6"} /\ benign \in BOOLEAN /\ running \in {"yes", "no", "crashed"}
  BY DEF Init
<1> QED
  BY <1>1, <1>2, <1>3, <1>4, <1>5 DEF TypeOK

LEMMA Task4Types ==
  ASSUME TypeOK, task4_main, UNCHANGED task6Vars
  PROVE  TypeOK'
<1> USE DEF TypeOK, task4Vars, task6Vars, settings
<1>1. ASSUME NEW P \in SUBSET Slots PROVE Count(abonents, P) \in [Contacts -> 0..SIZE]
  <2>1. SIZE \in 0..SIZE /\ P \in SUBSET (1..SIZE)
    BY SizeType DEF Slots
  <2> QED
    BY <2>1, CountType
<1>2. CASE \E c \in Typed : AddAbonent(c)
  <2>1. PICK c \in Contacts \cup ZeroContacts : AddAbonent(c)
    BY <1>2 DEF Typed
  <2>2. \/ abonents' = abonents /\ abonentsCounter' = abonentsCounter
        \/ /\ abonents' = [abonents EXCEPT ![FirstFree] = c]
           /\ abonentsCounter' = abonentsCounter + 1
    BY <2>1 DEF AddAbonent
  <2>3. shown' = Nobody /\ UNCHANGED <<settings, running>>
    BY <2>1 DEF AddAbonent, Says
  <2>4. abonents' \in [Slots -> Contacts \cup ZeroContacts \cup {Free}]
    BY <2>2
  <2>5. abonentsCounter' \in Int
    BY <2>2
  <2> QED
    BY <2>3, <2>4, <2>5, NobodyType
<1>3. CASE \E n \in Names, s \in SecondNames : DeleteAbonent(n, s)
  <2>1. PICK n \in Names, s \in SecondNames : DeleteAbonent(n, s)
    BY <1>3
  <2>2. Found(n, s) \in SUBSET Slots /\ Cardinality(Found(n, s)) \in Nat
    BY SlotsAreFinite, BookAssumption DEF Found, Slots
  <2>3. shown' \in [Contacts -> 0..SIZE]
    BY <1>1, <2>1, <2>2 DEF DeleteAbonent, Shows
  <2> QED
    BY <2>1, <2>2, <2>3 DEF DeleteAbonent, Shows
<1>4. CASE \E n \in Names : SearchAbonent(n)
  <2>1. PICK n \in Names : SearchAbonent(n)
    BY <1>4
  <2>2. {i \in Slots : abonents[i].name = n} \in SUBSET Slots
    OBVIOUS
  <2> QED
    BY <1>1, <2>1, <2>2 DEF SearchAbonent, Shows
<1>5. CASE PrintAbonents
  BY <1>1, <1>5 DEF PrintAbonents, Shows, Used
<1>6. CASE task4_full \/ task4_empty
  BY <1>6, NobodyType DEF task4_full, task4_empty, Says
<1> QED
  BY <1>2, <1>3, <1>4, <1>5, <1>6 DEF task4_main

LEMMA AsFunction ==
  ASSUME NEW S, NEW s \in Seq(S), NEW n, Len(s) = n
  PROVE  s \in [1..n -> S]
OBVIOUS

\* What a realloc that succeeds leaves in the array.
LEMMA MovedType ==
  ASSUME TypeOK, NEW S, NEW c \in S, Garbage \in S,
         array = Null \/ array \in [1..size -> S]
  PROVE  Append(Moved(IF array = Null THEN <<>> ELSE array, size), c) \in [1..(size + 1) -> S]
<1> DEFINE list == IF array = Null THEN <<>> ELSE array
<1>1. size \in Nat
  BY BookAssumption DEF TypeOK
<1>2. list \in Seq(S) /\ (\A i \in 1..Len(list) : list[i] \in S) /\ Len(list) \in Nat
  BY <1>1
<1> DEFINE moved == Moved(list, size)
<1>3. moved \in [1..size -> S]
  BY <1>1, <1>2 DEF Moved
<1> HIDE DEF moved
<1>4. moved \in Seq(S) /\ Len(moved) = size
  BY <1>1, <1>3
<1>5. Append(moved, c) \in Seq(S) /\ Len(Append(moved, c)) = size + 1
  BY <1>4
<1>6. Append(moved, c) \in [1..(size + 1) -> S]
  BY <1>5, AsFunction
<1> QED
  BY <1>6 DEF moved

LEMMA WithoutType ==
  ASSUME NEW S, NEW n \in Nat \ {0}, NEW list \in [1..n -> S], NEW index \in 1..n
  PROVE  Without(list, index) \in [1..(n - 1) -> S]
<1>1. Len(list) = n
  OBVIOUS
<1>2. \A i \in 1..(n - 1) : list[IF i < index THEN i ELSE i + 1] \in S
  OBVIOUS
<1> QED
  BY <1>1, <1>2 DEF Without

LEMMA Task6Types ==
  ASSUME TypeOK, task6_main, UNCHANGED task4Vars
  PROVE  TypeOK'
<1> DEFINE Rest == /\ program' \in {"task4", "task6"} /\ benign' \in BOOLEAN
                   /\ running' \in {"yes", "no", "crashed"}
                   /\ abonents' \in [Slots -> Contacts \cup ZeroContacts \cup {Free}]
                   /\ abonentsCounter' \in Int
<1>1. ASSUME NEW P \in SUBSET Places PROVE Count(array, P) \in [Contacts -> 0..SIZE]
  BY CountType DEF TypeOK, Places
<1>2. size \in Nat /\ SIZE \in Nat
  BY SizeType DEF TypeOK
<1>3. Rest
  BY DEF TypeOK, task4Vars, settings, task6_main, AddAbonentEnd, DeleteAbonentAt, Refused,
         FindAbonentsByName, PrintAllAbonents, task6_full, task6_empty, NullPointer, Says, Shows
<1>4. ASSUME NEW c \in Typed, AddAbonentEnd(c)
      PROVE  /\ shown' = Nobody /\ size' \in 0..SIZE
             /\ array' = Null \/ array' \in [1..size' -> Entries]
  <2>1. c \in Entries /\ Garbage \in Entries /\ size < SIZE
    BY <1>4 DEF Typed, Entries, AddAbonentEnd
  <2>2. array = Null \/ array \in [1..size -> Entries]
    BY DEF TypeOK, Entries
  <2>3. Append(Moved(IF array = Null THEN <<>> ELSE array, size), c) \in [1..(size + 1) -> Entries]
    BY <2>1, <2>2, MovedType
  <2>4. \/ /\ array' = Append(Moved(IF array = Null THEN <<>> ELSE array, size), c)
           /\ size' = size + 1
        \/ array' = Null /\ size' = size
    BY <1>4 DEF AddAbonentEnd
  <2>5. array' = Null \/ array' \in [1..size' -> Entries]
    BY <2>3, <2>4
  <2>6. shown' = Nobody
    BY <1>4 DEF AddAbonentEnd, Says
  <2> QED
    BY <1>2, <2>1, <2>4, <2>5, <2>6
<1>5. ASSUME NEW i \in Places, DeleteAbonentAt(i)
      PROVE  /\ shown' = Count(array, {i}) /\ size' \in 0..SIZE
             /\ array' = Null \/ array' \in [1..size' -> Entries]
  <2>1. i \in 1..size /\ size \in Nat \ {0} /\ size' = size - 1
    <3>1. i \in 1..size
      BY DEF Places
    <3>2. size' = size - 1
      BY <1>5 DEF DeleteAbonentAt
    <3> QED
      BY <1>2, <3>1, <3>2
  <2>2. array \in [1..size -> Entries]
    BY <1>5 DEF TypeOK, Entries, DeleteAbonentAt
  <2>3. Without(array, i) \in [1..(size - 1) -> Entries]
    BY <2>1, <2>2, WithoutType
  <2>4. array' = Null \/ array' = Without(array, i)
    BY <1>5 DEF DeleteAbonentAt
  <2>5. shown' = Count(array, {i})
    BY <1>5 DEF DeleteAbonentAt, Shows
  <2>6. size' \in 0..SIZE
    BY <1>2, <2>1 DEF TypeOK
  <2> QED
    BY <2>1, <2>3, <2>4, <2>5, <2>6
<1>6. CASE \E c \in Typed : AddAbonentEnd(c)
  BY <1>3, <1>4, <1>6, NobodyType DEF TypeOK, Entries
<1>7. CASE \E i \in Places : DeleteAbonentAt(i)
  <2>1. PICK i \in Places : DeleteAbonentAt(i)
    BY <1>7
  <2>2. Count(array, {i}) \in [Contacts -> 0..SIZE]
    BY <1>1
  <2> QED
    BY <1>3, <1>5, <2>1, <2>2 DEF TypeOK, Entries
<1>8. CASE UNCHANGED task6Vars
  <2>1. \/ \E P \in SUBSET Places : shown' = Count(array, P)
        \/ shown' = Nobody \/ shown' = shown
    <3>1. CASE \E c \in Typed : AddAbonentEnd(c)
      BY <1>4, <3>1
    <3>2. CASE \E i \in Places : DeleteAbonentAt(i) \/ Refused(i)
      BY <1>5, <3>2 DEF Refused, Shows
    <3>3. CASE \E n \in Names : FindAbonentsByName(n)
      <4>1. PICK n \in Names : FindAbonentsByName(n)
        BY <3>3
      <4>2. {i \in Places : array[i].name = n} \in SUBSET Places
        OBVIOUS
      <4> QED
        BY <4>1, <4>2 DEF FindAbonentsByName, Shows
    <3>4. CASE PrintAllAbonents
      BY <3>4 DEF PrintAllAbonents, Shows
    <3>5. CASE task6_full \/ task6_empty \/ NullPointer
      BY <3>5 DEF task6_full, task6_empty, NullPointer, Says
    <3> QED
      BY <3>1, <3>2, <3>3, <3>4, <3>5 DEF task6_main
  <2>2. shown' \in [Contacts -> 0..SIZE]
    BY <1>1, <2>1, NobodyType DEF TypeOK
  <2> QED
    BY <1>3, <1>8, <2>2 DEF TypeOK, task6Vars
<1>9. \/ \E c \in Typed : AddAbonentEnd(c)
      \/ \E i \in Places : DeleteAbonentAt(i)
      \/ UNCHANGED task6Vars
  BY DEF task6_main, Refused, FindAbonentsByName, PrintAllAbonents, task6_full, task6_empty,
         NullPointer, task6Vars
<1> QED
  BY <1>6, <1>7, <1>8, <1>9

LEMMA TypeOKStep == TypeOK /\ [Next]_vars => TypeOK'
<1> SUFFICES ASSUME TypeOK, [Next]_vars PROVE TypeOK'
  OBVIOUS
<1>1. CASE task4_main /\ UNCHANGED task6Vars
  BY <1>1, Task4Types
<1>2. CASE task6_main /\ UNCHANGED task4Vars
  BY <1>2, Task6Types
<1>3. CASE Quit \/ UNCHANGED vars
  BY <1>3 DEF Quit, TypeOK, vars, task4Vars, task6Vars, settings
<1> QED
  BY <1>1, <1>2, <1>3 DEF Next

\* The counter is an integer, and the sizes stay in the arrays, whatever is typed
\* and whatever realloc does.
THEOREM TypeCorrect == Spec => []TypeOK
BY TypeOKInit, TypeOKStep, PTL DEF Spec

-----------------------------------------------------------------------------
(* The counter of task4.                                                   *)

LEMMA UsedIsFinite == IsFiniteSet(Used) /\ Cardinality(Used) \in Nat
BY SlotsAreFinite, SizeType DEF Used, Slots

LEMMA CounterInit == Init => CounterCounts
<1> SUFFICES ASSUME Init PROVE abonentsCounter = Cardinality(Used)
  BY DEF CounterCounts
<1>1. abonentsCounter = 0 /\ abonents = [i \in Slots |-> Free]
  BY Zenon DEF Init
<1>2. Used = {}
  BY <1>1 DEF Used, IsFree, Free
<1> QED
  BY <1>1, <1>2, FS_EmptySet

LEMMA AddCounts ==
  ASSUME TypeOK, CounterCounts, benign, NEW c \in Typed, AddAbonent(c), benign' = benign
  PROVE  CounterCounts'
<1>1. c.name # "0"
  BY BookAssumption DEF Typed
<1>2. CASE UNCHANGED task4Vars
  BY <1>2 DEF CounterCounts, Used, IsFree, task4Vars
<1>3. CASE ~UNCHANGED task4Vars
  <2>1. /\ Used # Slots
        /\ abonents' = [abonents EXCEPT ![FirstFree] = c]
        /\ abonentsCounter' = abonentsCounter + 1
    BY <1>3 DEF AddAbonent
  <2>2. FirstFree \in Slots \ Used
    BY <2>1, FirstFreeIsFree
  <2> DEFINE f == FirstFree
  <2>3. /\ abonents' = [abonents EXCEPT ![f] = c]
        /\ f \in Slots \ Used
    BY <2>1, <2>2
  <2> HIDE DEF f
  <2>4. Used' = Used \cup {f}
    BY <1>1, <2>3 DEF TypeOK, Used, IsFree
  <2>5. Cardinality(Used \cup {f}) = Cardinality(Used) + 1
    BY <2>3, UsedIsFinite, FS_AddElement
  <2> QED
    BY <2>1, <2>4, <2>5 DEF CounterCounts
<1> QED
  BY <1>2, <1>3

LEMMA DeletionCounts ==
  ASSUME TypeOK, CounterCounts, benign, benign' = benign,
         NEW n \in Names, NEW s \in SecondNames, DeleteAbonent(n, s)
  PROVE  CounterCounts'
<1> DEFINE found == Found(n, s)
<1>1. n # "0"
  BY BookAssumption DEF Names
<1>2. found \subseteq Used
  BY <1>1 DEF Found, Used, IsFree
<1>3. /\ abonents' = [i \in Slots |-> IF i \in found THEN Free ELSE abonents[i]]
      /\ abonentsCounter' = abonentsCounter - Cardinality(found)
  BY DEF DeleteAbonent
<1> HIDE DEF found
<1>4. Used' = Used \ found
  BY <1>2, <1>3 DEF Used, IsFree, Free
<1>5. Cardinality(Used \ found) = Cardinality(Used) - Cardinality(Used \cap found)
  BY UsedIsFinite, FS_Difference
<1>6. Used \cap found = found
  BY <1>2
<1> QED
  BY <1>3, <1>4, <1>5, <1>6 DEF CounterCounts

LEMMA CounterStep == TypeOK /\ CounterCounts /\ [Next]_vars => CounterCounts'
<1> SUFFICES ASSUME TypeOK, CounterCounts, [Next]_vars PROVE CounterCounts'
  OBVIOUS
<1>1. benign' = benign
  BY DEF Next, task4_main, task6_main, AddAbonent, DeleteAbonent, SearchAbonent, PrintAbonents,
         task4_full, task4_empty, AddAbonentEnd, DeleteAbonentAt, Refused, FindAbonentsByName,
         PrintAllAbonents, task6_full, task6_empty, NullPointer, Quit, Says, Shows, settings, vars
<1>2. CASE ~benign
  BY <1>1, <1>2 DEF CounterCounts
<1>3. CASE benign /\ \E c \in Typed : AddAbonent(c)
  BY <1>1, <1>3, AddCounts
<1>4. CASE benign /\ \E n \in Names, s \in SecondNames : DeleteAbonent(n, s)
  BY <1>1, <1>4, DeletionCounts
<1>5. CASE UNCHANGED task4Vars
  BY <1>1, <1>5 DEF CounterCounts, Used, IsFree, task4Vars
<1>6. \/ \E c \in Typed : AddAbonent(c)
      \/ \E n \in Names, s \in SecondNames : DeleteAbonent(n, s)
      \/ UNCHANGED task4Vars
  BY DEF Next, task4_main, SearchAbonent, PrintAbonents, task4_full, task4_empty, Quit,
         task4Vars, vars
<1> QED
  BY <1>2, <1>3, <1>4, <1>5, <1>6

\* As long as nobody types "0", as the name of a contact or of one to delete, the
\* counter that decides whether the book is full or empty is the number of slots in
\* use, for a book of any size.
THEOREM CounterIsUsed == Spec => []CounterCounts
BY CounterInit, CounterStep, TypeOKInit, TypeOKStep, PTL DEF Spec

-----------------------------------------------------------------------------
(* What is lost, and when.                                                 *)

LEMMA RemovalStep ==
  ASSUME TypeOK, [Next]_vars, NEW i \in Slots,
         abonents[i] \in Contacts, abonents'[i] # abonents[i]
  PROVE  reply' = "deleted" /\ abonents'[i] = Free
<1>1. abonents[i].name # "0"
  BY BookAssumption
<1>2. ASSUME NEW c \in Typed, AddAbonent(c) PROVE FALSE
  <2>1. Used # Slots /\ abonents' = [abonents EXCEPT ![FirstFree] = c]
    BY <1>2 DEF AddAbonent, task4Vars
  <2>2. FirstFree \in Slots \ Used
    BY <2>1, FirstFreeIsFree
  <2> DEFINE f == FirstFree
  <2>3. abonents' = [abonents EXCEPT ![f] = c] /\ f \in Slots \ Used
    BY <2>1, <2>2
  <2> HIDE DEF f
  <2>4. i = f
    BY <2>3 DEF TypeOK
  <2> QED
    BY <1>1, <2>3, <2>4 DEF Used, IsFree
<1>3. ASSUME NEW n \in Names, NEW s \in SecondNames, DeleteAbonent(n, s)
      PROVE  reply' = "deleted" /\ abonents'[i] = Free
  <2> DEFINE found == Found(n, s)
  <2>1. /\ abonents' = [j \in Slots |-> IF j \in found THEN Free ELSE abonents[j]]
        /\ reply' = IF found # {} THEN "deleted" ELSE "none"
    BY <1>3 DEF DeleteAbonent, Shows
  <2> HIDE DEF found
  <2>2. i \in found
    BY <2>1
  <2> QED
    BY <2>1, <2>2
<1>4. \/ \E c \in Typed : AddAbonent(c)
      \/ \E n \in Names, s \in SecondNames : DeleteAbonent(n, s)
      \/ UNCHANGED task4Vars
  BY DEF Next, task4_main, SearchAbonent, PrintAbonents, task4_full, task4_empty, Quit,
         task4Vars, vars
<1> QED
  BY <1>2, <1>3, <1>4 DEF task4Vars

\* A contact leaves its slot only by a deletion, even when contacts called "0" have
\* put the counter of task4 out of step with the slots.
THEOREM NothingIsOverwritten == Spec => OnlyDeletionRemoves
<1>1. TypeOK /\ [Next]_vars =>
        [\A i \in Slots :
           abonents[i] \in Contacts /\ abonents'[i] # abonents[i] =>
             reply' = "deleted" /\ abonents'[i] = Free]_vars
  BY RemovalStep
<1> QED
  BY <1>1, TypeOKInit, TypeOKStep, PTL DEF Spec, OnlyDeletionRemoves

-----------------------------------------------------------------------------
(* The array of task6.                                                     *)

\* A contact that was typed is no garbage, and an array is not the null pointer.
LEMMA ArraysAreNotNull ==
  ASSUME NEW n \in 0..SIZE, NEW a \in [1..n -> Contacts]
  PROVE  a # Null
<1>1. a \in [1..n -> Contacts \cup ZeroContacts \cup {Garbage}]
  OBVIOUS
<1> QED
  BY <1>1, BookAssumption

\* Between the operations of a benign run the array has exactly the typed contacts.
ArrayInv ==
  benign =>
    /\ running # "crashed"
    /\ IF size = 0 THEN array = Null ELSE array \in [1..size -> Contacts]

LEMMA ArrayInvHolds == TypeOK /\ ArrayInv => ArrayHoldsTheBook
<1> SUFFICES ASSUME TypeOK, ArrayInv, benign
             PROVE  /\ (array = Null <=> size = 0) /\ running # "crashed"
                    /\ array # Null => \A i \in Places : array[i] \in Contacts
  BY DEF ArrayHoldsTheBook
<1>1. size \in 0..SIZE
  BY DEF TypeOK
<1>2. size # 0 => array \in [1..size -> Contacts]
  BY DEF ArrayInv
<1>3. size # 0 => array # Null
  BY <1>1, <1>2, ArraysAreNotNull
<1> QED
  BY <1>2, <1>3 DEF ArrayInv, Places

LEMMA ArrayInit == Init => ArrayInv
BY Zenon DEF Init, ArrayInv

LEMMA AddKeepsArray ==
  ASSUME TypeOK, ArrayInv, benign, NEW c \in Typed, AddAbonentEnd(c)
  PROVE  size' # 0 /\ array' \in [1..size' -> Contacts]
<1>1. c \in Contacts /\ size \in Nat
  BY SizeType DEF Typed, TypeOK
<1> DEFINE list == IF array = Null THEN <<>> ELSE array
<1>2. list \in [1..size -> Contacts]
  <2>1. CASE size = 0
    BY <2>1 DEF ArrayInv
  <2>2. CASE size # 0
    <3>1. array \in [1..size -> Contacts]
      BY <2>2 DEF ArrayInv
    <3>2. array # Null
      BY <3>1, ArraysAreNotNull DEF TypeOK
    <3> QED
      BY <3>1, <3>2
  <2> QED
    BY <2>1, <2>2
<1>3. array' = Append(Moved(list, size), c) /\ size' = size + 1
  BY DEF AddAbonentEnd
<1> HIDE DEF list
<1>4. Len(list) = size
  BY <1>1, <1>2
<1> DEFINE moved == Moved(list, size)
<1>5. moved \in [1..size -> Contacts]
  BY <1>2, <1>4 DEF Moved
<1> HIDE DEF moved
<1>6. moved \in Seq(Contacts) /\ Len(moved) = size
  BY <1>1, <1>5
<1>7. Append(moved, c) \in Seq(Contacts) /\ Len(Append(moved, c)) = size + 1
  BY <1>1, <1>6
<1>8. Append(moved, c) \in [1..(size + 1) -> Contacts]
  BY <1>7, AsFunction
<1> QED
  BY <1>1, <1>3, <1>8 DEF moved

LEMMA DeletionKeepsArray ==
  ASSUME TypeOK, ArrayInv, benign, NEW i \in Places, DeleteAbonentAt(i)
  PROVE  IF size' = 0 THEN array' = Null ELSE array' \in [1..size' -> Contacts]
<1>1. size \in Nat \ {0} /\ i \in 1..size
  <2>1. size \in Nat /\ i \in 1..size
    BY SizeType DEF TypeOK, Places
  <2> QED
    BY <2>1
<1>2. array \in [1..size -> Contacts]
  BY <1>1 DEF ArrayInv
<1>3. Without(array, i) \in [1..(size - 1) -> Contacts]
  BY <1>1, <1>2, WithoutType
<1>4. size' = size - 1 /\ array' = IF size' = 0 THEN Null ELSE Without(array, i)
  BY DEF DeleteAbonentAt
<1> QED
  BY <1>3, <1>4

LEMMA ArrayStep == TypeOK /\ ArrayInv /\ [Next]_vars => ArrayInv'
<1> SUFFICES ASSUME TypeOK, ArrayInv, [Next]_vars PROVE ArrayInv'
  OBVIOUS
<1>1. benign' = benign
  BY DEF Next, task4_main, task6_main, AddAbonent, DeleteAbonent, SearchAbonent, PrintAbonents,
         task4_full, task4_empty, AddAbonentEnd, DeleteAbonentAt, Refused, FindAbonentsByName,
         PrintAllAbonents, task6_full, task6_empty, NullPointer, Quit, Says, Shows, settings, vars
<1>2. CASE ~benign
  BY <1>1, <1>2 DEF ArrayInv
<1>3. CASE benign
  <2>1. ~NullPointer
    <3>1. size # 0 => array # Null
      BY <1>3, ArrayInvHolds DEF ArrayHoldsTheBook
    <3> QED
      BY <3>1 DEF NullPointer
  <2>2. running' # "crashed"
    BY <1>3, <2>1 DEF ArrayInv, Next, task4_main, task6_main, AddAbonent, DeleteAbonent,
       SearchAbonent, PrintAbonents, task4_full, task4_empty, AddAbonentEnd, DeleteAbonentAt,
       Refused, FindAbonentsByName, PrintAllAbonents, task6_full, task6_empty, Quit, Says, Shows,
       vars
  <2>3. \/ \E c \in Typed : AddAbonentEnd(c)
        \/ \E i \in Places : DeleteAbonentAt(i)
        \/ UNCHANGED task6Vars
    BY <2>1 DEF Next, task6_main, Refused, FindAbonentsByName, PrintAllAbonents, task6_full,
       task6_empty, Quit, task6Vars, vars
  <2>4. CASE \E c \in Typed : AddAbonentEnd(c)
    BY <1>3, <2>2, <2>4, AddKeepsArray DEF ArrayInv
  <2>5. CASE \E i \in Places : DeleteAbonentAt(i)
    BY <1>3, <2>2, <2>5, DeletionKeepsArray DEF ArrayInv
  <2>6. CASE UNCHANGED task6Vars
    BY <1>3, <2>2, <2>6 DEF ArrayInv, task6Vars
  <2> QED
    BY <2>3, <2>4, <2>5, <2>6
<1> QED
  BY <1>2, <1>3

\* As long as nobody types "0" and realloc succeeds, the array of task6 is null exactly
\* when the book is empty, has no uninitialised contacts, and the program does not crash.
THEOREM ArrayIsKept == Spec => []ArrayHoldsTheBook
BY ArrayInit, ArrayStep, ArrayInvHolds, TypeOKInit, TypeOKStep, PTL DEF Spec

-----------------------------------------------------------------------------
(* Both are phone books.  The size of a book is the number of its copies   *)
(* of contacts; the copies of a list are counted by its places.            *)

PlacesOf(list, P, c) == {i \in P : list[i] = c}
CopiesOf(book) == {copy \in Contacts \X (1..SIZE) : copy[2] <= book[copy[1]]}

LEMMA CopiesArePlaces ==
  ASSUME NEW P, IsFiniteSet(P), NEW list, \A i \in P : list[i] \in Contacts,
         NEW book, \A c \in Contacts : book[c] = Cardinality(PlacesOf(list, P, c)),
         \A c \in Contacts : book[c] \in 0..SIZE
  PROVE  Cardinality(CopiesOf(book)) = Cardinality(P)
<1> USE DEF PlacesOf, CopiesOf
<1> DEFINE At(c) == PlacesOf(list, P, c)
           Copies == CopiesOf(book)
           number == [c \in Contacts |-> CHOOSE g : g \in Bijection(1..book[c], At(c))]
           F == [copy \in Copies |-> number[copy[1]][copy[2]]]
<1>1. ASSUME NEW c \in Contacts PROVE number[c] \in Bijection(1..book[c], At(c))
  <2>1. IsFiniteSet(At(c)) /\ book[c] = Cardinality(At(c))
    BY FS_Subset
  <2>2. Bijection(1..book[c], At(c)) # {}
    BY <2>1, FS_CardinalityType DEF ExistsBijection
  <2> HIDE DEF At
  <2> QED
    BY <2>2
<1>2. ASSUME NEW c \in Contacts
      PROVE  /\ \A k \in 1..book[c] : number[c][k] \in P /\ list[number[c][k]] = c
             /\ \A k, m \in 1..book[c] : number[c][k] = number[c][m] => k = m
             /\ \A i \in P : list[i] = c => \E k \in 1..book[c] : number[c][k] = i
  <2>1. number[c] \in Bijection(1..book[c], At(c))
    BY <1>1
  <2> HIDE DEF number, At
  <2> DEFINE g == number[c]
             T == At(c)
  <2>2. g \in Bijection(1..book[c], T)
    BY <2>1
  <2> HIDE DEF g, T
  <2>3. /\ g \in [1..book[c] -> T]
        /\ \A k, m \in 1..book[c] : g[k] = g[m] => k = m
        /\ \A i \in T : \E k \in 1..book[c] : g[k] = i
    BY <2>2, Fun_BijectionProperties
  <2>4. \A i : i \in T <=> i \in P /\ list[i] = c
    BY DEF T, At
  <2> QED
    BY <2>3, <2>4 DEF g
<1>3. ASSUME NEW copy \in Copies
      PROVE  copy[1] \in Contacts /\ copy[2] \in 1..book[copy[1]] /\ copy = <<copy[1], copy[2]>>
  <2>1. /\ copy \in Contacts \X (1..SIZE) /\ copy[2] <= book[copy[1]]
    OBVIOUS
  <2>2. copy[1] \in Contacts /\ copy[2] \in 1..SIZE /\ copy = <<copy[1], copy[2]>>
    BY <2>1
  <2> QED
    BY <2>1, <2>2, SizeType
<1>4. ASSUME NEW c \in Contacts, NEW k \in 1..book[c] PROVE <<c, k>> \in Copies
  <2>1. k \in 1..SIZE /\ k <= book[c]
    BY SizeType
  <2> QED
    BY <2>1
<1> HIDE DEF number, Copies, At
<1>5. F \in [Copies -> P]
  BY <1>2, <1>3
<1>6. ASSUME NEW x \in Copies, NEW y \in Copies, F[x] = F[y] PROVE x = y
  <2>1. number[x[1]][x[2]] = number[y[1]][y[2]]
    BY <1>6
  <2>2. x[1] = y[1]
    BY <2>1, <1>2, <1>3
  <2>3. x[2] = y[2]
    BY <2>1, <2>2, <1>2, <1>3
  <2> QED
    BY <2>2, <2>3, <1>3
<1>7. ASSUME NEW i \in P PROVE \E copy \in Copies : F[copy] = i
  <2>1. PICK k \in 1..book[list[i]] : number[list[i]][k] = i
    BY <1>2
  <2>2. <<list[i], k>> \in Copies
    BY <1>4
  <2> QED
    BY <2>1, <2>2
<1> HIDE DEF F
<1>8. F \in Bijection(Copies, P)
  BY <1>5, <1>6, <1>7, Fun_IsBij
<1>9. ExistsBijection(P, Copies)
  <2>1. ExistsBijection(Copies, P)
    BY <1>8 DEF ExistsBijection
  <2> QED
    BY <2>1, Fun_ExistsBijSymmetric
<1>10. Cardinality(Copies) = Cardinality(P)
  BY <1>9, FS_Bijection
<1> QED
  BY <1>10 DEF Copies

\* What the slots hold as long as nobody types "0".
ListInv == benign => abonents \in [Slots -> Contacts \cup {Free}]

LEMMA ListInit == Init => ListInv
<1> SUFFICES ASSUME Init PROVE abonents \in [Slots -> Contacts \cup {Free}]
  BY DEF ListInv
<1>1. abonents = [i \in Slots |-> Free]
  BY Zenon DEF Init
<1> QED
  BY <1>1

LEMMA SettingsKept == [Next]_vars => program' = program /\ benign' = benign
BY DEF Next, task4_main, task6_main, AddAbonent, DeleteAbonent, SearchAbonent, PrintAbonents,
       task4_full, task4_empty, AddAbonentEnd, DeleteAbonentAt, Refused, FindAbonentsByName,
       PrintAllAbonents, task6_full, task6_empty, NullPointer, Quit, Says, Shows, settings, vars

LEMMA ListStep == ListInv /\ [Next]_vars => ListInv'
<1> SUFFICES ASSUME ListInv, [Next]_vars, benign PROVE abonents' \in [Slots -> Contacts \cup {Free}]
  BY SettingsKept DEF ListInv
<1>1. abonents \in [Slots -> Contacts \cup {Free}]
  BY DEF ListInv
<1>2. ASSUME NEW c \in Typed, AddAbonent(c) PROVE abonents' \in [Slots -> Contacts \cup {Free}]
  BY <1>1, <1>2 DEF AddAbonent, Typed, task4Vars
<1>3. ASSUME NEW n \in Names, NEW s \in SecondNames, DeleteAbonent(n, s)
      PROVE  abonents' \in [Slots -> Contacts \cup {Free}]
  BY <1>1, <1>3 DEF DeleteAbonent
<1>4. \/ \E c \in Typed : AddAbonent(c)
      \/ \E n \in Names, s \in SecondNames : DeleteAbonent(n, s)
      \/ UNCHANGED task4Vars
  BY DEF Next, task4_main, SearchAbonent, PrintAbonents, task4_full, task4_empty, Quit,
         task4Vars, vars
<1> QED
  BY <1>1, <1>2, <1>3, <1>4 DEF task4Vars

BookInv == TypeOK /\ CounterCounts /\ ArrayInv /\ ListInv

LEMMA BookInvInit == Init => BookInv
BY TypeOKInit, CounterInit, ArrayInit, ListInit DEF BookInv

LEMMA BookInvStep == BookInv /\ [Next]_vars => BookInv'
BY TypeOKStep, CounterStep, ArrayStep, ListStep DEF BookInv

LEMMA FreeIsNobody == Free \notin Contacts /\ \A c \in Contacts : c.name # "0"
BY BookAssumption DEF Free

LEMMA SameCardinality == \A S : Abstract!Cardinality(S) = Cardinality(S)
BY DEF Abstract!Cardinality, Cardinality, Abstract!IsFiniteSet, IsFiniteSet

\* The size that decides whether task4 says "full" or "empty" is that of the book.
LEMMA Task4Book ==
  ASSUME BookInv, benign, program = "task4"
  PROVE  /\ TheBook = [c \in Contacts |-> Cardinality({i \in Slots : abonents[i] = c})]
         /\ \A c \in Contacts : TheBook[c] \in 0..SIZE
         /\ Abstract!Size = abonentsCounter
<1>1. TheBook = [c \in Contacts |-> Cardinality({i \in Slots : abonents[i] = c})]
  BY DEF TheBook, Count
<1>2. ASSUME NEW c \in Contacts PROVE Cardinality({i \in Slots : abonents[i] = c}) \in 0..SIZE
  BY SlotsAreFinite, SizeType DEF Slots
<1>3. \A i \in Used : abonents[i] \in Contacts
  BY FreeIsNobody DEF BookInv, ListInv, Used, IsFree, Free
<1>4. \A c \in Contacts : {i \in Slots : abonents[i] = c} = {i \in Used : abonents[i] = c}
  BY FreeIsNobody DEF Used, IsFree
<1> DEFINE book == TheBook
<1>5. /\ \A c \in Contacts : book[c] = Cardinality(PlacesOf(abonents, Used, c))
      /\ \A c \in Contacts : book[c] \in 0..SIZE
  BY <1>1, <1>2, <1>4 DEF PlacesOf
<1> HIDE DEF book
<1>6. Cardinality(CopiesOf(book)) = Cardinality(Used)
  BY <1>3, <1>5, UsedIsFinite, CopiesArePlaces
<1>7. Abstract!Size = Cardinality(Used)
  BY <1>6, SameCardinality DEF Abstract!Size, Abstract!Copies, CopiesOf, book
<1> QED
  BY <1>1, <1>2, <1>7 DEF BookInv, CounterCounts

LEMMA Task6Book ==
  ASSUME BookInv, benign, program = "task6"
  PROVE  /\ TheBook = [c \in Contacts |-> Cardinality({i \in 1..size : array[i] = c})]
         /\ \A c \in Contacts : TheBook[c] \in 0..SIZE
         /\ Abstract!Size = size
<1>1. size \in 0..SIZE /\ size \in Nat
  BY SizeType DEF BookInv, TypeOK
<1>2. TheBook = [c \in Contacts |-> Cardinality({i \in 1..size : array[i] = c})]
  <2>1. CASE size = 0
    <3>1. TheBook = [c \in Contacts |-> 0]
      BY <2>1 DEF BookInv, ArrayInv, TheBook, Nobody
    <3>2. \A c \in Contacts : {i \in 1..size : array[i] = c} = {}
      BY <2>1
    <3> QED
      BY <3>1, <3>2, FS_EmptySet
  <2>2. CASE size # 0
    <3>1. array # Null
      BY <1>1, <2>2, ArraysAreNotNull DEF BookInv, ArrayInv
    <3> QED
      BY <3>1 DEF TheBook, Count, Places
  <2> QED
    BY <2>1, <2>2
<1>3. ASSUME NEW c \in Contacts PROVE Cardinality({i \in 1..size : array[i] = c}) \in 0..SIZE
  <2>1. Cardinality({i \in 1..size : array[i] = c}) \in 0..size
    BY <1>1, SlotsAreFinite
  <2> QED
    BY <1>1, <2>1, SizeType
<1>4. \A i \in 1..size : array[i] \in Contacts
  BY <1>1 DEF BookInv, ArrayInv
<1> DEFINE book == TheBook
           P == 1..size
<1>5. /\ \A c \in Contacts : book[c] = Cardinality(PlacesOf(array, P, c))
      /\ \A c \in Contacts : book[c] \in 0..SIZE
  BY <1>2, <1>3 DEF PlacesOf
<1>6. IsFiniteSet(P) /\ Cardinality(P) = size
  BY <1>1, FS_Interval
<1>7. \A i \in P : array[i] \in Contacts
  BY <1>4
<1> HIDE DEF book, P
<1>8. Cardinality(CopiesOf(book)) = Cardinality(P)
  BY <1>5, <1>6, <1>7, CopiesArePlaces
<1>9. Abstract!Size = Cardinality(P)
  BY <1>8, SameCardinality DEF Abstract!Size, Abstract!Copies, CopiesOf, book
<1> QED
  BY <1>2, <1>3, <1>6, <1>9

\* What the abstract book is told in a benign run.
LEMMA Told ==
  ASSUME benign, benign' = benign
  PROVE  /\ \A text : reply' = text /\ shown' = Nobody => Abstract!Says(text)
         /\ Abstract!Nobody = [c \in Contacts |-> 0]
  BY DEF Abstract!Says, Abstract!Nobody, Nobody

LEMMA Task4Add ==
  ASSUME BookInv, benign, benign' = benign, program = "task4", program' = program,
         NEW d \in Typed, AddAbonent(d)
  PROVE  Abstract!Add(d)
<1>1. d \in Contacts
  BY DEF Typed
<1>2. Used # Slots
  <2>1. Cardinality(Slots) = SIZE
    BY FS_Interval, SizeType DEF Slots
  <2>2. Cardinality(Used) < SIZE
    BY DEF AddAbonent, BookInv, CounterCounts
  <2> QED
    BY <2>1, <2>2, SizeType
<1>3. /\ abonents' = [abonents EXCEPT ![FirstFree] = d] /\ abonentsCounter < SIZE
      /\ reply' = "added" /\ shown' = Nobody
  BY <1>2 DEF AddAbonent, Says
<1>4. PICK f \in Slots \ Used : abonents' = [abonents EXCEPT ![f] = d]
  BY <1>2, <1>3, FirstFreeIsFree
<1>5. abonents \in [Slots -> Contacts \cup {Free}] /\ abonents[f] \notin Contacts
  BY <1>4, FreeIsNobody DEF BookInv, ListInv, Used, IsFree
<1>6. ASSUME NEW c \in Contacts
      PROVE  Cardinality({i \in Slots : abonents'[i] = c})
             = Cardinality({i \in Slots : abonents[i] = c}) + IF c = d THEN 1 ELSE 0
  <2>1. CASE c = d
    <3>1. /\ {i \in Slots : abonents'[i] = c} = {i \in Slots : abonents[i] = c} \cup {f}
          /\ f \notin {i \in Slots : abonents[i] = c}
      BY <1>4, <1>5, <2>1
    <3>2. IsFiniteSet({i \in Slots : abonents[i] = c})
      BY SlotsAreFinite, SizeType DEF Slots
    <3> QED
      BY <2>1, <3>1, <3>2, FS_AddElement
  <2>2. CASE c # d
    <3>1. {i \in Slots : abonents'[i] = c} = {i \in Slots : abonents[i] = c}
      BY <1>4, <1>5, <2>2
    <3>2. Cardinality({i \in Slots : abonents[i] = c}) \in Nat
      BY SlotsAreFinite, SizeType DEF Slots
    <3> QED
      BY <2>2, <3>1, <3>2
  <2> QED
    BY <2>1, <2>2
<1>7. TheBook' = [c \in Contacts |-> Cardinality({i \in Slots : abonents'[i] = c})]
  BY DEF TheBook, Count
<1>8. /\ TheBook = [c \in Contacts |-> Cardinality({i \in Slots : abonents[i] = c})]
      /\ \A c \in Contacts : TheBook[c] \in 0..SIZE
      /\ Abstract!Size = abonentsCounter
  BY Task4Book
<1>9. TheBook' = [TheBook EXCEPT ![d] = @ + 1]
  <2> DEFINE old == [c \in Contacts |-> Cardinality({i \in Slots : abonents[i] = c})]
             new == [c \in Contacts |-> Cardinality({i \in Slots : abonents'[i] = c})]
  <2>1. \A c \in Contacts : new[c] = old[c] + (IF c = d THEN 1 ELSE 0) /\ old[c] \in 0..SIZE
    BY <1>6, <1>8
  <2>2. old = [c \in Contacts |-> old[c]] /\ new = [c \in Contacts |-> new[c]]
    OBVIOUS
  <2>3. TheBook = old /\ TheBook' = new
    BY <1>7, <1>8
  <2> HIDE DEF old, new
  <2>4. \A c \in Contacts : new[c] = [old EXCEPT ![d] = @ + 1][c]
    BY <1>1, <2>1, <2>2
  <2>5. new = [old EXCEPT ![d] = @ + 1]
    BY <2>2, <2>4
  <2> QED
    BY <2>3, <2>5
<1> QED
  BY <1>3, <1>8, <1>9, Told DEF Abstract!Add

\* Places counted apart.
LEMMA Parting ==
  ASSUME NEW P, IsFiniteSet(P), NEW Q \in SUBSET P
  PROVE  /\ Cardinality(P \ Q) = Cardinality(P) - Cardinality(Q)
         /\ Cardinality(P) \in Nat /\ Cardinality(Q) \in Nat
         /\ Cardinality(Q) \in 0..Cardinality(P)
         /\ Cardinality(P) - Cardinality(Q) \in 0..Cardinality(P)
         /\ Q # {} => Cardinality(Q) # 0
<1>1. /\ Cardinality(P) \in Nat /\ IsFiniteSet(Q) /\ Cardinality(Q) <= Cardinality(P)
      /\ P \cap Q = Q
  BY FS_CardinalityType, FS_Subset
<1>2. Cardinality(Q) \in Nat
  BY <1>1, FS_CardinalityType
<1>3. Cardinality(P \ Q) = Cardinality(P) - Cardinality(P \cap Q)
  BY FS_Difference
<1> QED
  BY <1>1, <1>2, <1>3, FS_EmptySet

LEMMA Task4Delete ==
  ASSUME BookInv, benign, benign' = benign, program = "task4", program' = program,
         NEW n \in Names, NEW s \in SecondNames, DeleteAbonent(n, s)
  PROVE  Abstract!Delete(n, s) \/ Abstract!NothingToDelete(n, s)
<1> DEFINE found == Found(n, s)
           At(c) == {i \in Slots : abonents[i] = c}
           Out(c) == {i \in found : abonents[i] = c}
           old == [c \in Contacts |-> Cardinality(At(c))]
           out == [c \in Contacts |-> Cardinality(Out(c))]
           new == [c \in Contacts |-> Cardinality({i \in Slots : abonents'[i] = c})]
<1>1. found \subseteq Slots /\ abonents \in [Slots -> Contacts \cup {Free}] /\ n # "0"
  BY BookAssumption DEF Found, BookInv, ListInv, Names
<1>2. \A i \in found : /\ abonents[i] \in Contacts
                       /\ abonents[i].name = n /\ abonents[i].secondName = s
  BY <1>1 DEF Found, Free
<1>3. \A c \in Contacts : c.name = n /\ c.secondName = s => Out(c) = At(c)
  BY <1>1 DEF Found
<1>4. /\ abonents' = [i \in Slots |-> IF i \in found THEN Free ELSE abonents[i]]
      /\ reply' = IF found # {} THEN "deleted" ELSE "none"
      /\ shown' = out
  BY DEF DeleteAbonent, Shows, Count
<1>5. TheBook = old /\ TheBook' = new /\ \A c \in Contacts : old[c] \in 0..SIZE
  BY Task4Book DEF TheBook, Count
<1> HIDE DEF found
<1>6. ASSUME NEW c \in Contacts
      PROVE  /\ new[c] = old[c] - out[c] /\ new[c] \in 0..old[c] /\ out[c] \in 0..old[c]
             /\ Out(c) # {} => out[c] # 0
             /\ Out(c) = {} => out[c] = 0
  <2>1. IsFiniteSet(At(c)) /\ Out(c) \subseteq At(c)
    BY <1>1, SlotsAreFinite, SizeType DEF Slots
  <2>2. {i \in Slots : abonents'[i] = c} = At(c) \ Out(c)
    BY <1>1, <1>4, FreeIsNobody
  <2> QED
    BY <2>1, <2>2, Parting, FS_EmptySet
<1>7. CASE found = {}
  <2>1. \A c \in Contacts : Out(c) = {}
    BY <1>7
  <2>2. shown' = Nobody
    BY <1>4, <1>6, <2>1 DEF Nobody
  <2>3. \A c \in Contacts : c.name = n /\ c.secondName = s => old[c] = 0
    BY <1>3, <2>1, FS_EmptySet
  <2>4. Abstract!Matching(Abstract!WithNames(n, s)) = Abstract!Nobody
    BY <1>5, <2>3, Told DEF Abstract!Matching, Abstract!WithNames, Abstract!WithName
  <2>5. new = old
    <3>1. \A c \in Contacts : old[c] \in 0..SIZE /\ out[c] = 0 /\ new[c] = old[c] - out[c]
      BY <1>5, <1>6, <2>1
    <3>2. old = [c \in Contacts |-> old[c]] /\ new = [c \in Contacts |-> new[c]]
      OBVIOUS
    <3> HIDE DEF old, out, new
    <3>3. \A c \in Contacts : new[c] = old[c]
      BY <3>1, SizeType
    <3> QED
      BY <3>2, <3>3
  <2> QED
    BY <1>4, <1>5, <1>7, <2>2, <2>4, <2>5, Told DEF Abstract!NothingToDelete
<1>8. CASE found # {}
  <2>1. PICK i \in found : TRUE
    BY <1>8
  <2>2. abonents[i] \in Contacts /\ Out(abonents[i]) # {}
    BY <1>2, <2>1
  <2> HIDE DEF old, out, new, Out, At
  <2>3. ASSUME NEW c \in Contacts
        PROVE  new[c] \in 0..SIZE /\ new[c] <= old[c] /\ out[c] = old[c] - new[c]
    <3>1. old[c] \in 0..SIZE /\ new[c] = old[c] - out[c] /\ new[c] \in 0..old[c] /\ out[c] \in 0..old[c]
      BY <1>5, <1>6
    <3> QED
      BY <3>1, SizeType
  <2>4. new \in [Contacts -> 0..SIZE] /\ out = [c \in Contacts |-> old[c] - new[c]]
    BY <2>3 DEF new, out
  <2>5. new # old
    <3>1. \E c \in Contacts : out[c] # 0
      BY <1>6, <2>2
    <3> QED
      BY <3>1, <1>5, <1>6
  <2>6. ASSUME NEW c \in Contacts \ Abstract!WithNames(n, s) PROVE new[c] = old[c]
    <3>1. c \in Contacts /\ ~(c.name = n /\ c.secondName = s)
      BY DEF Abstract!WithNames, Abstract!WithName
    <3>2. Out(c) = {}
      BY <1>2, <3>1 DEF Out
    <3> QED
      BY <1>5, <1>6, <3>1, <3>2
  <2>7. reply' = "deleted" /\ shown' = out
    BY <1>4, <1>8
  <2> QED
    BY <1>5, <2>3, <2>4, <2>5, <2>6, <2>7 DEF Abstract!Delete
<1> QED
  BY <1>7, <1>8

\* A search shows the copies of those who have the name, and whether there are any.
Named(list, P, n) == {i \in P : list[i].name = n}

LEMMA Searching ==
  ASSUME NEW P, IsFiniteSet(P), NEW list, NEW n,
         \A i \in P : list[i].name = n => list[i] \in Contacts
  PROVE  /\ Count(list, Named(list, P, n))
              = [c \in Contacts |-> IF c.name = n THEN Cardinality(PlacesOf(list, P, c)) ELSE 0]
         /\ Named(list, P, n) = {} <=> Count(list, Named(list, P, n)) = Nobody
<1> USE DEF Named, PlacesOf
<1> DEFINE found == {i \in P : list[i].name = n}
           Out(c) == {i \in found : list[i] = c}
<1>1. Count(list, found) = [c \in Contacts |-> Cardinality(Out(c))]
  BY DEF Count
<1>2. ASSUME NEW c \in Contacts
      PROVE  Cardinality(Out(c)) = IF c.name = n THEN Cardinality({i \in P : list[i] = c}) ELSE 0
  <2>1. CASE c.name = n
    <3>1. Out(c) = {i \in P : list[i] = c}
      BY <2>1
    <3> QED
      BY <2>1, <3>1
  <2>2. CASE c.name # n
    <3>1. Out(c) = {}
      BY <2>2
    <3> QED
      BY <2>2, <3>1, FS_EmptySet
  <2> QED
    BY <2>1, <2>2
<1>3. ASSUME found = {} PROVE Count(list, found) = Nobody
  <2>1. \A c \in Contacts : Out(c) = {}
    BY <1>3
  <2> QED
    BY <1>1, <2>1, FS_EmptySet DEF Nobody
<1>4. ASSUME found # {} PROVE Count(list, found) # Nobody
  <2>1. PICK i \in found : TRUE
    BY <1>4
  <2>2. list[i] \in Contacts /\ i \in Out(list[i])
    BY <2>1
  <2>3. IsFiniteSet(Out(list[i]))
    BY FS_Subset
  <2>4. Cardinality(Out(list[i])) # 0
    BY <2>2, <2>3, FS_EmptySet
  <2> HIDE DEF Out, found
  <2> QED
    BY <1>1, <2>2, <2>4 DEF Nobody
<1>5. Count(list, found) = [c \in Contacts |-> IF c.name = n THEN Cardinality({i \in P : list[i] = c})
                                                            ELSE 0]
  BY <1>1, <1>2
<1> QED
  BY <1>3, <1>4, <1>5

LEMMA Task4Looks ==
  ASSUME BookInv, benign, benign' = benign, program = "task4", program' = program,
         \/ \E n \in Names : SearchAbonent(n)
         \/ PrintAbonents \/ task4_full \/ task4_empty
  PROVE  Abstract!Next
<1>1. TheBook' = TheBook
  BY DEF TheBook, Count, SearchAbonent, PrintAbonents, task4_full, task4_empty, task4Vars
<1>2. /\ TheBook = [c \in Contacts |-> Cardinality({i \in Slots : abonents[i] = c})]
      /\ Abstract!Size = abonentsCounter /\ abonentsCounter \in Nat
  BY Task4Book, UsedIsFinite DEF BookInv, CounterCounts
<1>3. abonents \in [Slots -> Contacts \cup {Free}]
  BY DEF BookInv, ListInv
<1>4. ASSUME NEW n \in Names, SearchAbonent(n) PROVE Abstract!Find(n)
  <2>1. n # "0" /\ IsFiniteSet(Slots)
    BY BookAssumption, FS_Interval, SizeType DEF Names, Slots
  <2> DEFINE found == Named(abonents, Slots, n)
  <2>2. \A i \in Slots : abonents[i].name = n => abonents[i] \in Contacts
    BY <1>3, <2>1 DEF Free
  <2>3. /\ reply' = IF found # {} THEN "found" ELSE "none"
        /\ shown' = Count(abonents, found)
    BY <1>4 DEF SearchAbonent, Shows, Named
  <2>4. /\ Count(abonents, found)
             = [c \in Contacts |-> IF c.name = n THEN Cardinality(PlacesOf(abonents, Slots, c)) ELSE 0]
        /\ found = {} <=> Count(abonents, found) = Nobody
    BY <2>1, <2>2, Searching
  <2> HIDE DEF found
  <2>5. shown' = Abstract!Matching(Abstract!WithName(n))
    BY <1>2, <2>3, <2>4 DEF Abstract!Matching, Abstract!WithName, PlacesOf
  <2>6. reply' = IF shown' = Nobody THEN "none" ELSE "found"
    BY <2>3, <2>4
  <2> QED
    BY <1>1, <2>5, <2>6, Told DEF Abstract!Find, Nobody
<1>5. ASSUME PrintAbonents PROVE Abstract!List
  <2>1. abonentsCounter # 0 /\ reply' = "all" /\ shown' = Count(abonents, Used)
    BY <1>5 DEF PrintAbonents, Shows
  <2>2. \A c \in Contacts : {i \in Used : abonents[i] = c} = {i \in Slots : abonents[i] = c}
    BY FreeIsNobody DEF Used, IsFree
  <2>3. shown' = TheBook
    BY <1>2, <2>1, <2>2 DEF Count
  <2>4. Abstract!Size > 0
    BY <1>2, <2>1
  <2> QED
    BY <1>1, <2>1, <2>3, <2>4 DEF Abstract!List
<1>6. ASSUME task4_full PROVE Abstract!Full
  <2>1. Abstract!Size = SIZE
    <3>1. Cardinality(Used) <= SIZE
      BY SlotsAreFinite, SizeType DEF Used, Slots
    <3>2. abonentsCounter >= SIZE /\ abonentsCounter = Cardinality(Used)
      BY <1>6 DEF task4_full, BookInv, CounterCounts
    <3> QED
      BY <1>2, <3>1, <3>2, SizeType
  <2> QED
    BY <1>1, <1>6, <2>1, Told DEF task4_full, Says, Abstract!Full
<1>7. ASSUME task4_empty PROVE Abstract!Empty
  BY <1>1, <1>2, <1>7, Told DEF task4_empty, Says, Abstract!Empty
<1>8. \A n \in Names : n \in Abstract!Names
  BY DEF Names, Abstract!Names
<1> QED
  BY <1>4, <1>5, <1>6, <1>7, <1>8 DEF Abstract!Next

\* One more place.
LEMMA PlaceAdded ==
  ASSUME NEW n \in Nat, NEW list, NEW list2, NEW d \in Contacts,
         \A i \in 1..n : list2[i] = list[i], list2[n + 1] = d,
         NEW c \in Contacts
  PROVE  Cardinality(PlacesOf(list2, 1..(n + 1), c))
         = Cardinality(PlacesOf(list, 1..n, c)) + IF c = d THEN 1 ELSE 0
<1> DEFINE old == PlacesOf(list, 1..n, c)
<1>1. IsFiniteSet(old) /\ Cardinality(old) \in Nat
  BY SlotsAreFinite DEF PlacesOf
<1>2. n + 1 \notin 1..n /\ 1..(n + 1) = 1..n \cup {n + 1}
  OBVIOUS
<1>3. CASE c = d
  <2>1. PlacesOf(list2, 1..(n + 1), c) = old \cup {n + 1} /\ n + 1 \notin old
    BY <1>2, <1>3 DEF PlacesOf
  <2> HIDE DEF old
  <2>2. Cardinality(old \cup {n + 1}) = Cardinality(old) + 1
    BY <1>1, <2>1, FS_AddElement
  <2> QED
    BY <1>3, <2>1, <2>2 DEF old
<1>4. CASE c # d
  <2>1. PlacesOf(list2, 1..(n + 1), c) = old
    BY <1>2, <1>4 DEF PlacesOf
  <2> HIDE DEF old
  <2> QED
    BY <1>1, <1>4, <2>1 DEF old
<1> QED
  BY <1>3, <1>4

LEMMA Task6Add ==
  ASSUME BookInv, benign, benign' = benign, program = "task6", program' = program,
         NEW d \in Typed, AddAbonentEnd(d)
  PROVE  Abstract!Add(d)
<1>1. d \in Contacts /\ size \in Nat /\ size \in 0..SIZE
  BY SizeType DEF Typed, BookInv, TypeOK
<1>2. size < SIZE /\ size' = size + 1 /\ reply' = "added" /\ shown' = Nobody
  BY DEF AddAbonentEnd, Says
<1>3. array' \in [1..size' -> Contacts] /\ size' \in 0..SIZE
  BY <1>1, <1>2, AddKeepsArray, SizeType DEF BookInv
<1>4. array' # Null
  BY <1>3, ArraysAreNotNull
<1>5. (\A i \in 1..size : array'[i] = array[i]) /\ array'[size + 1] = d
  <2> DEFINE list == IF array = Null THEN <<>> ELSE array
  <2>1. list \in [1..size -> Contacts] /\ (size # 0 => list = array)
    <3>1. CASE size = 0
      BY <3>1 DEF BookInv, ArrayInv
    <3>2. CASE size # 0
      <4>1. array \in [1..size -> Contacts]
        BY <3>2 DEF BookInv, ArrayInv
      <4> QED
        BY <1>1, <4>1, ArraysAreNotNull
    <3> QED
      BY <3>1, <3>2
  <2>2. array' = Append(Moved(list, size), d)
    BY DEF AddAbonentEnd
  <2> HIDE DEF list
  <2>3. Len(list) = size
    BY <1>1, <2>1
  <2> DEFINE moved == Moved(list, size)
  <2>4. moved \in [1..size -> Contacts] /\ \A i \in 1..size : moved[i] = list[i]
    BY <2>1, <2>3 DEF Moved
  <2>5. array' = Append(moved, d)
    BY <2>2
  <2> HIDE DEF moved
  <2>6. moved \in Seq(Contacts) /\ Len(moved) = size
    BY <1>1, <2>4
  <2>7. (\A i \in 1..size : Append(moved, d)[i] = moved[i]) /\ Append(moved, d)[size + 1] = d
    BY <1>1, <2>6
  <2>8. \A i \in 1..size : list[i] = array[i]
    BY <1>1, <2>1
  <2> QED
    BY <2>4, <2>5, <2>7, <2>8
<1>6. /\ TheBook = [c \in Contacts |-> Cardinality(PlacesOf(array, 1..size, c))]
      /\ \A c \in Contacts : TheBook[c] \in 0..SIZE
      /\ Abstract!Size = size
  BY Task6Book DEF PlacesOf
<1>7. TheBook' = [c \in Contacts |-> Cardinality(PlacesOf(array', 1..(size + 1), c))]
  BY <1>2, <1>4 DEF TheBook, Count, Places, PlacesOf
<1>8. TheBook' = [TheBook EXCEPT ![d] = @ + 1]
  <2> DEFINE old == [c \in Contacts |-> Cardinality(PlacesOf(array, 1..size, c))]
             new == [c \in Contacts |-> Cardinality(PlacesOf(array', 1..(size + 1), c))]
  <2>1. ASSUME NEW c \in Contacts PROVE new[c] = old[c] + IF c = d THEN 1 ELSE 0
    BY <1>1, <1>5, PlaceAdded
  <2>2. \A c \in Contacts : old[c] \in 0..SIZE
    BY <1>6
  <2>3. old = [c \in Contacts |-> old[c]] /\ new = [c \in Contacts |-> new[c]]
    OBVIOUS
  <2>4. TheBook = old /\ TheBook' = new
    BY <1>6, <1>7
  <2> HIDE DEF old, new
  <2>5. \A c \in Contacts : new[c] = [old EXCEPT ![d] = @ + 1][c]
    BY <1>1, <2>1, <2>2, <2>3
  <2> QED
    BY <2>3, <2>4, <2>5
<1> QED
  BY <1>2, <1>6, <1>8, Told DEF Abstract!Add

\* One place less: the places behind it are each other's neighbours.
LEMMA PlaceRemoved ==
  ASSUME NEW n \in Nat \ {0}, NEW list \in [1..n -> Contacts], NEW index \in 1..n,
         NEW c \in Contacts
  PROVE  Cardinality(PlacesOf(Without(list, index), 1..(n - 1), c))
         = Cardinality(PlacesOf(list, 1..n, c)) - IF c = list[index] THEN 1 ELSE 0
<1> DEFINE old == PlacesOf(list, 1..n, c)
           new == PlacesOf(Without(list, index), 1..(n - 1), c)
           next == [i \in new |-> IF i < index THEN i ELSE i + 1]
<1>1. IsFiniteSet(old) /\ Cardinality(old) \in Nat /\ IsFiniteSet(new)
  <2>1. n - 1 \in Nat
    OBVIOUS
  <2> QED
    BY <2>1, SlotsAreFinite DEF PlacesOf
<1>2. \A i : i \in new <=> i \in 1..(n - 1) /\ list[IF i < index THEN i ELSE i + 1] = c
  <2>1. Len(list) = n
    OBVIOUS
  <2> QED
    BY <2>1 DEF PlacesOf, Without
<1>3. \A i : i \in old \ {index} <=> i \in 1..n /\ list[i] = c /\ i # index
  BY DEF PlacesOf
<1> HIDE DEF old, new
<1>4. next \in [new -> old \ {index}]
  <2>1. ASSUME NEW i \in new PROVE (IF i < index THEN i ELSE i + 1) \in old \ {index}
    BY <1>2, <1>3
  <2> QED
    BY <2>1
<1>5. ASSUME NEW i \in new, NEW j \in new, next[i] = next[j] PROVE i = j
  <2>1. i \in Int /\ j \in Int /\ index \in Int
    BY <1>2
  <2>2. (IF i < index THEN i ELSE i + 1) = (IF j < index THEN j ELSE j + 1)
    BY <1>5
  <2> QED
    BY <2>1, <2>2
<1>6. ASSUME NEW j \in old \ {index} PROVE \E i \in new : next[i] = j
  <2>1. j \in 1..n /\ list[j] = c /\ j # index
    BY <1>3
  <2> DEFINE i == IF j < index THEN j ELSE j - 1
  <2>2. i \in 1..(n - 1) /\ (IF i < index THEN i ELSE i + 1) = j
    BY <2>1
  <2> HIDE DEF i
  <2>3. i \in new
    BY <1>2, <2>1, <2>2
  <2> QED
    BY <2>2, <2>3
<1> HIDE DEF next
<1>7. next \in Bijection(new, old \ {index})
  BY <1>4, <1>5, <1>6, Fun_IsBij
<1>8. ExistsBijection(new, old \ {index})
  BY <1>7 DEF ExistsBijection
<1>9. Cardinality(old \ {index}) = Cardinality(new)
  BY <1>1, <1>8, FS_Bijection
<1>10. Cardinality(old \ {index}) = IF index \in old THEN Cardinality(old) - 1 ELSE Cardinality(old)
  BY <1>1, FS_RemoveElement
<1>11. index \in old <=> c = list[index]
  BY DEF old, PlacesOf
<1>12. Cardinality(new) = Cardinality(old) - IF c = list[index] THEN 1 ELSE 0
  BY <1>1, <1>9, <1>10, <1>11
<1> QED
  BY <1>12 DEF old, new

\* What is shown of one place.
LEMMA OneShown ==
  ASSUME NEW list, NEW i
  PROVE  Count(list, {i}) = [c \in Contacts |-> IF c = list[i] THEN 1 ELSE 0]
<1>1. ASSUME NEW c \in Contacts
      PROVE  Cardinality({j \in {i} : list[j] = c}) = IF c = list[i] THEN 1 ELSE 0
  <2>1. CASE c = list[i]
    <3>1. {j \in {i} : list[j] = c} = {i}
      BY <2>1
    <3> QED
      BY <2>1, <3>1, FS_Singleton
  <2>2. CASE c # list[i]
    <3>1. {j \in {i} : list[j] = c} = {}
      BY <2>2
    <3> QED
      BY <2>2, <3>1, FS_EmptySet
  <2> QED
    BY <2>1, <2>2
<1> QED
  BY <1>1 DEF Count

LEMMA Task6Delete ==
  ASSUME BookInv, benign, benign' = benign, program = "task6", program' = program,
         NEW i \in Places, DeleteAbonentAt(i)
  PROVE  \E n \in Abstract!Names, s \in Abstract!SecondNames : Abstract!Delete(n, s)
<1> DEFINE d == array[i]
           old == [c \in Contacts |-> Cardinality(PlacesOf(array, 1..size, c))]
           new == [c \in Contacts |-> Cardinality(PlacesOf(array', 1..(size - 1), c))]
<1>1. size \in Nat \ {0} /\ i \in 1..size
  <2>1. size \in Nat /\ i \in 1..size
    BY SizeType DEF BookInv, TypeOK, Places
  <2> QED
    BY <2>1
<1>2. array \in [1..size -> Contacts] /\ d \in Contacts
  BY <1>1 DEF BookInv, ArrayInv
<1>3. /\ size' = size - 1
      /\ array' = IF size' = 0 THEN Null ELSE Without(array, i)
      /\ reply' = "deleted" /\ shown' = Count(array, {i})
  BY DEF DeleteAbonentAt, Shows
<1>4. IF size' = 0 THEN array' = Null ELSE array' \in [1..size' -> Contacts]
  BY DeletionKeepsArray DEF BookInv
<1>5. TheBook' = new
  <2>1. CASE size' = 0
    <3>1. TheBook' = [c \in Contacts |-> 0]
      BY <1>3, <2>1 DEF TheBook, Nobody
    <3>2. \A c \in Contacts : PlacesOf(array', 1..(size - 1), c) = {}
      BY <1>3, <2>1 DEF PlacesOf
    <3> QED
      BY <3>1, <3>2, FS_EmptySet
  <2>2. CASE size' # 0
    <3>1. size' \in 0..SIZE
      BY <1>1, <1>3, SizeType DEF BookInv, TypeOK
    <3>2. array' # Null
      BY <1>4, <2>2, <3>1, ArraysAreNotNull
    <3> QED
      BY <1>3, <3>2 DEF TheBook, Count, Places, PlacesOf
  <2> QED
    BY <2>1, <2>2
<1>6. TheBook = old /\ \A c \in Contacts : old[c] \in 0..SIZE
  BY Task6Book DEF PlacesOf
<1>7. ASSUME NEW c \in Contacts PROVE new[c] = old[c] - IF c = d THEN 1 ELSE 0
  <2>1. CASE size' = 0
    <3>1. PlacesOf(array', 1..(size - 1), c) = PlacesOf(Without(array, i), 1..(size - 1), c)
      BY <1>1, <1>3, <2>1 DEF PlacesOf
    <3> QED
      BY <1>1, <1>2, <3>1, PlaceRemoved
  <2>2. CASE size' # 0
    BY <1>1, <1>2, <1>3, <2>2, PlaceRemoved
  <2> QED
    BY <2>1, <2>2
<1>8. old[d] # 0
  <2>1. i \in PlacesOf(array, 1..size, d) /\ IsFiniteSet(PlacesOf(array, 1..size, d))
    BY <1>1, <1>2, SlotsAreFinite DEF PlacesOf
  <2>2. Cardinality(PlacesOf(array, 1..size, d)) # 0
    BY <2>1, FS_EmptySet
  <2> QED
    BY <1>2, <2>2
<1>9. shown' = [c \in Contacts |-> IF c = d THEN 1 ELSE 0]
  BY <1>3, OneShown
<1>10. new = [c \in Contacts |-> new[c]]
  OBVIOUS
<1> HIDE DEF old, new, d
<1>11. ASSUME NEW c \in Contacts
       PROVE  /\ new[c] \in 0..SIZE /\ new[c] <= old[c]
              /\ old[c] - new[c] = IF c = d THEN 1 ELSE 0
              /\ c # d => new[c] = old[c]
              /\ c = d => new[c] # old[c]
  BY <1>6, <1>7, <1>8, SizeType
<1>12. new \in [Contacts -> 0..SIZE] /\ new # old
  BY <1>2, <1>10, <1>11
<1>13. shown' = [c \in Contacts |-> old[c] - new[c]]
  BY <1>9, <1>11
<1>14. d \in Abstract!WithNames(d.name, d.secondName)
  BY <1>2 DEF Abstract!WithNames, Abstract!WithName
<1>15. Abstract!Delete(d.name, d.secondName)
  BY <1>3, <1>5, <1>6, <1>11, <1>12, <1>13, <1>14 DEF Abstract!Delete
<1>16. d.name \in Abstract!Names /\ d.secondName \in Abstract!SecondNames
  BY <1>2 DEF Abstract!Names, Abstract!SecondNames
<1> QED
  BY <1>15, <1>16

LEMMA Task6Looks ==
  ASSUME BookInv, benign, benign' = benign, program = "task6", program' = program,
         \/ \E i \in Places : Refused(i)
         \/ \E n \in Names : FindAbonentsByName(n)
         \/ PrintAllAbonents \/ task6_full \/ task6_empty
  PROVE  Abstract!Next
<1>1. TheBook' = TheBook
  BY DEF TheBook, Count, Places, Refused, FindAbonentsByName, PrintAllAbonents, task6_full,
         task6_empty, task6Vars
<1>2. /\ TheBook = [c \in Contacts |-> Cardinality(PlacesOf(array, 1..size, c))]
      /\ \A c \in Contacts : TheBook[c] \in 0..SIZE
      /\ Abstract!Size = size
  BY Task6Book DEF PlacesOf
<1>3. size \in Nat /\ size <= SIZE /\ (size # 0 => array \in [1..size -> Contacts])
  BY SizeType DEF BookInv, TypeOK, ArrayInv
<1>4. ASSUME NEW i \in Places, Refused(i) PROVE \E c \in Contacts : Abstract!Keep(c)
  <2>1. i \in 1..size /\ size # 0
    BY <1>3 DEF Places
  <2>2. PICK d \in Contacts : d = array[i]
    BY <1>3, <2>1
  <2>3. TheBook[d] > 0
    <3>1. i \in PlacesOf(array, 1..size, d) /\ IsFiniteSet(PlacesOf(array, 1..size, d))
      BY <1>3, <2>1, <2>2, SlotsAreFinite DEF PlacesOf
    <3>2. Cardinality(PlacesOf(array, 1..size, d)) # 0
      BY <3>1, FS_EmptySet
    <3>3. TheBook[d] = Cardinality(PlacesOf(array, 1..size, d)) /\ TheBook[d] \in 0..SIZE
      BY <1>2
    <3> QED
      BY <3>2, <3>3, SizeType
  <2>4. reply' = "kept" /\ shown' = [c \in Contacts |-> IF c = d THEN 1 ELSE 0]
    BY <1>4, <2>2, OneShown DEF Refused, Shows
  <2>5. shown' = [Abstract!Nobody EXCEPT ![d] = 1]
    BY <2>4, Told
  <2> QED
    BY <1>1, <2>3, <2>4, <2>5 DEF Abstract!Keep
<1>5. ASSUME NEW n \in Names, FindAbonentsByName(n) PROVE Abstract!Find(n)
  <2>1. size # 0 /\ IsFiniteSet(1..size)
    BY <1>3, <1>5, FS_Interval DEF FindAbonentsByName
  <2>2. \A i \in 1..size : array[i] \in Contacts
    BY <1>3, <2>1
  <2> DEFINE found == Named(array, 1..size, n)
  <2>3. {i \in Places : array[i] = Garbage} = {}
    BY <2>2, BookAssumption DEF Places
  <2>4. reply' = (IF found = {} THEN "none" ELSE "found") /\ shown' = Count(array, found)
    BY <1>5, <2>3 DEF FindAbonentsByName, Shows, Places, Named
  <2>5. /\ Count(array, found)
             = [c \in Contacts |-> IF c.name = n THEN Cardinality(PlacesOf(array, 1..size, c)) ELSE 0]
        /\ found = {} <=> Count(array, found) = Nobody
    <3>1. \A i \in 1..size : array[i].name = n => array[i] \in Contacts
      BY <2>2
    <3>2. ASSUME NEW P, P = 1..size
          PROVE  /\ Count(array, Named(array, P, n))
                      = [c \in Contacts |->
                           IF c.name = n THEN Cardinality(PlacesOf(array, P, c)) ELSE 0]
                 /\ Named(array, P, n) = {} <=> Count(array, Named(array, P, n)) = Nobody
      <4>1. IsFiniteSet(P) /\ \A i \in P : array[i].name = n => array[i] \in Contacts
        BY <2>1, <3>1, <3>2
      <4> QED
        BY ONLY <4>1, Searching
    <3> QED
      BY <3>2
  <2> HIDE DEF found
  <2>6. shown' = Abstract!Matching(Abstract!WithName(n))
    BY <1>2, <2>4, <2>5 DEF Abstract!Matching, Abstract!WithName
  <2>7. reply' = IF shown' = Nobody THEN "none" ELSE "found"
    BY <2>4, <2>5
  <2> QED
    BY <1>1, <2>6, <2>7, Told DEF Abstract!Find, Nobody
<1>6. ASSUME PrintAllAbonents PROVE Abstract!List
  <2>1. size > 0 /\ reply' = "all" /\ shown' = Count(array, 1..size)
    BY <1>6 DEF PrintAllAbonents, Shows, Places
  <2>2. shown' = TheBook
    BY <1>2, <2>1 DEF Count, PlacesOf
  <2> QED
    BY <1>1, <1>2, <2>1, <2>2 DEF Abstract!List
<1>7. ASSUME task6_full PROVE Abstract!Full
  <2>1. size = SIZE
    BY <1>3, <1>7, SizeType DEF task6_full
  <2> QED
    BY <1>1, <1>2, <1>7, <2>1, Told DEF task6_full, Says, Abstract!Full
<1>8. ASSUME task6_empty PROVE Abstract!Empty
  BY <1>1, <1>2, <1>8, Told DEF task6_empty, Says, Abstract!Empty
<1>9. \A n \in Names : n \in Abstract!Names
  BY DEF Names, Abstract!Names
<1> QED
  BY <1>4, <1>5, <1>6, <1>7, <1>8, <1>9 DEF Abstract!Next

LEMMA BookStep ==
  ASSUME BookInv, [Next]_vars
  PROVE  [Abstract!Next]_Abstract!vars
<1> USE DEF Abstract!vars
<1>1. benign' = benign /\ program' = program
  BY SettingsKept
<1>2. CASE ~benign
  BY <1>1, <1>2 DEF TheBook
<1>3. CASE Quit \/ UNCHANGED vars
  BY <1>1, <1>3 DEF TheBook, Count, Places, Nobody, Quit, task4Vars, task6Vars, vars
<1>4. CASE benign /\ program = "task4" /\ task4_main
  <2>1. ASSUME NEW c \in Typed, AddAbonent(c) PROVE Abstract!Next
    BY <1>1, <1>4, <2>1, Task4Add DEF Typed, Abstract!Next
  <2>2. ASSUME NEW n \in Names, NEW s \in SecondNames, DeleteAbonent(n, s) PROVE Abstract!Next
    <3>1. n \in Abstract!Names /\ s \in Abstract!SecondNames
      BY <1>4 DEF Names, SecondNames, Abstract!Names, Abstract!SecondNames
    <3> QED
      BY <1>1, <1>4, <2>2, <3>1, Task4Delete DEF Abstract!Next
  <2> QED
    BY <1>1, <1>4, <2>1, <2>2, Task4Looks DEF task4_main
<1>5. CASE benign /\ program = "task6" /\ task6_main
  <2>1. ASSUME NEW c \in Typed, AddAbonentEnd(c) PROVE Abstract!Next
    BY <1>1, <1>5, <2>1, Task6Add DEF Typed, Abstract!Next
  <2>2. ASSUME NEW i \in Places, DeleteAbonentAt(i) PROVE Abstract!Next
    BY <1>1, <1>5, <2>2, Task6Delete DEF Abstract!Next
  <2>3. ~NullPointer
    BY <1>5, ArrayInvHolds DEF BookInv, ArrayHoldsTheBook, NullPointer
  <2> QED
    BY <1>1, <1>5, <2>1, <2>2, <2>3, Task6Looks DEF task6_main
<1> QED
  BY <1>2, <1>3, <1>4, <1>5 DEF Next

LEMMA BookStart == Init => Abstract!Init
<1> SUFFICES ASSUME Init PROVE Abstract!Init
  OBVIOUS
<1>1. /\ program \in {"task4", "task6"} /\ benign \in BOOLEAN
      /\ reply = "" /\ shown = Nobody
      /\ abonents = [i \in Slots |-> Free]
      /\ array = Null
  BY DEF Init
<1>2. \A c \in Contacts : {i \in Slots : abonents[i] = c} = {}
  BY <1>1, FreeIsNobody
<1>3. TheBook = [c \in Contacts |-> 0]
  BY <1>1, <1>2, FS_EmptySet DEF TheBook, Count, Nobody
<1> QED
  BY <1>1, <1>3 DEF Abstract!Init, Abstract!Nobody, Nobody

\* As long as nobody types "0" and realloc succeeds, books of any size with any
\* contacts are phone books: the counter of task4 and the size
\* of task6 are the number of copies kept, an addition adds one, a deletion takes what it
\* shows, and a search, a list, "full" and "empty" tell what is there.
THEOREM BothArePhoneBooks == Spec => IsAPhoneBook
<1>1. BookInv /\ [Next]_vars => [Abstract!Next]_Abstract!vars
  BY BookStep
<1> QED
  BY <1>1, BookInvInit, BookInvStep, BookStart, PTL DEF Spec, IsAPhoneBook, Abstract!Spec
=============================================================================
