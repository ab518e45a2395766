------------------------------- MODULE Phonebooks -------------------------------
(***************************************************************************)
(* The two phone books: Task4 keeps SIZE slots, a slot being free when the *)
(* name in it is "0", and counts the contacts; Task6 keeps an array that   *)
(* realloc grows and shrinks.  An operation of the menu, with all its      *)
(* input, is one step.                                                     *)
(*                                                                         *)
(* Slip_X is the definition X with a plausible programming slip.           *)
(***************************************************************************)
EXTENDS Integers, Sequences, FiniteSets

CONSTANTS
  Contacts,    \* what the user types: records of name, secondName, telephone
  ZeroContacts,\* the same, the name being "0"
  SIZE,        \* the slots of task4, MAX_LIST_SIZE of task6
  Null,        \* the null pointer
  MinCounter   \* bound: how low the counter of task4 is driven

Free == [name |-> "0", secondName |-> "0", telephone |-> "0"]
Slots == 1..SIZE

\* Uninitialised memory is no contact.
Garbage == [name |-> "?", secondName |-> "?", telephone |-> "?"]

ASSUME BookAssumption ==
  /\ SIZE \in Nat \ {0} /\ MinCounter \in Int
  /\ \A c \in Contacts : c.name # "0"
  /\ \A c \in ZeroContacts : c.name = "0"
  /\ Garbage \notin Contacts
  /\ \A n \in 0..SIZE : Null \notin [1..n -> Contacts \cup ZeroContacts \cup {Garbage}]

VARIABLES
  program,  \* "task4" or "task6"
  benign,   \* nobody types "0", be it to add, to search or to delete, and realloc
            \* always succeeds
  running,  \* "yes", "no", or "crashed"
  reply, shown,
  abonents, abonentsCounter,  \* task4
  array, size                 \* task6

settings == <<program, benign>>
task4Vars == <<abonents, abonentsCounter>>
task6Vars == <<array, size>>
vars == <<settings, running, reply, shown, task4Vars, task6Vars>>

Nobody == [c \in Contacts |-> 0]
\* How many times each contact is at the places P of the list.
Count(list, P) == [c \in Contacts |-> Cardinality({i \in P : list[i] = c})]

Says(text) == reply' = text /\ shown' = Nobody /\ UNCHANGED <<settings, running>>
Shows(text, list, P) ==
  /\ reply' = text
  /\ shown' = Count(list, P)
  /\ UNCHANGED <<settings, running>>

Names == {c.name : c \in Contacts} \cup (IF benign THEN {} ELSE {"0"})
SecondNames == {c.secondName : c \in Contacts} \cup (IF benign THEN {} ELSE {"0"})
Typed == Contacts \cup (IF benign THEN {} ELSE ZeroContacts)

-----------------------------------------------------------------------------
(* Task4.                                                                  *)

IsFree(i) == abonents[i].name = "0"
Used == {i \in Slots : ~IsFree(i)}

\* A slip: the counter is taken for the number of the last slot in use.
Slip_FirstFree == abonentsCounter + 1

FirstFree == CHOOSE i \in Slots \ Used : \A j \in Slots \ Used : i <= j

\* Without a free slot nothing happens, and nothing is said.
AddAbonent(c) ==
  /\ abonentsCounter < SIZE
  /\ IF Used # Slots
     THEN /\ abonents' = [abonents EXCEPT ![FirstFree] = c]
          /\ abonentsCounter' = abonentsCounter + 1
          /\ Says("added")
     ELSE UNCHANGED task4Vars /\ Says("")

Found(name, second) ==
  {i \in Slots : abonents[i].name = name /\ abonents[i].secondName = second}

\* A slip: the counter goes down once, however many are deleted.
Slip_DeleteAbonent(name, second) ==
  LET found == Found(name, second) IN
  /\ abonentsCounter # 0
  /\ abonents' = [i \in Slots |-> IF i \in found THEN Free ELSE abonents[i]]
  /\ abonentsCounter' = abonentsCounter - (IF found # {} THEN 1 ELSE 0)
  /\ Shows(IF found # {} THEN "deleted" ELSE "none", abonents, found)

\* All who have the two names are shown and deleted.
DeleteAbonent(name, second) ==
  LET found == Found(name, second) IN
  /\ abonentsCounter # 0
  /\ abonentsCounter - Cardinality(found) >= MinCounter
  /\ abonents' = [i \in Slots |-> IF i \in found THEN Free ELSE abonents[i]]
  /\ abonentsCounter' = abonentsCounter - Cardinality(found)
  /\ Shows(IF found # {} THEN "deleted" ELSE "none", abonents, found)

SearchAbonent(name) ==
  LET found == {i \in Slots : abonents[i].name = name} IN
  /\ abonentsCounter # 0
  /\ Shows(IF found # {} THEN "found" ELSE "none", abonents, found)
  /\ UNCHANGED task4Vars

PrintAbonents ==
  abonentsCounter # 0 /\ Shows("all", abonents, Used) /\ UNCHANGED task4Vars

task4_full == abonentsCounter >= SIZE /\ Says("full") /\ UNCHANGED task4Vars
task4_empty == abonentsCounter = 0 /\ Says("empty") /\ UNCHANGED task4Vars

task4_main ==
  \/ \E c \in Typed : AddAbonent(c)
  \/ \E n \in Names : SearchAbonent(n)
  \/ \E n \in Names, s \in SecondNames : DeleteAbonent(n, s)
  \/ PrintAbonents \/ task4_full \/ task4_empty

-----------------------------------------------------------------------------
(* Task6.                                                                  *)

Places == 1..size

\* A slip: malloc in the place of realloc.
Slip_Moved(list, n) == [i \in 1..n |-> Garbage]

Moved(list, n) == [i \in 1..n |-> IF i <= Len(list) THEN list[i] ELSE Garbage]

\* A slip: the limit is tested one too late.
Slip_AddAbonentEnd(c) ==
  /\ size <= SIZE
  /\ array' = Append(Moved(IF array = Null THEN <<>> ELSE array, size), c)
  /\ size' = size + 1
  /\ Says("added")

\* A realloc that fails, which it may unless benign, leaves the null pointer and
\* the size; grown from the null pointer, the array is uninitialised.
AddAbonentEnd(c) ==
  /\ size < SIZE
  /\ \/ /\ array' = Append(Moved(IF array = Null THEN <<>> ELSE array, size), c)
        /\ size' = size + 1
        /\ Says("added")
     \/ ~benign /\ array' = Null /\ UNCHANGED size /\ Says("not added")

\* A slip: the shift begins one place too late.
Slip_Without(list, index) ==
  [i \in 1..(Len(list) - 1) |-> list[IF i <= index THEN i ELSE i + 1]]

\* The contacts after the deleted one move down, from the first to the last.
Without(list, index) == [i \in 1..(Len(list) - 1) |-> list[IF i < index THEN i ELSE i + 1]]

DeleteAbonentAt(index) ==
  /\ array # Null
  /\ size' = size - 1
  /\ \/ /\ array' = IF size' = 0 THEN Null ELSE Without(array, index)
        /\ Shows("deleted", array, {index})
     \/ ~benign /\ size' > 0 /\ array' = Null /\ Shows("not deleted", array, {index})

\* The user is shown the contact and answers n.
Refused(index) == array # Null /\ Shows("kept", array, {index}) /\ UNCHANGED task6Vars

\* Garbage may or may not have the name; it is no contact.
FindAbonentsByName(name) ==
  LET found == {i \in Places : array[i].name = name}
      maybe == {i \in Places : array[i] = Garbage}
  IN
  /\ array # Null /\ size > 0
  /\ \E text \in {"found", "none"} :
       /\ found # {} => text = "found"
       /\ found \cup maybe = {} => text = "none"
       /\ Shows(text, array, found)
  /\ UNCHANGED task6Vars

PrintAllAbonents ==
  array # Null /\ size > 0 /\ Shows("all", array, Places) /\ UNCHANGED task6Vars

task6_full == size >= SIZE /\ Says("full") /\ UNCHANGED task6Vars
task6_empty == size = 0 /\ Says("empty") /\ UNCHANGED task6Vars

\* Whatever reads a contact through the null pointer.
NullPointer ==
  /\ array = Null /\ size > 0
  /\ running' = "crashed"
  /\ UNCHANGED <<settings, reply, shown, task6Vars>>

task6_main ==
  \/ \E c \in Typed : AddAbonentEnd(c)
  \/ \E i \in Places : DeleteAbonentAt(i) \/ Refused(i)
  \/ \E n \in Names : FindAbonentsByName(n)
  \/ PrintAllAbonents \/ task6_full \/ task6_empty \/ NullPointer

-----------------------------------------------------------------------------
Quit == running' = "no" /\ UNCHANGED <<settings, reply, shown, task4Vars, task6Vars>>

Init ==
  /\ program \in {"task4", "task6"} /\ benign \in BOOLEAN
  /\ running = "yes" /\ reply = "" /\ shown = Nobody
  /\ abonents = [i \in Slots |-> Free] /\ abonentsCounter = 0
  /\ array = Null /\ size = 0

Next ==
  /\ running = "yes"
  /\ \/ program = "task4" /\ task4_main /\ UNCHANGED task6Vars
     \/ program = "task6" /\ task6_main /\ UNCHANGED task4Vars
     \/ Quit

Spec == Init /\ [][Next]_vars

-----------------------------------------------------------------------------
(* Properties.                                                             *)

\* Every variable keeps its type; no size leaves the arrays.
TypeOK ==
  /\ program \in {"task4", "task6"} /\ benign \in BOOLEAN
  /\ running \in {"yes", "no", "crashed"}
  /\ shown \in [Contacts -> 0..SIZE]
  /\ abonents \in [Slots -> Contacts \cup ZeroContacts \cup {Free}]
  /\ abonentsCounter \in Int
  /\ size \in 0..SIZE
  /\ array = Null \/ array \in [1..size -> Contacts \cup ZeroContacts \cup {Garbage}]

\* As long as nobody types "0", as the name of a contact or of one to delete, the
\* counter of task4, which decides whether the book is full or empty, is the number
\* of slots in use, although one deletion may free several (Task4/task4.c:125, :172).
CounterCounts == benign => abonentsCounter = Cardinality(Used)

\* The slots filled one after the other keep what was typed even if the counter has
\* drifted: a free slot is taken only where the name is "0", so a contact leaves its
\* slot only by a deletion.
OnlyDeletionRemoves ==
  [][\A i \in Slots :
       abonents[i] \in Contacts /\ abonents'[i] # abonents[i] =>
         reply' = "deleted" /\ abonents'[i] = Free]_vars

\* As long as realloc succeeds (and nobody types "0", which task6 does not mind), the
\* array of task6 is null exactly when the book is empty, and nothing crashes.
ArrayHoldsTheBook ==
  /\ benign => (array = Null <=> size = 0) /\ running # "crashed"
  /\ benign /\ array # Null => \A i \in Places : array[i] \in Contacts

\* What both books implement, when nobody types "0" and memory suffices.
TheBook ==
  IF ~benign THEN Nobody
  ELSE IF program = "task4" THEN Count(abonents, Slots)
  ELSE IF array = Null THEN Nobody ELSE Count(array, Places)

Abstract == INSTANCE PhoneBook WITH
  Limit <- SIZE, book <- TheBook,
  reply <- IF benign THEN reply ELSE "",
  shown <- IF benign THEN shown ELSE Nobody

\* Each operation of either menu is the operation of a phone book: nothing is lost,
\* kept or shown wrongly, and "full" and "empty" are said only when they are true.
IsAPhoneBook == Abstract!Spec
=============================================================================
