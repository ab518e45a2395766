------------------------------- MODULE PhoneBook -------------------------------
(***************************************************************************)
(* What a phone book promises: it holds up to Limit contacts, the same one   *)
(* perhaps more than once; what was added stays until it is deleted; what  *)
(* is shown, and what is said about the book, is true.                     *)
(***************************************************************************)
EXTENDS Naturals, FiniteSets

CONSTANTS Contacts, Limit

VARIABLES
  book,   \* how many times it holds each contact
  reply,  \* what was said last
  shown   \* and how many times each contact was shown

vars == <<book, reply, shown>>

Nobody == [c \in Contacts |-> 0]

\* Each contact with the numbers of its copies.
Copies == {copy \in Contacts \X (1..Limit) : copy[2] <= book[copy[1]]}
Size == Cardinality(Copies)


Matching(match) == [c \in Contacts |-> IF c \in match THEN book[c] ELSE 0]
WithName(name) == {c \in Contacts : c.name = name}
WithNames(name, second) == {c \in WithName(name) : c.secondName = second}

Says(text) == reply' = text /\ shown' = Nobody

Init == book = Nobody /\ reply = "" /\ shown = Nobody

Add(c) ==
  /\ Size < Limit
  /\ book' = [book EXCEPT ![c] = @ + 1]
  /\ Says("added")

Full == Size = Limit /\ Says("full") /\ UNCHANGED book
Empty == Size = 0 /\ Says("empty") /\ UNCHANGED book

\* One contact or several with the same two names, which are shown.
Delete(name, second) ==
  /\ book' \in [Contacts -> 0..Limit]
  /\ \A c \in Contacts : book'[c] <= book[c]
  /\ book' # book
  /\ \A c \in Contacts \ WithNames(name, second) : book'[c] = book[c]
  /\ reply' = "deleted" /\ shown' = [c \in Contacts |-> book[c] - book'[c]]

\* The contact that would be deleted is shown.
Keep(c) ==
  /\ book[c] > 0
  /\ reply' = "kept" /\ shown' = [Nobody EXCEPT ![c] = 1]
  /\ UNCHANGED book

Find(name) ==
  /\ shown' = Matching(WithName(name))
  /\ reply' = (IF shown' = Nobody THEN "none" ELSE "found")
  /\ UNCHANGED book

NothingToDelete(name, second) ==
  /\ Matching(WithNames(name, second)) = Nobody
  /\ Says("none")
  /\ UNCHANGED book

List == Size > 0 /\ shown' = book /\ reply' = "all" /\ UNCHANGED book

Names == {c.name : c \in Contacts} \cup {"0"}
SecondNames == {c.secondName : c \in Contacts} \cup {"0"}

Next ==
  \/ \E c \in Contacts : Add(c) \/ Keep(c)
  \/ Full \/ Empty \/ List
  \/ \E n \in Names : Find(n)
  \/ \E n \in Names, s \in SecondNames : Delete(n, s) \/ NothingToDelete(n, s)

Spec == Init /\ [][Next]_vars
=============================================================================
