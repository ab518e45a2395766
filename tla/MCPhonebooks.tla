------------------------------ MODULE MCPhonebooks ------------------------------
(* Two contacts of the same two names and one of another name; two called *)
(* "0", of which one has a second name.                                   *)
EXTENDS Phonebooks

MCContacts ==
  {[name |-> "Ivan", secondName |-> "Petrov", telephone |-> "1"],
   [name |-> "Ivan", secondName |-> "Petrov", telephone |-> "2"],
   [name |-> "Oleg", secondName |-> "Petrov", telephone |-> "1"]}
MCZeroContacts ==
  {[name |-> "0", secondName |-> "0", telephone |-> "1"],
   [name |-> "0", secondName |-> "Petrov", telephone |-> "1"]}

MCMinCounter == -5
=============================================================================
