CONSTANTS
  Contacts <- MCContacts
  ZeroContacts <- MCZeroContacts
  SIZE = 3
  MinCounter <- MCMinCounter
  Null = Null
SPECIFICATION Spec
INVARIANTS TypeOK CounterCounts ArrayHoldsTheBook
PROPERTIES OnlyDeletionRemoves IsAPhoneBook
CHECK_DEADLOCK FALSE
