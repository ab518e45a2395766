------------------------------- MODULE ChatRoom -------------------------------
(***************************************************************************)
(* What a chat room promises, whatever carries its messages: a session has *)
(* one log that only grows, only a member of the room adds to it, and each *)
(* participant is shown a prefix of the log of the session it came to, a   *)
(* prefix that only grows.  A room that closes may open again with a new   *)
(* session; what earlier participants were shown is not taken back.        *)
(***************************************************************************)
EXTENDS Integers, Sequences, SequencesExt

CONSTANTS Clients, Messages, MaxSessions

VARIABLES open,     \* is the room open
          session,  \* number of the current (or last) session, 0 before any
          members,  \* the clients in the room
          log,      \* log[s]: the messages of session s, oldest first
          attends,  \* attends[c]: the session client c came to, 0 for none
          shown     \* shown[c]: the messages client c sees

vars == <<open, session, members, log, attends, shown>>

Init ==
  /\ open = FALSE
  /\ session = 0
  /\ members = {}
  /\ log = [s \in 0..MaxSessions |-> <<>>]
  /\ attends = [c \in Clients |-> 0]
  /\ shown = [c \in Clients |-> <<>>]

Open ==
  /\ ~open
  /\ session < MaxSessions
  /\ open' = TRUE
  /\ session' = session + 1
  /\ members' = {}
  /\ UNCHANGED <<log, attends, shown>>

\* The room closes, in order or by accident; nobody is told.
Close ==
  /\ open
  /\ open' = FALSE
  /\ UNCHANGED <<session, members, log, attends, shown>>

\* A client finds the room of the current session.
Enter(c) ==
  /\ session > 0
  /\ attends[c] = 0
  /\ attends' = [attends EXCEPT ![c] = session]
  /\ UNCHANGED <<open, session, members, log, shown>>

Join(c) ==
  /\ open
  /\ attends[c] = session
  /\ c \notin members
  /\ members' = members \cup {c}
  /\ UNCHANGED <<open, session, log, attends, shown>>

Leave(c) ==
  /\ open
  /\ c \in members
  /\ members' = members \ {c}
  /\ UNCHANGED <<open, session, log, attends, shown>>

Post(c) ==
  /\ open
  /\ c \in members
  /\ \E m \in Messages :
       /\ m.from = c
       /\ log' = [log EXCEPT ![session] = Append(@, m)]
  /\ UNCHANGED <<open, session, members, attends, shown>>

\* A client is shown more of the log of its session.
Show(c) ==
  /\ \E n \in Len(shown[c]) + 1 .. Len(log[attends[c]]) :
       shown' = [shown EXCEPT ![c] = SubSeq(log[attends[c]], 1, n)]
  /\ UNCHANGED <<open, session, members, log, attends>>

Next ==
  \/ Open
  \/ Close
  \/ \E c \in Clients :
       Enter(c) \/ Join(c) \/ Leave(c) \/ Post(c) \/ Show(c)

Spec == Init /\ [][Next]_vars
=============================================================================
