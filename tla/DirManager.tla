------------------------------ MODULE DirManager ------------------------------
(***************************************************************************)
(* The file managers of Task9 (task9_2), Task10 (task10_3) and Task12      *)
(* (task12_3).  Two windows have a path and a cursor each and share one    *)
(* list of files; the list is read again when a window gets the focus and  *)
(* after Enter.  task9_2 opens whatever is under the cursor as a           *)
(* directory, task10_3 also runs files, task12_3 also runs a shell command *)
(* and puts the lines it prints into the list.  Other processes, the files *)
(* that are run and the commands may remove what is listed.                *)
(*                                                                         *)
(* A name is the node of the file tree it stands for.  A path is the       *)
(* directory it leads to, the directories it goes through, ".." not        *)
(* undoing any, and how many names it is made of: names are only ever      *)
(* appended, and the array holds PATH_SIZE of them.                        *)
(*                                                                         *)
(* Slip_X is the definition X with a plausible programming slip.           *)
(***************************************************************************)
EXTENDS Integers, Sequences, FiniteSets, SequencesExt

CONSTANTS
  Dirs, Files, Dangling,  \* the nodes; a dangling link is one that stat refuses
  LockedSets,             \* which directories may be closed to the user
  Parent,                 \* the directory of each node; Home's may be Home itself
  Home,                   \* /home
  DotDot, Text,           \* the name "..", and a line that names nothing
  Removable,              \* the nodes that may disappear
  OutputSizes,            \* how many lines the output of a command may have
  MAX_FILES, PATH_SIZE

Nodes == Dirs \cup Files \cup Dangling
Names == Nodes \cup {DotDot, Text}
Programs == {"task9_2", "task10_3", "task12_3"}
Windows == {1, 2}

ASSUME DirAssumption ==
  /\ IsFiniteSet(Nodes) /\ Home \in Dirs
  /\ Dirs \cap (Files \cup Dangling) = {} /\ Files \cap Dangling = {}
  /\ DotDot \notin Nodes /\ Text \notin Nodes /\ DotDot # Text
  /\ Parent \in [Nodes -> Dirs]
  /\ LockedSets \subseteq SUBSET Dirs /\ Removable \subseteq Nodes
  /\ OutputSizes \subseteq Nat
  /\ MAX_FILES \in Nat \ {0} /\ PATH_SIZE \in Nat \ {0}

VARIABLES
  program,           \* which of the managers runs
  quiet,             \* nothing is removed and no command is given
  locked,            \* the directories that opendir refuses
  present,           \* the nodes that exist
  path, selected,    \* of each window
  files, num_files,  \* the array, as far as it was ever written; its length
  active_window,
  state              \* "start", "keys": it waits for a key, or why it ended

settings == <<program, quiet, locked>>
vars == <<settings, present, path, selected, files, num_files, active_window, state>>

-----------------------------------------------------------------------------
(* ncursesdirmanager.                                                      *)

Children(d) == {n \in Nodes : n \in present /\ Parent[n] = d /\ n # d}

\* All entries but ".", sorted: of the order only that it is fixed matters.
Listing(d) == <<DotDot>> \o SetToSeq(Children(d))

CanOpen(p) == p.via \subseteq present \cap Dirs /\ p.dir \notin locked

\* What a name appended to a path means, and the name of nothing.
Missing == Text
Lookup(p, name) ==
  IF ~(p.via \subseteq present) THEN Missing
  ELSE IF name = DotDot THEN Parent[p.dir]
  ELSE IF name \in Children(p.dir) THEN name ELSE Missing

\* Writing the first elements leaves the rest of the array as it was.
Overwrite(list) == list \o SubSeq(files, Len(list) + 1, Len(files))

HomePath == [dir |-> Home, via |-> {Home}, length |-> 1]

\* Whether another process can remove node n now.
MayGo(n) ==
  /\ ~quiet /\ n \in Removable \cap present
  /\ \A m \in present \ {n} : Parent[m] # n

\* What reading the directory at path p can end in.  stat refuses a dangling entry
\* and one removed since readdir returned it; more than MAX_FILES entries are written
\* past the array, a name after a path of PATH_SIZE names may be past full_path.
Outcomes(p) ==
  LET entries == Children(p.dir)
      large == Len(Listing(p.dir)) > MAX_FILES IN
  {o \in {"keys", "stat", "overrun"} :
     /\ o = "keys" => entries \cap Dangling = {} /\ ~large
     /\ o = "stat" => entries \cap Dangling # {} \/ \E n \in entries : MayGo(n)
     /\ o = "overrun" => large \/ p.length = PATH_SIZE}

\* A slip: the path is left as it was.
Slip_PathRead(p) == p

\* A directory that can not be opened is replaced by /home.
PathRead(p) == IF CanOpen(p) THEN p ELSE HomePath

\* read_directory for window w and path p.  A directory that is removed once it is
\* open has no entries; when /home itself can not be opened, the function calls
\* itself for ever.
read_directory(w, p) ==
  LET q == PathRead(p) IN
  /\ path' = [path EXCEPT ![w] = q]
  /\ \/ /\ CanOpen(q)
        /\ state' \in Outcomes(q)
        /\ files' = Overwrite(Listing(q.dir))
        /\ num_files' = Len(Listing(q.dir))
        /\ UNCHANGED present
     \/ /\ CanOpen(q) /\ MayGo(q.dir)
        /\ present' = present \ {q.dir}
        /\ state' = "keys"
        /\ num_files' = 0
        /\ UNCHANGED files
     \/ /\ ~CanOpen(q)
        /\ state' = "recursion"
        /\ num_files' = 0
        /\ UNCHANGED <<files, present>>

-----------------------------------------------------------------------------
(* The keys.                                                               *)

\* The remainder as C computes it for the dividends that occur: num_files is -1
\* after a command without output.
Remainder(a, n) == IF n = -1 THEN 0 ELSE a % n

MoveCursor(step) ==
  /\ IF num_files = 0
     THEN /\ state' = "SIGFPE"
          /\ UNCHANGED selected
     ELSE /\ selected' = [selected EXCEPT ![active_window] = Remainder(@ + step, num_files)]
          /\ UNCHANGED state
  /\ UNCHANGED <<settings, present, path, files, num_files, active_window>>

KeyUp == MoveCursor(num_files - 1)

\* A slip: the cursor stops after the last entry instead of before it.
Slip_KeyDown ==
  /\ selected' = [selected EXCEPT ![active_window] = IF @ < num_files THEN @ + 1 ELSE @]
  /\ UNCHANGED <<settings, present, path, files, num_files, active_window, state>>

KeyDown == MoveCursor(1)

UnderCursor == files[selected[active_window] + 1]
AppendName(p, d) == [dir |-> d, via |-> p.via \cup {d}, length |-> p.length + 1]

\* The path and the name no longer fit into the array.
PathOverrun ==
  /\ path[active_window].length = PATH_SIZE
  /\ state' = "overrun"
  /\ UNCHANGED <<settings, present, path, selected, files, num_files, active_window>>

\* Enter of task9_2: a name that is not a directory can not be opened.
OpenUnderCursor ==
  LET p == path[active_window] IN
  /\ p.length < PATH_SIZE
  /\ read_directory(active_window, AppendName(p, Lookup(p, UnderCursor)))
  /\ selected' = [selected EXCEPT ![active_window] = 0]
  /\ UNCHANGED <<settings, active_window>>

\* handle_enter for a file: it is run, then the directory is read again.
RunFile ==
  LET p == path[active_window] IN
  /\ Lookup(p, UnderCursor) \in Files
  /\ read_directory(active_window, p)
  /\ selected' = [selected EXCEPT ![active_window] = 0]

\* A slip: the cursor stays where it was in the other directory.
Slip_EnterDirectory ==
  LET p == path[active_window] IN
  /\ Lookup(p, UnderCursor) \in Dirs
  /\ read_directory(active_window, AppendName(p, Lookup(p, UnderCursor)))
  /\ UNCHANGED selected

\* For a directory it is read, and the cursor goes to its first entry.
EnterDirectory ==
  LET p == path[active_window] IN
  /\ Lookup(p, UnderCursor) \in Dirs
  /\ read_directory(active_window, AppendName(p, Lookup(p, UnderCursor)))
  /\ selected' = [selected EXCEPT ![active_window] = 0]

\* stat refuses the name: /home is read, the cursor stays where it is.
StatFails ==
  /\ Lookup(path[active_window], UnderCursor) \in {Missing} \cup Dangling
  /\ read_directory(active_window, HomePath)
  /\ UNCHANGED selected

handle_enter ==
  /\ path[active_window].length < PATH_SIZE
  /\ RunFile \/ EnterDirectory \/ StatFails
  /\ UNCHANGED <<settings, active_window>>

\* A slip: the list is not read for the window that gets the focus.
Slip_KeyTab ==
  /\ active_window' = (active_window % 2) + 1
  /\ UNCHANGED <<settings, present, path, selected, files, num_files, state>>

KeyTab ==
  /\ active_window' = (active_window % 2) + 1
  /\ read_directory(active_window', path[active_window'])
  /\ UNCHANGED <<settings, selected>>

\* input_command and execute_command: the list is what strtok finds in the buffer of
\* the pipe, names in the directory, ".." or any text, and num_files is one less.
\* The buffer is not terminated: next to what the command printed, lines may be what
\* the stack held.
execute_command ==
  LET lines == {Text, DotDot} \cup Children(path[active_window].dir) IN
  /\ ~quiet
  /\ \E n \in OutputSizes : \E output \in [1..n -> lines] :
       /\ files' = Overwrite(output)
       /\ num_files' = n - 1
       /\ state' = IF n > MAX_FILES THEN "overrun" ELSE "keys"
  /\ selected' = [selected EXCEPT ![active_window] = 0]
  /\ UNCHANGED <<settings, present, path, active_window>>

KeyQ ==
  /\ state' = "quit"
  /\ UNCHANGED <<settings, present, path, selected, files, num_files, active_window>>

-----------------------------------------------------------------------------
(* The programs.                                                           *)

\* The first reading of the directories; both windows show /home.
Start ==
  /\ state = "start"
  /\ read_directory(1, HomePath)
  /\ UNCHANGED <<settings, selected, active_window>>

task9_2 ==
  /\ program = "task9_2"
  /\ KeyUp \/ KeyDown \/ OpenUnderCursor \/ PathOverrun \/ KeyTab \/ KeyQ

task10_3 ==
  /\ program = "task10_3"
  /\ KeyUp \/ KeyDown \/ handle_enter \/ PathOverrun \/ KeyTab \/ KeyQ

task12_3 ==
  /\ program = "task12_3"
  /\ KeyUp \/ KeyDown \/ handle_enter \/ PathOverrun \/ KeyTab \/ execute_command \/ KeyQ

\* Another process, or what was run, removes a node and what is below it.
Disappear ==
  /\ \E n \in present : MayGo(n) /\ present' = present \ {n}
  /\ UNCHANGED <<settings, path, selected, files, num_files, active_window, state>>

Init ==
  /\ program \in Programs /\ quiet \in BOOLEAN /\ locked \in LockedSets
  /\ present = Nodes
  /\ path = [w \in Windows |-> HomePath]
  /\ selected = [w \in Windows |-> 0]
  /\ files = <<>> /\ num_files = 0
  /\ active_window = 1
  /\ state = "start"

Next ==
  \/ Start \/ Disappear
  \/ state = "keys" /\ (task9_2 \/ task10_3 \/ task12_3)

Spec == Init /\ [][Next]_vars

-----------------------------------------------------------------------------
(* Properties.                                                             *)

\* Every variable keeps its type.
TypeOK ==
  /\ program \in Programs /\ quiet \in BOOLEAN /\ locked \in LockedSets
  /\ present \subseteq Nodes
  /\ path \in [Windows -> [dir : Dirs, via : SUBSET Dirs, length : 1..PATH_SIZE]]
  /\ selected \in [Windows -> Nat]
  /\ files \in Seq(Names)
  /\ num_files \in Nat \cup {-1}
  /\ active_window \in Windows
  /\ state \in {"start", "keys", "quit", "stat", "overrun", "SIGFPE", "recursion"}

\* Whatever but /home disappears and whatever a command prints, the name under a
\* cursor is one that was written once: it may be stale, it is never uninitialised
\* memory.
CursorOnAName ==
  state = "keys" /\ Home \notin Removable =>
    \A w \in Windows : selected[w] < Len(files)

\* If nothing is removed and no command given, the shared list is the directory of
\* the active window, and both windows can be opened again.
ListIsOfActive ==
  quiet /\ state = "keys" =>
    /\ SubSeq(files, 1, num_files) = Listing(path[active_window].dir)
    /\ \A w \in Windows : CanOpen(path[w])

\* Then the cursor of either window is inside the directory of its window, although
\* each moves modulo the length of the list they share.
CursorInDirectory ==
  quiet /\ state = "keys" =>
    \A w \in Windows : selected[w] < Len(Listing(path[w].dir))

\* A manager ends by itself only for one of these reasons: the remainder by an empty
\* list needs a command of one line or a directory removed while it was read; the
\* endless recursion needs a /home that is gone or locked; in a calm tree stat fails
\* only for a dangling link in the directory just read; an array is overrun by a path
\* of PATH_SIZE names, which only going back to /home makes shorter, by a large
\* directory or by a command that prints much.
EndsForAReason ==
  /\ state = "SIGFPE" =>
       /\ ~quiet
       /\ \/ program = "task12_3" /\ 1 \in OutputSizes
          \/ Removable \cap Dirs # {}
  /\ state = "recursion" => ~CanOpen(HomePath)
  /\ state = "stat" /\ quiet => Children(path[active_window].dir) \cap Dangling # {}
  /\ state = "overrun" =>
       \/ \E w \in Windows : path[w].length = PATH_SIZE
       \/ num_files > MAX_FILES
       \/ program = "task12_3" /\ ~quiet /\ num_files + 1 > MAX_FILES
=============================================================================
