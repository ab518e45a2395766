--------------------------- MODULE DirManager_proofs ---------------------------
(***************************************************************************)
(* Theorems about DirManager, for any file tree, any number of files the   *)
(* array holds, any length of the paths and any output of the commands.    *)
(***************************************************************************)
EXTENDS DirManager, FiniteSetTheorems, TLAPS

Paths == [dir : Dirs, via : SUBSET Dirs, length : 1..PATH_SIZE]

\* Children, Listing and CanOpen of a given tree.
Entries(tree, d) == {n \in Nodes : n \in tree /\ Parent[n] = d /\ n # d}
ListIn(tree, d) == <<DotDot>> \o SetToSeq(Entries(tree, d))
OpensIn(tree, closed, p) == p.via \subseteq tree \cap Dirs /\ p.dir \notin closed

-----------------------------------------------------------------------------
(* Lists.                                                                  *)

LEMMA SetToSeqType ==
  ASSUME NEW S, IsFiniteSet(S)
  PROVE  /\ Cardinality(S) \in Nat
         /\ SetToSeq(S) \in [1..Cardinality(S) -> S]
<1>1. Cardinality(S) \in Nat /\ ExistsBijection(1..Cardinality(S), S)
  BY FS_CardinalityType
<1>2. \E f \in [1..Cardinality(S) -> S] : IsInjective(f)
  BY <1>1 DEF ExistsBijection, Bijection, Injection
<1> QED
  BY <1>1, <1>2 DEF SetToSeq

LEMMA ListType ==
  ASSUME NEW tree, NEW d
  PROVE  /\ ListIn(tree, d) \in Seq(Names)
         /\ Len(ListIn(tree, d)) >= 1
         /\ \A i \in 1..Len(ListIn(tree, d)) :
              ListIn(tree, d)[i] \in {DotDot} \cup Entries(tree, d)
<1> DEFINE E == Entries(tree, d)
<1>1. E \subseteq Nodes /\ IsFiniteSet(E)
  BY DirAssumption, FS_Subset DEF Entries
<1>2. Cardinality(E) \in Nat /\ SetToSeq(E) \in [1..Cardinality(E) -> E]
  BY <1>1, SetToSeqType
<1> HIDE DEF E
<1>3. PICK n \in Nat : SetToSeq(E) \in [1..n -> E]
  BY <1>2
<1>4. SetToSeq(E) \in Seq(E) /\ Len(SetToSeq(E)) = n
  BY <1>3
<1>5. <<DotDot>> \in Seq(Names) /\ SetToSeq(E) \in Seq(Names)
  BY <1>1, <1>4 DEF Names
<1>6. \A i \in 1..n : SetToSeq(E)[i] \in E
  BY <1>3
<1> DEFINE s == SetToSeq(E)
<1> HIDE DEF s
<1>7. /\ <<DotDot>> \o s \in Seq(Names)
      /\ Len(<<DotDot>> \o s) = n + 1
      /\ \A i \in 1..(n + 1) : (<<DotDot>> \o s)[i] \in {DotDot} \cup E
  BY <1>4, <1>5, <1>6 DEF s
<1> QED
  BY <1>7 DEF ListIn, E, s

\* The array after its first elements were written.
LEMMA OverwriteFacts ==
  ASSUME NEW list \in Seq(Names), files \in Seq(Names)
  PROVE  /\ Overwrite(list) \in Seq(Names)
         /\ Len(Overwrite(list)) >= Len(list) /\ Len(Overwrite(list)) >= Len(files)
         /\ SubSeq(Overwrite(list), 1, Len(list)) = list
<1> DEFINE rest == SubSeq(files, Len(list) + 1, Len(files))
<1>1. rest \in Seq(Names) /\ Len(rest) \in Nat /\ Len(list) + Len(rest) >= Len(files)
  OBVIOUS
<1> HIDE DEF rest
<1>2. /\ list \o rest \in Seq(Names)
      /\ Len(list \o rest) = Len(list) + Len(rest)
      /\ \A i \in 1..Len(list) : (list \o rest)[i] = list[i]
  BY <1>1
<1>3. SubSeq(list \o rest, 1, Len(list)) = list
  BY <1>1, <1>2
<1> QED
  BY <1>1, <1>2, <1>3 DEF Overwrite, rest

-----------------------------------------------------------------------------
(* The inductive invariant.                                                *)

\* The directory each window shows, and what it means that a path can be opened.
Shown(w) == ListIn(present, path[w].dir)
Opens(p) == OpensIn(present, locked, p)

AtStart ==
  state = "start" =>
    /\ selected = [w \in Windows |-> 0] /\ path = [w \in Windows |-> HomePath]
    /\ active_window = 1

\* An empty list is what a command of one line leaves, or a directory that was
\* removed while it was read.
EmptyList ==
  state = "keys" /\ num_files = 0 =>
    /\ ~quiet
    /\ \/ program = "task12_3" /\ 1 \in OutputSizes
       \/ Removable \cap Dirs # {}

\* While nothing is removed and no command given, no entry is dangling, and the list
\* and the cursors fit the directories of their windows.
CalmTree ==
  quiet =>
    /\ present = Nodes
    /\ state = "keys" =>
         /\ SubSeq(files, 1, num_files) = Shown(active_window)
         /\ num_files = Len(Shown(active_window))
         /\ Entries(present, path[active_window].dir) \cap Dangling = {}
         /\ \A w \in Windows : Opens(path[w]) /\ selected[w] < Len(Shown(w))

Ends ==
  /\ state = "SIGFPE" =>
       /\ ~quiet
       /\ \/ program = "task12_3" /\ 1 \in OutputSizes
          \/ Removable \cap Dirs # {}
  /\ state = "recursion" => ~Opens(HomePath)
  /\ state = "stat" /\ quiet =>
       Entries(present, path[active_window].dir) \cap Dangling # {}
  /\ state = "overrun" =>
       \/ \E w \in Windows : path[w].length = PATH_SIZE
       \/ num_files > MAX_FILES
       \/ program = "task12_3" /\ ~quiet /\ num_files + 1 > MAX_FILES

Inv ==
  /\ TypeOK /\ num_files <= Len(files)
  /\ AtStart /\ CursorOnAName /\ EmptyList /\ CalmTree /\ Ends

-----------------------------------------------------------------------------
(* Reading a directory.                                                    *)

LEMMA Renaming ==
  /\ \A d : Children(d) = Entries(present, d) /\ Listing(d) = ListIn(present, d)
  /\ \A p : CanOpen(p) <=> Opens(p)
BY DEF Children, Entries, Listing, ListIn, CanOpen, Opens, OpensIn

LEMMA HomeIsAPath == HomePath \in Paths /\ HomePath.dir = Home
BY DirAssumption DEF HomePath, Paths

\* What window w, told to read path p, finds in its variables afterwards.
Reads(w, p) ==
  /\ PathRead(p) \in Paths /\ path' = [path EXCEPT ![w] = PathRead(p)]
  /\ PathRead(p) \in {p, HomePath} /\ (Opens(p) => PathRead(p) = p)
  /\ files' \in Seq(Names) /\ Len(files') >= Len(files)
  /\ num_files' \in Nat /\ num_files' <= Len(files')
  /\ state' \in {"keys", "stat", "overrun", "recursion"}
  /\ present' \subseteq present /\ (quiet => present' = present)
  /\ state' = "keys" => Opens(PathRead(p))
  /\ state' = "keys" /\ num_files' = 0 => ~quiet /\ PathRead(p).dir \in Removable
  /\ state' = "keys" /\ quiet =>
       /\ SubSeq(files', 1, num_files') = ListIn(present, PathRead(p).dir)
       /\ num_files' = Len(ListIn(present, PathRead(p).dir))
       /\ Entries(present, PathRead(p).dir) \cap Dangling = {}
  /\ state' = "recursion" => ~Opens(HomePath)
  /\ state' = "stat" /\ quiet => Entries(present, PathRead(p).dir) \cap Dangling # {}
  /\ state' = "overrun" => num_files' > MAX_FILES \/ PathRead(p).length = PATH_SIZE

LEMMA Reading ==
  ASSUME TypeOK, NEW w, NEW p, num_files <= Len(files),
         Opens(p) => p \in Paths, read_directory(w, p)
  PROVE  Reads(w, p)
<1> DEFINE q == PathRead(p)
<1>1. /\ q \in Paths /\ q \in {p, HomePath} /\ (Opens(p) => q = p)
      /\ (Opens(q) \/ (q = HomePath /\ ~Opens(HomePath)))
  BY HomeIsAPath, Renaming DEF PathRead
<1>2. path' = [path EXCEPT ![w] = q]
  BY DEF read_directory
<1>3. CASE /\ Opens(q) /\ state' \in Outcomes(q) /\ UNCHANGED present
           /\ files' = Overwrite(Listing(q.dir)) /\ num_files' = Len(Listing(q.dir))
  <2>1. Listing(q.dir) = ListIn(present, q.dir) /\ Children(q.dir) = Entries(present, q.dir)
    BY Renaming
  <2>2. /\ ListIn(present, q.dir) \in Seq(Names)
        /\ Len(ListIn(present, q.dir)) >= 1
    BY ListType
  <2>3. /\ files' \in Seq(Names)
        /\ Len(files') >= num_files' /\ Len(files') >= Len(files)
        /\ SubSeq(files', 1, num_files') = ListIn(present, q.dir)
    BY <1>3, <2>1, <2>2, OverwriteFacts DEF TypeOK
  <2>4. num_files' \in Nat /\ num_files' >= 1
    BY <1>3, <2>1, <2>2
  <2>5. quiet => \A n : ~MayGo(n)
    BY DEF MayGo
  <2>6. /\ state' \in {"keys", "stat", "overrun"}
        /\ state' = "keys" => Entries(present, q.dir) \cap Dangling = {}
        /\ state' = "stat" /\ quiet => Entries(present, q.dir) \cap Dangling # {}
        /\ state' = "overrun" => num_files' > MAX_FILES \/ q.length = PATH_SIZE
    BY <1>3, <2>1, <2>5 DEF Outcomes
  <2> HIDE DEF q
  <2> QED
    BY <1>1, <1>2, <1>3, <2>1, <2>3, <2>4, <2>6 DEF Reads, q
<1>4. CASE /\ Opens(q) /\ MayGo(q.dir) /\ present' = present \ {q.dir}
           /\ state' = "keys" /\ num_files' = 0 /\ UNCHANGED files
  <2>1. files \in Seq(Names) /\ Len(files) \in Nat
    BY DEF TypeOK
  <2>2. ~quiet /\ q.dir \in Removable
    BY <1>4 DEF MayGo
  <2> HIDE DEF q
  <2> QED
    BY <1>1, <1>2, <1>4, <2>1, <2>2 DEF Reads, q
<1>5. CASE ~Opens(q) /\ state' = "recursion" /\ num_files' = 0 /\ UNCHANGED <<files, present>>
  <2>1. files \in Seq(Names) /\ Len(files) \in Nat
    BY DEF TypeOK
  <2> HIDE DEF q
  <2> QED
    BY <1>1, <1>2, <1>5, <2>1 DEF Reads, q
<1> QED
  BY <1>3, <1>4, <1>5, Renaming DEF read_directory

-----------------------------------------------------------------------------
(* The steps.                                                              *)

LEMMA InvInit == Init => Inv
<1> SUFFICES ASSUME Init PROVE Inv
  OBVIOUS
<1>1. TypeOK
  <2>1. path \in [Windows -> Paths]
    BY HomeIsAPath DEF Init
  <2>2. files \in Seq(Names)
    BY DEF Init
  <2> QED
    BY <2>1, <2>2 DEF Init, TypeOK, Windows, Paths
<1>2. num_files <= Len(files)
  BY DEF Init
<1> QED
  BY <1>1, <1>2 DEF Init, Inv, AtStart, CursorOnAName, EmptyList, CalmTree, Ends

LEMMA ReadingEnds ==
  ASSUME NEW p, Reads(active_window', p), path'[active_window'] = PathRead(p),
         active_window' \in Windows, UNCHANGED settings
  PROVE  Ends'
<1> DEFINE q == PathRead(p)
<1>1. state' = "recursion" => ~Opens(HomePath)'
  <2>1. Opens(HomePath)' => Opens(HomePath)
    BY DEF Reads, Opens, OpensIn, HomePath, settings
  <2> QED
    BY <2>1 DEF Reads
<1>2. state' = "stat" /\ quiet' => Entries(present', path'[active_window'].dir) \cap Dangling # {}
  BY DEF Reads, settings
<1>3. state' = "overrun" =>
        num_files' > MAX_FILES \/ \E w \in Windows : path'[w].length = PATH_SIZE
  BY DEF Reads
<1>4. state' # "SIGFPE"
  BY DEF Reads
<1> QED
  BY <1>1, <1>2, <1>3, <1>4 DEF Ends

\* A step that reads a directory for the window that has the focus afterwards keeps
\* the invariant if it leaves the cursors on names and, while nothing is removed, the
\* cursor of that window at its first entry or where it was.
LEMMA ReadingKeeps ==
  ASSUME Inv, NEW p, Reads(active_window', p), state \in {"start", "keys"},
         state = "start" => p = HomePath,
         UNCHANGED settings,
         active_window' \in Windows,
         selected' \in [Windows -> Nat],
         \A w \in Windows : selected'[w] \in {0, selected[w]},
         quiet => \A w \in Windows \ {active_window'} : Opens(path[w]),
         quiet => selected'[active_window'] = 0
                    \/ (state = "keys" /\ p = path[active_window'])
  PROVE  Inv'
<1> DEFINE v == active_window'
<1> DEFINE q == PathRead(p)
<1>1. /\ q \in Paths /\ path' = [path EXCEPT ![v] = q]
      /\ files' \in Seq(Names) /\ Len(files') >= Len(files)
      /\ num_files' \in Nat /\ num_files' <= Len(files')
      /\ state' \in {"keys", "stat", "overrun", "recursion"}
      /\ present' \subseteq present /\ (quiet => present' = present)
  BY DEF Reads
<1>2. TypeOK'
  <2>1. path' \in [Windows -> Paths]
    BY <1>1 DEF Inv, TypeOK, Paths
  <2> QED
    BY <1>1, <2>1 DEF Inv, TypeOK, settings, Paths
<1>3. AtStart'
  BY <1>1 DEF AtStart
<1>4. CursorOnAName'
  <2> SUFFICES ASSUME state' = "keys", Home \notin Removable, NEW w \in Windows
               PROVE  selected'[w] < Len(files')
    BY DEF CursorOnAName
  <2>1. selected[w] \in Nat /\ Len(files) \in Nat /\ Len(files') \in Nat
    BY <1>1 DEF Inv, TypeOK
  <2>2. CASE state = "start"
    <3>1. num_files' # 0
      BY <2>2, HomeIsAPath DEF Reads
    <3>2. selected'[w] = 0
      BY <2>2 DEF Inv, AtStart
    <3> QED
      BY <1>1, <2>1, <3>1, <3>2
  <2>3. CASE state = "keys"
    <3>1. selected[w] < Len(files)
      BY <2>3 DEF Inv, CursorOnAName
    <3> QED
      BY <1>1, <2>1, <3>1
  <2> QED
    BY <2>2, <2>3
<1>5. EmptyList'
  <2>1. q.dir \in Dirs
    BY <1>1 DEF Paths
  <2> QED
    BY <2>1 DEF EmptyList, Reads, settings
<1>6. CalmTree'
  <2> SUFFICES ASSUME quiet
               PROVE  /\ present = Nodes
                      /\ state' = "keys" =>
                           /\ SubSeq(files', 1, num_files') = Shown(active_window)'
                           /\ num_files' = Len(Shown(active_window)')
                           /\ Entries(present, path'[v].dir) \cap Dangling = {}
                           /\ \A w \in Windows : Opens(path[w])' /\ selected'[w] < Len(Shown(w)')
    BY <1>1 DEF CalmTree, settings
  <2>1. present = Nodes /\ present' = present
    BY <1>1 DEF Inv, CalmTree
  <2>2. ASSUME state' = "keys"
        PROVE  /\ SubSeq(files', 1, num_files') = Shown(active_window)'
               /\ num_files' = Len(Shown(active_window)')
               /\ Entries(present, path'[v].dir) \cap Dangling = {}
               /\ \A w \in Windows : Opens(path[w])' /\ selected'[w] < Len(Shown(w)')
    <3>1. path'[v] = q /\ \A w \in Windows \ {v} : path'[w] = path[w]
      BY <1>1 DEF Inv, TypeOK
    <3>2. /\ Opens(q)
          /\ SubSeq(files', 1, num_files') = ListIn(present, q.dir)
          /\ num_files' = Len(ListIn(present, q.dir))
          /\ Entries(present, q.dir) \cap Dangling = {}
      BY <2>2 DEF Reads
    <3>3. \A w \in Windows : Shown(w)' = ListIn(present, path'[w].dir)
                              /\ (Opens(path[w])' <=> Opens(path'[w]))
      BY <2>1 DEF Shown, Opens, settings
    <3>4. \A w \in Windows : Opens(path'[w])
      BY <3>1, <3>2
    <3>5. ASSUME NEW w \in Windows PROVE selected'[w] < Len(ListIn(present, path'[w].dir))
      <4>1. Len(ListIn(present, path'[w].dir)) >= 1 /\ Len(ListIn(present, path'[w].dir)) \in Nat
        BY ListType
      <4>2. CASE selected'[w] = 0
        BY <4>1, <4>2
      <4>3. CASE selected'[w] # 0 /\ state = "start"
        BY <4>3 DEF Inv, AtStart
      <4>4. CASE selected'[w] # 0 /\ state = "keys"
        <5>1. selected'[w] = selected[w] /\ selected[w] < Len(Shown(w)) /\ Opens(path[w])
          BY <4>4 DEF Inv, CalmTree
        <5>2. path'[w] = path[w]
          <6>1. CASE w # v
            BY <3>1, <6>1
          <6>2. CASE w = v
            BY <3>1, <4>4, <5>1, <6>2 DEF Reads
          <6> QED
            BY <6>1, <6>2
        <5> QED
          BY <5>1, <5>2 DEF Shown
      <4> QED
        BY <4>2, <4>3, <4>4
    <3>6. Shown(active_window)' = ListIn(present, path'[v].dir)
      BY <2>1 DEF Shown, settings
    <3> QED
      BY <3>1, <3>2, <3>3, <3>4, <3>5, <3>6
  <2> QED
    BY <2>1, <2>2
<1>7. Ends'
  <2>1. path'[v] = q
    BY <1>1 DEF Inv, TypeOK
  <2> QED
    BY <1>1, <2>1, ReadingEnds
<1> QED
  BY <1>1, <1>2, <1>3, <1>4, <1>5, <1>6, <1>7 DEF Inv

LEMMA StartKeeps ==
  ASSUME Inv, Start
  PROVE  Inv'
<1>1. Reads(1, HomePath)
  BY Reading, HomeIsAPath DEF Start, Inv
<1>2. active_window' = 1 /\ state = "start" /\ UNCHANGED settings
  BY DEF Start, Inv, AtStart
<1>3. quiet => \A w \in Windows \ {1} : selected'[w] = 0 /\ path[w] = HomePath
  BY <1>2 DEF Start, Inv, AtStart, Windows
<1>4. CASE state' = "keys" \/ ~quiet
  <2>1. state' = "keys" => Opens(HomePath)
    BY <1>1, HomeIsAPath DEF Reads
  <2>2. quiet => \A w \in Windows \ {1} : Opens(path[w])
    BY <1>3, <1>4, <2>1
  <2>3. selected' = [w \in Windows |-> 0] /\ selected' = selected
    BY <1>2 DEF Start, Inv, AtStart
  <2> QED
    BY <1>1, <1>2, <2>2, <2>3, ReadingKeeps DEF Start, Windows
<1>5. CASE state' # "keys" /\ quiet
  <2>1. TypeOK' /\ num_files' <= Len(files')
    BY <1>1, <1>2 DEF Start, Inv, TypeOK, Reads, settings, Paths
  <2>2. AtStart' /\ CursorOnAName' /\ EmptyList' /\ CalmTree'
    BY <1>1, <1>5 DEF Start, Inv, AtStart, CursorOnAName, EmptyList, CalmTree, Reads, settings
  <2>3. path'[1] = PathRead(HomePath)
    BY <1>1 DEF Inv, TypeOK, Reads, Windows
  <2>4. Ends'
    BY <1>1, <1>2, <2>3, ReadingEnds DEF Windows
  <2> QED
    BY <2>1, <2>2, <2>4 DEF Inv
<1> QED
  BY <1>4, <1>5

\* While nothing is removed and no command given, stat never fails on the entry
\* under the cursor.
LEMMA EntryIsThere ==
  ASSUME Inv, quiet, state = "keys"
  PROVE  Lookup(path[active_window], UnderCursor) \in Dirs \cup Files
<1> DEFINE p == path[active_window]
<1> DEFINE i == selected[active_window] + 1
<1> DEFINE list == ListIn(present, p.dir)
<1>1. /\ SubSeq(files, 1, num_files) = list /\ num_files = Len(list)
      /\ Entries(present, p.dir) \cap Dangling = {}
      /\ Opens(p) /\ selected[active_window] < Len(list)
  BY DEF Inv, CalmTree, Shown, TypeOK
<1>2. i \in 1..Len(list) /\ files \in Seq(Names) /\ Len(list) <= Len(files) /\ Len(list) \in Nat
  BY <1>1, ListType DEF Inv, TypeOK
<1>3. list[i] \in {DotDot} \cup Entries(present, p.dir)
  BY <1>2, ListType
<1>4. files[i] = list[i]
  <2> HIDE DEF i
  <2>1. SubSeq(files, 1, Len(list))[i] = files[i]
    BY <1>2
  <2> QED
    BY <1>1, <2>1
<1>5. p.via \subseteq present /\ p.dir \in Dirs
  BY <1>1 DEF Opens, OpensIn, Inv, TypeOK
<1>6. Entries(present, p.dir) \subseteq Dirs \cup Files
  BY <1>1 DEF Entries, Nodes
<1>7. UnderCursor \in {DotDot} \cup Entries(present, p.dir)
  BY <1>3, <1>4 DEF UnderCursor
<1>8. Parent[p.dir] \in Dirs
  BY <1>5, DirAssumption DEF Nodes
<1> QED
  BY <1>5, <1>6, <1>7, <1>8, Renaming DEF Lookup

\* A path that a name was appended to is a path if it can be opened.
LEMMA Appended ==
  ASSUME NEW p \in Paths, p.length < PATH_SIZE, NEW d, Opens(AppendName(p, d))
  PROVE  AppendName(p, d) \in Paths
<1>1. d \in Dirs
  BY DEF Opens, OpensIn, AppendName
<1>2. p.length + 1 \in 1..PATH_SIZE
  BY DirAssumption DEF Paths
<1> QED
  BY <1>1, <1>2 DEF Paths, AppendName

LEMMA EnterKeeps ==
  ASSUME Inv, state = "keys", handle_enter \/ OpenUnderCursor
  PROVE  Inv'
<1> DEFINE p == path[active_window]
<1> DEFINE d == Lookup(p, UnderCursor)
<1>1. p \in Paths /\ p.length < PATH_SIZE /\ active_window' = active_window
      /\ active_window \in Windows /\ UNCHANGED settings
  BY DEF Inv, TypeOK, Paths, handle_enter, OpenUnderCursor
<1>2. quiet => d \in Dirs \cup Files
  BY EntryIsThere
<1>3. d \in Dirs \cup Files => ~(d \in {Missing} \cup Dangling)
  BY DirAssumption DEF Missing, Nodes
<1>4. selected \in [Windows -> Nat]
  BY DEF Inv, TypeOK
<1>5. PICK r : /\ Reads(active_window, r)
               /\ \/ selected' = [selected EXCEPT ![active_window] = 0]
                  \/ selected' = selected /\ ~quiet
  <2>1. CASE OpenUnderCursor
    <3>1. Opens(AppendName(p, d)) => AppendName(p, d) \in Paths
      BY <1>1, Appended
    <3>2. read_directory(active_window, AppendName(p, d))
      BY <2>1 DEF OpenUnderCursor
    <3>3. Reads(active_window, AppendName(p, d))
      BY <3>1, <3>2, Reading DEF Inv
    <3> QED
      BY <2>1, <3>3 DEF OpenUnderCursor
  <2>2. CASE RunFile
    <3>1. Reads(active_window, p)
      BY <1>1, <2>2, Reading DEF Inv, RunFile
    <3> QED
      BY <2>2, <3>1 DEF RunFile
  <2>3. CASE EnterDirectory
    <3>1. Opens(AppendName(p, d)) => AppendName(p, d) \in Paths
      BY <1>1, Appended
    <3>2. read_directory(active_window, AppendName(p, d))
      BY <2>3 DEF EnterDirectory
    <3>3. Reads(active_window, AppendName(p, d))
      BY <3>1, <3>2, Reading DEF Inv
    <3> QED
      BY <2>3, <3>3 DEF EnterDirectory
  <2>4. CASE StatFails
    <3>1. ~quiet
      BY <1>2, <1>3, <2>4 DEF StatFails
    <3>2. Reads(active_window, HomePath)
      BY <2>4, HomeIsAPath, Reading DEF Inv, StatFails
    <3> QED
      BY <2>4, <3>1, <3>2 DEF StatFails
  <2> QED
    BY <2>1, <2>2, <2>3, <2>4 DEF handle_enter
<1>6. quiet => \A w \in Windows : Opens(path[w])
  BY DEF Inv, CalmTree
<1>7. /\ selected' \in [Windows -> Nat]
      /\ \A w \in Windows : selected'[w] \in {0, selected[w]}
      /\ quiet => selected'[active_window] = 0
  BY <1>1, <1>4, <1>5
<1> HIDE DEF p, d
<1> QED
  BY <1>1, <1>5, <1>6, <1>7, ReadingKeeps

LEMMA TabKeeps ==
  ASSUME Inv, state = "keys", KeyTab
  PROVE  Inv'
<1>1. active_window' \in Windows /\ selected' = selected /\ UNCHANGED settings
  BY DEF Inv, TypeOK, KeyTab, Windows
<1> DEFINE v == active_window'
<1>2. path[v] \in Paths
  BY <1>1 DEF Inv, TypeOK, Paths
<1>3. read_directory(v, path[v])
  BY DEF KeyTab
<1> HIDE DEF v
<1>4. Reads(v, path[v])
  BY <1>2, <1>3, Reading DEF Inv
<1>5. quiet => \A w \in Windows : Opens(path[w])
  BY DEF Inv, CalmTree
<1>6. selected' \in [Windows -> Nat]
  BY <1>1 DEF Inv, TypeOK
<1> QED
  BY <1>1, <1>4, <1>5, <1>6, ReadingKeeps DEF v

LEMMA MoveKeeps ==
  ASSUME Inv, state = "keys", KeyUp \/ KeyDown
  PROVE  Inv'
<1> DEFINE a == active_window
<1>1. PICK step \in Int : MoveCursor(step)
  BY DEF KeyUp, KeyDown, Inv, TypeOK
<1>2. UNCHANGED <<settings, present, path, files, num_files, active_window>>
  BY <1>1 DEF MoveCursor
<1>3. CASE num_files = 0
  <2>1. state' = "SIGFPE" /\ selected' = selected
    BY <1>1, <1>3 DEF MoveCursor
  <2>2. TypeOK' /\ num_files' <= Len(files')
    BY <1>2, <2>1 DEF Inv, TypeOK, settings
  <2>3. Ends'
    BY <1>2, <1>3, <2>1 DEF Inv, EmptyList, Ends, settings
  <2> QED
    BY <1>2, <2>1, <2>2, <2>3 DEF Inv, AtStart, CursorOnAName, EmptyList, CalmTree, settings
<1>4. CASE num_files # 0
  <2> DEFINE r == Remainder(selected[a] + step, num_files)
  <2>1. state' = "keys" /\ selected' = [selected EXCEPT ![a] = r]
    BY <1>1, <1>4 DEF MoveCursor
  <2>2. /\ selected[a] \in Nat /\ num_files \in Nat \cup {-1}
        /\ Home \notin Removable => selected[a] < Len(files)
        /\ Len(files) \in Nat /\ num_files <= Len(files)
    BY DEF Inv, TypeOK, CursorOnAName
  <2>3. /\ r \in Nat /\ (num_files # -1 => r < num_files)
        /\ Home \notin Removable => r < Len(files)
    <3>1. CASE num_files = -1
      BY <2>2, <3>1 DEF Remainder
    <3>2. CASE num_files # -1
      <4>1. num_files \in Nat \ {0} /\ selected[a] + step \in Int
        BY <1>4, <2>2, <3>2
      <4>2. (selected[a] + step) % num_files \in 0..(num_files - 1)
        BY <4>1
      <4> QED
        BY <2>2, <3>2, <4>1, <4>2 DEF Remainder
    <3> QED
      BY <3>1, <3>2
  <2>4. selected' \in [Windows -> Nat] /\ \A w \in Windows : selected'[w] \in {r, selected[w]}
    BY <2>1, <2>3 DEF Inv, TypeOK
  <2>5. TypeOK' /\ num_files' <= Len(files')
    BY <1>2, <2>1, <2>4 DEF Inv, TypeOK, settings
  <2>6. CursorOnAName'
    BY <1>2, <2>3, <2>4 DEF Inv, CursorOnAName
  <2>7. CalmTree'
    <3>1. quiet => num_files # -1 /\ r < Len(Shown(a))
      BY <2>2, <2>3 DEF Inv, CalmTree
    <3>2. \A w \in Windows : w # a => selected'[w] = selected[w]
      BY <2>1 DEF Inv, TypeOK
    <3>3. selected'[a] = r
      BY <2>1 DEF Inv, TypeOK
    <3>4. \A w : Shown(w)' = Shown(w) /\ (Opens(path[w])' <=> Opens(path[w]))
      BY <1>2 DEF Shown, Opens, settings
    <3>5. Shown(active_window)' = Shown(active_window)
      BY <1>2 DEF Shown
    <3> HIDE DEF r
    <3> QED
      BY <1>2, <2>1, <3>1, <3>2, <3>3, <3>4, <3>5 DEF Inv, CalmTree, settings
  <2>8. AtStart' /\ EmptyList' /\ Ends'
    BY <1>2, <1>4, <2>1 DEF AtStart, EmptyList, Ends
  <2> QED
    BY <2>5, <2>6, <2>7, <2>8 DEF Inv
<1> QED
  BY <1>3, <1>4

LEMMA CommandKeeps ==
  ASSUME Inv, state = "keys", program = "task12_3", execute_command
  PROVE  Inv'
<1> DEFINE lines == {Text, DotDot} \cup Children(path[active_window].dir)
<1>1. PICK n \in OutputSizes : \E output \in [1..n -> lines] :
        /\ files' = Overwrite(output)
        /\ num_files' = n - 1
        /\ state' = IF n > MAX_FILES THEN "overrun" ELSE "keys"
  BY DEF execute_command
<1>2. PICK output \in [1..n -> lines] :
        /\ files' = Overwrite(output)
        /\ num_files' = n - 1
        /\ state' = IF n > MAX_FILES THEN "overrun" ELSE "keys"
  BY <1>1
<1>3. /\ ~quiet /\ selected' = [selected EXCEPT ![active_window] = 0]
      /\ UNCHANGED <<settings, present, path, active_window>>
  BY DEF execute_command
<1>4. lines \subseteq Names
  BY DEF Children, Names
<1> HIDE DEF lines
<1>5. n \in Nat /\ output \in Seq(Names) /\ Len(output) = n
  BY <1>2, <1>4, DirAssumption
<1>6. /\ files' \in Seq(Names) /\ Len(files') >= n /\ Len(files') >= Len(files)
      /\ Len(files') \in Nat /\ Len(files) \in Nat
  <2>1. files \in Seq(Names)
    BY DEF Inv, TypeOK
  <2>2. /\ Overwrite(output) \in Seq(Names)
        /\ Len(Overwrite(output)) >= n /\ Len(Overwrite(output)) >= Len(files)
    BY <1>5, <2>1, OverwriteFacts
  <2> QED
    BY <1>2, <2>1, <2>2
<1>7. TypeOK' /\ num_files' <= Len(files')
  <2>1. n - 1 \in Nat \cup {-1} /\ n - 1 <= Len(files')
    BY <1>5, <1>6
  <2> QED
    BY <1>2, <1>3, <1>6, <2>1 DEF Inv, TypeOK, settings
<1>8. CursorOnAName'
  <2> SUFFICES ASSUME Home \notin Removable
               PROVE  state' = "keys" => \A w \in Windows : selected'[w] < Len(files')
    BY DEF CursorOnAName
  <2>1. \A w \in Windows : selected[w] \in Nat /\ selected[w] < Len(files)
    BY DEF Inv, TypeOK, CursorOnAName
  <2>2. Len(files) >= 1
    BY <1>6, <2>1 DEF Windows
  <2> QED
    BY <1>3, <1>6, <2>1, <2>2 DEF Inv, TypeOK
<1>9. EmptyList'
  BY <1>2, <1>3, <1>5 DEF EmptyList, settings
<1>10. AtStart' /\ CalmTree'
  BY <1>2, <1>3 DEF AtStart, CalmTree, settings
<1>11. Ends'
  <2>1. n > MAX_FILES => num_files' + 1 > MAX_FILES
    BY <1>2, <1>5
  <2> QED
    BY <1>2, <1>3, <2>1 DEF Ends, settings
<1> QED
  BY <1>7, <1>8, <1>9, <1>10, <1>11 DEF Inv

LEMMA QuitKeeps ==
  ASSUME Inv, KeyQ \/ PathOverrun
  PROVE  Inv'
<1>1. /\ UNCHANGED <<settings, present, path, selected, files, num_files, active_window>>
      /\ state' = "quit" \/ (state' = "overrun" /\ path[active_window].length = PATH_SIZE)
  BY DEF KeyQ, PathOverrun
<1>2. TypeOK' /\ num_files' <= Len(files')
  BY <1>1 DEF Inv, TypeOK, settings
<1>3. Ends'
  BY <1>1 DEF Ends, Inv, TypeOK
<1> QED
  BY <1>1, <1>2, <1>3 DEF Inv, AtStart, CursorOnAName, EmptyList, CalmTree, settings

\* Nothing that disappears makes a directory accessible.
LEMMA DisappearKeeps ==
  ASSUME Inv, Disappear
  PROVE  Inv'
<1>1. /\ UNCHANGED <<settings, path, selected, files, num_files, active_window, state>>
      /\ ~quiet /\ present' \subseteq present
  BY DEF Disappear, MayGo
<1>2. TypeOK' /\ num_files' <= Len(files')
  BY <1>1 DEF Inv, TypeOK, settings
<1>3. Ends'
  <2>1. Opens(HomePath)' => Opens(HomePath)
    BY <1>1 DEF Opens, OpensIn, HomePath, settings
  <2> QED
    BY <1>1, <2>1 DEF Inv, Ends, settings
<1> QED
  BY <1>1, <1>2, <1>3 DEF Inv, AtStart, CursorOnAName, EmptyList, CalmTree, settings

LEMMA InvStep == Inv /\ [Next]_vars => Inv'
<1> SUFFICES ASSUME Inv, [Next]_vars PROVE Inv'
  OBVIOUS
<1>1. CASE Start
  BY <1>1, StartKeeps
<1>2. CASE Disappear
  BY <1>2, DisappearKeeps
<1>3. CASE state = "keys" /\ (task9_2 \/ task10_3 \/ task12_3)
  BY <1>3, MoveKeeps, EnterKeeps, QuitKeeps, TabKeeps, CommandKeeps
  DEF task9_2, task10_3, task12_3
<1>4. CASE UNCHANGED vars
  <2>1. Shown(active_window)' = Shown(active_window)
    BY <1>4 DEF Shown, vars
  <2>2. \A w : Shown(w)' = Shown(w) /\ (Opens(path[w])' <=> Opens(path[w]))
    BY <1>4 DEF Shown, Opens, vars, settings
  <2>3. CalmTree' /\ AtStart' /\ CursorOnAName' /\ EmptyList'
    BY <1>4, <2>1, <2>2 DEF Inv, CalmTree, AtStart, CursorOnAName, EmptyList, vars, settings
  <2>4. Ends' /\ TypeOK' /\ num_files' <= Len(files')
    BY <1>4 DEF Inv, Ends, TypeOK, Opens, vars, settings
  <2> QED
    BY <2>3, <2>4 DEF Inv
<1> QED
  BY <1>1, <1>2, <1>3, <1>4 DEF Next

THEOREM Invariant == Spec => []Inv
BY InvInit, InvStep, PTL DEF Spec

-----------------------------------------------------------------------------
(* The theorems.                                                           *)

\* Every variable keeps its type for any file tree and any sizes.
THEOREM TypeCorrect == Spec => []TypeOK
<1>1. Inv => TypeOK
  BY DEF Inv
<1> QED
  BY <1>1, Invariant, PTL

\* As long as nobody removes /home, the name under a cursor was written once, whichever
\* window, command or other process the list comes from.
THEOREM CursorsOnNames == Spec => []CursorOnAName
<1>1. Inv => CursorOnAName
  BY DEF Inv
<1> QED
  BY <1>1, Invariant, PTL

\* A manager ends by itself only for the reasons EndsForAReason lists.
THEOREM Reasons == Spec => []EndsForAReason
<1>1. Inv => EndsForAReason
  BY Renaming DEF Inv, Ends, EndsForAReason
<1> QED
  BY <1>1, Invariant, PTL

\* In a calm tree the shared list is always that of the window with the focus.
THEOREM SharedList == Spec => []ListIsOfActive
<1>1. Inv => ListIsOfActive
  BY Renaming DEF Inv, CalmTree, ListIsOfActive, Shown
<1> QED
  BY <1>1, Invariant, PTL

\* In a calm tree each cursor is inside the directory of its window.
THEOREM CursorsInDirectories == Spec => []CursorInDirectory
<1>1. Inv => CursorInDirectory
  BY Renaming DEF Inv, CalmTree, CursorInDirectory, Shown
<1> QED
  BY <1>1, Invariant, PTL
=============================================================================
