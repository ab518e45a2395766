CONSTANTS
  home = home
  user = user
  junk = junk
  link = link
  vault = vault
  prog = prog
  DotDot = DotDot
  Text = Text
  Dirs <- TreeDirs
  Files <- TreeFiles
  Dangling <- TreeLinks
  LockedSets <- AtMostOne
  Parent <- TreeParent
  Home <- home
  Removable <- Gone
  OutputSizes <- ManySizes
  MAX_FILES = 3
  PATH_SIZE = 3
SPECIFICATION Spec
INVARIANTS TypeOK CursorOnAName ListIsOfActive CursorInDirectory EndsForAReason
CHECK_DEADLOCK FALSE
