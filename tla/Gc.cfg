SPECIFICATION GcSpec
CONSTANTS
  Changes = {c1, c2}
  Secondary = {}
  Main = main
  Procs = {p1}
  Watchers = {}
  Daemons = {d1}
  Status = {working}
  Working = working
  Draft = working
  None = None
  Same = Same
  MaxOps = 4
  MaxSnaps = 3
  empty = empty
  flat = flat
  deep = deep
  dir = dir
  b1 = b1
  b2 = b2
  Trees <- MCTrees
  Blobs <- MCBlobs
  EmptyTree = empty
  Entries <- MCEntries
  Ignore = {TRUE, FALSE}
SYMMETRY Symm
INVARIANTS LogFetchable LiveFetchable UndoFetchable
CHECK_DEADLOCK FALSE
