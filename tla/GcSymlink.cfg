SPECIFICATION GcSpec
CONSTANTS
  Changes = {c1, c2}
  Secondary = {}
  Main = main
  Procs = {p1}
  Watchers = {}
  Daemons = {}
  Status = {working, draft}
  Working = working
  Draft = draft
  None = None
  Same = Same
  MaxOps = 4
  MaxSnaps = 3
  empty = empty
  flat = flat
  deep = deep
  dir = dir
  b1 = b1
  b2 = b2
  Trees <- MCTrees
  Blobs <- MCBlobs
  EmptyTree = empty
  Entries <- MCLinkEntries
  Ignore = {FALSE}
INVARIANTS LiveFetchable
CHECK_DEADLOCK FALSE
