CONSTANTS
  Changes = {c1, c2}
  Secondary = {}
  Main = main
  Procs = {p1}
  Watchers = {w1}
  Daemons = {d1}
  Working = working
  Draft = draft
  Status = {working, draft}
  None = none
  Same = same
  MaxOps = 4
  MaxSnaps = 2
SPECIFICATION Spec
SYMMETRY Symm
INVARIANTS LogExplainsRefs NoSnapLost
PROPERTIES UndoRewinds
CHECK_DEADLOCK FALSE
