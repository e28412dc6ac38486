SPECIFICATION SpecCrash
CONSTANTS
  Changes = {c1, c2}
  Secondary = {k1}
  Main = main
  Procs = {p1, p2}
  Watchers = {}
  Daemons = {}
  Working = working
  Draft = draft
  Status = {working, draft}
  None = none
  Same = same
  MaxOps = 4
  MaxSnaps = 2
SYMMETRY Symm
INVARIANTS TypeOK PickIsScan PickIsLastNotUndone OpIdsUnique HeadExists
CHECK_DEADLOCK FALSE
