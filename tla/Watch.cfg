SPECIFICATION Spec
CONSTANTS
  Workspaces = {main, second}
  Main = main
  Watched = {main, second}
  Files = {a}
  Contents = {x}
  Absent = Absent
  Special = Special
  None = None
  MaxHappens = 2
  MaxBatches = 1
INVARIANTS TypeOK NothingForgotten
PROPERTIES Quiesces Stops
CHECK_DEADLOCK FALSE
