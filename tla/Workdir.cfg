SPECIFICATION Spec
CONSTANTS
  Main = main
  Secondary = {k1}
  Files = {a, b}
  Hidden = {}
  Marker = marker
  Contents = {x, y}
  Absent = absent
  EditsAnytime = FALSE
  MaxSnaps = 3
SYMMETRY Symm
INVARIANTS TypeOK
PROPERTIES WorkKept RestoreExact
CHECK_DEADLOCK FALSE
