SPECIFICATION Spec
CONSTANTS
  Principals = {alice, bob}
  Changes = {c1, c2}
  First = c1
  Requests = {r1}
  NoChange = NoChange
  MaxOps = 2
INVARIANTS TypeOK ShownWasVisible NothingWithheld FailureExplained
CHECK_DEADLOCK FALSE
