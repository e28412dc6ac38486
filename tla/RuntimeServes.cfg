SPECIFICATION RuntimeSpec
CONSTANTS
  Workers = {w1, w2, w3}
  Writers = {x1, x2, x3}
  Readers = {r1}
  Commands = {p1}
  Nobody = Nobody
INVARIANTS LogHandedOn
PROPERTIES RequestsEnd
