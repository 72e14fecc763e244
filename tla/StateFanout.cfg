SPECIFICATION Spec
CONSTANTS
  NS = {core}
  Keys = {health, k1, k2}
  Values = {v1, v2}
  HealthNs = core
  HealthKey = health
  MaxKeys = 2
  PendingMax = 2
  Conns = {c1}
  Absent = Absent
INVARIANTS
  TableSound
  CopyConverges
PROPERTY TableIsMap
SYMMETRY MCSymmetry
