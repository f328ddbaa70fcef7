SPECIFICATION HostSpec
CONSTANTS
  l1 = l1
  l2 = l2
  k1 = k1
  p1 = p1
  p2 = p2
  Pids = {p1, p2}
  Ports = {1, 2}
  Loads = {l1, l2}
  Ejects = {k1}
  MaxStarts = 3
  Nil = Nil
INVARIANTS OnlyOwnKilled EjectReaches
SYMMETRY MCSymmetry
CHECK_DEADLOCK FALSE
