SPECIFICATION Spec
CONSTANTS
  c1 = c1
  c2 = c2
  c3 = c3
  tools = tools
  r1 = r1
  r2 = r2
  Reqs = {r1, r2}
  Convs = {c1, c2, c3}
  Prefix <- MCPrefix
  PrefixToks = 2
  Tails = {1, 3, 5}
  Slots = {0, 1}
  RingSlot <- MCRing
  Threshold = 3
  ExactMin = 2
  Cap = 2
  Mode = "auto"
  None = None
  MaxTurns = 3
  MaxSlides = 1
  MaxEvents = 1
INVARIANTS
  RegistriesOrdered
  WrongCreditIsDropped
SYMMETRY MCSymmetry
CHECK_DEADLOCK FALSE
