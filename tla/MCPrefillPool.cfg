SPECIFICATION Spec
CONSTANTS
  u = u
  v = v
  j1 = j1
  j2 = j2
  Jobs = {j1, j2}
  Engines = {u, v}
  SlotCount = 2
  Sizes = {2, 5}
  ChatSize = 2
  Context <- MCContext
  Split = {v}
  DefaultCtx = 4
  RouteCap = 0
  DefaultRoute <- MCRoute
  NoSlot = NoSlot
  MaxFaults = 1
  MaxChats = 1
INVARIANTS
  PoolBalances
  IngestsWithinBudget
  RoomIsReal
PROPERTIES
  NeighboursKept
SYMMETRY MCSymmetry
CHECK_DEADLOCK FALSE
