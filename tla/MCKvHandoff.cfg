\* Two handoffs between two nodes, late writes, one fault of any kind.
CONSTANTS
  Names = {s1, s2}
  Nodes = {"a", "b"}
  Routes <- MCRoutes
  Default <- MCDefault
  RouteCap = 0
  Janitor = janitor
  NoName = noname
  LateLandings = TRUE
  MaxFaults = 1
SYMMETRY Interchangeable
SPECIFICATION Spec
INVARIANTS
  ListedUntilGone
  NoPurgeOfLiveState
