\* One handoff, late writes, three faults: what is listed is retried.
CONSTANTS
  Names = {s1}
  Nodes = {"a", "b"}
  Routes <- MCRoutes
  Default <- MCDefault
  RouteCap = 0
  Janitor = janitor
  NoName = noname
  LateLandings = TRUE
  MaxFaults = 3
SPECIFICATION FairSpec
PROPERTY ListDrains
