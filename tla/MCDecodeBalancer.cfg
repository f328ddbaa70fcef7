\* Two engines, two requests, three conversations with room for two assignments;
\* the budget probe shrinks one engine.
CONSTANTS
  k1 = k1
  k2 = k2
  k3 = k3
  N = 2
  Requests = {r1, r2}
  Keys = {k1, k2, k3}
  Sizes = {1, 3}
  Readings = {0, 2}
  Default = 3
  Probed <- MCProbed
  Calls <- MCCalls
  StickyCap = 2
  RRPeriod = 2
SPECIFICATION FairSpec
INVARIANTS
  TypeOK
  AccountsExact
  StickyIsLRU
  FencedBeforePickNeverServes
PROPERTY
  PickReturns
