\* Three requests, two conversations, serialisation on.
CONSTANTS
  r1 = r1
  r2 = r2
  r3 = r3
  k1 = k1
  k2 = k2
  Requests <- MCRequests
  Keys <- MCKeys
  Waits = TRUE
SPECIFICATION FairSpec
INVARIANTS
  TypeOK
  GateCountsHolders
  SerialUnlessCapped
  NoLostWakeup
PROPERTY
  EveryAcquireReturns
  ImplementsTurns
