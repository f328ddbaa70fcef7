\* Two jobs, two handlers and the watchdog over one decode engine, with
\* one failed write or one restart.
CONSTANTS
  Jobs = {j1, j2}
  Instances = {decode}
  FenceOf <- DecodeFences
  Handlers = {h1, h2}
  Watchdog = watchdog
  NoJob = nojob
  MaxFaults = 1
SPECIFICATION FairSpec
INVARIANTS
  TypeOK
  DisjointTransactions
  DiskTracksMemory
  FenceExact
PROPERTY
  ReloadCloses
