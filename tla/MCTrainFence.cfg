\* Two jobs, two handlers and no fault: a close overlaps the next begin.
CONSTANTS
  Jobs = {j1, j2}
  Instances = {decode}
  FenceOf <- DecodeFences
  Handlers = {h1, h2}
  Watchdog = watchdog
  NoJob = nojob
  MaxFaults = 0
SYMMETRY Interchangeable
SPECIFICATION Spec
INVARIANT FencedWhileOpen
