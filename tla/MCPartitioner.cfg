SPECIFICATION Spec
CONSTANTS
  Ids = {1, 2, 3}
  Profiles <- MCProfiles
  Decode <- MCDecode
  Prefill <- MCPrefill
  Draft <- MCDraft
  Overheads = {1, 2}
  Budget = 15
  Floors <- MCFloors
  Leads = {0, 1, 4}
INVARIANTS PlanIsBest ReplicasAreBest RolesAreBest
CHECK_DEADLOCK FALSE
