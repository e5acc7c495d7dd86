CONSTANTS
  Requests = {r1}
  WorkItems = {i1}
  MaxWorkflow = 1
  MaxStatus = 3
  MaxOutside = 0
  Keys <- ThreeKeys
  Links <- ThreeLinks
  Other = "other"
  NULL = NULL
SPECIFICATION Spec
PROPERTY MovesAreConfigured
CHECK_DEADLOCK FALSE
