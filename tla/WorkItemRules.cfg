SPECIFICATION Spec
CONSTANTS
  r1 = r1
  r2 = r2
  p1 = p1
  p2 = p2
  NULL = NULL
  Requests = {r1}
  Projects = {p1}
  MaxItems = 2
  NamedLevels = {"feature", "work_item", "subtask"}
INVARIANTS
  SubtasksUnderWorkItems
