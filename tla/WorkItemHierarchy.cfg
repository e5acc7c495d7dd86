SPECIFICATION Spec
CONSTANTS
  r1 = r1
  r2 = r2
  p1 = p1
  p2 = p2
  NULL = NULL
  Requests = {r1, r2}
  Projects = {p1, p2}
  MaxItems = 2
  NamedLevels = {"initiative", "work_item", "subtask"}
SYMMETRY Symmetric
INVARIANTS
  TypeOK
  ParentInProject
  LevelsFit
  EveryItemShown
