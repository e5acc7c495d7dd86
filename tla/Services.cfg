CONSTANTS
  Requests = {r1, r2}
  NULL = NULL
  MaxDoc = 1
  MaxChunk = 3
  Texts = {"short", "long"}
  Size <- MCSize
  MaxPage = 1
  MaxVersion = 3
  Contents = {c, d}
  MaxSprint = 1
  SprintItems = {1, 2}
  MaxWorkflow = 2
  MaxStatus = 3
  MaxOutside = 1
  WorkItems = {i1}
  Keys <- MCKeys
  Links <- MCLinks
  OtherProject = "other"
  Scopes <- MCScopes
  Kind <- MCKind
  Parent <- MCParent
  Admins = {a1}
  Offices = {x}
  MaxGrant = 1
  MaxOther = 3
  Roles = {x, y}
  Assignable = {"platform", "platform_5"}
  MaxAssignment = 2
  Codes = {"a", "b"}
  CatalogCodes <- MCCatalogCodes
  Templates <- MCTemplates
  Patterns <- MCPatterns
  CustomRoles = {"custom"}
  MaxPermission = 2
  MaxLink = 3
  MaxEdit = 3
  MaxDefinition = 1
  MaxExecution = 2
  Values = {1, 2}
  Shapes <- MCShapes
  MaxRule = 2
  MaxCall = 2
  MaxRuleEdit = 1
  MaxSession = 2
  MaxMessage = 2
  MaxChat = 2
SPECIFICATION Spec
SYMMETRY Sym
INVARIANTS
  OneTextPerDocument ChunksCurrent VectorsOfLiveChunks IngestedIsSearchable
  VersionsNumbered LatestVersionIsPage AnnouncedIsStored
  CompletedIsFinished NoDanglingSprint
  RepairedIsComplete OneStatusPerKey StatusOfProject
  RolesAreInherited AssignedOnce RevokedIsGone
  DecidesOnTemplates AnsweredIsRecorded
  TrailAccounts RulesInOrder ChatsAreTold NothingOutlivesItsSession
CHECK_DEADLOCK FALSE
