SPECIFICATION Spec
CONSTANTS
  u1 = u1
  u2 = u2
  u3 = u3
  r1 = r1
  r2 = r2
  system = system
  custom = custom
  NULL = NULL
  NoRow = NoRow
  Requests = {r1, r2}
  Users = {u1, u2}
  MaxId = 2
  Roles = {system}
  Editable = {}
  InitRoles <- CatalogInit
  RoleRows = {}
  Updates <- CatalogUpdates
INVARIANTS
  LastOwnerStays
