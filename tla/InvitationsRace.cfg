SPECIFICATION Spec
CONSTANTS
  r1 = r1
  r2 = r2
  NULL = NULL
  Requests = {r1, r2}
  Emails = {e1}
  Workspaces = {w1}
  MaxInvitations = 1
INVARIANTS
  OnlyPendingRevoked
