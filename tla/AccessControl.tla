--------------------------- MODULE AccessControl ---------------------------
(***************************************************************************)
(* What roles a user of core-service (services/core-service/app) has in a  *)
(* scope: AccessControlService resolves them from four kinds of rows, and  *)
(* ScopedMembershipService, MembershipService, TeamService and RoleService *)
(* write these.  A resolution reads the rows of one user only, so there is *)
(* one; what a role permits is RoleCatalog's subject.                      *)
(***************************************************************************)
EXTENDS Integers, FiniteSets, FiniteSetsExt

CONSTANTS
  Requests,       \* concurrent HTTP calls that create assignments
  Roles,
  Scopes,         \* the organizations, workspaces, projects and teams, "platform", and the
                  \* platform once more for every scope_id it is given a role with: nothing
                  \* looks at that id but the lookup and the constraint of assignments
  Kind, Parent,   \* of each scope
  Assignable,     \* the scopes of the role assignments asked for
  MaxAssignment,  \* bound on role assignment ids
  MaxOther,       \* bound on the changes of other rows
  NULL

AssignmentIds == 1..MaxAssignment

VARIABLES
  active,         \* roles that are active
  closed,         \* scopes whose is_active is false
  user_roles,     \* roles given to the user on the platform
  assignments,    \* role_assignments: AssignmentIds -> [role, scope, status], or NULL;
                  \* status "active", or "revoked" for any other
  members,        \* scopes -> the user's row [role, legacy, status], or NULL
  asking,         \* what each call is doing
  revoked,        \* history: <<role, scope>> last asked to be revoked, by a call alone
  doubled,        \* history: <<role, scope>> that two calls created or a PATCH moved a row to
  others          \* the number of changes of other rows

accessVars == <<active, closed, user_roles, assignments, members, asking, revoked, doubled, others>>
elsewhere == <<active, closed, user_roles, members>>

Free == [at |-> "idle", role |-> NULL, scope |-> NULL, status |-> NULL, existing |-> 0]

Init ==
  /\ active = Roles /\ closed = {} /\ user_roles = {}
  /\ assignments = [a \in AssignmentIds |-> NULL]
  /\ members = [s \in Scopes |-> NULL]
  /\ asking = [r \in Requests |-> Free]
  /\ revoked = {} /\ doubled = {} /\ others = 0

-----------------------------------------------------------------------------
(* AccessControlService                                                    *)

\* Mutant of assignment_applies: a project takes the roles of any workspace.
assignment_applies_loosely(from, s) ==
  \/ Kind[from] = "platform" \/ from = s
  \/ Kind[s] = "workspace" /\ Kind[from] = "organization" /\ from = Parent[s]
  \/ Kind[s] \in {"project", "team"} /\ \/ Kind[from] = "organization" /\ from = Parent[Parent[s]]
                                        \/ Kind[from] = "workspace"

assignment_applies(from, s) ==
  \/ Kind[from] = "platform" \/ from = s
  \/ Kind[s] = "workspace" /\ Kind[from] = "organization" /\ from = Parent[s]
  \/ Kind[s] \in {"project", "team"} /\ \/ Kind[from] = "organization" /\ from = Parent[Parent[s]]
                                        \/ Kind[from] = "workspace" /\ from = Parent[s]

role_assignments(s) ==
  {<<assignments[a].role, assignments[a].scope>> : a \in
     {b \in AssignmentIds : /\ assignments[b] # NULL /\ assignments[b].status = "active"
                            /\ assignments[b].role \in active
                            /\ assignment_applies(assignments[b].scope, s)}}

\* Organization and workspace rows: the legacy text counts only without a role,
\* and then names an active role or none.  They have no status.
membership_role(s) ==
  IF members[s] = NULL THEN {}
  ELSE {<<r, s>> : r \in active \cap {IF members[s].role # NULL THEN members[s].role ELSE members[s].legacy}}

\* Project and team rows: an active row with a role.
scoped_membership_role(s) ==
  IF members[s] = NULL THEN {}
  ELSE {<<r, s>> : r \in active \cap (IF members[s].status = "active" THEN {members[s].role} ELSE {})}

\* The roles and where each comes from.  A closed workspace, project or team has
\* none: the call is refused; a closed organization is not looked at.
resolve_roles(s) ==
  IF s \in closed /\ Kind[s] # "organization" THEN {}
  ELSE {<<r, "platform">> : r \in user_roles \cap active} \cup role_assignments(s) \cup
       (CASE Kind[s] = "platform" -> {}
          [] Kind[s] = "organization" -> membership_role(s)
          [] Kind[s] = "workspace" -> membership_role(Parent[s]) \cup membership_role(s)
          [] OTHER -> membership_role(Parent[Parent[s]]) \cup membership_role(Parent[s])
                        \cup scoped_membership_role(s))

-----------------------------------------------------------------------------
(* ScopedMembershipService: role assignments                               *)

RowsOf(role, s) ==
  {a \in AssignmentIds : assignments[a] # NULL /\ assignments[a].role = role /\ assignments[a].scope = s}
NextAssignment == 1 + Max({a \in AssignmentIds : assignments[a] # NULL} \cup {0})
\* uq_role_assignment_scope: the scope_id of "platform" is NULL, and NULLs differ.
Taken(role, s) == s # "platform" /\ RowsOf(role, s) # {}
About(role, s) == {r \in Requests : asking[r].at = "write" /\ asking[r].role = role /\ asking[r].scope = s}

\* Mutant of create_role_assignment: only active rows are looked for.
create_over_inactive(r, role, s, status) ==
  /\ asking[r] = Free /\ role \in active /\ RowsOf(role, s) \subseteq
       {a \in AssignmentIds : assignments[a] # NULL /\ assignments[a].status # "active"}
  /\ asking' = [asking EXCEPT ![r] = [at |-> "write", role |-> role, scope |-> s, status |-> status,
                                        existing |-> 0]]
  /\ revoked' = revoked \ {<<role, s>>}
  /\ doubled' = IF About(role, s) = {} THEN doubled ELSE doubled \cup {<<role, s>>}
  /\ UNCHANGED <<assignments, elsewhere>>

\* POST /role-assignments up to its lookup: an active row of the grant is a conflict.
create_role_assignment(r, role, s, status) ==
  LET rows == RowsOf(role, s)
  IN /\ asking[r] = Free /\ role \in active
     /\ \E existing \in IF rows = {} THEN {0} ELSE rows :
          /\ existing # 0 => assignments[existing].status # "active"
          /\ asking' = [asking EXCEPT ![r] = [at |-> "write", role |-> role, scope |-> s, status |-> status,
                                                existing |-> existing]]
     /\ revoked' = revoked \ {<<role, s>>}
     /\ doubled' = IF About(role, s) = {} THEN doubled ELSE doubled \cup {<<role, s>>}
     /\ UNCHANGED <<assignments, elsewhere>>

\* A row that was there becomes active, whatever was asked and whatever role a
\* PATCH has given it since.
WriteAssignment(r) ==
  LET call == asking[r]
      a == IF call.existing = 0 THEN NextAssignment ELSE call.existing
  IN /\ call.at = "write" /\ a \in AssignmentIds
     /\ assignments' = IF call.existing # 0 THEN [assignments EXCEPT ![a].status = "active"]
                       ELSE IF Taken(call.role, call.scope) THEN assignments
                       ELSE [assignments EXCEPT ![a] = [role |-> call.role, scope |-> call.scope,
                                                        status |-> call.status]]
     /\ asking' = [asking EXCEPT ![r] = Free]
     /\ UNCHANGED <<revoked, doubled, elsewhere>>

\* The check of the caller's permission has committed, so what the PATCH names is
\* written, also when it is what the row has.
update_role_assignment(a, role, status) ==
  LET row == assignments[a]
      new == <<role, row.scope>>
      asked(g) == {r \in Requests : asking[r].at = "write" /\ asking[r].role = g[1] /\ asking[r].scope = g[2]}
      held == {r \in Requests : asking[r].existing = a}
  IN /\ row # NULL /\ role \in active \cup {row.role}
     /\ role # row.role => ~Taken(role, row.scope)
     /\ assignments' = [assignments EXCEPT ![a].role = role, ![a].status = status]
     /\ revoked' = IF role = row.role /\ status = "revoked" /\ asked(new) = {} /\ held = {}
                   THEN revoked \cup {new} ELSE revoked \ {new}
     /\ doubled' = IF role = row.role THEN doubled ELSE doubled \cup {new}
     /\ UNCHANGED <<asking, elsewhere>>

delete_role_assignment(a) ==
  /\ assignments[a] # NULL
  /\ update_role_assignment(a, assignments[a].role, "revoked")

-----------------------------------------------------------------------------
(* Memberships, user roles, and the rows they stand on                     *)

Row(role, legacy, status) == [role |-> role, legacy |-> legacy, status |-> status]
Put(s, row) == members' = [members EXCEPT ![s] = row]

\* Invitations, and POST and PATCH of members; organization and workspace rows.
\* A PATCH that has a text does not look at the role it also has.  The text is
\* kept here only where it counts: in a row without a role.
PutMember(s, role, legacy) ==
  /\ Kind[s] \in {"organization", "workspace"} /\ s \notin closed
  /\ NULL \in {role, legacy}
  /\ Put(s, Row(role, legacy, "active"))
  /\ UNCHANGED <<active, closed, user_roles>>

\* The row goes; rows in projects and teams below, and assignments, stay.
remove_member(s) ==
  /\ Kind[s] \in {"organization", "workspace"} /\ members[s] # NULL /\ s \notin closed
  /\ Put(s, NULL)
  /\ UNCHANGED <<active, closed, user_roles>>

add_scoped_member(s, role) ==
  /\ Kind[s] \in {"project", "team"} /\ s \notin closed
  /\ members[Parent[s]] # NULL /\ members[s] = NULL
  /\ role \in active \cup {NULL}
  /\ Put(s, Row(role, NULL, "active"))
  /\ UNCHANGED <<active, closed, user_roles>>

update_scoped_member(s, role, status) ==
  /\ Kind[s] \in {"project", "team"} /\ s \notin closed /\ members[s] # NULL
  /\ role \in active \cup {members[s].role}
  /\ Put(s, Row(role, NULL, status))
  /\ UNCHANGED <<active, closed, user_roles>>

\* TeamService.remove_member; the removals by membership id are updates.
remove_team_member(s) ==
  /\ Kind[s] = "team" /\ s \notin closed /\ members[s] # NULL
  /\ Put(s, NULL)
  /\ UNCHANGED <<active, closed, user_roles>>

assign_user_role(role) ==
  /\ role \in active \ user_roles /\ user_roles' = user_roles \cup {role}
  /\ UNCHANGED <<active, closed, members>>

remove_user_role(role) ==
  /\ role \in user_roles /\ user_roles' = user_roles \ {role}
  /\ UNCHANGED <<active, closed, members>>

\* PATCH and DELETE of a role; a deleted role is not found any more.
delete_role(role) ==
  /\ role \in active /\ active' = active \ {role}
  /\ UNCHANGED <<closed, user_roles, members>>

close(s) ==
  /\ s \notin closed /\ Kind[s] # "platform" /\ closed' = closed \cup {s}
  /\ UNCHANGED <<active, user_roles, members>>

Other ==
  \/ \E s \in Scopes, role \in Roles \cup {NULL} :
       \/ \E legacy \in Roles \cup {NULL} : PutMember(s, role, legacy)
       \/ add_scoped_member(s, role)
       \/ \E status \in {"active", "inactive"} : update_scoped_member(s, role, status)
  \/ \E s \in Scopes : remove_member(s) \/ remove_team_member(s) \/ close(s)
  \/ \E role \in Roles : assign_user_role(role) \/ remove_user_role(role) \/ delete_role(role)

Assign ==
  \/ \E r \in Requests :
       \/ \E role \in Roles, s \in Assignable, status \in {"active", "revoked"} :
            create_role_assignment(r, role, s, status)
       \/ WriteAssignment(r)
  \/ \E a \in AssignmentIds :
       \/ \E role \in Roles, status \in {"active", "revoked"} :
            update_role_assignment(a, role, status)
       \/ delete_role_assignment(a)

Next ==
  \/ Assign /\ UNCHANGED others
  \/ others < MaxOther /\ others' = others + 1 /\ Other /\ UNCHANGED <<assignments, asking, revoked, doubled>>

Spec == Init /\ [][Next]_accessVars

-----------------------------------------------------------------------------
(* Properties                                                              *)

\* The scopes a role is inherited from: the scope and all above it.
Above[s \in Scopes] ==
  IF Kind[s] = "platform" THEN {t \in Scopes : Kind[t] = "platform"} ELSE {s} \cup Above[Parent[s]]

\* Rows that give the user an active role, and where.
Grants ==
  {<<r, "platform">> : r \in user_roles} \cup
  {<<assignments[a].role, assignments[a].scope>> : a \in
     {b \in AssignmentIds : assignments[b] # NULL /\ assignments[b].status = "active"}} \cup
  {<<IF members[s].role = NULL THEN members[s].legacy ELSE members[s].role, s>> : s \in
     {t \in Scopes : members[t] # NULL /\ members[t].status = "active"}}

\* The roles in an open scope are the active ones granted in it or above it, and
\* no others: nothing comes from a sibling or from below, however rows were made,
\* moved and revoked.  (docs/ASTHRA_ADMIN_WORKFLOW.md, inheritance rules.)
RolesAreInherited ==
  \A s \in Scopes : s \notin closed =>
    resolve_roles(s) = {g \in Grants : g[1] \in active /\ g[2] \in Above[s]}

\* A role is assigned once per scope_type and scope_id.  On the platform without an
\* id, where no constraint says so, it is unless two calls created it at a time or a
\* PATCH moved a row to it.  With another scope_id the platform is another scope here:
\* a user may hold a role on the platform once per id asked for.
AssignedOnce ==
  \A role \in Roles, s \in Scopes : Cardinality(RowsOf(role, s)) > 1 =>
    s = "platform" /\ <<role, s>> \in doubled

\* A role that was last asked to be revoked for a scope_type and scope_id, by a call
\* no other call about it overlapped, is not assigned for these any more.  The user
\* may still have it in that scope: from above or, on the platform, from a row with
\* another scope_id, which stays in force.
RevokedIsGone ==
  \A g \in revoked \ doubled :
    \A a \in RowsOf(g[1], g[2]) : assignments[a].status # "active"
=============================================================================
