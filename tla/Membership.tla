----------------------------- MODULE Membership -----------------------------
(***************************************************************************)
(* The members of one organization, or of one workspace, and the requests  *)
(* of core-service's MembershipService that remove them or change their    *)
(* role (services/core-service/app/services/membership_service.py).  The   *)
(* two scopes run the same code over tables of the same columns.           *)
(*                                                                         *)
(* A request loads the member, checks in later queries that an owner would *)
(* be left, and writes with its commit.  Whether the caller may do so is   *)
(* decided before that, by code this module leaves out.                    *)
(***************************************************************************)
EXTENDS Integers, FiniteSets

CONSTANTS
  Requests,      \* threads serving DELETE / PATCH .../members/{user_id}
  Users,
  MaxId,         \* bound on the membership row ids
  Roles,         \* rows of the roles table; none is ever deleted
  InitRoles,     \* their initial [key, is_active]
  Editable,      \* the custom roles
  RoleRows,      \* what a PATCH or DELETE /roles/{id} may make of those
  Updates,       \* PATCH bodies: [member_role, role_id], NULL if absent
  NULL, NoRow

Ids == 1..MaxId
OwnerKeys == {"owner", "organization_owner", "platform_owner"}
Keys == OwnerKeys \cup {"member"}        \* "member" stands for all the others
MemberRows == [user_id : Users, member_role : Keys, role_id : Roles \cup {NULL}]

ASSUME ConstantsAssumption ==
  /\ MaxId \in Nat \ {0} /\ Users # {}
  /\ Editable \subseteq Roles
  /\ RoleRows \subseteq [key : Keys, is_active : BOOLEAN]
  /\ InitRoles \in [Roles -> [key : Keys, is_active : BOOLEAN]]
  /\ Updates \subseteq [member_role : Keys \cup {NULL}, role_id : Roles \cup {NULL}]
  /\ NoRow \notin MemberRows /\ NULL \notin Keys \cup Roles

VARIABLES
  members,       \* organization_members of the scope: Ids -> row, or NoRow
  roles,         \* roles: [key, is_active]
  pc,            \* "idle", "check" (is an owner left?) or "commit"
  job,           \* the request: the member as it was loaded and what to write
  overtaken,     \* history: requests since whose load another member lost ownership
  excused        \* history: an overtaken request committed, or an owner role went

vars == <<members, roles, pc, job, overtaken, excused>>
history == <<overtaken, excused>>

NoJob == [op |-> "none"]

\* create_with_owner commits the scope together with its owner.
Init ==
  /\ \E u \in Users : members = [i \in Ids |->
       IF i = 1 THEN [user_id |-> u, member_role |-> "owner", role_id |-> NULL] ELSE NoRow]
  /\ roles = InitRoles
  /\ pc = [r \in Requests |-> "idle"]
  /\ job = [r \in Requests |-> NoJob]
  /\ overtaken = {}
  /\ excused = FALSE

-----------------------------------------------------------------------------
(* Operators                                                               *)

OwnerRole(r, table) == table[r].is_active /\ table[r].key \in OwnerKeys

_is_owner(row, table) ==
  row.member_role \in OwnerKeys \/ (row.role_id # NULL /\ OwnerRole(row.role_id, table))

Owners(rows, table) == {i \in Ids : rows[i] # NoRow /\ _is_owner(rows[i], table)}

\* The rows a request lists: a session answers a query that returns a row it
\* has loaded already with the object it has, not with the new values.
Listed(r) == [i \in Ids |-> IF i = job[r].id /\ members[i] # NoRow
                            THEN job[r].row ELSE members[i]]

\* The UPDATE names only the columns whose new value differs from the loaded one.
Column(stored, loaded, new) == IF new = loaded THEN stored ELSE new

\* Every request but those of the written members is overtaken by a write that
\* takes ownership away.
Overtakes(rows, table) ==
  overtaken' = {q \in Requests : pc'[q] # "idle" /\
    (q \in overtaken \/ Owners(members, roles) \ (Owners(rows, table) \cup {job[q].id}) # {})}

-----------------------------------------------------------------------------
(* MembershipService                                                       *)

RemoveLoad(r, i) ==
  /\ pc[r] = "idle" /\ members[i] # NoRow
  /\ pc' = [pc EXCEPT ![r] = "check"]
  /\ job' = [job EXCEPT ![r] = [op |-> "remove", id |-> i, row |-> members[i]]]
  /\ UNCHANGED <<members, roles, history>>

\* Mutant of _member_role_from_update: no fallback to the current title.
member_role_as_given(data, current) ==
  IF data.member_role # NULL THEN data.member_role ELSE NULL

\* A role that is not active is refused only when it has to give the title.
_member_role_from_update(data, current) ==
  IF data.member_role # NULL THEN data.member_role
  ELSE IF data.role_id # NULL THEN roles[data.role_id].key
  ELSE current

UpdateLoad(r, i, data) ==
  LET next == _member_role_from_update(data, members[i].member_role)
  IN /\ pc[r] = "idle" /\ members[i] # NoRow
     /\ data.member_role = NULL /\ data.role_id # NULL => roles[data.role_id].is_active
     /\ pc' = [pc EXCEPT ![r] =
                 IF _is_owner(members[i], roles) /\ next # "owner" THEN "check" ELSE "commit"]
     /\ job' = [job EXCEPT ![r] = [op |-> "update", id |-> i, row |-> members[i],
                                   member_role |-> next, role_id |-> data.role_id]]
     /\ UNCHANGED <<members, roles, history>>

\* Mutant of _ensure_not_last_owner: off by one.
OneOwnerIsEnough(r) ==
  /\ pc[r] = "check"
  /\ pc' = [pc EXCEPT ![r] =
       IF \/ Cardinality(Owners(Listed(r), roles)) > 0
          \/ ~_is_owner(job[r].row, roles) THEN "commit" ELSE "idle"]
  /\ job' = IF pc'[r] = "idle" THEN [job EXCEPT ![r] = NoJob] ELSE job
  /\ overtaken' = {q \in overtaken : pc'[q] # "idle"}
  /\ UNCHANGED <<members, roles, excused>>

\* The last owner is refused with 400.
_ensure_not_last_owner(r) ==
  /\ pc[r] = "check"
  /\ pc' = [pc EXCEPT ![r] =
       IF \/ Cardinality(Owners(Listed(r), roles)) > 1
          \/ ~_is_owner(job[r].row, roles) THEN "commit" ELSE "idle"]
  /\ job' = IF pc'[r] = "idle" THEN [job EXCEPT ![r] = NoJob] ELSE job
  /\ overtaken' = {q \in overtaken : pc'[q] # "idle"}
  /\ UNCHANGED <<members, roles, excused>>

\* What the commit of r makes of the row with the loaded id, whoever has it now.
Written(r) ==
  LET now == members[job[r].id]
      loaded == job[r].row
  IN IF now = NoRow \/ job[r].op = "remove" THEN NoRow
     ELSE [user_id |-> now.user_id,
           member_role |-> Column(now.member_role, loaded.member_role, job[r].member_role),
           role_id |-> Column(now.role_id, loaded.role_id, job[r].role_id)]

\* A DELETE that meets no row only warns; an UPDATE that meets none fails, and
\* neither changes anything.
Commit(r) ==
  /\ pc[r] = "commit"
  /\ members' = [members EXCEPT ![job[r].id] = Written(r)]
  /\ pc' = [pc EXCEPT ![r] = "idle"]
  /\ job' = [job EXCEPT ![r] = NoJob]
  /\ Overtakes(members', roles)
  /\ excused' = (excused \/ r \in overtaken)
  /\ UNCHANGED roles

\* The thread stops or a query fails: nothing was written yet.
Fail(r) ==
  /\ pc[r] # "idle"
  /\ pc' = [pc EXCEPT ![r] = "idle"]
  /\ job' = [job EXCEPT ![r] = NoJob]
  /\ overtaken' = overtaken \ {r}
  /\ UNCHANGED <<members, roles, excused>>

-----------------------------------------------------------------------------
(* Who else writes: an accepted invitation, and RoleService                *)

\* SQLite gives the row an id above every one in the table, so above every
\* one in this scope; other scopes' rows may lie between.
AddMember(u, role_id) ==
  \E i \in Ids :
    /\ \A j \in Ids : members[j] # NoRow => j < i /\ members[j].user_id # u
    /\ members' = [members EXCEPT ![i] =
                     [user_id |-> u, member_role |-> "member", role_id |-> role_id]]
    /\ UNCHANGED <<roles, pc, job, history>>

\* A rename gives a custom role a new key; it can be switched off and on.
RoleUpdate(role, row) ==
  /\ role \in Editable
  /\ roles' = [roles EXCEPT ![role] = row]
  /\ excused' = (excused \/ (OwnerRole(role, roles) /\ ~OwnerRole(role, roles')))
  /\ UNCHANGED <<members, pc, job, overtaken>>

-----------------------------------------------------------------------------
Request(r) ==
  \/ \E i \in Ids : RemoveLoad(r, i) \/ \E data \in Updates : UpdateLoad(r, i, data)
  \/ _ensure_not_last_owner(r) \/ Commit(r) \/ Fail(r)

Next ==
  \/ \E r \in Requests : Request(r)
  \/ \E u \in Users, role_id \in Roles \cup {NULL} : AddMember(u, role_id)
  \/ \E role \in Roles, row \in RoleRows : RoleUpdate(role, row)

Spec == Init /\ [][Next]_vars

-----------------------------------------------------------------------------
(* Properties                                                              *)

\* Every variable stays in its type, and a request has a job while it runs.
Jobs ==
  [op : {"remove"}, id : Ids, row : MemberRows] \cup
  [op : {"update"}, id : Ids, row : MemberRows, member_role : Keys, role_id : Roles \cup {NULL}]
TypeOK ==
  /\ members \in [Ids -> MemberRows \cup {NoRow}]
  /\ roles \in [Roles -> [key : Keys, is_active : BOOLEAN]]
  /\ pc \in [Requests -> {"idle", "check", "commit"}]
  /\ job \in [Requests -> Jobs \cup {NoJob}]
  /\ \A r \in Requests : pc[r] # "idle" => job[r] \in Jobs
  /\ overtaken \subseteq {r \in Requests : pc[r] # "idle"}
  /\ excused \in BOOLEAN

\* The check of _ensure_not_last_owner is made before the commit it guards and
\* nothing holds it: it still keeps an owner, unless another member lost
\* ownership between a request's load and its commit, or a role of owners was
\* renamed or switched off.  Whatever else changes meanwhile does no harm:
\* promotions, joins, and any number of requests on one and the same member.
OwnerRemains == excused \/ Owners(members, roles) # {}

\* docs/ASTHRA_ADMIN_WORKFLOW.md: "The last Organization Owner cannot be removed."
LastOwnerStays == Owners(members, roles) # {}
=============================================================================
