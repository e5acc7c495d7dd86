---------------------------- MODULE RoleCatalog ----------------------------
(***************************************************************************)
(* The permission and role catalog of core-service                         *)
(* (services/core-service/app): every permission check first brings the    *)
(* tables up to the templates in the code, a commit per row, whatever the  *)
(* other checks running at the time do.  Administrators change permissions *)
(* and, of the roles that are no template's, the links to them; SQLite     *)
(* gives the highest id again once its row is gone.  Which roles a user    *)
(* has is AccessControl's subject; descriptions, modules and scopes of     *)
(* permissions are left out.                                               *)
(***************************************************************************)
EXTENDS Integers, Sequences, FiniteSets, FiniteSetsExt

CONSTANTS
  Requests,       \* concurrent permission checks, and edits of a role's links
  Codes,          \* all permission codes
  Catalog,        \* those of CORE_PERMISSION_CATALOG, in order
  Templates,      \* the system roles, in order
  Matches,        \* template -> the codes its patterns match
  CustomRoles,    \* roles administrators made: they alone are is_editable
  MaxPermission,  \* bounds on permission ids and
  MaxLink,        \* on role_permissions ids
  MaxEdit,        \* bound on the changes administrators make
  NULL

PermissionIds == 1..MaxPermission
LinkIds == 1..MaxLink
TemplateSet == {Templates[n] : n \in DOMAIN Templates}

VARIABLES
  permissions,    \* PermissionIds -> [code, status, is_active], or NULL
  roles,          \* templates that have their role
  links,          \* role_permissions: LinkIds -> <<role, permission id>>, or NULL
  check,          \* what each check or edit is doing
  muddied,        \* history: checks during whose links a permission changed, another
                  \* check wrote links from an outdated list, or a commit deleted a
                  \* link by an id that had been another's
  edits           \* the number of changes administrators made

catalogVars == <<permissions, roles, links, check, muddied, edits>>

NoCheck == [at |-> "idle", done |-> 0, row |-> 0, was_active |-> FALSE, listed |-> {},
            role |-> NULL, added |-> {}, removed |-> {}]

Init ==
  /\ permissions = [p \in PermissionIds |-> NULL]
  /\ links = [l \in LinkIds |-> NULL]
  /\ roles = {} /\ muddied = {} /\ edits = 0
  /\ check = [r \in Requests |-> NoCheck]

-----------------------------------------------------------------------------
WithCode(code) == {p \in PermissionIds : permissions[p] # NULL /\ permissions[p].code = code}
NextPermission == 1 + Max({p \in PermissionIds : permissions[p] # NULL} \cup {0})
Row(code, status, on) == [code |-> code, status |-> status, is_active |-> on]
list(table) == {<<p, table[p].code>> : p \in {q \in PermissionIds : table[q] # NULL /\ table[q].is_active}}

Linking(r) == check[r].at \in {"links", "replace", "checked"}
Outdated(r, table) == check[r].at \in {"links", "replace"} /\ check[r].listed # list(table)
Go(r, next) == check' = [check EXCEPT ![r] = next]

LinksOf(role) == {l \in LinkIds : links[l] # NULL /\ links[l][1] = role}
Linked(role) == {links[l][2] : l \in LinksOf(role)}
NextLink == 1 + Max({l \in LinkIds : links[l] # NULL} \cup {0})
\* The ids the links that c adds get.
Fresh(c) == NextLink..(NextLink + Cardinality(c.added) - 1)

\* r is to delete a link in place of the one whose id it loaded: another's that got
\* the id since, or one it adds itself.
Mistaken(r) ==
  \E d \in check[r].removed :
    IF links[d[1]] = NULL THEN d[1] \in Fresh(check[r]) ELSE links[d[1]] # <<check[r].role, d[2]>>
Commits(r) ==
  \/ check[r].at = "replace" /\ check'[r].at = "links"
  \/ check[r].at = "edit" /\ check'[r] # check[r] /\ links' # links

\* What the links phase of each check has met after this step.
Watch ==
  muddied' = {r \in Requests : /\ check'[r].at \in {"links", "replace", "checked"}
                               /\ \/ r \in muddied
                                  \/ Linking(r) /\ permissions' # permissions
                                  \/ Linking(r) /\ \E q \in Requests : Commits(q) /\ Mistaken(q)
                                  \/ \E q \in Requests \ {r} : Outdated(q, permissions) \/ Outdated(q, permissions)'}

-----------------------------------------------------------------------------
(* PermissionService.ensure_permission_catalog                             *)

Begin(r) ==
  /\ check[r] = NoCheck
  /\ Go(r, [NoCheck EXCEPT !.at = "codes"])
  /\ UNCHANGED <<permissions, roles, links>>

Code(r) == Catalog[check[r].done + 1]

get_by_code(r) ==
  /\ check[r].at = "codes" /\ check[r].done < Len(Catalog)
  /\ IF WithCode(Code(r)) = {} THEN Go(r, [check[r] EXCEPT !.at = "code", !.row = 0])
     ELSE \E p \in WithCode(Code(r)) :
            IF permissions[p].status = "active" THEN Go(r, [check[r] EXCEPT !.done = @ + 1])
            ELSE Go(r, [check[r] EXCEPT !.at = "code", !.row = p, !.was_active = permissions[p].is_active])
  /\ UNCHANGED <<permissions, roles, links>>

\* The row is created, unless another check or an administrator did; or it is made
\* active again, whatever became of it meanwhile: what differs from the row as it
\* was read is written.
write_permission(r) ==
  LET p == IF check[r].row = 0 THEN NextPermission ELSE check[r].row
      next == [check[r] EXCEPT !.at = "codes", !.done = @ + 1, !.row = 0, !.was_active = FALSE]
  IN /\ check[r].at = "code" /\ p \in PermissionIds
     /\ IF check[r].row = 0 /\ WithCode(Code(r)) # {}
        THEN Go(r, NoCheck) /\ UNCHANGED permissions
        ELSE /\ Go(r, next)
             /\ permissions' = [permissions EXCEPT ![p] =
                  IF check[r].row = 0 THEN Row(Code(r), "active", TRUE)
                  ELSE Row(@.code, "active", IF check[r].was_active THEN @.is_active ELSE TRUE)]
     /\ UNCHANGED <<roles, links>>

-----------------------------------------------------------------------------
(* RoleService.ensure_role_catalog and _sync_role_template_permissions     *)

\* The next template's role is there, or is to be created.
ensure_role(r) ==
  LET n == check[r].done - Len(Catalog) + 1
  IN /\ check[r].at = "codes" /\ n \in DOMAIN Templates
     /\ Go(r, IF Templates[n] \in roles THEN [check[r] EXCEPT !.done = @ + 1]
              ELSE [check[r] EXCEPT !.at = "role"])
     /\ UNCHANGED <<permissions, roles, links>>

\* One role per scope and name: another check may have been first.
create_role(r) ==
  LET t == Templates[check[r].done - Len(Catalog) + 1]
  IN /\ check[r].at = "role"
     /\ Go(r, IF t \in roles THEN NoCheck ELSE [check[r] EXCEPT !.at = "codes", !.done = @ + 1])
     /\ roles' = roles \cup {t}
     /\ UNCHANGED <<permissions, links>>

\* One list of the permissions for all roles.
list_permissions(r) ==
  /\ check[r].at = "codes" /\ check[r].done = Len(Catalog) + Len(Templates)
  /\ Go(r, [NoCheck EXCEPT !.at = "links", !.listed = list(permissions)])
  /\ UNCHANGED <<permissions, roles, links>>

\* The links of a role as they are, and what has to be done for it to have those wanted.
Planned(c, role, wanted) ==
  [c EXCEPT !.role = role, !.added = wanted \ Linked(role),
            !.removed = {<<l, links[l][2]>> : l \in {m \in LinksOf(role) : links[m][2] \notin wanted}}]

list_links(r) ==
  LET t == Templates[check[r].done + 1]
      wanted == {m[1] : m \in {n \in check[r].listed : n[2] \in Matches[t]}}
  IN /\ check[r].at = "links"
     /\ Go(r, IF check[r].done = Len(Templates) THEN [NoCheck EXCEPT !.at = "checked"]
              ELSE Planned([check[r] EXCEPT !.at = "replace"], t, wanted))
     /\ UNCHANGED <<permissions, roles, links>>

\* One commit per role: rows are inserted, then those in gone deleted by their ids.  A
\* link added meanwhile fails it, one removed meanwhile does not.
Replace(r, gone) ==
  LET c == check[r]
  IN /\ c.at \in {"replace", "edit"}
     /\ IF c.added \cap Linked(c.role) # {} THEN Go(r, NoCheck) /\ UNCHANGED links
        ELSE /\ Fresh(c) \subseteq LinkIds
             /\ \E put \in [Fresh(c) -> c.added] :
                  /\ {put[l] : l \in Fresh(c)} = c.added
                  /\ links' = [l \in LinkIds |-> IF l \in gone THEN NULL
                                                ELSE IF l \in Fresh(c) THEN <<c.role, put[l]>> ELSE links[l]]
             /\ Go(r, IF c.at = "edit" THEN NoCheck
                      ELSE [c EXCEPT !.at = "links", !.done = @ + 1, !.role = NULL, !.added = {}, !.removed = {}])
     /\ UNCHANGED <<permissions, roles>>

\* Mutant of replace_permissions: what is not wanted any more stays.
replace_adding_only(r) == Replace(r, {})

replace_permissions(r) == Replace(r, {d[1] : d \in check[r].removed})

\* The check reads the codes of the user's roles and answers; or it stopped between
\* two commits.
Return(r) ==
  /\ check[r] # NoCheck /\ Go(r, NoCheck)
  /\ UNCHANGED <<permissions, roles, links>>

-----------------------------------------------------------------------------
(* PermissionService: create, update, delete; RoleService: a role's links  *)

create(code, status) ==
  /\ WithCode(code) = {} /\ NextPermission \in PermissionIds
  /\ permissions' = [permissions EXCEPT ![NextPermission] = Row(code, status, status = "active")]
  /\ UNCHANGED <<roles, links, check>>

\* A PATCH of one of the two flags sets the other; of both, takes both as they come.
\* An inactive permission is not found.
update(p, code, status, on) ==
  /\ permissions[p] # NULL /\ permissions[p].is_active
  /\ WithCode(code) \subseteq {p}
  /\ permissions' = [permissions EXCEPT ![p] = Row(code, status, on)]
  /\ UNCHANGED <<roles, links, check>>

\* PUT, POST and DELETE of a role's permissions up to the commit, which is that of
\* replace_permissions: a row it does not have, or one it has.  Those named are active.
edit_links(r, role) ==
  LET active == {p \in PermissionIds : permissions[p] # NULL /\ permissions[p].is_active}
  IN /\ check[r] = NoCheck
     /\ \E wanted \in (SUBSET active)
                     \cup {Linked(role) \cup {p} : p \in active \ Linked(role)}
                     \cup {Linked(role) \ {p} : p \in Linked(role)} :
          Go(r, Planned([NoCheck EXCEPT !.at = "edit"], role, wanted))
     /\ UNCHANGED <<permissions, roles, links>>

Edit ==
  \/ \E r \in Requests, role \in CustomRoles : edit_links(r, role)
  \/ \E code \in Codes, status \in {"active", "inactive"} : create(code, status)
  \/ \E p \in PermissionIds, code \in Codes, status \in {"active", "inactive"}, on \in BOOLEAN :
       update(p, code, status, on)

Check(r) ==
  \/ Begin(r) \/ get_by_code(r) \/ write_permission(r) \/ ensure_role(r) \/ create_role(r)
  \/ list_permissions(r) \/ list_links(r) \/ replace_permissions(r) \/ Return(r)

Next ==
  /\ \/ (\E r \in Requests : Check(r)) /\ UNCHANGED edits
     \/ edits < MaxEdit /\ edits' = edits + 1 /\ Edit
  /\ Watch

Spec == Init /\ [][Next]_catalogVars

-----------------------------------------------------------------------------
(* Properties                                                              *)

InForce(p) == permissions[p] # NULL /\ permissions[p].is_active /\ permissions[p].status = "active"

\* _permission_codes_for_roles, for the role of one template.
Granted(t) == {permissions[p].code : p \in {q \in Linked(t) : InForce(q)}}

\* A check decides on what the templates say of the permissions in force: however
\* permissions were created, renamed and turned off before, and whichever checks
\* wrote the same rows beside it or stopped half-way, unless, while it wrote the
\* links, a permission changed, another check wrote links from an older list, or a
\* commit deleted a link that had got the id of one it had loaded.
DecidesOnTemplates ==
  \A r \in Requests \ muddied : check[r].at = "checked" =>
    \A t \in TemplateSet :
      Granted(t) = {permissions[p].code : p \in {q \in PermissionIds : InForce(q)}} \cap Matches[t]
=============================================================================
