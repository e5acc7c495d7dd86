---------------------------- MODULE MCMembership ----------------------------
(* Instances of Membership for TLC: two requests, three users, a role of the   *)
(* catalog that makes an owner and a custom one.                             *)
EXTENDS Membership, TLC

CONSTANTS u1, u2, u3, r1, r2, system, custom

Role(k, b) == [key |-> k, is_active |-> b]
Update(m, r) == [member_role |-> m, role_id |-> r]

\* A custom role called "Owner" that is renamed or switched off, and a title
\* given and taken by name, by role and by both.
CustomInit == [r \in {custom} |-> Role("owner", TRUE)]
CustomRows == {Role("owner", TRUE), Role("owner", FALSE), Role("member", TRUE)}
CustomUpdates == {Update("owner", NULL), Update(NULL, custom), Update("member", custom)}

\* The organization_owner role of the catalog, which cannot be edited.
CatalogInit == [r \in {system} |-> Role("organization_owner", TRUE)]
CatalogUpdates == {Update(NULL, system), Update("member", NULL)}

Symmetric == Permutations({r1, r2}) \cup Permutations({u1, u2, u3})
=============================================================================
