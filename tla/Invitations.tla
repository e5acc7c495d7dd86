----------------------------- MODULE Invitations ----------------------------
(***************************************************************************)
(* The invitations to one organization and its workspaces: core-service's  *)
(* InvitationService and InvitationRepository                              *)
(* (services/core-service/app/services/invitation_service.py).             *)
(*                                                                         *)
(* A request reads in several queries and writes with one commit, or two   *)
(* when somebody is invited who is a user already: the pending row first,  *)
(* then the memberships with its acceptance.  Nothing is held in between.  *)
(* The row's token is left out: a caller without the current one is        *)
(* refused.  So are the permissions of who invites, resends and revokes.   *)
(***************************************************************************)
EXTENDS Integers, Sequences

CONSTANTS
  Requests,        \* threads serving /api/v1/invitations
  Emails,          \* the people, by their addresses
  Workspaces,
  MaxInvitations,  \* bound on the invitation rows
  NULL             \* the workspace of an invitation to the organization alone

Scopes == Workspaces \cup {NULL}
Statuses == {"pending", "accepted", "cancelled", "expired"}

ASSUME ConstantsAssumption ==
  /\ MaxInvitations \in Nat
  /\ NULL \notin Workspaces

VARIABLES
  invitations,   \* the rows in id order; none is ever deleted
  registered,    \* the addresses that have an account
  joined,        \* the members of each scope; joined[NULL] the organization's
  pc,            \* what a request does next
  job,           \* what it knows: its invitation, its scope, what it has read
  overtaken,     \* history: requests whose invitation somebody else decided since
  left,          \* history: who was ever removed from each scope
  accepted       \* history: the invitations that were ever accepted

vars == <<invitations, registered, joined, pc, job, overtaken, left, accepted>>
history == <<overtaken, left, accepted>>

NoJob == [id |-> 0]
Joining == {"organization", "workspace", "join"}
OnRow == Joining \cup {"cancel", "expire", "resend"}

\* The organization and its workspaces have the owner, who is not looked at.
Init ==
  /\ invitations = <<>>
  /\ registered = {}
  /\ joined = [s \in Scopes |-> {}]
  /\ pc = [r \in Requests |-> "idle"]
  /\ job = [r \in Requests |-> NoJob]
  /\ overtaken = {}
  /\ left = [s \in Scopes |-> {}]
  /\ accepted = {}

-----------------------------------------------------------------------------
(* Operators                                                               *)

ScopesOf(invitation) == {NULL, invitation.workspace}

Pending(email, workspace) ==
  \E i \in DOMAIN invitations :
    invitations[i].email = email /\ invitations[i].workspace = workspace
      /\ invitations[i].status = "pending"

\* Mutant of Taken: the table has no such constraint.
NeverTaken(id, email, workspace, status) == FALSE

\* UNIQUE (email, organization_id, workspace_id, status) would refuse this for
\* the row id, 0 for a new one, if another row has the same; rows that have
\* NULL for the workspace are all distinct to it.
Taken(id, email, workspace, status) ==
  workspace # NULL /\ \E i \in DOMAIN invitations \ {id} :
    invitations[i].email = email /\ invitations[i].workspace = workspace
      /\ invitations[i].status = status

Goto(r, label) == pc' = [pc EXCEPT ![r] = label]

\* The response is made, whatever it is.
End(r) == Goto(r, "idle") /\ job' = [job EXCEPT ![r] = NoJob]

\* The commit of r decides its invitation and ends r; if the commit fails, all
\* of its transaction is rolled back.
Decide(r, status, fails) ==
  /\ IF fails
     THEN UNCHANGED invitations /\ overtaken' = overtaken \ {r}
     ELSE /\ invitations' = [invitations EXCEPT ![job[r].id].status = status]
          /\ overtaken' = (overtaken \cup
               {q \in Requests : pc[q] \in OnRow /\ job[q].id = job[r].id}) \ {r}
  /\ End(r)

TakenBy(r, status) ==
  LET row == invitations[job[r].id]
  IN Taken(job[r].id, row.email, row.workspace, status)

-----------------------------------------------------------------------------
(* create                                                                  *)

\* get_pending_duplicate refuses with 409.
CreateCheck(r, email, workspace) ==
  /\ pc[r] = "idle" /\ ~Pending(email, workspace)
  /\ Goto(r, "lookup")
  /\ job' = [job EXCEPT ![r] = [id |-> 0, email |-> email, workspace |-> workspace]]
  /\ UNCHANGED <<invitations, registered, joined, history>>

\* Mutant of CreateLookup: a user joins before the invitation is stored.
LookupAndJoin(r) ==
  /\ pc[r] = "lookup"
  /\ Goto(r, IF job[r].email \in registered THEN "organization" ELSE "insert")
  /\ UNCHANGED <<invitations, registered, joined, job, history>>

\* A user who is a member of the scope is refused with 409.
CreateLookup(r) ==
  LET user == job[r].email \in registered
  IN /\ pc[r] = "lookup"
     /\ IF user /\ job[r].email \in joined[job[r].workspace]
        THEN End(r)
        ELSE Goto(r, IF user THEN "insert user" ELSE "insert") /\ UNCHANGED job
     /\ UNCHANGED <<invitations, registered, joined, history>>

\* InvitationRepository.create; an account known by now is joined right away.
CreateInsert(r) ==
  /\ pc[r] \in {"insert", "insert user"}
  /\ IF Taken(0, job[r].email, job[r].workspace, "pending")
     THEN End(r) /\ UNCHANGED invitations
     ELSE /\ Len(invitations) < MaxInvitations
          /\ invitations' = Append(invitations,
               [email |-> job[r].email, workspace |-> job[r].workspace,
                status |-> "pending", lapsed |-> FALSE])
          /\ IF pc[r] = "insert" THEN End(r)
             ELSE /\ Goto(r, "organization")
                  /\ job' = [job EXCEPT ![r] = [id |-> Len(invitations) + 1, missing |-> {}]]
  /\ UNCHANGED <<registered, joined, history>>

-----------------------------------------------------------------------------
(* accept, and add_memberships, which create calls too                     *)

\* The invitation is loaded and must be pending; its time is looked at before
\* the address of the caller.
AcceptLoad(r, i) ==
  /\ pc[r] = "idle" /\ invitations[i].status = "pending"
  /\ \/ invitations[i].lapsed /\ Goto(r, "expire")
     \/ ~invitations[i].lapsed /\ invitations[i].email \in registered /\ Goto(r, "organization")
  /\ job' = [job EXCEPT ![r] = [id |-> i, missing |-> {}]]
  /\ UNCHANGED <<invitations, registered, joined, history>>

ReadOrganization(r) ==
  LET i == job[r].id
  IN /\ pc[r] = "organization"
     /\ job' = [job EXCEPT ![r].missing = {s \in {NULL} : invitations[i].email \notin joined[s]}]
     /\ Goto(r, IF invitations[i].workspace = NULL THEN "join" ELSE "workspace")
     /\ UNCHANGED <<invitations, registered, joined, history>>

ReadWorkspace(r) ==
  LET i == job[r].id
  IN /\ pc[r] = "workspace"
     /\ job' = [job EXCEPT ![r].missing = @ \cup
          {s \in {invitations[i].workspace} : invitations[i].email \notin joined[s]}]
     /\ Goto(r, "join")
     /\ UNCHANGED <<invitations, registered, joined, history>>

\* Mutant of Join: the workspace's membership is forgotten.
JoinOrganizationOnly(r) ==
  LET email == invitations[job[r].id].email
  IN /\ pc[r] = "join"
     /\ Decide(r, "accepted", FALSE)
     /\ joined' = [joined EXCEPT ![NULL] = @ \cup {email}]
     /\ accepted' = accepted \cup {job[r].id}
     /\ UNCHANGED <<registered, left>>

\* The missing memberships and the acceptance, in one commit: a membership that
\* another request has inserted meanwhile makes it fail.
Join(r) ==
  LET email == invitations[job[r].id].email
      fails == TakenBy(r, "accepted") \/ \E s \in job[r].missing : email \in joined[s]
  IN /\ pc[r] = "join"
     /\ Decide(r, "accepted", fails)
     /\ joined' = [s \in Scopes |-> IF s \in job[r].missing /\ ~fails
                                    THEN joined[s] \cup {email} ELSE joined[s]]
     /\ accepted' = IF fails THEN accepted ELSE accepted \cup {job[r].id}
     /\ UNCHANGED <<registered, left>>

ExpireCommit(r) ==
  /\ pc[r] = "expire"
  /\ Decide(r, "expired", TakenBy(r, "expired"))
  /\ UNCHANGED <<registered, joined, left, accepted>>

-----------------------------------------------------------------------------
(* revoke and resend                                                       *)

\* Mutant of RevokeLoad: any invitation may be cancelled.
RevokeAny(r, i) ==
  /\ pc[r] = "idle"
  /\ Goto(r, "cancel")
  /\ job' = [job EXCEPT ![r] = [id |-> i, missing |-> {}]]
  /\ UNCHANGED <<invitations, registered, joined, history>>

RevokeLoad(r, i) ==
  /\ pc[r] = "idle" /\ invitations[i].status = "pending"
  /\ Goto(r, "cancel")
  /\ job' = [job EXCEPT ![r] = [id |-> i, missing |-> {}]]
  /\ UNCHANGED <<invitations, registered, joined, history>>

RevokeCommit(r) ==
  /\ pc[r] = "cancel"
  /\ Decide(r, "cancelled", TakenBy(r, "cancelled"))
  /\ UNCHANGED <<registered, joined, left, accepted>>

ResendLoad(r, i) ==
  /\ pc[r] = "idle" /\ invitations[i].status = "pending"
  /\ Goto(r, "resend")
  /\ job' = [job EXCEPT ![r] = [id |-> i, missing |-> {}]]
  /\ UNCHANGED <<invitations, registered, joined, history>>

\* Another seven days; the status is not written.
ResendCommit(r) ==
  /\ pc[r] = "resend"
  /\ invitations' = [invitations EXCEPT ![job[r].id].lapsed = FALSE]
  /\ overtaken' = overtaken \ {r}
  /\ End(r)
  /\ UNCHANGED <<registered, joined, left, accepted>>

\* The thread stops, a query fails or the role asked for is refused: what the
\* request committed stays.
Fail(r) ==
  /\ pc[r] # "idle"
  /\ End(r)
  /\ overtaken' = overtaken \ {r}
  /\ UNCHANGED <<invitations, registered, joined, left, accepted>>

-----------------------------------------------------------------------------
(* Around the invitations                                                  *)

\* AuthService.register
Register(email) ==
  /\ registered' = registered \cup {email}
  /\ UNCHANGED <<invitations, joined, pc, job, history>>

\* MembershipService: who leaves the organization stays in its workspaces.
Remove(scope, email) ==
  /\ email \in joined[scope]
  /\ joined' = [joined EXCEPT ![scope] = @ \ {email}]
  /\ left' = [left EXCEPT ![scope] = @ \cup {email}]
  /\ UNCHANGED <<invitations, registered, pc, job, overtaken, accepted>>

\* Seven days have passed since the invitation was created or resent.
Lapse(i) ==
  /\ invitations' = [invitations EXCEPT ![i].lapsed = TRUE]
  /\ UNCHANGED <<registered, joined, pc, job, history>>

-----------------------------------------------------------------------------
Request(r) ==
  \/ \E email \in Emails, workspace \in Scopes : CreateCheck(r, email, workspace)
  \/ CreateLookup(r) \/ CreateInsert(r)
  \/ \E i \in DOMAIN invitations : AcceptLoad(r, i) \/ RevokeLoad(r, i) \/ ResendLoad(r, i)
  \/ ReadOrganization(r) \/ ReadWorkspace(r) \/ Join(r) \/ ExpireCommit(r)
  \/ RevokeCommit(r) \/ ResendCommit(r) \/ Fail(r)

Next ==
  \/ \E r \in Requests : Request(r)
  \/ \E email \in Emails : Register(email) \/ \E s \in Scopes : Remove(s, email)
  \/ \E i \in DOMAIN invitations : Lapse(i)

Spec == Init /\ [][Next]_vars

-----------------------------------------------------------------------------
(* Properties                                                              *)

\* Every variable stays in its type, and a request knows what its step needs.
Rows == [email : Emails, workspace : Scopes, status : Statuses, lapsed : BOOLEAN]
JobOK(r) ==
  \/ pc[r] = "idle" /\ job[r] = NoJob
  \/ /\ pc[r] \in {"lookup", "insert", "insert user"}
     /\ job[r] \in [id : {0}, email : Emails, workspace : Scopes]
  \/ pc[r] \in OnRow /\ job[r] \in [id : DOMAIN invitations, missing : SUBSET Scopes]
TypeOK ==
  /\ invitations \in Seq(Rows)
  /\ registered \subseteq Emails
  /\ joined \in [Scopes -> SUBSET Emails]
  /\ DOMAIN pc = Requests /\ DOMAIN job = Requests
  /\ \A r \in Requests : JobOK(r)
  /\ overtaken \subseteq {r \in Requests : pc[r] \in OnRow}
  /\ left \in [Scopes -> SUBSET Emails]
  /\ accepted \subseteq DOMAIN invitations

\* Two callers who invite one address to a workspace at one time both pass
\* get_pending_duplicate; the table still gets one pending row.
OneWorkspacePending ==
  \A i, j \in DOMAIN invitations :
    /\ i # j /\ invitations[i].workspace # NULL
    /\ invitations[i].status = "pending" /\ invitations[j].status = "pending"
    => <<invitations[i].email, invitations[i].workspace>>
         # <<invitations[j].email, invitations[j].workspace>>

\* Who has accepted is a member of the organization and of the workspace until
\* somebody removes them, though memberships are read before the commit that
\* inserts them and two acceptances may run at once.
AcceptedIsMember ==
  \A i \in DOMAIN invitations : invitations[i].status = "accepted" =>
    \A s \in ScopesOf(invitations[i]) : invitations[i].email \in joined[s] \cup left[s]

Decided(i) == invitations[i].status # "pending"

\* An invitation is decided once: accepted, cancelled or expired, it stays so,
\* unless the request that decides it again had found it pending before.
DecidedOnce ==
  [][\A i \in DOMAIN invitations : Decided(i) =>
       \/ invitations'[i].status = invitations[i].status
       \/ \E r \in overtaken : job[r].id = i /\ pc'[r] = "idle"]_vars

\* services/core-service/README.md: "Only pending invitations can be revoked."
\* No cancelled invitation has ever been accepted.
OnlyPendingRevoked ==
  \A i \in DOMAIN invitations : invitations[i].status = "cancelled" => i \notin accepted

\* docs/ASTHRA_ADMIN_WORKFLOW.md: "Pending invitations can be resent or
\* cancelled."  Nothing stands in the way of a cancellation's commit.
PendingCanBeCancelled ==
  \A r \in Requests : pc[r] = "cancel" /\ ~Decided(job[r].id) => ~TakenBy(r, "cancelled")
=============================================================================
