# Asthra: TLA+ models, checks and proofs

Asthra is a monorepo of FastAPI services, each with an SQLite database of its
own, some shared packages and a Next.js frontend. This directory holds TLA+
models of the parts where requests can disturb one another, the TLC
configurations that check them on small instances, and TLAPS proofs of what
holds for any number of requests and rows. All paths below are relative to the
repository.

    tlc -config EventBus.cfg MCEventBus      # model-check one run
    tlapm EventBusProofs.tla                 # check one module of proofs

Contents: [1 the system](#1-the-system), [2 how requests run](#2-how-requests-run),
[3 modules](#3-the-modules), [4 runs](#4-the-runs), [5 fairness](#5-fairness-and-deadlock),
[6 proofs](#6-what-is-proved), [7 model-checked only](#7-what-is-only-model-checked),
[8 divergences](#8-where-the-code-departs-from-its-documents),
[9 not modelled](#9-what-is-not-modelled), [10 plan](#10-plan).

## 1 The system

The inventory, largest core logic first. "Hard" names the behaviours that a test
would hardly reach; `PROJECT.json` lists each at its line under `hazards`.

| Component | State it keeps | Operations | Interacts with | Hard | What makes it correct |
| --- | --- | --- | --- | --- | --- |
| **event bus** (`services/event-service`) | `event_records`, `event_subscriptions`, `event_delivery_logs` | publish with fan-out; create, update, delete, list subscriptions | called by every producer through `EventClient` | several commits per publish, attributes that expire with a commit, unique `event_id`, reused row ids, failure half-way | one log per event and subscription; no concerned subscription left out; workspaces apart; a producer is told the truth; the fan-out ends |
| **EventClient** (`packages/shared-events`) | none | `publish_event` | event bus over HTTP, in the producer's request | timeout while the service goes on | "published" only if it is stored |
| **event producers** (`event_publisher.py` in five services) | none | `publish_event` after the producer's own commit | EventClient | event lost after the commit; no retry, no outbox | what is told was stored before |
| **memberships** (core) | `organization_members`, `workspace_members` | list, change role, remove | reads roles; written by invitations too | last owner counted before the commit it guards | a scope keeps an owner |
| **invitations** (core) | `invitations` | create, accept, revoke, resend, expire | writes memberships, reads accounts | check-then-act on status, two commits in `create`, unique constraint over history | one pending invitation; decided once; accepted means member |
| **roles and permissions** (core) | `roles`, `permissions`, `role_permissions` | custom roles; catalog synchronised on each check | read by access control, memberships | concurrent synchronisation, renames | catalog reaches one fixed state |
| **access control** (core) | `role_assignments` (read) | `resolve_roles`, `effective_permissions`, `require` | roles, memberships, scoped memberships | grants come from several tables, legacy titles included | the roles in a scope are those granted in it or above it |
| **scoped memberships** (core) | `role_assignments`, `project_memberships`, `team_members` | assign, change, revoke | access control | look-then-insert, no constraint on the platform | assigned once per `scope_type` and `scope_id`; revoked is gone for these |
| **organizations, workspaces, projects, teams** (core) | one table each | create with owner, update, archive | memberships | scope and owner in one commit | never without owner at birth |
| **accounts** (core) | `users`, `api_keys` | register, log in, refresh, revoke | invitations | - | - |
| **work item hierarchy** (flow) | `work_items` | create, update, move, archive, project tree | project workflow, activity, automation | parent checked before the commit, children not looked at, two halves of one update | parents of the project, levels that fit, nobody missing from the tree |
| **project workflows** (flow) | `workflows`, `work_item_statuses`, `workflow_transitions` | `ensure_project_workflow`, `validate_transition`, administration | work items, automation rules | default workflow made on demand, a commit per row, by whoever comes first | complete when used; one status per key; items stay in their workflow |
| **automation rules** (flow) | `flow_automation_rules`, `audit_events` | run inside the triggering request | work items | each action's commit expires item and rules; writes past the work item service | rules act in order; the audit trail accounts for the item |
| **sprints** (flow) | `sprints`, `work_items.sprint_id` | create, start, complete, assign, delete | work items | completion goes through the items a commit each | completed means finished; nothing in a deleted sprint |
| boards, releases, comments, labels, fields, views, activity, notifications (flow) | one table each | create, read, update, delete | work items | - | - |
| **automation-service** | definitions, `workflow_executions`, `automation_audit_logs` | `WorkflowExecutor.execute` | - | crash after "running", audit failure after "success" | the outcome answered is the one recorded |
| **memory-service** | `knowledge_documents`, `document_chunks`, `embedding_records`, vectors in the process | ingest, update, embed, delete, retrieve | ai-service | several commits per document, reused chunk ids, vectors lost with the process | chunks of the present content only; what was embedded is found |
| **docs-service** | `pages`, `page_versions` | create, update, delete, each with an event | event bus | page, version and event one after the other | versions without gaps; the latest is the page |
| **ai-service** | `assistant_sessions`, messages, responses, request logs, providers | chat | memory-service, a language model | two remote calls between its commits | a chat is logged once and answered exactly when the model answered |
| desk, discover, pulse, guard, insights, media, dev, collab, connect services | one table per entity | create, read, update, delete | event producers | - | - |
| api-gateway, shared packages, frontend, apps, infrastructure, scripts | none | proxying, helpers, pages | all | - | - |

## 2 How requests run

These facts about the code decide where the models put their steps.

* Endpoints are plain `def` functions, so FastAPI serves each request in a thread
  of its thread pool. `get_db` opens one SQLAlchemy session per request and closes
  it with the response. Nothing locks rows or retries.
* Each query is a step and each commit is a step; any number of steps of other
  requests may come between. `autoflush` is off, so what a request has assigned
  reaches the database with its commit.
* A commit expires what the session has loaded, and an attribute read afterwards
  goes back to the table; a row that was deleted meanwhile raises. Until then a
  session keeps answering with the object it has.
* An UPDATE names only the columns whose new value differs from the loaded one,
  so two requests on one row can each write a half (`Column` in the modules).
* Constraint violations are not caught: the commit fails as a whole, the request
  ends with 500. Foreign keys are not enforced (SQLite's default).
* SQLite gives a new row the id after the largest one, so the id of a deleted
  last row is used again.
* A thread may stop, or a query fail, at any step (`PublishFail`, `EditFail`,
  `Fail`): what was committed stays, the rest never happens. Only committed
  tables survive, so no separate crash of the service is needed: a crash is every
  request failing, and the models let that happen in any order.

## 3 The modules

Each component has a module `X`. The first four have an `MCX` that gives the
constants values for TLC, and proofs in a module `XProofs` (`InvitationProofs` for
Invitations). The nine that follow are instantiated together by `Services`, described
after them: the services they model keep their tables to themselves and do not run
into each other. `MCServices` gives it values, and four modules hold the proofs:
`DocumentProofs` (pages and knowledge), `FlowProofs` (sprints, project workflows, work
item trail), `AccessProofs` (access, role catalog) and `ExecutionProofs` (executions,
chats).

### EventBus: `EventBus`, `MCEventBus`, `EventBusProofs`

`events`, `subs` and `logs` are the three tables. A publish request is a thread
with a `pc`:

| step | code |
| --- | --- |
| `PublishBegin` | the request arrives, `get_by_event_id` |
| `EventInsert` | `EventRepository.create`, whose commit may violate the unique `event_id` |
| `list_active_for_workspace` | the query of the subscriptions |
| `MatchNext` | one turn of the loop of `EventService.publish` up to the next commit |
| `LogInsert` | `DeliveryLogRepository.create` and its commit |
| `PublishReturn`, `PublishFail` | the response, or whatever ends the request early |
| `ClientReply`, `ClientTimeout` | what `EventClient` tells its producer |

`rows` holds the attributes the session has loaded, emptied by each commit:
before the first commit the loop looks at the listed rows, after it at the table.
A deleted row then ends the request. Subscriptions are created in one step and
updated and deleted in a load and a commit; deleting detaches the delivery logs
that were loaded with the subscription, not those added since. Event names are
sequences of segments and the three kinds of pattern are matched on them, which
is what `event_matches_pattern` does with strings. The order of the loop is left
open: the query has no ORDER BY. `touched` and `deleted` are history that only
the properties read.

`Delivery` is the abstract bus: an event is accepted once and never changes, a
subscription is told of it at most once, what was told stays (a subscription that
goes takes its name off), and a producer hears "published" only of the accepted
event. EventBus implements it under the mapping `accepted <- events`,
`log <- logs`, `outcome <- result` (`ImplementsDelivery`): `EventInsert` is
`Accept` when the row is new, `LogInsert` is `Tell`, deleting a subscription is
`Forget`, `ClientReply` and `ClientTimeout` are `Confirm` and `GiveUp`, everything
else is a stutter.

### Membership: `Membership`, `MCMembership`, `MembershipProofs`

`members` are the rows of one organization or one workspace (the two run the same
code), `roles` the rows that decide who is an owner besides the legacy title. A
removal is `RemoveLoad`, `_ensure_not_last_owner`, `Commit`; a role change is
`UpdateLoad`, the check if the code asks for it, `Commit`. `Listed` is the list as
the session sees it: the loaded member stays as it was loaded. `Commit` writes by
row id, whoever has that id now. `AddMember` stands for whoever inserts members
and `RoleUpdate` for `RoleService`. `_ensure_not_last_owner` reads the roles of the
listed members one after the other; the module takes listing and roles in one
step. History: `overtaken` (another member lost ownership since the request's
load) and `excused` (such a request committed, or a role of owners was renamed or
switched off).

### Invitations: `Invitations`, `MCInvitations`, `InvitationProofs`

The invitations to one organization and its workspaces, the accounts, and the
members of each scope. `create` is `CreateCheck`, `CreateLookup`, `CreateInsert`
and, for a user, the steps of `add_memberships`: `ReadOrganization`,
`ReadWorkspace`, `Join`. `accept` is `AcceptLoad` and the same three steps, or
`ExpireCommit`; `revoke` and `resend` are a load and a commit. `Taken` is the table's
unique constraint, which does not compare rows without a workspace. Time is
`Lapse`, enabled at any moment for any invitation; `resend` takes it back.
`Register` and `Remove` are what accounts and memberships do meanwhile. The
invitation's token is not modelled (without the current one a caller is refused),
nor are permissions, nor the activity and notification rows written afterwards.

### Work items: `WorkItemHierarchy`, `MCWorkItemHierarchy`, `WorkItemHierarchyProofs`

`items` are the rows with project, parent, level and activity. `create` is
`Create` (validation) and `CreateCommit`; `update` and `update_parent` are
`Update`, `Validate`, `UpdateCommit`; archiving is `Delete`. `Roots` and
`get_project_hierarchy` are the nodes of the tree the code builds: the least set
with the roots and, with a node, its children. A PATCH that clears `is_active` is
an update followed by `Delete`. Left out: the other fields, and PATCH bodies that
name a status, which may create the project's workflow in a commit on the way. A
body with an `item_level` that is no level ends in validation and is the same as
`Fail`. History: `overtaken` (the item was written since the request loaded it),
`raced` (items an overtaken request wrote), `relevelled` (items whose level was
changed).

### Pages: `PageVersions`

A write of a page is `CreatePage` or `UpdateLoad`, `UpdateCommit`; then
`RefreshPage` (the row is read again), `next_version_number`, `create_version` and
`publish_event`, each of which another call, or the end of the process, may come
before. `publish_event` is where a producer loses events: the bus got it or
nobody notices. History: `overlapped` and `unclear` (pages whose last write failed
or overlapped another).

### Knowledge: `KnowledgeMemory`

Documents, chunks, embedding records, and the vector store that lives in the
process. A rebuild of the chunks is `Purge` (a DELETE past the ORM) and
`InsertChunks`, which `uq_document_chunk_index` refuses as a whole when somebody
else's chunks are there. Embedding goes through the chunks with `UpsertVector`
and `UpsertRecord`. Vectors and records of deleted chunks stay, and SQLite gives the
chunk's id again. `Restart` empties the vectors and ends all calls. History:
`dirty`, `retired`, `indexed`, `crossed`.

### Sprints: `Sprints`

`complete` is `CompleteList`, a `CompleteNext` and `CompleteUnlink` per unfinished
item, `CompleteCommit`; the others are a load and a commit. The listed rows serve
until the first unlinked item is committed, then each is read again (`finished`).
History: `late` (items written since the completion listed them), `loose` (items put
in a sprint by PATCH, or in one being deleted).

### Project workflows: `ProjectWorkflow`, `MCProjectWorkflow`

`ensure_project_workflow` is `get_for_project`, `CreateDefault`, then for each key
`EnsureStatus`/`create_status`, for each link `EnsureTransition`, `EnsureReturn`.
POST goes on with `TakeDefault`, PATCH with `validate_transition`, both with
`SaveItem`. `Automate`, `CreateWithStatus` and the administration act in between,
`MaxOutside` times. The template's transitions are written and never asked. History:
`edited`, `shared`, `split`, `moved`, `stray`.

### Access: `AccessControl`

All the rows that give one user roles: user roles, role assignments, organization
and workspace members, project and team members. `resolve_roles` is what the code
computes from them for a scope; `Above` and `Grants` state independently what it
ought to be. Creating an assignment is a lookup (`create_role_assignment`) and a
write (`WriteAssignment`), which the constraint refuses when the row is there
already, except on the platform without a `scope_id`, where it is NULL. Nobody checks
the `scope_id` of a role on the platform, so each one that is asked for is a scope of
its own here, of kind "platform": the lookup and the constraint tell them apart,
`assignment_applies` does not. History: `revoked`, `doubled`.

### Role catalog: `RoleCatalog`

What every permission check does first: `get_by_code` and `write_permission` for
each catalog entry, `ensure_role` and `create_role` for each template, then the links
of each template (`list_permissions`, `list_links`, `replace_permissions`).
Links are rows whose ids are given again (`Fresh`): `Replace` inserts those missing and
deletes the others by the ids it loaded, whoever has them by then (`Mistaken`).
Administrators create and edit permissions, and write the links of their own roles
(`edit_links`, then the same commit) in between, `MaxEdit` times.
`muddied` is the history of a check during whose links a permission changed, another
check had an outdated list, or a commit deleted a link by an id that was another's.

### Executions: `WorkflowExecution`

`execute` is `get`, `create`, `log_started`, `work`, `commit_success`, `refresh`,
`log_completed`, and from any of the last four the handler `commit_failed`,
`log_failed`. Reads fail when the row they need is gone, commits when the process
stops (`Stop`). Deleting a workflow deletes the executions that were loaded with it,
and their ids are given again. History: `uprooted`.

### After a write: `WorkItemTrail`

One item with its status and priority, the notifications, audit rows and automation
rules of one call, in the order of `WorkItemService.update`. Each commit expires what
is loaded (`Expired`), and `Load` reads the item again when it is next needed.
`_conditions_match` and `_execute_action` are the rule engine; `Due` computes at the
start of a call, independently, what the item should be in the end. A call's `queue`
is the set of rules whose turn is still to come; `First` is the newest, as the list is
ordered. The rules that exist are chosen from `Shapes`: an update, a conditional
update, and one whose action is malformed. History: `unclear`.

### Chats: `AssistantChat`

`chat` stores the question, retrieves context, finds or registers a provider, waits
for the model, logs the outcome, stores answer and response. Before each use of the
session after a commit it is read again (`IfOpen`). Sessions are deleted with the rows
that were loaded; ids of messages and responses are given again, so that a deletion may
take rows of another session (`Mistaken`). The statuses "timeout" and "error" of a log
are one outcome here. History: `broken`, `torn`.

### Composition: `Services`, `MCServices`

One specification for these nine. A behaviour is one part, chosen by `Init` and kept
in `part`; as no two parts run at a time they share the variables `s1` to `s11`, each
INSTANCE saying which is which. `AccessControl` is two parts: `granting` (every scope
is given roles while other rows change) and `assigning` (calls overlap and nothing else
changes). The properties of a part are those of its module, where they are explained.
`Services` also declares the assumptions on the constants that the proofs need
(section 6).

## 4 The runs

| run | question | result |
| --- | --- | --- |
| `event_bus` | two callers post one `event_id` with different bodies while subscriptions change and anything fails | `FanOutComplete`, `AtMostOneLog`, `PublishedIsStored`, `WorkspaceIsolation` hold, and the bus implements `Delivery` (`ImplementsDelivery`) |
| `fan_out` | one fan-out over exact, prefix and catch-all patterns that change under it | `TypeOK`, `FanOutComplete`, `EveryPublishEnds` hold |
| `event_lost` | is every stored event logged for those it concerned all along? | violated |
| `membership` | overlapping removals and role changes, joins, edits of an owner role | `TypeOK`, `OwnerRemains` hold |
| `membership_race` | does an owner always stay? | violated |
| `invitations` | two overlapping requests of any kind on the invitations of one address | `TypeOK`, `OneWorkspacePending`, `AcceptedIsMember`, `DecidedOnce` hold |
| `invitation_cancel` | can a pending invitation always be cancelled? | violated, by one caller alone |
| `invitation_race` | are only pending invitations cancelled? | violated |
| `work_items` | overlapping creates, moves, level changes and archivings in two projects | `TypeOK`, `ParentInProject`, `LevelsFit`, `EveryItemShown` hold |
| `work_item_rules` | are subtasks always below work items? | violated, by one caller alone |
| `workflow_moves` | do moves by PATCH follow the configured transitions? | violated, by one caller alone |
| `services` | the parts of `Services`: overlapping calls, calls that stop, restarts, administrators | the 21 properties below hold |

| part of `services` | properties |
| --- | --- |
| memory | `OneTextPerDocument` (rebuilds never mix), `ChunksCurrent`, `VectorsOfLiveChunks`, `IngestedIsSearchable` |
| docs | `VersionsNumbered`, `LatestVersionIsPage`, `AnnouncedIsStored` |
| planning | `CompletedIsFinished`, `NoDanglingSprint` |
| repairing | `RepairedIsComplete`, `OneStatusPerKey`, `StatusOfProject` |
| granting, assigning | `RolesAreInherited`, `AssignedOnce`, `RevokedIsGone` |
| catalog | `DecidesOnTemplates` |
| automation | `AnsweredIsRecorded` |
| changing | `TrailAccounts`, `RulesInOrder` |
| chatting | `ChatsAreTold`, `NothingOutlivesItsSession` |

The properties are stated with comments at the end of each module. Every property
of a passing run has a mutant in `PROJECT.json`: a definition of the code changed
as a bug would change it, with which TLC finds the property violated.

Bounds, and why they are enough to meet the cases that matter:

* **EventBus**: two requests on one event id (`event_bus`), which is the smallest
  race on the unique constraint; two subscription rows, one editor, so that a
  fan-out has a turn before and a turn after an edit and an id is used again.
  Workspaces are one matching, one other and none. `event_lost` has three rows,
  as it must lose a log after a first one was written.
* **Membership**: two requests, three users, three row ids, one editable role.
  Two owners and a bystander suffice for every race of two requests; a third row
  lets an id be removed and given to somebody else.
* **Invitations**: two requests, one address (no step relates two), one workspace
  beside the organization, three rows: a decided one, a pending one and a
  duplicate attempt.
* **WorkItemHierarchy**: two requests, two projects, two items, the levels
  initiative, work item and subtask (a feature relates to the others as a work
  item does). Two items make every pair of parent and child and a ring of two;
  longer rings are covered by the theorem for any number of items.

* **KnowledgeMemory**: two calls, one document, texts of one and two chunks and a
  third chunk id: a rebuild that shrinks, one that grows, and an id that comes back.
* **PageVersions**: two calls, one page, two contents, three versions: a creation and
  the race of two updates.
* **Sprints**: two calls, one sprint id, two items: a completion with a turn before
  and one after its first commit, and an id that is given again.
* **ProjectWorkflow**: two calls with one step of administrators, rules or POSTs, two
  workflows, three statuses of two keys: every race of two repairs up to a key they
  both create. `workflow_moves` has three keys, so that a pair is not linked.
* **AccessControl**: the platform without a `scope_id` and with 5, an organization, two
  workspaces, a project and a team, so that each scope has an ancestor of every kind
  and a sibling. Either one call, one role everywhere and three changes of other rows,
  or two calls, two roles and two rows on the platform without and with an id.
* **RoleCatalog**: two checks or edits of links at a time, three edits, two codes (of
  one template, of both), two permission ids, three link ids and a role that is no
  template's: a link id is freed and given to another role while a check holds it.
* **WorkflowExecution**: two calls, one workflow id, two executions.
* **WorkItemTrail**: two clients with two calls, two rules of three shapes, two values of
  each field, and one change of a rule.
* **AssistantChat**: two calls, two session ids, two chats, two message ids: one chat
  with its answer, or a second one once a deletion has freed ids. A deletion that takes
  nothing but another chat's response needs more calls; for it the proof, which bounds
  nothing, is the evidence.

Rows are never removed from `logs`, `invitations` and `items`; `MaxSub`, `MaxId`,
`MaxInvitations` and `MaxItems` stop new rows only. Symmetry is used for requests,
users and projects, which no definition tells apart, and in no run with a
liveness property.

Excuses in properties name states that really occur: runs with the excuse taken
out fail (`membership_race` is `OwnerRemains` without its excuse; `LevelsFit` fails
without `raced` and without `relevelled`, `EveryItemShown` without `relevelled`).
The excuses of the `services` properties are histories of steps: two calls on one row
at a time, a call that stopped half-way, an administrator's edit, a reused id.

## 5 Fairness and deadlock

Only `FairSpec` of EventBus assumes fairness: weak fairness of the steps of each
publish request once it has arrived, which is a server thread that is run by the
operating system. No request has to arrive, no editor has to do anything, no
reply has to reach its client. Weak fairness is enough as nobody but the thread
itself (or its failure) disables its next step. `ReliableSpec` leaves out failing
steps, so that the lost log of `event_lost` is shown to need none.

`CHECK_DEADLOCK FALSE` is set for the EventBus runs, where requests are posted
once, so all may have ended, and for `services` and `workflow_moves`, where a call
waits for ever once its table has no id left within the bound (message ids, versions,
calls). In the other runs a thread serves request
after request and a state without a step would be an error.

## 6 What is proved

TLAPS checks the following for every value of the constants that satisfies the
modules' assumptions (any number of requests, users, rows, patterns and levels named;
sets may be infinite unless said otherwise). There is no other hypothesis. Every
invariant that a run checks is a theorem, as are the action property `DecidedOnce` and
the refinement `ImplementsDelivery`.

The `ConstantsAssumption` of the first four modules says that `NULL` and the other
marks are not rows or ids, that rows and bodies are records of their type, and, in
Membership, that there is a user and a row id. `Services` assumes:

* `NullAssumption`: the mark of no row is no row and no value.
* `BoundAssumption`: bounds on ids are natural numbers. Ids must be ordered for the code
  to give the next one, and for "newest first"; how many there are does not matter.
* `SizeAssumption`: a text is cut into a natural number of chunks (`chunk_text` returns
  a list).
* `TemplateAssumption`: keys and links of a workflow template are lists, links between
  keys of the template, as in `WORKFLOW_TEMPLATES`; two projects differ.
* `CatalogAssumption`: the template roles are a list; administrators' roles are others
  (`is_editable` is false for the templates').
* `RuleAssumption`: a rule that updates names a field of the item and a value, as
  `_execute_action` has a branch per field.
* `ScopeAssumption`: "platform" is a scope, others of its kind are the platform with a
  `scope_id`; organizations stand on one of these, workspaces in an organization,
  projects and teams in a workspace, as the foreign keys of the scopes say.

| module | theorems (`Spec => []...`) | inductive invariant and why |
| --- | --- | --- |
| `EventBusProofs` | `TypeCorrect` | `TypeOK` alone |
| | `AtMostOneLogHolds`, `PublishedIsStoredHolds` | `OnceInv`: after `EventInsert` one request owns the event (`OneOwner`), and nothing it has still to handle is logged (`QueueUnlogged`). The check by `get_by_event_id` plays no part: the unique constraint and the single pass over the list give both. |
| | `FanOutCompleteHolds` | `FanOutInv`: a wanted subscription nobody wrote to is logged, current or still in the queue; loaded rows equal the stored ones unless touched; a deletion holds only logs of its own row. |
| | `WorkspaceIsolationHolds` | `Scoped`, with `OnceInv`: a listed or logged subscription keeps its workspace until its id is deleted. |
| | `ImplementsDeliveryHolds` (`Spec => Abstract!Spec`) | with `TypeOK` and `OnceInv`: the initial states map to initial states, every action to the step of section 3 or a stutter. `OnceInv` is needed for `Tell`, which asks that the subscription was not told before. |
| `MembershipProofs` | `TypeCorrect` | `TypeOK` alone |
| | `OwnerRemainsHolds` | `OwnerInv`: an owner exists, and each request that nobody overtook is harmless: once past the check there is an owner other than its row, or it makes its own row an owner. |
| `InvitationProofs` | `TypeCorrect` | `TypeOK` alone |
| | `OneWorkspacePendingHolds` | the property itself, by the constraint |
| | `DecidedOnceHolds` (action property) | `StillPending`: the invitation of a request nobody overtook is pending. |
| | `AcceptedIsMemberHolds` | `ReadSoFar`: a scope the request has found joined is still joined, or somebody left it. |
| `WorkItemHierarchyProofs` | `TypeCorrect` | `TypeOK` alone |
| | `ParentInProjectHolds` | `ProjectInv`: a validated write names a parent of the item's project other than the item. |
| | `LevelsFitHolds` | `LevelsInv`: the rules of rows no overtaken request wrote, what is left of them for rows that kept their level, and what each request knows of the row it loaded. |
| | `EveryItemShownHolds` | `LevelsInv` and `RingsNeedALevelChange`: what a tree leaves out contains the parents of all its members; were no level among them changed, it could hold no initiatives, so no features, no work items and no subtasks. Rings of any length are covered. |
| `ExecutionProofs` | `AnsweredIsRecordedHolds` | `ExecutionInv`: a call that is not uprooted has its execution to itself, and from its last commit on the status stored is the one it will answer with (`Rooted`). |
| | `ChatsAreToldHolds`, `NothingOutlivesItsSessionHolds` | `ChatInv`: what each chat has stored so far, by the place its call has come to; chats of a deleted session are broken or gone as a whole. A deletion takes the messages and responses of the ids it loaded, whoever has them by then: their chats are broken. |
| `DocumentProofs` | `VersionsNumberedHolds`, `LatestVersionIsPageHolds`, `AnnouncedIsStoredHolds` | `PageInv`: a number that was read is at most one more than the largest, and exactly that for a call nobody overlapped; a page not in `unclear` is its last version or about to be (`Told`). |
| | `OneTextPerDocumentHolds` | `MemoryInv`: the chunks of a document lie at successive ids, cut from one text (`Laid`). It rests on the unique constraint and on a purge taking all chunks. |
| | `VectorsOfLiveChunksHolds` | `VectorInv`, with `MemoryInv`: an embedding call holds chunks as they are or as they were before their id was retired. |
| | `ChunksCurrentHolds` | `CleanInv`, with `MemoryInv`: a document that is not dirty has one writer at most, which has its present text. |
| | `IngestedIsSearchableHolds` | `SearchInv`, with the two: what a call nobody disturbed has gone through is found. |
| `FlowProofs` | `CompletedIsFinishedHolds`, `NoDanglingSprintHolds` | `PlanningInv`: an unfinished item of a sprint being completed is still in the queue or was written since (`Swept`); a call that deletes a sprint has listed every item in it but the loose ones (`Listed`). |
| | `RepairedIsCompleteHolds`, `OneStatusPerKeyHolds`, `StatusOfProjectHolds` | `RepairingInv`: the keys and links a call has gone through are there (`JobSound`), the tables are as the histories say (`TablesSound`), a call alone finds what it looked for (`Alone`). |
| | `TrailAccountsHolds` | `TrailInv`: a field not in `unclear` is accounted for by its last row, or will be by the call that is at work (`InProgress`); a call to itself has the present item (`Fresh`). |
| | `RulesInOrderHolds` | `DueInv`, with `TrailInv`: while the rules stay, what a call to itself is due to leave is what the rules still to come make of the item as it is (`Owes`). That `Applied`, a recursive function, exists is proved by its least counterexample (`AppliesExists`). |
| `AccessProofs` | `RolesAreInheritedHolds`, `AssignedOnceHolds`, `RevokedIsGoneHolds` | `AccessInv`, once for both parts: one row per role and scope by the constraint, a call that waits to write knows a row of its role and scope (`Waiting`), and what was revoked last is not active (`Gone`). At most two scopes and the platform are above a scope, so the recursion in `Above` is unfolded (`AboveIs`). |
| | `DecidesOnTemplatesHolds` | `CatalogInv`: the templates that a check has been through have the links wanted of the present permissions, and what it is to write gives the next one its links (`Told`). Links are deleted by id; a commit that takes none but those it loaded changes them only towards the templates (`Written`, `Towards`), and the others muddy the checks beside them. |

Each proof has the same layout (in a proof about a part of `Services` the invariant is
claimed for behaviours of that part, `part = "..." => Inv`): `Init => Inv`, `Inv /\ [Next]_vars => Inv'` with a
step for every action (or for every kind of effect, where lemmas such as
`StepCases` and `WriteKeepsFanOut` gather the actions with the same effect), and
the temporal step by PTL. A module that extends
`MCX` and the proof module lets TLC evaluate these invariants on the instances of
section 4, and it finds those of the first four modules, of `ExecutionProofs`,
`AccessProofs`, pages (`ChatInv` and `PageInv` with `Nat` cut to `0..9`) and
`PlanningInv` to hold. `RepairingInv`, `TrailInv`, `DueInv` and the four of
`KnowledgeMemory` compare values of several types or choose from no set, so that TLC
cannot evaluate them; of these the proofs are the only evidence, and TLC checks
the properties they serve.

## 7 What is only model-checked

* `EveryPublishEnds`: liveness under fairness is outside the prover.
* The violations: a counterexample is a run of TLC, and none of the properties
  `StoredEventsAreLogged`, `LastOwnerStays`, `PendingCanBeCancelled`,
  `OnlyPendingRevoked`, `SubtasksUnderWorkItems` and `MovesAreConfigured` is a
  theorem.
* Constants as such: that TLC's instances satisfy the assumptions is evaluated by every
  run.

## 8 Where the code departs from its documents

Each is a run whose property quotes the text, and is listed under `findings`.

1. `docs/event-bus.md:88`, delivery logs for matching active subscriptions: a
   subscription deleted during a fan-out raises in the loop, later subscriptions
   get no log, and a retry is refused as the event is stored (`event_lost`).
2. `docs/ASTHRA_ADMIN_WORKFLOW.md:39`, the last owner cannot be removed: two
   requests on two owners both pass the check (`membership_race`).
3. `docs/ASTHRA_ADMIN_WORKFLOW.md:29`, pending invitations can be cancelled: the
   unique constraint counts cancelled ones, so only one per address and workspace
   can be (`invitation_cancel`).
4. `services/core-service/README.md:796`, only pending invitations can be
   revoked: a revocation that has read "pending" overwrites an acceptance
   (`invitation_race`).
5. `services/flow-service/README.md:201`, subtasks belong to work items: the
   level of an item with subtasks can be changed (`work_item_rules`).
6. `services/flow-service/README.md:342`, configured transitions are enforced:
   `validate_transition` asks only whether the target is an active status of the
   workflow, transitions are never read (`workflow_moves`).

Modelled as the code has it, and excused in the properties, with no run of their own:

* A rule's `update_status` looks for a lower-case name no workflow uses, and creates a
  status that belongs to no workflow (`Automate`). It writes no audit row of the field.
* A default status that was switched off gets a second row of its key with the next
  use of the workflow; a catalog permission that was given a status other than
  active gets it back with the next check.
* A workflow whose statuses work items use cannot be deleted: the ORM would empty a
  column that must not be empty.
* An execution whose success was committed, and even audited, is rewritten as failed
  when what follows inside the `try` fails.
* A rule deleted after the rules were listed makes the handler that should let rules
  "fail safely" (`services/flow-service/README.md:626`) raise too: the PATCH is
  answered with 500 though it was committed.
* Two first chats each register a provider. Two overlapping creations assign a role
  on the platform twice. Without any overlap a role can be assigned on the platform
  once per `scope_id`, which is neither checked nor looked at when roles are resolved;
  revoking one of these rows leaves the role in force through the other.
* The id of a deleted chunk, session, execution or subscription is given again, and
  what was kept under it (vector, later message, open call) is then about another row.
  So are those of messages, responses and links of roles: the second of two overlapping
  deletions of a session takes rows of another session, and a permission check or an
  edit of a role's links takes the link another role was given meanwhile.

## 9 What is not modelled

Who may call an operation (tokens, sessions, `require`) is left out of every module:
an operation is modelled from the point where its caller was let through; what
`require` decides from is `AccessControl`'s and `RoleCatalog`'s subject. Names,
titles, descriptions, dates other than an invitation's expiry, and the wording of
answers carry no decision and are left out, as are activity rows, which are appended
in commits of their own and read only to be shown. The other flow tables (boards,
releases, comments, labels, fields, views, attachments) and the desk, discover,
pulse, guard, insights, media, dev, collab and connect services create, read, update
and delete single rows: no behaviour of several steps. Retrieval scores and AI answers
are numbers and texts. The gateway, the shared helpers, the frontend and the
deployment files are not state machines of this system. Workflows from templates other
than the engineering one and transitions added by hand are left out, as no decision
reads them. The components of `PROJECT.json` say for each part what is left out.

## 10 Plan

Done is what sections 3 to 6 describe: every module is checked and every invariant of
the passing runs proved. Left, in this order:

1. Membership and Invitations over the same members: an owner remains while
   invitations are accepted and members removed.
2. Abstract specifications of two more components, with their refinement: a document
   whose chunks are replaced as a whole (`KnowledgeMemory`), and an execution with one
   outcome (`WorkflowExecution`).
3. Type correctness of the parts of `Services` as theorems of their own; so far it is
   the first conjunct of each inductive invariant.
