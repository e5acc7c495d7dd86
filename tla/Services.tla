------------------------------ MODULE Services ------------------------------
(***************************************************************************)
(* The services that keep their state in tables of their own and run       *)
(* without each other, in one specification: a behaviour is one of the     *)
(* parts below, chosen at the start.  No two parts run at a time, so all   *)
(* keep their state in the same variables, s1 to s11: each INSTANCE says   *)
(* which is which.                                                         *)
(***************************************************************************)
EXTENDS Integers, Sequences, FiniteSets

CONSTANTS
  Requests,                                  \* concurrent HTTP calls, of any part
  NULL,
  MaxDoc, MaxChunk, Texts, Size,             \* memory
  MaxPage, MaxVersion, Contents,             \* docs
  MaxSprint, SprintItems,                    \* planning
  MaxWorkflow, MaxStatus, MaxOutside,        \* repairing
  WorkItems, Keys, Links, OtherProject,
  Scopes, Kind, Parent,                      \* granting and assigning
  Admins, Offices, MaxGrant, MaxOther,
  Roles, Assignable, MaxAssignment,
  Codes, CatalogCodes, Templates, Patterns,  \* catalog
  CustomRoles, MaxPermission, MaxLink,
  MaxEdit,
  MaxDefinition, MaxExecution,               \* automation
  Values, Shapes, MaxRule, MaxCall,          \* changing
  MaxRuleEdit,
  MaxSession, MaxMessage, MaxChat            \* chatting

\* What stands for "no row" and "no value" is neither.
ASSUME NullAssumption ==
  /\ NULL \notin Int
  /\ NULL \notin [workflow_id : 1..MaxDefinition, status : {"running", "success", "failed"}]
  /\ NULL \notin Texts
  /\ NULL \notin [document_id : 1..MaxDoc, index : Nat, text : Texts]
  /\ NULL \notin [content : Contents, is_active : BOOLEAN]
  /\ NULL \notin [session_id : Nat, role : {"user", "assistant"}, chat : Nat]
  /\ NULL \notin [session_id : Nat, message_id : Nat, chat : Nat]
  /\ NULL \notin {"planned", "active", "completed"} /\ \A S \in SUBSET SprintItems : NULL # S
  /\ NULL \notin [workflow_id : (1..MaxWorkflow) \cup {NULL}, key : {Keys[m] : m \in DOMAIN Keys}, is_active : BOOLEAN]
  /\ NULL \notin {"project", OtherProject}
  /\ NULL \notin [{"status", "priority"} -> Values]
  /\ NULL \notin (CustomRoles \cup {Templates[n] : n \in DOMAIN Templates}) \X (1..MaxPermission)
  /\ NULL \notin [role : Roles \cup Offices, scope : Scopes, status : {"active", "revoked"}]

\* Ids are bounded by a number, for checking only.
ASSUME BoundAssumption ==
  /\ MaxDoc \in Nat /\ MaxChunk \in Nat /\ MaxPage \in Nat
  /\ MaxDefinition \in Nat /\ MaxExecution \in Nat
  /\ MaxSession \in Nat /\ MaxMessage \in Nat /\ MaxChat \in Nat
  /\ MaxSprint \in Nat /\ SprintItems \subseteq Nat
  /\ MaxWorkflow \in Nat /\ MaxStatus \in Nat /\ MaxRule \in Nat
  /\ MaxGrant \in Nat /\ MaxAssignment \in Nat /\ MaxPermission \in Nat /\ MaxLink \in Nat

\* A text is cut into some number of chunks.
ASSUME SizeAssumption == Size \in [Texts -> Nat]

\* A project's workflow is a list of keys and of links between them.
ASSUME TemplateAssumption ==
  LET Known == {Keys[m] : m \in DOMAIN Keys}
  IN Keys \in Seq(Known) /\ Links \in Seq(Known \X Known) /\ OtherProject # "project"

\* The system roles are listed in an order; administrators' are others.
ASSUME CatalogAssumption ==
  /\ Templates \in Seq({Templates[n] : n \in DOMAIN Templates})
  /\ CustomRoles \cap {Templates[n] : n \in DOMAIN Templates} = {}

\* A rule that updates an item gives one of its fields a value.
ASSUME RuleAssumption ==
  \A rule \in Shapes : rule.does = "update" => rule.field \in {"status", "priority"} /\ rule.value \in Values

\* An organization stands on the platform, a workspace in an organization, a project
\* and a team in a workspace.  The platform without a scope_id is "platform".
ASSUME ScopeAssumption ==
  /\ "platform" \in Scopes /\ Kind["platform"] = "platform" /\ Assignable \subseteq Scopes
  /\ \A s \in Scopes :
       /\ Kind[s] \in {"platform", "organization", "workspace", "project", "team"}
       /\ Kind[s] # "platform" =>
            /\ Parent[s] \in Scopes
            /\ Kind[Parent[s]] = CASE Kind[s] = "organization" -> "platform"
                                   [] Kind[s] = "workspace" -> "organization"
                                   [] OTHER -> "workspace"

VARIABLES part, s1, s2, s3, s4, s5, s6, s7, s8, s9, s10, s11

vars == <<part, s1, s2, s3, s4, s5, s6, s7, s8, s9, s10, s11>>

Memory == INSTANCE KnowledgeMemory WITH NoRow <- NULL,
  docs <- s1, chunks <- s2, vectors <- s3, embeddings <- s4, task <- s5, dirty <- s6,
  retired <- s7, indexed <- s8, crossed <- s9

Docs == INSTANCE PageVersions WITH NoRow <- NULL,
  pages <- s1, versions <- s2, announced <- s3, call <- s4, overlapped <- s5, unclear <- s6

Planning == INSTANCE Sprints WITH WorkItems <- SprintItems,
  sprints <- s1, items <- s2, http <- s3, late <- s4, loose <- s5

Repairing == INSTANCE ProjectWorkflow WITH Other <- OtherProject,
  workflows <- s1, statuses <- s2, transitions <- s3, status_of <- s4, job <- s5, edited <- s6,
  shared <- s7, split <- s8, moved <- s9, stray <- s10, outside <- s11

\* Every scope is given roles while other rows change; or calls overlap and nothing
\* else changes.
Granting == INSTANCE AccessControl WITH
  Requests <- Admins, Roles <- Offices, Assignable <- Scopes, MaxAssignment <- MaxGrant,
  active <- s1, closed <- s2, user_roles <- s3, assignments <- s4, members <- s5, asking <- s6,
  revoked <- s7, doubled <- s8, others <- s9
Assigning == INSTANCE AccessControl WITH
  MaxOther <- 0,
  active <- s1, closed <- s2, user_roles <- s3, assignments <- s4, members <- s5, asking <- s6,
  revoked <- s7, doubled <- s8, others <- s9

Catalog == INSTANCE RoleCatalog WITH Catalog <- CatalogCodes, Matches <- Patterns,
  permissions <- s1, roles <- s2, links <- s3, check <- s4, muddied <- s5, edits <- s6

Automation == INSTANCE WorkflowExecution WITH MaxWorkflow <- MaxDefinition,
  workflows <- s1, executions <- s2, audit <- s3, run <- s4, uprooted <- s5

Changing == INSTANCE WorkItemTrail WITH MaxEdit <- MaxRuleEdit,
  item <- s1, rules <- s2, trail <- s3, work <- s4, unclear <- s5, calls <- s6, edits <- s7

Chatting == INSTANCE AssistantChat WITH
  sessions <- s1, messages <- s2, responses <- s3, logs <- s4, providers <- s5, talk <- s6,
  begun <- s7, broken <- s8, torn <- s9

Init ==
  \/ part = "memory" /\ Memory!Init /\ s10 = NULL /\ s11 = NULL
  \/ part = "docs" /\ Docs!Init /\ s7 = NULL /\ s8 = NULL /\ s9 = NULL /\ s10 = NULL /\ s11 = NULL
  \/ part = "planning" /\ Planning!Init /\ s6 = NULL /\ s7 = NULL /\ s8 = NULL /\ s9 = NULL /\ s10 = NULL /\ s11 = NULL
  \/ part = "repairing" /\ Repairing!Init
  \/ part = "granting" /\ Granting!Init /\ s10 = NULL /\ s11 = NULL
  \/ part = "assigning" /\ Assigning!Init /\ s10 = NULL /\ s11 = NULL
  \/ part = "catalog" /\ Catalog!Init /\ s7 = NULL /\ s8 = NULL /\ s9 = NULL /\ s10 = NULL /\ s11 = NULL
  \/ part = "automation" /\ Automation!Init /\ s6 = NULL /\ s7 = NULL /\ s8 = NULL /\ s9 = NULL /\ s10 = NULL /\ s11 = NULL
  \/ part = "changing" /\ Changing!Init /\ s8 = NULL /\ s9 = NULL /\ s10 = NULL /\ s11 = NULL
  \/ part = "chatting" /\ Chatting!Init /\ s10 = NULL /\ s11 = NULL

Next ==
  \/ part = "memory" /\ Memory!Next /\ UNCHANGED <<part, s10, s11>>
  \/ part = "docs" /\ Docs!Next /\ UNCHANGED <<part, s7, s8, s9, s10, s11>>
  \/ part = "planning" /\ Planning!Next /\ UNCHANGED <<part, s6, s7, s8, s9, s10, s11>>
  \/ part = "repairing" /\ Repairing!Next /\ UNCHANGED part
  \/ part = "granting" /\ Granting!Next /\ UNCHANGED <<part, s10, s11>>
  \/ part = "assigning" /\ Assigning!Next /\ UNCHANGED <<part, s10, s11>>
  \/ part = "catalog" /\ Catalog!Next /\ UNCHANGED <<part, s7, s8, s9, s10, s11>>
  \/ part = "automation" /\ Automation!Next /\ UNCHANGED <<part, s6, s7, s8, s9, s10, s11>>
  \/ part = "changing" /\ Changing!Next /\ UNCHANGED <<part, s8, s9, s10, s11>>
  \/ part = "chatting" /\ Chatting!Next /\ UNCHANGED <<part, s10, s11>>

Spec == Init /\ [][Next]_vars

-----------------------------------------------------------------------------
(* The parts' properties, explained in their modules.                      *)

\* A document's chunks are all of one of its texts, each once: rebuilds never mix.
OneTextPerDocument == part = "memory" => Memory!OneTextPerDocument

\* Once nobody writes it, a document's chunks are those of its present content.
ChunksCurrent == part = "memory" => Memory!ChunksCurrent

\* A chunk's vector is its own, unless its id had been another's.
VectorsOfLiveChunks == part = "memory" => Memory!VectorsOfLiveChunks

\* After an undisturbed embedding call every chunk can be found, until a restart.
IngestedIsSearchable == part = "memory" => Memory!IngestedIsSearchable

\* Page versions are numbered without a gap, and without a double when no calls overlap.
VersionsNumbered == part = "docs" => Docs!VersionsNumbered

\* A page at rest is what its latest version says.
LatestVersionIsPage == part = "docs" => Docs!LatestVersionIsPage

\* The bus is told of stored contents only.
AnnouncedIsStored == part = "docs" => Docs!AnnouncedIsStored

\* A completed sprint keeps finished items only, but for items written meanwhile.
CompletedIsFinished == part = "planning" => Planning!CompletedIsFinished

\* No item stays in a deleted sprint, unless a PATCH put it there.
NoDanglingSprint == part = "planning" => Planning!NoDanglingSprint

\* A request goes on with a complete workflow, also after one that stopped half-way.
RepairedIsComplete == part = "repairing" => Repairing!RepairedIsComplete

\* Repairs one after another leave one active status per key.
OneStatusPerKey == part = "repairing" => Repairing!OneStatusPerKey

\* An item's status is one of its project's workflow, unless a rule or a POST wrote it.
StatusOfProject == part = "repairing" => Repairing!StatusOfProject

\* The roles in a scope are the active ones granted in it or above it, and no others.
RolesAreInherited ==
  /\ part = "granting" => Granting!RolesAreInherited
  /\ part = "assigning" => Assigning!RolesAreInherited

\* A role is assigned once per scope_type and scope_id, but for overlapping calls on
\* the platform.
AssignedOnce ==
  /\ part = "granting" => Granting!AssignedOnce
  /\ part = "assigning" => Assigning!AssignedOnce

\* A role that was last revoked for a scope_type and scope_id is assigned no more for
\* these.
RevokedIsGone ==
  /\ part = "granting" => Granting!RevokedIsGone
  /\ part = "assigning" => Assigning!RevokedIsGone

\* A permission check decides on what the templates say of the permissions in force.
DecidesOnTemplates == part = "catalog" => Catalog!DecidesOnTemplates

\* The outcome a run answers with is the one stored and audited.
AnsweredIsRecorded == part = "automation" => Automation!AnsweredIsRecorded

\* The last audit row about a field accounts for its value, or names a rule that does.
TrailAccounts == part = "changing" => Changing!TrailAccounts

\* An undisturbed call leaves the item as the rules, taken in order, say.
RulesInOrder == part = "changing" => Changing!RulesInOrder

\* A finished chat is logged once and, exactly when the model answered, has its answer.
ChatsAreTold == part = "chatting" => Chatting!ChatsAreTold

\* What is stored of a session goes with it, unless a call wrote to it at the time.
NothingOutlivesItsSession == part = "chatting" => Chatting!NothingOutlivesItsSession
=============================================================================
