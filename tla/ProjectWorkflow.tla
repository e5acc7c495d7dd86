-------------------------- MODULE ProjectWorkflow --------------------------
(***************************************************************************)
(* The workflow of a project in flow-service (services/flow-service/app):  *)
(* WorkflowService creates it on first use and repairs it on every use, a  *)
(* commit per row, and work items take their status from it.  Modelled for *)
(* one project.  Names, categories and the order of statuses are left out. *)
(***************************************************************************)
EXTENDS Integers, Sequences, FiniteSetsExt

CONSTANTS
  Requests,      \* concurrent HTTP calls
  MaxWorkflow,   \* bound on workflow ids
  MaxStatus,     \* bound on status ids
  MaxOutside,    \* bound on the steps of administrators, rules and POSTs with a status
  WorkItems,
  Keys,          \* the keys of the engineering template, in order, "todo" first
  Links,         \* its transitions: pairs of keys, in order
  Other,         \* the project_id of a workflow that is not this project's
  NULL

Project == "project"
WorkflowIds == 1..MaxWorkflow
StatusIds == 1..MaxStatus

VARIABLES
  workflows,     \* WorkflowIds -> project_id, or NULL when there is no row
  statuses,      \* StatusIds -> [workflow_id, key, is_active], or NULL
  transitions,   \* rows [workflow_id, from, to]
  status_of,     \* WorkItems -> status id, or NULL before the item is created
  job,           \* what each call is doing
  edited,        \* history: workflows an administrator changed the statuses of
  shared,        \* history: workflows two calls repaired at a time
  split,         \* history: the project got a second workflow
  moved,         \* history: a workflow was deleted or given to another project
  stray,         \* history: items whose status was last written unchecked
  outside        \* the number of steps taken by administrators, rules and such POSTs

workflowVars == <<workflows, statuses, transitions, status_of, job, edited, shared, split, moved, stray,
                  outside>>
past == <<edited, shared, split, moved, stray>>

NoJob == [op |-> "none", at |-> "idle", item |-> NULL, target |-> NULL, workflow |-> NULL,
          found |-> <<>>, linked |-> 0, again |-> FALSE]

Init ==
  /\ workflows = [w \in WorkflowIds |-> NULL]
  /\ statuses = [t \in StatusIds |-> NULL]
  /\ transitions = {}
  /\ status_of = [i \in WorkItems |-> NULL]
  /\ job = [r \in Requests |-> NoJob]
  /\ edited = {} /\ shared = {} /\ split = FALSE /\ moved = FALSE /\ stray = {}
  /\ outside = 0

-----------------------------------------------------------------------------
NextFree(table) == 1 + Max({n \in DOMAIN table : table[n] # NULL} \cup {0})
OfProject == {w \in WorkflowIds : workflows[w] = Project}
StatusesOf(w) == {t \in StatusIds : statuses[t] # NULL /\ statuses[t].workflow_id = w}
find_status(w, key) == {t \in StatusesOf(w) : statuses[t].is_active /\ statuses[t].key = key}
Repairs(w) == {r \in Requests : job[r].workflow = w /\ job[r].at \in {"status", "add", "link"}}

NoMore(r) == job' = [job EXCEPT ![r] = NoJob]
Insert(t, w, key) == statuses' = [statuses EXCEPT ![t] = [workflow_id |-> w, key |-> key, is_active |-> TRUE]]

\* r starts to repair w, alone or not.
Repair(r, w) ==
  /\ job' = [job EXCEPT ![r].at = "status", ![r].workflow = w]
  /\ shared' = IF Repairs(w) = {} THEN shared ELSE shared \cup {w}

-----------------------------------------------------------------------------
(* WorkflowService.ensure_project_workflow                                 *)

\* Mutant of get_for_project: a workflow that is there is taken as it is.
get_for_project_only(r) ==
  /\ job[r].at = "ensure"
  /\ IF OfProject = {} THEN job' = [job EXCEPT ![r].at = "new"] /\ UNCHANGED shared
     ELSE /\ job' = [job EXCEPT ![r].at = "use", ![r].workflow = Min(OfProject)]
          /\ UNCHANGED shared
  /\ UNCHANGED <<workflows, statuses, transitions, status_of, edited, split, moved, stray>>

get_for_project(r) ==
  /\ job[r].at = "ensure"
  /\ IF OfProject = {} THEN job' = [job EXCEPT ![r].at = "new"] /\ UNCHANGED shared
     ELSE Repair(r, Min(OfProject))
  /\ UNCHANGED <<workflows, statuses, transitions, status_of, edited, split, moved, stray>>

CreateDefault(r) ==
  LET w == NextFree(workflows)
  IN /\ job[r].at = "new" /\ w \in WorkflowIds
     /\ workflows' = [workflows EXCEPT ![w] = Project]
     /\ split' = (split \/ OfProject # {})
     /\ Repair(r, w)
     /\ UNCHANGED <<statuses, transitions, status_of, edited, moved, stray>>

\* Mutant of EnsureStatus: a status of the key is added without looking for one.
EnsureStatusBlind(r) ==
  /\ job[r].at = "status" /\ Len(job[r].found) < Len(Keys)
  /\ job' = [job EXCEPT ![r].at = "add"]
  /\ UNCHANGED <<workflows, statuses, transitions, status_of, past>>

\* An inactive status is not found, and the key gets a new one.
EnsureStatus(r) ==
  LET found == find_status(job[r].workflow, Keys[Len(job[r].found) + 1])
  IN /\ job[r].at = "status" /\ Len(job[r].found) < Len(Keys)
     /\ \/ found = {} /\ job' = [job EXCEPT ![r].at = "add"]
        \/ \E t \in found : job' = [job EXCEPT ![r].found = Append(@, t)]
     /\ UNCHANGED <<workflows, statuses, transitions, status_of, past>>

\* The workflow is not looked at again: it may be gone.
create_status(r) ==
  LET t == NextFree(statuses)
  IN /\ job[r].at = "add" /\ t \in StatusIds
     /\ Insert(t, job[r].workflow, Keys[Len(job[r].found) + 1])
     /\ job' = [job EXCEPT ![r].at = "status", ![r].found = Append(@, t)]
     /\ UNCHANGED <<workflows, transitions, status_of, past>>

EnsureTransition(r) ==
  LET n == job[r].linked + 1
      row(k) == job[r].found[CHOOSE m \in DOMAIN Keys : Keys[m] = k]
  IN /\ job[r].at = "status" /\ Len(job[r].found) = Len(Keys) /\ n <= Len(Links)
     /\ transitions' = transitions \cup
          {[workflow_id |-> job[r].workflow, from |-> row(Links[n][1]), to |-> row(Links[n][2])]}
     /\ job' = [job EXCEPT ![r].linked = n]
     /\ UNCHANGED <<workflows, statuses, status_of, past>>

EnsureReturn(r) ==
  /\ job[r].at = "status" /\ Len(job[r].found) = Len(Keys) /\ job[r].linked = Len(Links)
  /\ IF workflows[job[r].workflow] = NULL \/ job[r].op = "read" THEN NoMore(r)
     ELSE job' = [job EXCEPT ![r].at = "use", ![r].found = <<>>, ![r].linked = 0]
  /\ UNCHANGED <<workflows, statuses, transitions, status_of, past>>

-----------------------------------------------------------------------------
(* Calls that use it                                                       *)

\* GET /projects/{id}/workflow, POST /work-items without a status, and PATCH of a
\* status to another existing one.
Ask(r, op, i, t) ==
  /\ job[r] = NoJob
  /\ op = "create" => status_of[i] = NULL /\ \A q \in Requests : job[q].op = "create" => job[q].item # i
  /\ op = "move" => status_of[i] \notin {NULL, t} /\ statuses[t] # NULL
  /\ job' = [job EXCEPT ![r] = [NoJob EXCEPT !.op = op, !.at = "ensure", !.item = i, !.target = t]]
  /\ UNCHANGED <<workflows, statuses, transitions, status_of, past>>

\* get_or_create_status_for_project, for the default key: when it is gone already,
\* the workflow is repaired once more.
TakeDefault(r) ==
  LET w == job[r].workflow
      found == find_status(w, Keys[1])
      repair == found = {} /\ ~job[r].again /\ workflows[w] # NULL
  IN /\ job[r].at = "use" /\ job[r].op = "create"
     /\ \/ found = {} /\ ~repair /\ NoMore(r)
        \/ \E t \in found : job' = [job EXCEPT ![r].at = "save", ![r].target = t]
        \/ repair /\ job' = [job EXCEPT ![r].at = "status", ![r].again = TRUE]
     /\ shared' = IF repair /\ Repairs(w) # {} THEN shared \cup {w} ELSE shared
     /\ UNCHANGED <<workflows, statuses, transitions, status_of, edited, split, moved, stray>>

\* Mutant of validate_transition: the target need only be active.
validate_active_only(r) ==
  /\ job[r].at = "use" /\ job[r].op = "move"
  /\ IF statuses[job[r].target] # NULL THEN job' = [job EXCEPT ![r].at = "save"] ELSE NoMore(r)
  /\ UNCHANGED <<workflows, statuses, transitions, status_of, past>>

\* The target is an active status of the workflow.  Transitions are not asked.
validate_transition(r) ==
  LET t == job[r].target
  IN /\ job[r].at = "use" /\ job[r].op = "move"
     /\ IF t \in StatusesOf(job[r].workflow) /\ statuses[t].is_active
        THEN job' = [job EXCEPT ![r].at = "save"] ELSE NoMore(r)
     /\ UNCHANGED <<workflows, statuses, transitions, status_of, past>>

SaveItem(r) ==
  /\ job[r].at = "save"
  /\ status_of' = [status_of EXCEPT ![job[r].item] = job[r].target]
  /\ stray' = stray \ {job[r].item}
  /\ NoMore(r)
  /\ UNCHANGED <<workflows, statuses, transitions, edited, shared, split, moved>>

\* POST with a status_id: the row has to exist, in whatever workflow.
CreateWithStatus(i, t) ==
  /\ status_of[i] = NULL /\ statuses[t] # NULL
  /\ \A q \in Requests : job[q].op = "create" => job[q].item # i
  /\ status_of' = [status_of EXCEPT ![i] = t]
  /\ stray' = stray \cup {i}
  /\ UNCHANGED <<workflows, statuses, transitions, job, edited, shared, split, moved>>

\* A rule's update_status: get_or_create_status_by_name looks for the lower-case
\* name, which no workflow uses, and adds a status that belongs to none.
Automate(i, key) ==
  /\ status_of[i] # NULL
  /\ LET named == {t \in StatusesOf(NULL) : statuses[t].key = key}
         t == IF named = {} THEN NextFree(statuses) ELSE Min(named)
     IN /\ t \in StatusIds
        /\ IF named = {} THEN Insert(t, NULL, key) ELSE UNCHANGED statuses
        /\ status_of' = [status_of EXCEPT ![i] = t]
  /\ stray' = stray \cup {i}
  /\ UNCHANGED <<workflows, transitions, job, edited, shared, split, moved>>

-----------------------------------------------------------------------------
(* Administration                                                          *)

\* POST /workflows for another project or none, and assign-project.
CreateWorkflow ==
  LET w == NextFree(workflows)
  IN /\ w \in WorkflowIds
     /\ workflows' = [workflows EXCEPT ![w] = Other]
     /\ UNCHANGED <<statuses, transitions, status_of, job, past>>

assign_project(w, project) ==
  /\ workflows[w] \notin {NULL, project}
  /\ workflows' = [workflows EXCEPT ![w] = project]
  /\ split' = (split \/ (project = Project /\ OfProject # {}))
  /\ moved' = (moved \/ project = Other)
  /\ UNCHANGED <<statuses, transitions, status_of, job, edited, shared, stray>>

\* PATCH of a status; add_status adds one of a key the workflow may have.
update_status(t, active) ==
  /\ statuses[t] # NULL /\ statuses[t].workflow_id # NULL /\ workflows[statuses[t].workflow_id] # NULL
  /\ statuses' = [statuses EXCEPT ![t].is_active = active]
  /\ edited' = edited \cup {statuses[t].workflow_id}
  /\ UNCHANGED <<workflows, transitions, status_of, job, shared, split, moved, stray>>

add_status(w, key) ==
  LET t == NextFree(statuses)
  IN /\ workflows[w] # NULL /\ t \in StatusIds
     /\ Insert(t, w, key)
     /\ edited' = edited \cup {w}
     /\ UNCHANGED <<workflows, transitions, status_of, job, shared, split, moved, stray>>

\* The ORM would empty the status of every item that uses one: the call fails if
\* there are any.
DeleteLoad(r, w) ==
  /\ job[r] = NoJob /\ workflows[w] # NULL
  /\ \A i \in WorkItems : status_of[i] \notin StatusesOf(w)
  /\ job' = [job EXCEPT ![r] = [NoJob EXCEPT !.op = "delete", !.at = "erase", !.workflow = w,
                                  !.target = StatusesOf(w)]]
  /\ UNCHANGED <<workflows, statuses, transitions, status_of, past>>

DeleteCommit(r) ==
  /\ job[r].at = "erase"
  /\ workflows' = [workflows EXCEPT ![job[r].workflow] = NULL]
  /\ statuses' = [t \in StatusIds |-> IF t \in job[r].target THEN NULL ELSE statuses[t]]
  /\ transitions' = {row \in transitions : row.workflow_id # job[r].workflow}
  /\ moved' = TRUE
  /\ NoMore(r)
  /\ UNCHANGED <<status_of, edited, shared, split, stray>>

\* A call stops between two commits.
Stop(r) ==
  /\ job[r] # NoJob
  /\ NoMore(r)
  /\ UNCHANGED <<workflows, statuses, transitions, status_of, past>>

Use(r) ==
  \/ Ask(r, "read", NULL, NULL)
  \/ \E i \in WorkItems : Ask(r, "create", i, NULL) \/ \E t \in StatusIds : Ask(r, "move", i, t)
  \/ get_for_project(r) \/ CreateDefault(r) \/ EnsureStatus(r) \/ create_status(r)
  \/ EnsureTransition(r) \/ EnsureReturn(r)
  \/ TakeDefault(r) \/ validate_transition(r) \/ SaveItem(r) \/ Stop(r)

Interfere ==
  \/ \E i \in WorkItems, t \in StatusIds : CreateWithStatus(i, t)
  \/ \E i \in WorkItems, m \in DOMAIN Keys : Automate(i, Keys[m])
  \/ CreateWorkflow
  \/ \E w \in WorkflowIds :
       \/ \E project \in {Project, Other} : assign_project(w, project)
       \/ \E m \in DOMAIN Keys : add_status(w, Keys[m])
       \/ \E r \in Requests : DeleteLoad(r, w)
  \/ \E t \in StatusIds, active \in BOOLEAN : update_status(t, active)

Next ==
  \/ (\E r \in Requests : Use(r) \/ DeleteCommit(r)) /\ UNCHANGED outside
  \/ outside < MaxOutside /\ outside' = outside + 1 /\ Interfere

Spec == Init /\ [][Next]_workflowVars

-----------------------------------------------------------------------------
(* Properties                                                              *)

\* A call that goes on after ensure_project_workflow has a complete workflow in
\* hand, also one whose creator stopped half-way: an active status of every key
\* and every transition, unless an administrator changed its statuses.
RepairedIsComplete ==
  \A r \in Requests : job[r].at \in {"use", "save"} /\ job[r].workflow \notin edited /\ ~moved =>
    LET w == job[r].workflow
    IN /\ \A m \in DOMAIN Keys : find_status(w, Keys[m]) # {}
       /\ \A n \in DOMAIN Links :
            \E from \in find_status(w, Links[n][1]), to \in find_status(w, Links[n][2]) :
              [workflow_id |-> w, from |-> from, to |-> to] \in transitions

\* Repairs, however often and wherever they stopped, leave one active status per
\* key, unless two ran at a time or an administrator added one.
OneStatusPerKey ==
  \A w \in WorkflowIds \ (edited \cup shared) : workflows[w] # NULL /\ ~moved =>
    \A m \in DOMAIN Keys : Cardinality(find_status(w, Keys[m])) <= 1

\* An item's status is one of the workflow the project uses, unless it was written
\* by a rule or a POST that names it, which do not ask; a second workflow of the
\* project, which two first requests can create, may hold it too.
StatusOfProject ==
  \A i \in WorkItems \ stray : status_of[i] # NULL /\ ~moved =>
    /\ statuses[status_of[i]] # NULL
    /\ statuses[status_of[i]].workflow_id \in IF split THEN OfProject ELSE {Min(OfProject)}

\* README: "Configured transitions are enforced when moving work items between
\* statuses."  A status an item takes by PATCH is reached by a transition.
MovesAreConfigured ==
  [][\A i \in WorkItems \ stray' :
       status_of[i] # NULL /\ status_of'[i] # status_of[i] =>
         \E row \in transitions : row.from = status_of[i] /\ row.to = status_of'[i]]_workflowVars
=============================================================================
