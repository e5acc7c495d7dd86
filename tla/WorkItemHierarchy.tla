-------------------------- MODULE WorkItemHierarchy -------------------------
(***************************************************************************)
(* The hierarchy of work items: flow-service's WorkItemService where it    *)
(* reads or writes the level, the parent and the activity of an item       *)
(* (services/flow-service/app/services/work_item_service.py), and the tree *)
(* that get_project_hierarchy makes of them.                               *)
(*                                                                         *)
(* A request checks an item against the parent it has read and writes with *)
(* a later commit; the items below the one it writes are not looked at.    *)
(* Left out are the fields that are not part of the hierarchy, and PATCH   *)
(* bodies that name a status, which may create the project's workflow, in  *)
(* a commit of its own, on the way.                                        *)
(***************************************************************************)
EXTENDS Integers, Sequences

CONSTANTS
  Requests,      \* threads serving POST and PATCH /work-items
  Projects,
  MaxItems,      \* bound on the work_items rows
  NamedLevels,   \* the levels that requests name
  NULL

Levels == {"initiative", "feature", "work_item", "subtask"}

ASSUME ConstantsAssumption ==
  /\ MaxItems \in Nat /\ NULL \notin Nat
  /\ NamedLevels \subseteq Levels

VARIABLES
  items,         \* work_items in row id order; none is ever deleted
  pc,            \* "idle", "validate" or "commit"
  job,           \* the request: the item as it was loaded and what to write
  overtaken,     \* history: requests whose item was written since they loaded it
  raced,         \* history: items that an overtaken request has written
  relevelled     \* history: items whose level was changed

vars == <<items, pc, job, overtaken, raced, relevelled>>
history == <<overtaken, raced, relevelled>>

NoJob == [op |-> "none"]
Ids == DOMAIN items
Parents == 1..MaxItems \cup {NULL}      \* what a body may name: rows or not

Init ==
  /\ items = <<>>
  /\ pc = [r \in Requests |-> "idle"]
  /\ job = [r \in Requests |-> NoJob]
  /\ overtaken = {} /\ raced = {} /\ relevelled = {}

-----------------------------------------------------------------------------
(* Operators                                                               *)

allowed_parent_levels ==
  [initiative |-> {}, feature |-> {"initiative"},
   work_item |-> {"initiative", "feature"}, subtask |-> {"work_item"}]

\* What a level asks of the item itself.
FitsAlone(level, parent_id) ==
  /\ level = "initiative" => parent_id = NULL
  /\ level = "subtask" => parent_id # NULL

\* Mutants of _validate_hierarchy: the parent's row is not looked for, is not
\* looked at, and any level may be above any other.
ValidateAlone(level, parent_id, project_id) == FitsAlone(level, parent_id)
ValidateFound(level, parent_id, project_id) ==
  /\ FitsAlone(level, parent_id)
  /\ parent_id # NULL => parent_id \in Ids

ValidateProject(level, parent_id, project_id) ==
  /\ FitsAlone(level, parent_id)
  /\ parent_id # NULL => parent_id \in Ids /\ items[parent_id].project_id = project_id

_validate_hierarchy(level, parent_id, project_id) ==
  /\ FitsAlone(level, parent_id)
  /\ parent_id # NULL =>
       /\ parent_id \in Ids /\ items[parent_id].is_active
       /\ items[parent_id].project_id = project_id
       /\ items[parent_id].item_level \in allowed_parent_levels[level]

\* The UPDATE names only the columns whose new value differs from the loaded one.
Column(stored, loaded, new) == IF new = loaded THEN stored ELSE new

End(r) ==
  /\ pc' = [pc EXCEPT ![r] = "idle"]
  /\ job' = [job EXCEPT ![r] = NoJob]

-----------------------------------------------------------------------------
(* create and create_subtask                                               *)

\* A refused body changes nothing.
Create(r, project_id, level, parent_id) ==
  /\ pc[r] = "idle"
  /\ _validate_hierarchy(level, parent_id, project_id)
  /\ pc' = [pc EXCEPT ![r] = "commit"]
  /\ job' = [job EXCEPT ![r] =
       [op |-> "create", row |-> [project_id |-> project_id, parent_id |-> parent_id,
                                  item_level |-> level, is_active |-> TRUE]]]
  /\ UNCHANGED <<items, history>>

CreateCommit(r) ==
  /\ pc[r] = "commit" /\ job[r].op = "create" /\ Len(items) < MaxItems
  /\ items' = Append(items, job[r].row)
  /\ End(r)
  /\ UNCHANGED history

-----------------------------------------------------------------------------
(* update, update_parent and delete                                        *)

\* The item must be active; what the body leaves out stays as it was loaded.
Update(r, x, level, parent_id) ==
  /\ pc[r] = "idle" /\ items[x].is_active
  /\ pc' = [pc EXCEPT ![r] = "validate"]
  /\ job' = [job EXCEPT ![r] =
       [op |-> "update", id |-> x, row |-> items[x], item_level |-> level, parent_id |-> parent_id]]
  /\ UNCHANGED <<items, history>>

\* The parent is another row than the item, read in a query of its own.
Validate(r) ==
  /\ pc[r] = "validate"
  /\ IF /\ job[r].parent_id # job[r].id
        /\ _validate_hierarchy(job[r].item_level, job[r].parent_id, job[r].row.project_id)
     THEN pc' = [pc EXCEPT ![r] = "commit"] /\ UNCHANGED <<job, overtaken>>
     ELSE End(r) /\ overtaken' = overtaken \ {r}
  /\ UNCHANGED <<items, raced, relevelled>>

Written(r) ==
  LET stored == items[job[r].id]
      loaded == job[r].row
  IN [stored EXCEPT !.item_level = Column(@, loaded.item_level, job[r].item_level),
                    !.parent_id = Column(@, loaded.parent_id, job[r].parent_id)]

UpdateCommit(r) ==
  LET x == job[r].id
  IN /\ pc[r] = "commit" /\ job[r].op = "update"
     /\ items' = [items EXCEPT ![x] = Written(r)]
     /\ overtaken' = (overtaken \cup {q \in Requests : job[q].op = "update" /\ job[q].id = x}) \ {r}
     /\ raced' = IF r \in overtaken THEN raced \cup {x} ELSE raced
     /\ relevelled' = IF Written(r).item_level # items[x].item_level
                      THEN relevelled \cup {x} ELSE relevelled
     /\ End(r)

\* DELETE, whose load and commit are one step as the flag it writes is never
\* set again.  A PATCH that clears is_active is an update and then this.
Delete(x) ==
  /\ items[x].is_active
  /\ items' = [items EXCEPT ![x].is_active = FALSE]
  /\ UNCHANGED <<pc, job, history>>

\* The thread stops or a query fails: nothing was written yet.
Fail(r) ==
  /\ pc[r] # "idle"
  /\ End(r)
  /\ overtaken' = overtaken \ {r}
  /\ UNCHANGED <<items, raced, relevelled>>

-----------------------------------------------------------------------------
Request(r) ==
  \/ \E project_id \in Projects, level \in NamedLevels, parent_id \in Parents :
       Create(r, project_id, level, parent_id)
  \/ \E x \in Ids, parent_id \in Parents :
       \E level \in NamedLevels \cup {items[x].item_level} : Update(r, x, level, parent_id)
  \/ CreateCommit(r) \/ Validate(r) \/ UpdateCommit(r) \/ Fail(r)

Next == (\E r \in Requests : Request(r)) \/ (\E x \in Ids : Delete(x))

Spec == Init /\ [][Next]_vars

-----------------------------------------------------------------------------
(* get_project_hierarchy                                                   *)

list_by_project(p) == {x \in Ids : items[x].project_id = p /\ items[x].is_active}

\* Mutant of Roots: only items that have no parent.
TopItems(p) == {x \in list_by_project(p) : items[x].parent_id = NULL}

\* An archived parent is not among the nodes: its children become roots.
Roots(p) == {x \in list_by_project(p) : items[x].parent_id \notin list_by_project(p)}

\* The nodes the response contains: the roots, and with a node its children.
Linked(p, S) ==
  Roots(p) \subseteq S /\ \A x \in list_by_project(p) : items[x].parent_id \in S => x \in S
get_project_hierarchy(p) ==
  {x \in list_by_project(p) : \A S \in SUBSET list_by_project(p) : Linked(p, S) => x \in S}

-----------------------------------------------------------------------------
(* Properties                                                              *)

\* Every variable stays in its type; items keep the project they were created
\* in and have a parent of that project, other than themselves.
Rows(ids) == [project_id : Projects, parent_id : ids \cup {NULL},
              item_level : Levels, is_active : BOOLEAN]
JobOK(r) ==
  \/ pc[r] = "idle" /\ job[r] = NoJob
  \/ pc[r] = "commit" /\ job[r] \in [op : {"create"}, row : Rows(Ids)]
  \/ /\ pc[r] \in {"validate", "commit"}
     /\ job[r] \in [op : {"update"}, id : Ids, row : Rows(Ids),
                    item_level : Levels, parent_id : Parents]
     /\ pc[r] = "commit" => job[r].parent_id \in Ids \cup {NULL}
TypeOK ==
  /\ items \in Seq(Rows(Ids))
  /\ DOMAIN pc = Requests /\ DOMAIN job = Requests
  /\ \A r \in Requests : JobOK(r)
  /\ overtaken \subseteq {r \in Requests : job[r].op = "update"}
  /\ raced \subseteq Ids /\ relevelled \subseteq Ids

\* The parent of an item is another item of its project, whatever requests
\* move, archive and change meanwhile.
ParentInProject ==
  \A x \in Ids : items[x].parent_id # NULL =>
    /\ items[x].parent_id # x
    /\ items[items[x].parent_id].project_id = items[x].project_id

\* An item breaks a rule of its level only if two updates of it overlapped, each
\* checking its own half, or if its parent was given another level, which
\* nobody checks against the items below.  (Every PATCH of such an item that
\* does not mend it is refused.)
LevelsFit ==
  \A x \in Ids \ raced :
    LET p == items[x].parent_id
    IN /\ FitsAlone(items[x].item_level, p)
       /\ p # NULL /\ p \notin relevelled =>
            items[p].item_level \in allowed_parent_levels[items[x].item_level]

\* Items whose parents form a ring are in no tree, and nothing looks for rings:
\* the levels alone keep them away.  Whatever the project's hierarchy leaves
\* out, an item whose level was changed is among it.
EveryItemShown ==
  \A p \in Projects :
    LET missing == list_by_project(p) \ get_project_hierarchy(p)
    IN missing # {} => missing \cap relevelled # {}

\* services/flow-service/README.md: "Subtasks must belong to work items."
SubtasksUnderWorkItems ==
  \A x \in Ids : items[x].item_level = "subtask" =>
    items[x].parent_id # NULL /\ items[items[x].parent_id].item_level = "work_item"
=============================================================================
