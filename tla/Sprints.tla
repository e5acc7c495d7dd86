------------------------------ MODULE Sprints ------------------------------
(***************************************************************************)
(* Sprints of flow-service (services/flow-service/app), and the work items *)
(* planned in them.  Sprints and items are of one project.  Completing a   *)
(* sprint moves every unfinished item out of it in a commit of its own and *)
(* writes the status last; nothing stops other calls in between.  SQLite    *)
(* enforces no foreign key and gives the highest id again once it is free. *)
(***************************************************************************)
EXTENDS Integers, FiniteSetsExt

CONSTANTS
  Requests,      \* concurrent HTTP calls
  MaxSprint,     \* bound on sprint ids
  WorkItems,     \* work item ids, numbers
  NULL

SprintIds == 1..MaxSprint
Statuses == {"planned", "active", "completed"}  \* "planned" stands for "cancelled" too

VARIABLES
  sprints,       \* SprintIds -> status, or NULL when there is no row
  items,         \* WorkItems -> [sprint_id, done, is_active]; done: is_completed
  http,          \* what each call is doing
  late,          \* history: SprintIds -> items written since its completion listed them
  loose          \* history: items whose sprint was last set unchecked or during its deletion

sprintVars == <<sprints, items, http, late, loose>>

Quiet == [op |-> "none", at |-> "idle", sprint |-> 0, item |-> 0, queue |-> {},
          finished |-> NULL, late |-> {}]

Init ==
  /\ sprints = [s \in SprintIds |-> NULL]
  /\ items = [i \in WorkItems |-> [sprint_id |-> NULL, done |-> FALSE, is_active |-> TRUE]]
  /\ http = [r \in Requests |-> Quiet]
  /\ late = [s \in SprintIds |-> {}]
  /\ loose = {}

-----------------------------------------------------------------------------
Planned(s) == {i \in WorkItems : items[i].sprint_id = s}
list_work_items(s) == {i \in Planned(s) : items[i].is_active}
BeingDeleted(s) == \E r \in Requests : http[r].op = "delete" /\ http[r].sprint = s

\* Completions under way and done see that some items were written.
Written(some, calls) ==
  /\ late' = [s \in SprintIds |-> IF sprints'[s] = "completed" THEN late[s] \cup some ELSE {}]
  /\ http' = [r \in Requests |-> IF calls[r].op = "complete" /\ calls[r].at # "list"
                                  THEN [calls[r] EXCEPT !.late = @ \cup some] ELSE calls[r]]

\* A sprint gets a status; if completed, some items may be unfinished.
SetStatus(s, status, some) ==
  /\ sprints' = [sprints EXCEPT ![s] = status]
  /\ late' = [late EXCEPT ![s] = IF status = "completed" THEN some ELSE {}]

Done(r) == http' = [http EXCEPT ![r] = Quiet]
Begin(r, op, at, s) == http' = [http EXCEPT ![r] = [Quiet EXCEPT !.op = op, !.at = at, !.sprint = s]]

-----------------------------------------------------------------------------
(* SprintService                                                           *)

create(status) ==
  \E s \in SprintIds :
    /\ s = 1 + Max({t \in SprintIds : sprints[t] # NULL} \cup {0})
    /\ SetStatus(s, status, WorkItems)
    /\ UNCHANGED <<items, http, loose>>

\* PATCH may set any status.
update(s, status) ==
  /\ sprints[s] # NULL
  /\ SetStatus(s, status, IF sprints[s] = "completed" THEN late[s] ELSE WorkItems)
  /\ UNCHANGED <<items, http, loose>>

start(r, s) ==
  /\ http[r] = Quiet /\ sprints[s] = "planned"
  /\ Begin(r, "start", "write", s)
  /\ UNCHANGED <<sprints, items, late, loose>>

\* The status is written whatever it is by now; a row that is gone fails the call.
StartCommit(r) ==
  LET s == http[r].sprint
  IN /\ http[r].op = "start"
     /\ IF sprints[s] = NULL THEN UNCHANGED <<sprints, late>> ELSE SetStatus(s, "active", {})
     /\ Done(r)
     /\ UNCHANGED <<items, loose>>

complete(r, s) ==
  /\ http[r] = Quiet /\ sprints[s] = "active"
  /\ Begin(r, "complete", "list", s)
  /\ UNCHANGED <<sprints, items, late, loose>>

CompleteList(r) ==
  /\ http[r].at = "list"
  /\ LET listed == list_work_items(http[r].sprint)
     IN http' = [http EXCEPT ![r].at = "sweep", ![r].queue = listed, ![r].late = {},
                             ![r].finished = {i \in listed : items[i].done}]
  /\ UNCHANGED <<sprints, items, late, loose>>

\* The next item: the listed row until the first commit, read again after it.
CompleteNext(r) ==
  LET i == Min(http[r].queue)
      stays == IF http[r].finished # NULL THEN i \in http[r].finished
               ELSE items[i].done \/ items[i].sprint_id = NULL
  IN /\ http[r].at = "sweep" /\ http[r].queue # {}
     /\ http' = IF stays THEN [http EXCEPT ![r].queue = @ \ {i}]
                ELSE [http EXCEPT ![r].queue = @ \ {i}, ![r].at = "unlink", ![r].item = i]
     /\ UNCHANGED <<sprints, items, late, loose>>

\* Mutant of CompleteUnlink: the loop is left after one item.
CompleteUnlinkOne(r) ==
  LET i == http[r].item
  IN /\ http[r].at = "unlink"
     /\ UNCHANGED sprints
     /\ items' = [items EXCEPT ![i].sprint_id = NULL]
     /\ Written({i}, [http EXCEPT ![r].at = "sweep", ![r].item = 0, ![r].queue = {}])
     /\ loose' = loose \ {i}

\* The item leaves whatever sprint it is in by now.
CompleteUnlink(r) ==
  LET i == http[r].item
  IN /\ http[r].at = "unlink"
     /\ UNCHANGED sprints
     /\ items' = [items EXCEPT ![i].sprint_id = NULL]
     /\ Written({i}, [http EXCEPT ![r].at = "sweep", ![r].item = 0, ![r].finished = NULL])
     /\ loose' = loose \ {i}

CompleteCommit(r) ==
  LET s == http[r].sprint
  IN /\ http[r].at = "sweep" /\ http[r].queue = {}
     /\ IF sprints[s] = NULL THEN UNCHANGED <<sprints, late>>
        ELSE SetStatus(s, "completed", http[r].late)
     /\ Done(r)
     /\ UNCHANGED <<items, loose>>

\* The status of the sprint is not looked at.
assign_work_item(r, s, i) ==
  /\ http[r] = Quiet /\ sprints[s] # NULL /\ items[i].is_active
  /\ http' = [http EXCEPT ![r] = [Quiet EXCEPT !.op = "assign", !.at = "write", !.sprint = s, !.item = i]]
  /\ UNCHANGED <<sprints, items, late, loose>>

\* Nothing is written if the item was in s when it was read: see Stop.
AssignCommit(r) ==
  LET i == http[r].item
      s == http[r].sprint
  IN /\ http[r].op = "assign"
     /\ UNCHANGED sprints
     /\ items' = [items EXCEPT ![i].sprint_id = s]
     /\ Written({i}, [http EXCEPT ![r] = Quiet])
     /\ loose' = IF sprints[s] = NULL \/ BeingDeleted(s) THEN loose \cup {i} ELSE loose \ {i}

\* Mutant of delete: only the listed items, the active ones, lose their sprint.
delete_listed(r, s) ==
  /\ http[r] = Quiet /\ sprints[s] # NULL
  /\ http' = [http EXCEPT ![r] = [Quiet EXCEPT !.op = "delete", !.at = "write", !.sprint = s, !.queue = list_work_items(s)]]
  /\ UNCHANGED <<sprints, items, late, loose>>

\* The service lists the active items, the ORM adds the archived ones.
delete(r, s) ==
  /\ http[r] = Quiet /\ sprints[s] # NULL
  /\ http' = [http EXCEPT ![r] = [Quiet EXCEPT !.op = "delete", !.at = "write", !.sprint = s, !.queue = Planned(s)]]
  /\ UNCHANGED <<sprints, items, late, loose>>

\* A sprint that is gone already is no error.
DeleteCommit(r) ==
  LET gone == http[r].queue
  IN /\ http[r].op = "delete"
     /\ sprints' = [sprints EXCEPT ![http[r].sprint] = NULL]
     /\ items' = [i \in WorkItems |-> IF i \in gone THEN [items[i] EXCEPT !.sprint_id = NULL]
                                                    ELSE items[i]]
     /\ Written(gone, [http EXCEPT ![r] = Quiet])
     /\ loose' = loose \ gone

-----------------------------------------------------------------------------
(* WorkItemService: PATCH and DELETE /work-items.  A column is written when *)
(* it differs from the loaded one, so an edit writes its value or nothing, *)
(* and one step is enough.                                                 *)

UpdateItem(i) ==
  /\ items[i].is_active
  /\ UNCHANGED sprints
  /\ \/ \E b \in BOOLEAN : items' = [items EXCEPT ![i].done = b] /\ UNCHANGED loose
     \/ items' = [items EXCEPT ![i].is_active = FALSE] /\ UNCHANGED loose
     \/ \E s \in SprintIds \cup {NULL} :
          /\ items' = [items EXCEPT ![i].sprint_id = s]
          /\ loose' = IF s = NULL THEN loose \ {i} ELSE loose \cup {i}
  /\ Written({i}, http)

\* A call stops between two commits, or has nothing to write.
Stop(r) ==
  /\ http[r] # Quiet
  /\ Done(r)
  /\ UNCHANGED <<sprints, items, late, loose>>

Next ==
  \/ \E status \in {"planned", "active"} : create(status)
  \/ \E s \in SprintIds, status \in Statuses : update(s, status)
  \/ \E i \in WorkItems : UpdateItem(i)
  \/ \E r \in Requests :
       \/ \E s \in SprintIds :
            start(r, s) \/ complete(r, s) \/ delete(r, s) \/ \E i \in WorkItems : assign_work_item(r, s, i)
       \/ StartCommit(r) \/ CompleteList(r) \/ CompleteNext(r) \/ CompleteUnlink(r)
       \/ CompleteCommit(r) \/ AssignCommit(r) \/ DeleteCommit(r) \/ Stop(r)

Spec == Init /\ [][Next]_sprintVars

-----------------------------------------------------------------------------
(* Properties                                                              *)

\* A sprint completed through complete() keeps finished items only, except those
\* somebody wrote since the completion listed them: the loop cannot miss one,
\* however the calls interleave and however often it stopped half-way before.
CompletedIsFinished ==
  \A s \in SprintIds : sprints[s] = "completed" =>
    \A i \in list_work_items(s) \ late[s] : items[i].done

\* An item, archived or not, is in no sprint that was deleted, unless it was put
\* there by a PATCH, which checks nothing, or while the deletion was under way.
NoDanglingSprint ==
  \A i \in WorkItems \ loose : items[i].sprint_id = NULL \/ sprints[items[i].sprint_id] # NULL
=============================================================================
