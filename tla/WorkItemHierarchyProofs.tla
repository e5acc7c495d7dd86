---------------------- MODULE WorkItemHierarchyProofs -----------------------
(***************************************************************************)
(* Proofs about WorkItemHierarchy, for any number of requests, projects    *)
(* and items.  The inductive invariants say what a request that has        *)
(* validated its write may still rely on when it commits.                  *)
(***************************************************************************)
EXTENDS WorkItemHierarchy, TLAPS

-----------------------------------------------------------------------------
(* Type correctness                                                        *)

\* Row ids count the rows, and no row has the id NULL.
LEMMA IdsType ==
  ASSUME items \in Seq(Rows(Ids))
  PROVE  /\ Ids = 1..Len(items) /\ Len(items) \in Nat /\ NULL \notin Ids
         /\ \A x \in Ids : items[x] \in Rows(Ids)
BY ConstantsAssumption DEF Ids

\* A row whose parent is among some ids has it among more of them.
LEMMA RowsGrow ==
  ASSUME NEW S, NEW T, S \subseteq T
  PROVE  Rows(S) \subseteq Rows(T)
BY DEF Rows

\* The table after a create: the rows it had and one with a new id.
LEMMA Appended ==
  ASSUME items \in Seq(Rows(Ids)), NEW row, items' = Append(items, row)
  PROVE  /\ Ids' = Ids \cup {Len(items) + 1} /\ Len(items) + 1 \notin Ids
         /\ items'[Len(items) + 1] = row
         /\ \A x \in Ids : items'[x] = items[x]
<1>1. Ids = 1..Len(items) /\ Len(items) \in Nat
  BY IdsType
<1>2. DOMAIN items' = 1..(Len(items) + 1)
  BY <1>1
<1> QED BY <1>1, <1>2 DEF Ids

\* The row an update commits is a row.
LEMMA WrittenType ==
  ASSUME TypeOK, NEW r \in Requests, pc[r] = "commit", job[r].op = "update"
  PROVE  /\ Written(r) \in Rows(Ids)
         /\ Written(r).project_id = items[job[r].id].project_id
         /\ Written(r).item_level \in {items[job[r].id].item_level, job[r].item_level}
         /\ Written(r).parent_id \in {items[job[r].id].parent_id, job[r].parent_id}
<1>1. /\ job[r] \in [op : {"update"}, id : Ids, row : Rows(Ids), item_level : Levels, parent_id : Parents]
      /\ job[r].parent_id \in Ids \cup {NULL}
  BY DEF TypeOK, JobOK, NoJob
<1>2. items[job[r].id] \in Rows(Ids)
  BY <1>1, IdsType DEF TypeOK
<1> QED BY <1>1, <1>2 DEF Written, Column, Rows

\* The requests that a step leaves alone keep their type.
LEMMA OthersKeepType ==
  ASSUME TypeOK, NEW r \in Requests, Ids \subseteq Ids',
         DOMAIN pc' = DOMAIN pc, DOMAIN job' = DOMAIN job,
         JobOK(r)', \A q \in Requests \ {r} : pc'[q] = pc[q] /\ job'[q] = job[q]
  PROVE  /\ DOMAIN pc' = Requests /\ DOMAIN job' = Requests
         /\ \A q \in Requests : JobOK(q)'
<1>1. Rows(Ids) \subseteq Rows(Ids')
  BY RowsGrow
<1>2. ASSUME NEW q \in Requests, q # r PROVE JobOK(q)'
  <2>1. JobOK(q) /\ pc'[q] = pc[q] /\ job'[q] = job[q]
    BY <1>2 DEF TypeOK
  <2>2. (Rows(Ids))' = Rows(Ids')
    BY DEF Rows
  <2> QED BY <1>1, <2>1, <2>2 DEF JobOK
<1> QED BY <1>2 DEF TypeOK

\* The initial state.
LEMMA TypeInit == Init => TypeOK
BY DEF Init, TypeOK, JobOK, Ids

\* A request that ends has a job of the right type: none.
LEMMA EndType ==
  ASSUME TypeOK, NEW r \in Requests, Ids \subseteq Ids', End(r)
  PROVE  /\ DOMAIN pc' = Requests /\ DOMAIN job' = Requests
         /\ \A q \in Requests : JobOK(q)'
         /\ \A q \in Requests \ {r} : job'[q] = job[q] /\ pc'[q] = pc[q]
<1>1. /\ DOMAIN pc' = DOMAIN pc /\ DOMAIN job' = DOMAIN job
      /\ pc'[r] = "idle" /\ job'[r] = NoJob
      /\ \A q \in Requests \ {r} : pc'[q] = pc[q] /\ job'[q] = job[q]
  BY DEF End, TypeOK
<1>2. JobOK(r)'
  BY <1>1 DEF JobOK
<1> QED BY <1>1, <1>2, OthersKeepType

\* Every step keeps the type.
LEMMA TypeNext == TypeOK /\ [Next]_vars => TypeOK'
<1> SUFFICES ASSUME TypeOK, [Next]_vars PROVE TypeOK'
  OBVIOUS
<1>0. /\ Ids = 1..Len(items) /\ Len(items) \in Nat /\ NULL \notin Ids
      /\ \A x \in Ids : items[x] \in Rows(Ids)
  BY IdsType DEF TypeOK
<1>1. ASSUME NEW r \in Requests, NEW project_id \in Projects, NEW level \in NamedLevels,
             NEW parent_id \in Parents, Create(r, project_id, level, parent_id)
      PROVE  TypeOK'
  <2>1. Ids' = Ids /\ DOMAIN pc' = DOMAIN pc /\ DOMAIN job' = DOMAIN job
    BY <1>1 DEF Create, Ids
  <2>2. parent_id \in Ids \cup {NULL}
    BY <1>1 DEF Create, _validate_hierarchy
  <2>3. /\ pc'[r] = "commit" /\ job'[r].op = "create"
        /\ job'[r] \in [op : {"create"}, row : Rows(Ids)]
    BY <1>1, <2>2, ConstantsAssumption DEF Create, Rows, TypeOK
  <2>4. JobOK(r)'
    BY <2>1, <2>3 DEF JobOK, Rows
  <2>5. \A q \in Requests \ {r} : pc'[q] = pc[q] /\ job'[q] = job[q]
    BY <1>1 DEF Create, TypeOK
  <2>6. r \notin overtaken
    BY <1>1 DEF Create, TypeOK, JobOK, NoJob
  <2>7. \A q \in Requests : JobOK(q)' /\ DOMAIN pc' = Requests /\ DOMAIN job' = Requests
    BY <2>1, <2>4, <2>5, OthersKeepType
  <2> QED
    BY <1>1, <2>1, <2>5, <2>6, <2>7 DEF Create, TypeOK, history, Rows
<1>2. ASSUME NEW r \in Requests, NEW x \in Ids, NEW level \in Levels, NEW parent_id \in Parents,
             Update(r, x, level, parent_id)
      PROVE  TypeOK'
  <2>1. Ids' = Ids /\ DOMAIN pc' = DOMAIN pc /\ DOMAIN job' = DOMAIN job
    BY <1>2 DEF Update, Ids
  <2>2. /\ pc'[r] = "validate"
        /\ job'[r] = [op |-> "update", id |-> x, row |-> items[x], item_level |-> level, parent_id |-> parent_id]
    BY <1>2 DEF Update, TypeOK
  <2>3. job'[r] \in [op : {"update"}, id : Ids, row : Rows(Ids), item_level : Levels, parent_id : Parents]
    BY <1>0, <2>2
  <2>4. JobOK(r)'
    BY <2>1, <2>2, <2>3 DEF JobOK, Rows
  <2>5. \A q \in Requests \ {r} : pc'[q] = pc[q] /\ job'[q] = job[q]
    BY <1>2 DEF Update, TypeOK
  <2>6. r \notin overtaken
    BY <1>2 DEF Update, TypeOK, JobOK, NoJob
  <2>7. \A q \in Requests : JobOK(q)' /\ DOMAIN pc' = Requests /\ DOMAIN job' = Requests
    BY <2>1, <2>4, <2>5, OthersKeepType
  <2> QED
    BY <1>2, <2>1, <2>5, <2>6, <2>7 DEF Update, TypeOK, history, Rows
<1>3. ASSUME NEW r \in Requests, CreateCommit(r) PROVE TypeOK'
  <2>1. job[r] \in [op : {"create"}, row : Rows(Ids)]
    BY <1>3 DEF CreateCommit, TypeOK, JobOK, NoJob
  <2>2. /\ Ids' = Ids \cup {Len(items) + 1}
        /\ items' = Append(items, job[r].row)
    BY <1>3, Appended DEF CreateCommit, TypeOK
  <2>3. Rows(Ids) \subseteq Rows(Ids')
    BY <2>2, RowsGrow
  <2>4. items' \in Seq(Rows(Ids'))
    <3>1. items \in Seq(Rows(Ids')) /\ job[r].row \in Rows(Ids')
      BY <2>1, <2>3, <1>0 DEF TypeOK
    <3> QED BY <2>2, <3>1
  <2>5. /\ \A q \in Requests : JobOK(q)' /\ DOMAIN pc' = Requests /\ DOMAIN job' = Requests
        /\ \A q \in Requests \ {r} : job'[q] = job[q]
    BY <1>3, <2>2, EndType DEF CreateCommit
  <2>6. r \notin overtaken
    BY <2>1 DEF TypeOK
  <2> QED
    BY <1>3, <2>2, <2>4, <2>5, <2>6 DEF CreateCommit, TypeOK, history, Rows
<1>4. ASSUME NEW r \in Requests, Validate(r) PROVE TypeOK'
  <2>1. /\ Ids' = Ids
        /\ job[r] \in [op : {"update"}, id : Ids, row : Rows(Ids), item_level : Levels, parent_id : Parents]
    BY <1>4 DEF Validate, TypeOK, JobOK, NoJob, Ids
  <2>2. CASE End(r) /\ overtaken' = overtaken \ {r}
    <3>1. /\ \A q \in Requests : JobOK(q)' /\ DOMAIN pc' = Requests /\ DOMAIN job' = Requests
          /\ \A q \in Requests \ {r} : job'[q] = job[q]
      BY <2>1, <2>2, EndType
    <3> QED BY <1>4, <2>1, <2>2, <3>1 DEF Validate, TypeOK, Rows
  <2>3. CASE /\ job[r].parent_id \in Ids \cup {NULL}
             /\ pc' = [pc EXCEPT ![r] = "commit"] /\ UNCHANGED <<job, overtaken>>
    <3>1. /\ DOMAIN pc' = DOMAIN pc /\ DOMAIN job' = DOMAIN job
          /\ \A q \in Requests \ {r} : pc'[q] = pc[q] /\ job'[q] = job[q]
          /\ pc'[r] = "commit" /\ job'[r] = job[r]
      BY <2>3 DEF TypeOK
    <3>2. JobOK(r)'
      BY <2>1, <2>3, <3>1 DEF JobOK, Rows
    <3>3. \A q \in Requests : JobOK(q)' /\ DOMAIN pc' = Requests /\ DOMAIN job' = Requests
      BY <2>1, <3>1, <3>2, OthersKeepType
    <3> QED BY <1>4, <2>1, <2>3, <3>3 DEF Validate, TypeOK, Rows
  <2> QED BY <1>4, <2>2, <2>3 DEF Validate, _validate_hierarchy
<1>5. ASSUME NEW r \in Requests, UpdateCommit(r) PROVE TypeOK'
  <2>1. pc[r] = "commit" /\ job[r].op = "update" /\ job[r].id \in Ids
    BY <1>5 DEF UpdateCommit, TypeOK, JobOK, NoJob
  <2>2. Written(r) \in Rows(Ids)
    BY <2>1, WrittenType
  <2>3. Ids' = Ids /\ items' \in Seq(Rows(Ids))
    BY <1>0, <1>5, <2>1, <2>2 DEF UpdateCommit, TypeOK, Ids
  <2>4. /\ \A q \in Requests : JobOK(q)' /\ DOMAIN pc' = Requests /\ DOMAIN job' = Requests
        /\ \A q \in Requests \ {r} : job'[q] = job[q]
    BY <1>5, <2>3, EndType DEF UpdateCommit
  <2> QED
    BY <1>5, <2>1, <2>3, <2>4 DEF UpdateCommit, TypeOK, Rows
<1>6. ASSUME NEW r \in Requests, Fail(r) PROVE TypeOK'
  <2>1. Ids' = Ids
    BY <1>6 DEF Fail, Ids
  <2>2. /\ \A q \in Requests : JobOK(q)' /\ DOMAIN pc' = Requests /\ DOMAIN job' = Requests
        /\ \A q \in Requests \ {r} : job'[q] = job[q]
    BY <1>6, <2>1, EndType DEF Fail
  <2> QED BY <1>6, <2>1, <2>2 DEF Fail, TypeOK, Rows
<1>7. ASSUME NEW x \in Ids, Delete(x) PROVE TypeOK'
  <2>1. [items[x] EXCEPT !.is_active = FALSE] \in Rows(Ids)
    BY <1>0 DEF Rows
  <2>2. Ids' = Ids /\ items' \in Seq(Rows(Ids))
    BY <1>0, <1>7, <2>1 DEF Delete, TypeOK, Ids
  <2> QED BY <1>7, <2>2 DEF Delete, TypeOK, history, JobOK, Rows
<1>8. CASE UNCHANGED vars
  BY <1>8 DEF vars, TypeOK, JobOK, Rows, Ids
<1>9. ASSUME NEW r \in Requests, Request(r) PROVE TypeOK'
  <2>1. \A x \in Ids : NamedLevels \cup {items[x].item_level} \subseteq Levels
    BY <1>0, ConstantsAssumption DEF Rows
  <2> QED BY <1>1, <1>2, <1>3, <1>4, <1>5, <1>6, <1>9, <2>1 DEF Request
<1> QED BY <1>7, <1>8, <1>9 DEF Next

\* Type correctness: every variable stays in its type, whatever requests overlap.
THEOREM TypeCorrect == Spec => []TypeOK
BY TypeInit, TypeNext, PTL DEF Spec

-----------------------------------------------------------------------------
(* Parents of the same project                                             *)

\* What a request that is about to commit knows of the parent it names: the
\* project and the id of a row never change.
InProject(p, project_id) == p # NULL => p \in Ids /\ items[p].project_id = project_id
Checked(r) ==
  /\ job[r].op = "create" => InProject(job[r].row.parent_id, job[r].row.project_id)
  /\ job[r].op = "update" => job[r].row.project_id = items[job[r].id].project_id
  /\ job[r].op = "update" /\ pc[r] = "commit" =>
       /\ InProject(job[r].parent_id, job[r].row.project_id)
       /\ job[r].parent_id # job[r].id
ProjectInv == ParentInProject /\ \A r \in Requests : Checked(r)

\* Every step keeps the project of the rows, and only commits write parents.
LEMMA ProjectNext == TypeOK /\ ProjectInv /\ [Next]_vars => ProjectInv'
<1> SUFFICES ASSUME TypeOK, ProjectInv, [Next]_vars PROVE ProjectInv'
  OBVIOUS
<1>0. /\ Ids = 1..Len(items) /\ Len(items) \in Nat /\ NULL \notin Ids
      /\ \A x \in Ids : items[x] \in Rows(Ids)
  BY IdsType DEF TypeOK
<1>0a. \A x \in Ids : InProject(items[x].parent_id, items[x].project_id) /\ items[x].parent_id # x
  BY <1>0 DEF ProjectInv, ParentInProject, InProject, Rows
<1>a. ASSUME Ids \subseteq Ids', \A x \in Ids : items'[x].project_id = items[x].project_id,
             NEW p, NEW w, InProject(p, w)
      PROVE  InProject(p, w)'
  BY <1>a DEF InProject
<1>b. ASSUME Ids \subseteq Ids', \A x \in Ids : items'[x].project_id = items[x].project_id,
             NEW q \in Requests, job'[q] = job[q], pc'[q] = pc[q]
      PROVE  Checked(q)'
  <2>1. job[q].op = "update" => job[q].id \in Ids
    BY DEF TypeOK, JobOK, NoJob
  <2> QED BY <1>a, <1>b, <2>1 DEF Checked, InProject, ProjectInv
<1>c. ASSUME NEW r \in Requests, End(r) PROVE Checked(r)'
  BY <1>c DEF End, TypeOK, Checked, NoJob
<1>d. ASSUME NEW r \in Requests, \/ \E project_id \in Projects, level \in NamedLevels,
                                       parent_id \in Parents : Create(r, project_id, level, parent_id)
                                 \/ \E x \in Ids, level \in Levels, parent_id \in Parents :
                                      Update(r, x, level, parent_id)
                                 \/ Validate(r) \/ Fail(r)
      PROVE  ProjectInv'
  <2>1. UNCHANGED items /\ Ids' = Ids
    BY <1>d DEF Create, Update, Validate, Fail, Ids
  <2>2. ParentInProject'
    BY <2>1 DEF ProjectInv, ParentInProject, Ids
  <2>3. \A q \in Requests \ {r} : pc'[q] = pc[q] /\ job'[q] = job[q]
    BY <1>d DEF Create, Update, Validate, Fail, End, TypeOK
  <2>4. \A q \in Requests \ {r} : Checked(q)'
    BY <1>b, <2>1, <2>3
  <2>5. ASSUME NEW project_id \in Projects, NEW level \in NamedLevels, NEW parent_id \in Parents,
               Create(r, project_id, level, parent_id)
        PROVE  Checked(r)'
    BY <2>1, <2>5 DEF Create, _validate_hierarchy, Checked, InProject, TypeOK
  <2>6. ASSUME NEW x \in Ids, NEW level \in Levels, NEW parent_id \in Parents,
               Update(r, x, level, parent_id)
        PROVE  Checked(r)'
    BY <2>1, <2>6 DEF Update, Checked, InProject, TypeOK
  <2>7. ASSUME Validate(r) PROVE Checked(r)'
    <3>1. CASE End(r)
      BY <1>c, <3>1
    <3>2. CASE /\ job[r].parent_id # job[r].id
               /\ _validate_hierarchy(job[r].item_level, job[r].parent_id, job[r].row.project_id)
               /\ pc' = [pc EXCEPT ![r] = "commit"] /\ UNCHANGED job
      <4>1. job[r].op = "update"
        BY <2>7 DEF Validate, TypeOK, JobOK, NoJob
      <4>2. InProject(job[r].parent_id, job[r].row.project_id)
        BY <3>2 DEF _validate_hierarchy, InProject
      <4> QED BY <2>1, <3>2, <4>1, <4>2 DEF Checked, InProject, ProjectInv
    <3> QED BY <2>7, <3>1, <3>2 DEF Validate
  <2> QED BY <1>c, <1>d, <2>2, <2>4, <2>5, <2>6, <2>7 DEF ProjectInv, Fail
<1>1. ASSUME NEW r \in Requests, CreateCommit(r) PROVE ProjectInv'
  <2>1. /\ job[r] \in [op : {"create"}, row : Rows(Ids)]
        /\ InProject(job[r].row.parent_id, job[r].row.project_id)
    BY <1>1 DEF CreateCommit, TypeOK, JobOK, NoJob, ProjectInv, Checked
  <2> DEFINE new == Len(items) + 1
  <2>2. /\ Ids' = Ids \cup {new} /\ new \notin Ids
        /\ items'[new] = job[r].row
        /\ \A x \in Ids : items'[x] = items[x]
    BY <1>1, Appended DEF CreateCommit, TypeOK
  <2> HIDE DEF new
  <2>3. \A q \in Requests : Checked(q)'
    BY <1>1, <1>b, <1>c, <2>2 DEF CreateCommit, End, TypeOK
  <2> DEFINE Fine(x) == /\ items'[x].parent_id # x
                        /\ items'[x].parent_id # NULL =>
                             /\ items'[x].parent_id \in Ids
                             /\ items'[items'[x].parent_id].project_id = items'[x].project_id
  <2>4. \A x \in Ids : Fine(x)
    BY <1>0a, <2>2 DEF InProject
  <2>5. Fine(new)
    BY <2>1, <2>2, <1>0, ConstantsAssumption DEF InProject, new
  <2>6. \A x \in Ids' : Fine(x)
    BY <2>2, <2>4, <2>5
  <2> QED BY <2>3, <2>6 DEF ProjectInv, ParentInProject
<1>2. ASSUME NEW r \in Requests, UpdateCommit(r) PROVE ProjectInv'
  <2>1. /\ pc[r] = "commit" /\ job[r].op = "update" /\ job[r].id \in Ids
        /\ job[r].row.project_id = items[job[r].id].project_id
        /\ InProject(job[r].parent_id, job[r].row.project_id) /\ job[r].parent_id # job[r].id
    BY <1>2 DEF UpdateCommit, TypeOK, JobOK, NoJob, ProjectInv, Checked
  <2> DEFINE x == job[r].id
  <2>2. /\ Written(r).project_id = items[x].project_id
        /\ Written(r).parent_id \in {items[x].parent_id, job[r].parent_id}
    BY <2>1, WrittenType
  <2>3. /\ Ids' = Ids /\ items'[x] = Written(r)
        /\ \A y \in Ids \ {x} : items'[y] = items[y]
    BY <1>2, <2>1 DEF UpdateCommit, Ids
  <2> HIDE DEF x
  <2>4. \A y \in Ids : items'[y].project_id = items[y].project_id
    BY <2>2, <2>3
  <2>5. \A q \in Requests : Checked(q)'
    BY <1>2, <1>b, <1>c, <2>3, <2>4 DEF UpdateCommit, End, TypeOK
  <2>6. \A y \in Ids : InProject(items'[y].parent_id, items[y].project_id) /\ items'[y].parent_id # y
    BY <1>0a, <2>1, <2>2, <2>3 DEF x
  <2> QED BY <2>3, <2>4, <2>5, <2>6 DEF ProjectInv, ParentInProject, InProject
<1>3. ASSUME NEW x \in Ids, Delete(x) PROVE ProjectInv'
  <2>1. /\ Ids' = Ids /\ UNCHANGED <<pc, job>>
        /\ \A y \in Ids : /\ items'[y].project_id = items[y].project_id
                          /\ items'[y].parent_id = items[y].parent_id
    BY <1>0, <1>3 DEF Delete, Ids, Rows
  <2>2. \A q \in Requests : Checked(q)'
    BY <1>b, <2>1
  <2> QED BY <1>0a, <2>1, <2>2 DEF ProjectInv, ParentInProject, InProject
<1>4. CASE UNCHANGED vars
  BY <1>4 DEF vars, ProjectInv, ParentInProject, Checked, InProject, Ids
<1>5. ASSUME NEW r \in Requests, Request(r) PROVE ProjectInv'
  <2>1. \A x \in Ids : NamedLevels \cup {items[x].item_level} \subseteq Levels
    BY <1>0, ConstantsAssumption DEF Rows
  <2> QED BY <1>1, <1>2, <1>5, <1>d, <2>1 DEF Request
<1> QED BY <1>3, <1>4, <1>5 DEF Next

\* The initial state has no items.
LEMMA ProjectInit == Init => ProjectInv
BY DEF Init, ProjectInv, ParentInProject, Checked, NoJob, Ids

\* The parent of an item is another item of its project.
THEOREM ParentInProjectHolds == Spec => []ParentInProject
<1>1. ProjectInv => ParentInProject
  BY DEF ProjectInv
<1> QED BY <1>1, TypeInit, TypeNext, ProjectInit, ProjectNext, PTL DEF Spec

-----------------------------------------------------------------------------
(* The rules of the levels                                                 *)

\* A level and a parent go together as long as the parent keeps its level.
Under(level, p) ==
  p # NULL /\ p \notin relevelled => items[p].item_level \in allowed_parent_levels[level]
Rules(level, p) == FitsAlone(level, p) /\ Under(level, p)

\* A request that nobody has overtaken knows its item as it is; the level it
\* knows is right as long as the item has kept its level.
Knows(r) ==
  /\ job[r].op = "create" => Rules(job[r].row.item_level, job[r].row.parent_id)
  /\ job[r].op = "update" =>
       /\ pc[r] = "commit" => Rules(job[r].item_level, job[r].parent_id)
       /\ r \notin overtaken =>
            /\ job[r].row.item_level = items[job[r].id].item_level
            /\ job[r].row.parent_id = items[job[r].id].parent_id
       /\ job[r].id \notin relevelled => job[r].row.item_level = items[job[r].id].item_level

\* The rules for items that no overtaken request wrote, what is left of them
\* for the others that kept their level, and what the requests know.
LevelsInv ==
  /\ \A x \in Ids \ raced : Rules(items[x].item_level, items[x].parent_id)
  /\ \A x \in Ids \ relevelled : Under(items[x].item_level, items[x].parent_id)
  /\ \A r \in Requests : Knows(r)

\* Rules that held go on to hold in a step that changes the level of no row but
\* those it adds to relevelled.
LEMMA UnderStays ==
  ASSUME relevelled \subseteq relevelled',
         \A x \in Ids \ relevelled' : items'[x].item_level = items[x].item_level,
         NEW level, NEW p, p \in Ids \cup {NULL}, Under(level, p)
  PROVE  Under(level, p)'
BY DEF Under

\* In such a step a request that the step leaves alone keeps what it knows,
\* if the step overtakes it when it writes its item.
LEMMA KnowsStays ==
  ASSUME TypeOK, LevelsInv, relevelled \subseteq relevelled',
         \A x \in Ids \ relevelled' : items'[x].item_level = items[x].item_level,
         NEW q \in Requests, job'[q] = job[q], pc'[q] = pc[q],
         job[q].op = "update" /\ q \notin overtaken' =>
           /\ q \notin overtaken
           /\ items'[job[q].id].item_level = items[job[q].id].item_level
           /\ items'[job[q].id].parent_id = items[job[q].id].parent_id
  PROVE  Knows(q)'
<1>1. Knows(q)
  BY DEF LevelsInv
<1>2. CASE job[q].op = "create"
  <2>1. job[q] \in [op : {"create"}, row : Rows(Ids)]
    BY <1>2 DEF TypeOK, JobOK, NoJob
  <2> QED BY <1>1, <1>2, <2>1, UnderStays DEF Knows, Rules, Rows
<1>3. CASE job[q].op = "update"
  <2>1. /\ job[q].id \in Ids
        /\ pc[q] = "commit" => job[q].parent_id \in Ids \cup {NULL}
    BY <1>3 DEF TypeOK, JobOK, NoJob
  <2>2. pc[q] = "commit" => Rules(job[q].item_level, job[q].parent_id)'
    BY <1>1, <1>3, <2>1, UnderStays DEF Knows, Rules
  <2> QED BY <1>1, <1>3, <2>1, <2>2 DEF Knows
<1> QED BY <1>2, <1>3 DEF Knows

\* Every step keeps the rules: a commit writes what it has validated, and an
\* overtaken one changes no level without saying so.
LEMMA LevelsNext == TypeOK /\ LevelsInv /\ [Next]_vars => LevelsInv'
<1> SUFFICES ASSUME TypeOK, LevelsInv, [Next]_vars PROVE LevelsInv'
  OBVIOUS
<1>0. /\ Ids = 1..Len(items) /\ Len(items) \in Nat /\ NULL \notin Ids
      /\ \A x \in Ids : items[x] \in Rows(Ids)
  BY IdsType DEF TypeOK
<1>0a. \A x \in Ids : items[x].parent_id \in Ids \cup {NULL}
  BY <1>0 DEF Rows
<1>b. ASSUME NEW r \in Requests, End(r) PROVE Knows(r)'
  BY <1>b DEF End, TypeOK, Knows, NoJob
<1>d. ASSUME NEW r \in Requests, \/ \E project_id \in Projects, level \in NamedLevels,
                                       parent_id \in Parents : Create(r, project_id, level, parent_id)
                                 \/ \E x \in Ids, level \in Levels, parent_id \in Parents :
                                      Update(r, x, level, parent_id)
                                 \/ Validate(r) \/ Fail(r)
      PROVE  LevelsInv'
  <2>1. UNCHANGED <<items, raced, relevelled>> /\ Ids' = Ids
    BY <1>d DEF Create, Update, Validate, Fail, Ids, history
  <2>2. /\ \A x \in Ids' \ raced' : Rules(items[x].item_level, items[x].parent_id)'
        /\ \A x \in Ids' \ relevelled' : Under(items[x].item_level, items[x].parent_id)'
    BY <2>1 DEF LevelsInv, Rules, Under
  <2>3. \A q \in Requests \ {r} : /\ pc'[q] = pc[q] /\ job'[q] = job[q]
                                  /\ q \in overtaken' <=> q \in overtaken
    BY <1>d DEF Create, Update, Validate, Fail, End, TypeOK, history
  <2>4. \A q \in Requests \ {r} : Knows(q)'
    BY <2>1, <2>3, KnowsStays
  <2>5. ASSUME NEW project_id \in Projects, NEW level \in NamedLevels, NEW parent_id \in Parents,
               Create(r, project_id, level, parent_id)
        PROVE  Knows(r)'
    BY <2>1, <2>5 DEF Create, _validate_hierarchy, Knows, Rules, Under, TypeOK, FitsAlone
  <2>6. ASSUME NEW x \in Ids, NEW level \in Levels, NEW parent_id \in Parents,
               Update(r, x, level, parent_id)
        PROVE  Knows(r)'
    BY <2>1, <2>6 DEF Update, Knows, TypeOK
  <2>7. ASSUME Validate(r) PROVE Knows(r)'
    <3>1. CASE End(r)
      BY <1>b, <3>1
    <3>2. CASE /\ _validate_hierarchy(job[r].item_level, job[r].parent_id, job[r].row.project_id)
               /\ pc' = [pc EXCEPT ![r] = "commit"] /\ UNCHANGED <<job, overtaken>>
      <4>1. job[r].op = "update"
        BY <2>7 DEF Validate, TypeOK, JobOK, NoJob
      <4>2. Rules(job[r].item_level, job[r].parent_id)
        BY <3>2 DEF _validate_hierarchy, Rules, Under
      <4>3. Knows(r)
        BY DEF LevelsInv
      <4> QED BY <2>1, <3>2, <4>1, <4>2, <4>3 DEF Knows, Rules, Under
    <3> QED BY <2>7, <3>1, <3>2 DEF Validate
  <2> QED BY <1>b, <1>d, <2>2, <2>4, <2>5, <2>6, <2>7 DEF LevelsInv, Fail
<1>1. ASSUME NEW r \in Requests, CreateCommit(r) PROVE LevelsInv'
  <2>1. /\ job[r] \in [op : {"create"}, row : Rows(Ids)]
        /\ Rules(job[r].row.item_level, job[r].row.parent_id)
        /\ job[r].row.parent_id \in Ids \cup {NULL}
    BY <1>1 DEF CreateCommit, TypeOK, JobOK, NoJob, LevelsInv, Knows, Rows
  <2>0. PICK new : new = Len(items) + 1
    OBVIOUS
  <2>2. /\ Ids' = Ids \cup {new} /\ new \notin Ids
        /\ items'[new] = job[r].row
        /\ \A x \in Ids : items'[x] = items[x]
        /\ UNCHANGED <<overtaken, raced, relevelled>>
    BY <1>1, <2>0, Appended DEF CreateCommit, TypeOK, history
  <2>3. \A q \in Requests \ {r} : Knows(q)'
    <3>1. ASSUME NEW q \in Requests \ {r} PROVE Knows(q)'
      <4>1. job'[q] = job[q] /\ pc'[q] = pc[q]
        BY <1>1 DEF CreateCommit, End, TypeOK
      <4>2. job[q].op = "update" => job[q].id \in Ids
        BY DEF TypeOK, JobOK, NoJob
      <4> QED BY <2>2, <4>1, <4>2, KnowsStays
    <3> QED BY <3>1
  <2>4. Knows(r)'
    BY <1>1, <1>b DEF CreateCommit
  <2>5. ASSUME NEW x \in Ids PROVE Under(items[x].item_level, items[x].parent_id) =>
                                     Under(items[x].item_level, items[x].parent_id)'
    BY <1>0a, <2>2 DEF Under
  <2>6. Rules(items[new].item_level, items[new].parent_id)'
    BY <2>1, <2>2 DEF Rules, Under
  <2>7. \A x \in Ids \ raced : Rules(items[x].item_level, items[x].parent_id)'
    BY <2>2, <2>5 DEF Rules, LevelsInv
  <2> QED BY <2>2, <2>3, <2>4, <2>5, <2>6, <2>7 DEF LevelsInv, Rules
<1>2. ASSUME NEW r \in Requests, UpdateCommit(r) PROVE LevelsInv'
  <2>0. PICK x : x = job[r].id
    OBVIOUS
  <2>1. /\ pc[r] = "commit" /\ job[r].op = "update" /\ x \in Ids
        /\ job[r].parent_id \in Ids \cup {NULL}
        /\ Rules(job[r].item_level, job[r].parent_id)
        /\ r \notin overtaken =>
             job[r].row.item_level = items[x].item_level /\ job[r].row.parent_id = items[x].parent_id
        /\ x \notin relevelled => job[r].row.item_level = items[x].item_level
    BY <1>2, <2>0 DEF UpdateCommit, TypeOK, JobOK, NoJob, LevelsInv, Knows
  <2>2. /\ Written(r).item_level = Column(items[x].item_level, job[r].row.item_level, job[r].item_level)
        /\ Written(r).parent_id = Column(items[x].parent_id, job[r].row.parent_id, job[r].parent_id)
    BY <1>0, <2>0, <2>1 DEF Written, Rows
  <2>3. /\ Ids' = Ids /\ items'[x] = Written(r)
        /\ \A y \in Ids \ {x} : items'[y] = items[y]
        /\ overtaken' = (overtaken \cup {q \in Requests : job[q].op = "update" /\ job[q].id = x}) \ {r}
        /\ raced' = IF r \in overtaken THEN raced \cup {x} ELSE raced
        /\ relevelled' = IF Written(r).item_level # items[x].item_level
                         THEN relevelled \cup {x} ELSE relevelled
    BY <1>2, <2>0, <2>1 DEF UpdateCommit, Ids
  <2>4. /\ relevelled \subseteq relevelled'
        /\ \A y \in Ids \ relevelled' : items'[y].item_level = items[y].item_level
    BY <2>3
  <2>5. ASSUME NEW q \in Requests \ {r} PROVE Knows(q)'
    <3>1. job'[q] = job[q] /\ pc'[q] = pc[q]
      BY <1>2 DEF UpdateCommit, End, TypeOK
    <3>2. job[q].op = "update" => job[q].id \in Ids
      BY DEF TypeOK, JobOK, NoJob
    <3> QED BY <2>3, <2>4, <3>1, <3>2, KnowsStays
  <2>6. Knows(r)'
    BY <1>2, <1>b DEF UpdateCommit
  <2>7. ASSUME NEW y \in Ids, y # x PROVE Under(items[y].item_level, items[y].parent_id) =>
                                            Under(items[y].item_level, items[y].parent_id)'
    BY <1>0a, <2>3, <2>4, <2>7 DEF Under
  <2>8. Under(job[r].item_level, job[r].parent_id) /\ \A y \in Ids :
          items'[y].item_level = job[r].item_level /\ items'[y].parent_id = job[r].parent_id
          => Under(items[y].item_level, items[y].parent_id)'
    BY <2>1, <2>3, <2>4 DEF Under, Rules
  <2>9. x \notin raced' => Rules(items[x].item_level, items[x].parent_id)'
    <3>1. SUFFICES ASSUME r \notin overtaken
                   PROVE  Rules(items[x].item_level, items[x].parent_id)'
      BY <2>3
    <3>2. items'[x].item_level = job[r].item_level /\ items'[x].parent_id = job[r].parent_id
      BY <2>1, <2>2, <2>3, <3>1 DEF Column
    <3> QED BY <2>1, <2>8, <3>2 DEF Rules
  <2>10. ASSUME x \notin relevelled' PROVE Under(items[x].item_level, items[x].parent_id)'
    <3>1. /\ x \notin relevelled
          /\ items'[x].item_level = job[r].item_level
          /\ items[x].item_level = job[r].item_level
      BY <2>1, <2>2, <2>3, <2>10 DEF Column
    <3>2. CASE items'[x].parent_id = job[r].parent_id
      BY <2>1, <2>8, <3>1, <3>2
    <3>3. CASE items'[x].parent_id = items[x].parent_id
      <4>1. Under(items[x].item_level, items[x].parent_id)
        BY <2>1, <3>1 DEF LevelsInv
      <4> QED BY <1>0a, <2>1, <2>4, <3>1, <3>3, <4>1 DEF Under
    <3> QED BY <2>2, <2>3, <3>2, <3>3 DEF Column
  <2>11. \A y \in Ids \ raced' : Rules(items[y].item_level, items[y].parent_id)'
    BY <2>3, <2>7, <2>9 DEF LevelsInv, Rules
  <2>12. \A y \in Ids \ relevelled' : Under(items[y].item_level, items[y].parent_id)'
    BY <2>4, <2>7, <2>10 DEF LevelsInv
  <2> QED BY <2>3, <2>5, <2>6, <2>11, <2>12 DEF LevelsInv
<1>3. ASSUME NEW x \in Ids, Delete(x) PROVE LevelsInv'
  <2>1. /\ Ids' = Ids /\ UNCHANGED <<pc, job, overtaken, raced, relevelled>>
        /\ \A y \in Ids : /\ items'[y].item_level = items[y].item_level
                          /\ items'[y].parent_id = items[y].parent_id
    BY <1>0, <1>3 DEF Delete, Ids, Rows, history
  <2>2. ASSUME NEW q \in Requests PROVE Knows(q)'
    <3>1. job[q].op = "update" => job[q].id \in Ids
      BY DEF TypeOK, JobOK, NoJob
    <3> QED BY <2>1, <3>1, KnowsStays
  <2>3. ASSUME NEW y \in Ids PROVE Under(items[y].item_level, items[y].parent_id) =>
                                     Under(items[y].item_level, items[y].parent_id)'
    BY <1>0a, <2>1 DEF Under
  <2> QED BY <2>1, <2>2, <2>3 DEF LevelsInv, Rules
<1>4. CASE UNCHANGED vars
  BY <1>4 DEF vars, LevelsInv, Rules, Under, Knows, Ids
<1>5. ASSUME NEW r \in Requests, Request(r) PROVE LevelsInv'
  <2>1. \A x \in Ids : NamedLevels \cup {items[x].item_level} \subseteq Levels
    BY <1>0, ConstantsAssumption DEF Rows
  <2> QED BY <1>1, <1>2, <1>5, <1>d, <2>1 DEF Request
<1> QED BY <1>3, <1>4, <1>5 DEF Next

\* The initial state has no items.
LEMMA LevelsInit == Init => LevelsInv
BY DEF Init, LevelsInv, Knows, NoJob, Ids

\* An item that breaks a rule of its level was written by an overtaken request,
\* or has a parent that was given another level.
THEOREM LevelsFitHolds == Spec => []LevelsFit
<1>1. LevelsInv => LevelsFit
  BY DEF LevelsInv, LevelsFit, Rules, Under
<1> QED BY <1>1, TypeInit, TypeNext, LevelsInit, LevelsNext, PTL DEF Spec

-----------------------------------------------------------------------------
(* The tree                                                                *)

\* The parent of an item the tree leaves out is left out too.
LEMMA MissingParents ==
  ASSUME NEW p \in Projects, NEW x \in list_by_project(p) \ get_project_hierarchy(p)
  PROVE  items[x].parent_id \in list_by_project(p) \ get_project_hierarchy(p)
<1> DEFINE y == items[x].parent_id
<1>1. PICK S \in SUBSET list_by_project(p) : Linked(p, S) /\ x \notin S
  BY DEF get_project_hierarchy
<1>2. y \in list_by_project(p)
  BY <1>1 DEF Linked, Roots
<1>3. y \notin S
  BY <1>1 DEF Linked
<1> QED BY <1>1, <1>2, <1>3 DEF get_project_hierarchy

\* A set of items that holds the parents of its items holds one whose level was
\* changed: else it has no initiatives, for want of a parent, hence no features,
\* no work items and no subtasks.
LEMMA RingsNeedALevelChange ==
  ASSUME TypeOK, LevelsInv, NEW S, S \subseteq Ids, S # {}, \A x \in S : items[x].parent_id \in S
  PROVE  S \cap relevelled # {}
<1> SUFFICES ASSUME S \cap relevelled = {} PROVE FALSE
  OBVIOUS
<1>1. NULL \notin Ids /\ \A x \in Ids : items[x] \in Rows(Ids)
  BY IdsType DEF TypeOK
<1>2. \A x \in S : /\ items[x].item_level \in Levels
                   /\ items[items[x].parent_id].item_level \in allowed_parent_levels[items[x].item_level]
  BY <1>1 DEF LevelsInv, Under, Rows
<1>3. \A x \in S : items[x].item_level # "initiative"
  BY <1>2 DEF allowed_parent_levels
<1>4. \A x \in S : items[x].item_level # "feature"
  BY <1>2, <1>3 DEF allowed_parent_levels
<1>5. \A x \in S : items[x].item_level # "work_item"
  BY <1>2, <1>3, <1>4 DEF allowed_parent_levels
<1>6. \A x \in S : items[x].item_level # "subtask"
  BY <1>2, <1>5 DEF allowed_parent_levels
<1> QED BY <1>2, <1>3, <1>4, <1>5, <1>6 DEF Levels

\* What the project's tree leaves out includes an item whose level was changed.
THEOREM EveryItemShownHolds == Spec => []EveryItemShown
<1>1. TypeOK /\ LevelsInv => EveryItemShown
  <2> SUFFICES ASSUME TypeOK, LevelsInv, NEW p \in Projects,
                      list_by_project(p) \ get_project_hierarchy(p) # {}
               PROVE  (list_by_project(p) \ get_project_hierarchy(p)) \cap relevelled # {}
    BY DEF EveryItemShown
  <2>1. list_by_project(p) \subseteq Ids
    BY DEF list_by_project
  <2> QED BY <2>1, MissingParents, RingsNeedALevelChange
<1> QED BY <1>1, TypeInit, TypeNext, LevelsInit, LevelsNext, PTL DEF Spec
=============================================================================
