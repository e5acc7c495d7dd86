----------------------------- MODULE FlowProofs -----------------------------
(* What TLAPS proves of Sprints, ProjectWorkflow and WorkItemTrail: the work *)
(* items of flow-service, for any number of items, rows and calls.           *)
EXTENDS Services, FiniteSetTheorems, WellFoundedInduction, TLAPS

-----------------------------------------------------------------------------
(* Ids                                                                     *)

\* A set of ids has a least one.
LEMMA HasMin ==
  ASSUME NEW S, S \subseteq Nat, S # {}
  PROVE  \E x \in S : \A y \in S : x <= y
<1>1. \E x \in S : \A y \in S : ~ (<<y, x>> \in OpToRel(<, Nat))
  BY NatLessThanWellFounded, WFMin
<1>2. PICK x \in S : \A y \in S : ~ (y < x)
  BY <1>1 DEF OpToRel
<1> QED BY <1>2

\* A set of bounded ids has a largest one.
LEMMA HasMax ==
  ASSUME NEW n \in Nat, NEW S, S \subseteq 0..n, S # {}
  PROVE  \E x \in S : \A y \in S : x >= y
<1> DEFINE T == {n - x : x \in S}
<1>1. T \subseteq Nat
  OBVIOUS
<1>0. T # {}
  <2>1. PICK x \in S : TRUE
    OBVIOUS
  <2>2. n - x \in T
    BY <2>1
  <2> HIDE DEF T
  <2> QED BY <2>2
<1> HIDE DEF T
<1>2. PICK t \in T : \A u \in T : t <= u
  BY <1>0, <1>1, HasMin
<1>3. PICK x \in S : t = n - x
  BY <1>2 DEF T
<1>4. ASSUME NEW y \in S PROVE x >= y
  <2>1. n - y \in T
    BY DEF T
  <2> QED BY <1>2, <1>3, <2>1
<1> QED BY <1>3, <1>4

-----------------------------------------------------------------------------
(* Sprints                                                                 *)

sprints == s1
items == s2
http == s3
late == s4
loose == s5
USE DEF sprints, items, http, late, loose

SprintIds == 1..MaxSprint
Items == [sprint_id : SprintIds \cup {NULL}, done : BOOLEAN, is_active : BOOLEAN]
HttpCalls == [op : {"none", "start", "complete", "assign", "delete"},
              at : {"idle", "write", "list", "sweep", "unlink"},
              sprint : SprintIds \cup {0}, item : SprintItems \cup {0}, queue : SUBSET SprintItems,
              finished : (SUBSET SprintItems) \cup {NULL}, late : SUBSET SprintItems]

Shaped(c) ==
  /\ c \in HttpCalls
  /\ c.op # "none" => c.sprint \in SprintIds
  /\ c.op = "assign" \/ c.at = "unlink" => c.item \in SprintItems
  /\ c.op = "complete" <=> c.at \in {"list", "sweep", "unlink"}

PlanningType ==
  /\ sprints \in [SprintIds -> {"planned", "active", "completed", NULL}]
  /\ items \in [SprintItems -> Items]
  /\ late \in [SprintIds -> SUBSET SprintItems] /\ loose \subseteq SprintItems
  /\ http \in [Requests -> HttpCalls] /\ \A r \in Requests : Shaped(http[r])

\* Of the items of s nobody wrote, some may be unfinished.
Unfinished(s, its, written, some) ==
  \A i \in SprintItems \ written :
    its[i].is_active /\ its[i].sprint_id = s => its[i].done \/ i \in some

\* A completion has unfinished items before it only; a deletion has all items of its
\* sprint that are not loose.
Before(c) == c.queue \cup (IF c.at = "unlink" THEN {c.item} ELSE {})
Swept(c, its, written) ==
  c.at \in {"sweep", "unlink"} =>
    /\ Unfinished(c.sprint, its, written, Before(c))
    /\ c.finished # NULL => \A i \in c.finished \ written : its[i].done
Listed(c, its, lo) ==
  c.op = "delete" => \A i \in SprintItems \ lo : its[i].sprint_id = c.sprint => i \in c.queue
CallSound(c, its, lo) == Swept(c, its, c.late) /\ Listed(c, its, lo)

SprintsSound(sp, its, lt) == \A s \in SprintIds : sp[s] = "completed" => Unfinished(s, its, lt[s], {})
ItemsSound(sp, its, lo) ==
  \A i \in SprintItems \ lo : its[i].sprint_id = NULL \/ sp[its[i].sprint_id] # NULL

PlanningInv ==
  /\ PlanningType
  /\ SprintsSound(sprints, items, late)
  /\ ItemsSound(sprints, items, loose)
  /\ \A r \in Requests : CallSound(http[r], items, loose)

LEMMA PlanningStep ==
  ASSUME [Next]_vars, part' = "planning"
  PROVE  /\ part = "planning"
         /\ Planning!Next \/ UNCHANGED <<s1, s2, s3, s4, s5>>
BY DEF Next, vars

LEMMA QuietSound == Shaped(Planning!Quiet) /\ \A its, lo : CallSound(Planning!Quiet, its, lo)
BY DEF Planning!Quiet, Shaped, HttpCalls, CallSound, Swept, Listed

LEMMA PlanningInit == Planning!Init => PlanningInv
<1> SUFFICES ASSUME Planning!Init PROVE PlanningInv
  OBVIOUS
<1>1. http = [r \in Requests |-> Planning!Quiet] /\ sprints = [s \in SprintIds |-> NULL]
      /\ items = [i \in SprintItems |-> [sprint_id |-> NULL, done |-> FALSE, is_active |-> TRUE]]
      /\ late = [s \in SprintIds |-> {}] /\ loose = {}
  BY DEF Planning!Init, Planning!SprintIds, SprintIds
<1> QED BY <1>1, QuietSound, NullAssumption
        DEF PlanningInv, PlanningType, SprintsSound, ItemsSound, Shaped, Items

\* A call goes on and writes no item.
LEMMA CallStep ==
  ASSUME PlanningInv, UNCHANGED <<items, loose>>, NEW r \in Requests, NEW c, Shaped(c), CallSound(c, items, loose),
         http' = [http EXCEPT ![r] = c], PlanningType' \/ UNCHANGED <<sprints, late>>,
         SprintsSound(sprints', items, late'), ItemsSound(sprints', items, loose)
  PROVE  PlanningInv'
BY DEF PlanningInv, PlanningType, Shaped

\* Setting a status.
LEMMA StatusStep ==
  ASSUME PlanningInv, NEW s \in SprintIds, NEW status \in {"planned", "active", "completed"},
         NEW some \in SUBSET SprintItems, Planning!SetStatus(s, status, some),
         status = "completed" => Unfinished(s, items, some, {})
  PROVE  /\ sprints' \in [SprintIds -> {"planned", "active", "completed", NULL}]
         /\ late' \in [SprintIds -> SUBSET SprintItems]
         /\ SprintsSound(sprints', items, late') /\ ItemsSound(sprints', items, loose)
<1>1. /\ sprints' = [sprints EXCEPT ![s] = status]
      /\ late' = [late EXCEPT ![s] = IF status = "completed" THEN some ELSE {}]
  BY DEF Planning!SetStatus
<1>2. SprintsSound(sprints', items, late')
  BY <1>1 DEF SprintsSound, PlanningInv, PlanningType
<1>3. ItemsSound(sprints', items, loose)
  BY <1>1, NullAssumption DEF ItemsSound, PlanningInv, PlanningType, Items
<1> QED BY <1>1, <1>2, <1>3 DEF PlanningInv, PlanningType

\* Some items are written, which calls and completed sprints take note of.
LEMMA WrittenStep ==
  ASSUME PlanningInv, NEW some \in SUBSET SprintItems, NEW calls \in [Requests -> HttpCalls],
         Planning!Written(some, calls),
         items' \in [SprintItems -> Items], \A i \in SprintItems \ some : items'[i] = items[i],
         loose' \subseteq SprintItems,
         sprints' \in [SprintIds -> {"planned", "active", "completed", NULL}],
         \A s \in SprintIds : sprints'[s] = "completed" => sprints[s] = "completed",
         ItemsSound(sprints', items', loose'),
         \A q \in Requests : /\ Shaped(calls[q]) /\ Swept(calls[q], items, calls[q].late \cup some)
                             /\ Listed(calls[q], items', loose')
  PROVE  PlanningInv'
<1>1. late' = [s \in SprintIds |-> IF sprints'[s] = "completed" THEN late[s] \cup some ELSE {}]
  BY DEF Planning!Written, Planning!SprintIds, SprintIds
<1>2. late' \in [SprintIds -> SUBSET SprintItems]
  BY <1>1 DEF PlanningInv, PlanningType
<1>3. SprintsSound(sprints', items', late')
  BY <1>1 DEF SprintsSound, Unfinished, PlanningInv, PlanningType
<1>4. ASSUME NEW q \in Requests
      PROVE  http'[q] \in HttpCalls /\ Shaped(http'[q]) /\ CallSound(http'[q], items', loose')
  <2>1. CASE calls[q].op = "complete" /\ calls[q].at # "list"
    <3> DEFINE c == [calls[q] EXCEPT !.late = @ \cup some]
    <3>1. http'[q] = c
      BY <2>1 DEF Planning!Written
    <3>2. /\ c \in HttpCalls /\ c.op = calls[q].op /\ c.at = calls[q].at /\ c.sprint = calls[q].sprint
          /\ c.item = calls[q].item /\ c.queue = calls[q].queue /\ c.finished = calls[q].finished
          /\ c.late = calls[q].late \cup some
      BY DEF HttpCalls
    <3> HIDE DEF c
    <3>3. Shaped(c)
      BY <3>2 DEF Shaped
    <3>4. Swept(c, items', c.late)
      <4>1. Before(c) = Before(calls[q])
        BY <3>2 DEF Before
      <4> QED BY <3>2, <4>1 DEF Swept, Unfinished, HttpCalls
    <3>5. Listed(c, items', loose')
      BY <2>1, <3>2 DEF Listed
    <3> QED BY <3>1, <3>2, <3>3, <3>4, <3>5 DEF CallSound
  <2>2. CASE ~(calls[q].op = "complete" /\ calls[q].at # "list")
    <3>1. http'[q] = calls[q]
      BY <2>2 DEF Planning!Written
    <3>2. calls[q].at \notin {"sweep", "unlink"}
      BY <2>2 DEF Shaped
    <3> QED BY <3>1, <3>2 DEF CallSound, Swept
  <2> QED BY <2>1, <2>2
<1>5. http' \in [Requests -> HttpCalls]
  BY <1>4 DEF Planning!Written
<1> QED BY <1>2, <1>3, <1>4, <1>5 DEF PlanningInv, PlanningType

\* A step that leaves sprints and items alone.
LEMMA PlainStep ==
  ASSUME PlanningInv, UNCHANGED <<sprints, items, late, loose>>, NEW r \in Requests, NEW c,
         Shaped(c), CallSound(c, items, loose), http' = [http EXCEPT ![r] = c]
  PROVE  PlanningInv'
BY CallStep DEF PlanningInv

LEMMA StartKeeps ==
  ASSUME PlanningInv, NEW r \in Requests, NEW s \in SprintIds, Planning!start(r, s) \/ Planning!complete(r, s)
  PROVE  PlanningInv'
<1>1. PICK op \in {"start", "complete"}, at \in {"write", "list"} :
           Planning!Begin(r, op, at, s) /\ (op = "complete" <=> at = "list")
  BY DEF Planning!start, Planning!complete
<1> DEFINE c == [Planning!Quiet EXCEPT !.op = op, !.at = at, !.sprint = s]
<1>2. http' = [http EXCEPT ![r] = c]
  BY <1>1 DEF Planning!Begin
<1>3. Shaped(c) /\ c.op = op /\ c.at = at
  BY <1>1 DEF Planning!Quiet, Shaped, HttpCalls
<1> HIDE DEF c
<1>4. CallSound(c, items, loose)
  BY <1>3 DEF CallSound, Swept, Listed
<1> QED BY <1>2, <1>3, <1>4, PlainStep DEF Planning!start, Planning!complete

LEMMA AssignKeeps ==
  ASSUME PlanningInv, NEW r \in Requests, NEW s \in SprintIds, NEW i \in SprintItems,
         Planning!assign_work_item(r, s, i)
  PROVE  PlanningInv'
<1> DEFINE c == [Planning!Quiet EXCEPT !.op = "assign", !.at = "write", !.sprint = s, !.item = i]
<1>2. http' = [http EXCEPT ![r] = c]
  BY DEF Planning!assign_work_item
<1>3. Shaped(c) /\ c.op = "assign" /\ c.at = "write"
  BY DEF Planning!Quiet, Shaped, HttpCalls
<1> HIDE DEF c
<1>4. CallSound(c, items, loose)
  BY <1>3 DEF CallSound, Swept, Listed
<1> QED BY <1>2, <1>3, <1>4, PlainStep DEF Planning!assign_work_item

LEMMA DeleteKeeps ==
  ASSUME PlanningInv, NEW r \in Requests, NEW s \in SprintIds, Planning!delete(r, s)
  PROVE  PlanningInv'
<1> DEFINE queue == Planning!Planned(s)
           c == [Planning!Quiet EXCEPT !.op = "delete", !.at = "write", !.sprint = s, !.queue = queue]
<1>1. queue = {i \in SprintItems : items[i].sprint_id = s}
  BY DEF Planning!Planned
<1>2. http' = [http EXCEPT ![r] = c]
  BY DEF Planning!delete
<1>3. Shaped(c) /\ c.op = "delete" /\ c.at = "write" /\ c.sprint = s /\ c.queue = queue
  BY <1>1 DEF Planning!Quiet, Shaped, HttpCalls
<1> HIDE DEF c
<1>4. CallSound(c, items, loose)
  BY <1>1, <1>3 DEF CallSound, Swept, Listed
<1> QED BY <1>2, <1>3, <1>4, PlainStep DEF Planning!delete

LEMMA ListKeeps ==
  ASSUME PlanningInv, NEW r \in Requests, Planning!CompleteList(r)
  PROVE  PlanningInv'
<1> DEFINE listed == Planning!list_work_items(http[r].sprint)
           c == [http[r] EXCEPT !.at = "sweep", !.queue = listed, !.late = {},
                                !.finished = {i \in listed : items[i].done}]
<1>1. listed = {i \in SprintItems : items[i].sprint_id = http[r].sprint /\ items[i].is_active}
  BY DEF Planning!list_work_items, Planning!Planned
<1>2. http[r] \in HttpCalls /\ Shaped(http[r]) /\ http[r].op = "complete"
  BY DEF PlanningInv, PlanningType, Shaped, Planning!CompleteList
<1>3. http' = [http EXCEPT ![r] = c]
  BY <1>2 DEF Planning!CompleteList, HttpCalls, PlanningInv, PlanningType
<1>4. /\ c \in HttpCalls /\ c.op = "complete" /\ c.at = "sweep" /\ c.sprint = http[r].sprint
      /\ c.queue = listed /\ c.late = {} /\ c.finished = {i \in listed : items[i].done}
  BY <1>1, <1>2 DEF HttpCalls
<1> HIDE DEF c
<1>5. Shaped(c)
  BY <1>2, <1>4 DEF Shaped
<1>6. CallSound(c, items, loose)
  BY <1>1, <1>4 DEF CallSound, Swept, Listed, Unfinished, Before
<1> QED BY <1>3, <1>5, <1>6, PlainStep DEF Planning!CompleteList

LEMMA NextKeeps ==
  ASSUME PlanningInv, NEW r \in Requests, Planning!CompleteNext(r)
  PROVE  PlanningInv'
<1> DEFINE i == Planning!Min(http[r].queue)
<1>1. /\ http[r] \in HttpCalls /\ Shaped(http[r]) /\ CallSound(http[r], items, loose)
      /\ http[r].op = "complete" /\ http[r].at = "sweep" /\ http[r].queue # {}
  BY DEF PlanningInv, PlanningType, Shaped, Planning!CompleteNext
<1>2. i \in http[r].queue
  <2>1. http[r].queue \subseteq Nat
    BY <1>1, BoundAssumption DEF HttpCalls
  <2> QED BY <1>1, <2>1, HasMin DEF Planning!Min
<1>3. i \in SprintItems
  BY <1>1, <1>2 DEF HttpCalls
<1> DEFINE stays == IF http[r].finished # NULL THEN i \in http[r].finished
                    ELSE items[i].done \/ items[i].sprint_id = NULL
<1>4. CASE stays
  <2> DEFINE c == [http[r] EXCEPT !.queue = @ \ {i}]
  <2>1. http' = [http EXCEPT ![r] = c]
    BY <1>4 DEF Planning!CompleteNext, PlanningInv, PlanningType
  <2>2. /\ c \in HttpCalls /\ c.op = "complete" /\ c.at = "sweep" /\ c.sprint = http[r].sprint
        /\ c.queue = http[r].queue \ {i} /\ c.late = http[r].late /\ c.finished = http[r].finished
    BY <1>1 DEF HttpCalls
  <2> HIDE DEF c, i
  <2>3. Shaped(c)
    BY <1>1, <2>2 DEF Shaped
  <2>4. items[i].sprint_id = NULL => items[i].sprint_id # c.sprint
    BY <2>2, <2>3, NullAssumption, BoundAssumption DEF Shaped, SprintIds
  <2>5. CallSound(c, items, loose)
    BY <1>1, <1>3, <1>4, <2>2, <2>4 DEF CallSound, Swept, Listed, Unfinished, Before
  <2> QED BY <2>1, <2>3, <2>5, PlainStep DEF Planning!CompleteNext
<1>5. CASE ~stays
  <2> DEFINE c == [http[r] EXCEPT !.queue = @ \ {i}, !.at = "unlink", !.item = i]
  <2>1. http' = [http EXCEPT ![r] = c]
    BY <1>5 DEF Planning!CompleteNext, PlanningInv, PlanningType
  <2>2. /\ c \in HttpCalls /\ c.op = "complete" /\ c.at = "unlink" /\ c.sprint = http[r].sprint /\ c.item = i
        /\ c.queue = http[r].queue \ {i} /\ c.late = http[r].late /\ c.finished = http[r].finished
    BY <1>1, <1>3 DEF HttpCalls
  <2> HIDE DEF c, i
  <2>3. Shaped(c)
    BY <1>1, <1>3, <2>2 DEF Shaped
  <2>5. CallSound(c, items, loose)
    BY <1>1, <1>2, <2>2 DEF CallSound, Swept, Listed, Unfinished, Before
  <2> QED BY <2>1, <2>3, <2>5, PlainStep DEF Planning!CompleteNext
<1> QED BY <1>4, <1>5

LEMMA CreateKeeps ==
  ASSUME PlanningInv, NEW status \in {"planned", "active"}, Planning!create(status)
  PROVE  PlanningInv'
<1>1. PICK s \in SprintIds : Planning!SetStatus(s, status, SprintItems) /\ UNCHANGED <<items, http, loose>>
  BY DEF Planning!create, Planning!SprintIds, SprintIds
<1> QED BY <1>1, StatusStep DEF PlanningInv, PlanningType

LEMMA UpdateKeeps ==
  ASSUME PlanningInv, NEW s \in SprintIds, NEW status \in Planning!Statuses, Planning!update(s, status)
  PROVE  PlanningInv'
<1> DEFINE some == IF sprints[s] = "completed" THEN late[s] ELSE SprintItems
<1>1. some \in SUBSET SprintItems /\ Unfinished(s, items, some, {})
  BY DEF PlanningInv, PlanningType, SprintsSound, Unfinished
<1>2. Planning!SetStatus(s, status, some) /\ UNCHANGED <<items, http, loose>>
  BY DEF Planning!update
<1> HIDE DEF some
<1> QED BY <1>1, <1>2, StatusStep DEF PlanningInv, PlanningType, Planning!Statuses

\* A commit of a sprint's status ends the call.
LEMMA CommitKeeps ==
  ASSUME PlanningInv, NEW r \in Requests, Planning!StartCommit(r) \/ Planning!CompleteCommit(r)
  PROVE  PlanningInv'
<1> DEFINE s == http[r].sprint
<1>1. http[r] \in HttpCalls /\ s \in SprintIds /\ CallSound(http[r], items, loose)
  <2>1. Shaped(http[r])
    BY DEF PlanningInv, PlanningType
  <2> QED BY <2>1 DEF PlanningInv, Planning!StartCommit, Planning!CompleteCommit, Shaped
<1>2. http' = [http EXCEPT ![r] = Planning!Quiet] /\ UNCHANGED <<items, loose>>
  BY DEF Planning!StartCommit, Planning!CompleteCommit, Planning!Done
<1>3. CASE UNCHANGED <<sprints, late>>
  BY <1>2, <1>3, QuietSound, PlainStep
<1>4. CASE \E status \in {"planned", "active", "completed"}, some \in SUBSET SprintItems :
             /\ Planning!SetStatus(s, status, some)
             /\ status = "completed" => Unfinished(s, items, some, {})
  <2>1. /\ sprints' \in [SprintIds -> {"planned", "active", "completed", NULL}]
        /\ late' \in [SprintIds -> SUBSET SprintItems]
        /\ SprintsSound(sprints', items, late') /\ ItemsSound(sprints', items, loose)
    BY <1>1, <1>4, StatusStep
  <2> QED BY <1>2, <2>1, QuietSound DEF PlanningInv, PlanningType, Shaped
<1>5. CASE Planning!StartCommit(r)
  BY <1>3, <1>4, <1>5 DEF Planning!StartCommit
<1>6. CASE Planning!CompleteCommit(r)
  <2>1. http[r].late \in SUBSET SprintItems /\ Unfinished(s, items, http[r].late, {})
    BY <1>1, <1>6 DEF Planning!CompleteCommit, CallSound, Swept, Before, Unfinished, HttpCalls
  <2> QED BY <1>3, <1>4, <1>6, <2>1 DEF Planning!CompleteCommit
<1> QED BY <1>5, <1>6

LEMMA UnlinkKeeps ==
  ASSUME PlanningInv, NEW r \in Requests, Planning!CompleteUnlink(r)
  PROVE  PlanningInv'
<1> DEFINE i == http[r].item
           c == [http[r] EXCEPT !.at = "sweep", !.item = 0, !.finished = NULL]
           calls == [http EXCEPT ![r] = c]
<1>1. http[r] \in HttpCalls /\ Shaped(http[r]) /\ i \in SprintItems /\ http[r].at = "unlink"
  BY DEF PlanningInv, PlanningType, Shaped, Planning!CompleteUnlink
<1>2. /\ c \in HttpCalls /\ c.op = "complete" /\ c.at = "sweep" /\ c.sprint = http[r].sprint
      /\ c.queue = http[r].queue /\ c.late = http[r].late /\ c.finished = NULL
  BY <1>1 DEF HttpCalls, Shaped
<1>3. calls = [http EXCEPT ![r].at = "sweep", ![r].item = 0, ![r].finished = NULL]
  BY DEF PlanningInv, PlanningType
<1> HIDE DEF c
<1>4. items' = [items EXCEPT ![i].sprint_id = NULL] /\ loose' = loose \ {i} /\ sprints' = sprints
      /\ Planning!Written({i}, calls)
  BY <1>3 DEF Planning!CompleteUnlink
<1>5. calls \in [Requests -> HttpCalls] /\ \A q \in Requests : calls[q] = IF q = r THEN c ELSE http[q]
  BY <1>2 DEF PlanningInv, PlanningType
<1> HIDE DEF calls, i
<1>6. /\ items' \in [SprintItems -> Items] /\ items'[i].sprint_id = NULL
      /\ \A j \in SprintItems \ {i} : items'[j] = items[j]
  BY <1>1, <1>4 DEF PlanningInv, PlanningType, Items
<1>7. ItemsSound(sprints', items', loose')
  BY <1>4, <1>6 DEF ItemsSound, PlanningInv
<1>8. ASSUME NEW q \in Requests
      PROVE  /\ Shaped(calls[q]) /\ Swept(calls[q], items, calls[q].late \cup {i})
             /\ Listed(calls[q], items', loose')
  <2>1. CASE q = r
    <3>1. Shaped(c)
      BY <1>1, <1>2 DEF Shaped
    <3>2. Swept(c, items, c.late \cup {i})
      BY <1>1, <1>2 DEF Swept, Unfinished, Before, CallSound, PlanningInv, i
    <3> QED BY <1>2, <1>5, <2>1, <3>1, <3>2 DEF Listed
  <2>2. CASE q # r
    <3>1. calls[q] = http[q] /\ Shaped(http[q]) /\ CallSound(http[q], items, loose)
      BY <1>5, <2>2 DEF PlanningInv, PlanningType
    <3>2. Swept(http[q], items, http[q].late \cup {i})
      BY <3>1 DEF CallSound, Swept, Unfinished
    <3>3. Listed(http[q], items', loose')
      BY <1>4, <1>6, <3>1, NullAssumption, BoundAssumption DEF CallSound, Listed, Shaped, SprintIds
    <3> QED BY <3>1, <3>2, <3>3
  <2> QED BY <2>1, <2>2
<1>9. loose' \subseteq SprintItems /\ {i} \in SUBSET SprintItems
  BY <1>1, <1>4 DEF PlanningInv, PlanningType
<1> QED BY <1>4, <1>5, <1>6, <1>7, <1>8, <1>9, WrittenStep DEF PlanningInv, PlanningType

LEMMA AssignCommitKeeps ==
  ASSUME PlanningInv, NEW r \in Requests, Planning!AssignCommit(r)
  PROVE  PlanningInv'
<1> DEFINE i == http[r].item
           s == http[r].sprint
           calls == [http EXCEPT ![r] = Planning!Quiet]
<1>1. http[r] \in HttpCalls /\ Shaped(http[r]) /\ i \in SprintItems /\ s \in SprintIds
  BY DEF PlanningInv, PlanningType, Shaped, Planning!AssignCommit
<1>4. /\ items' = [items EXCEPT ![i].sprint_id = s] /\ sprints' = sprints /\ Planning!Written({i}, calls)
      /\ loose' = IF sprints[s] = NULL \/ Planning!BeingDeleted(s) THEN loose \cup {i} ELSE loose \ {i}
  BY DEF Planning!AssignCommit
<1>5. calls \in [Requests -> HttpCalls] /\ \A q \in Requests : calls[q] = IF q = r THEN Planning!Quiet ELSE http[q]
  BY QuietSound DEF PlanningInv, PlanningType, Shaped
<1> HIDE DEF calls, i, s
<1>6. /\ items' \in [SprintItems -> Items] /\ items'[i].sprint_id = s
      /\ \A j \in SprintItems \ {i} : items'[j] = items[j]
  BY <1>1, <1>4 DEF PlanningInv, PlanningType, Items
<1>7. ItemsSound(sprints', items', loose')
  BY <1>1, <1>4, <1>6 DEF ItemsSound, PlanningInv
<1>8. ASSUME NEW q \in Requests
      PROVE  /\ Shaped(calls[q]) /\ Swept(calls[q], items, calls[q].late \cup {i})
             /\ Listed(calls[q], items', loose')
  <2>1. CASE q = r
    BY <1>5, <2>1, QuietSound DEF Planning!Quiet, Swept, Listed
  <2>2. CASE q # r
    <3>1. calls[q] = http[q] /\ Shaped(http[q]) /\ CallSound(http[q], items, loose)
      BY <1>5, <2>2 DEF PlanningInv, PlanningType
    <3>2. Swept(http[q], items, http[q].late \cup {i})
      BY <3>1 DEF CallSound, Swept, Unfinished
    <3>3. http[q].op = "delete" /\ http[q].sprint = s => Planning!BeingDeleted(s)
      BY DEF Planning!BeingDeleted
    <3>4. Listed(http[q], items', loose')
      BY <1>4, <1>6, <3>1, <3>3 DEF CallSound, Listed
    <3> QED BY <3>1, <3>2, <3>4
  <2> QED BY <2>1, <2>2
<1>9. loose' \subseteq SprintItems /\ {i} \in SUBSET SprintItems
  BY <1>1, <1>4 DEF PlanningInv, PlanningType
<1> QED BY <1>4, <1>5, <1>6, <1>7, <1>8, <1>9, WrittenStep DEF PlanningInv, PlanningType

LEMMA DeleteCommitKeeps ==
  ASSUME PlanningInv, NEW r \in Requests, Planning!DeleteCommit(r)
  PROVE  PlanningInv'
<1> DEFINE gone == http[r].queue
           s == http[r].sprint
           calls == [http EXCEPT ![r] = Planning!Quiet]
<1>1. /\ http[r] \in HttpCalls /\ gone \in SUBSET SprintItems /\ s \in SprintIds
      /\ \A i \in SprintItems \ loose : items[i].sprint_id = s => i \in gone
  <2>1. Shaped(http[r]) /\ CallSound(http[r], items, loose) /\ http[r].op = "delete"
    BY DEF PlanningInv, PlanningType, Planning!DeleteCommit
  <2> QED BY <2>1 DEF Shaped, CallSound, Listed, HttpCalls
<1>4. /\ sprints' = [sprints EXCEPT ![s] = NULL] /\ loose' = loose \ gone /\ Planning!Written(gone, calls)
      /\ items' = [i \in SprintItems |-> IF i \in gone THEN [items[i] EXCEPT !.sprint_id = NULL] ELSE items[i]]
  BY DEF Planning!DeleteCommit
<1>5. calls \in [Requests -> HttpCalls] /\ \A q \in Requests : calls[q] = IF q = r THEN Planning!Quiet ELSE http[q]
  BY QuietSound DEF PlanningInv, PlanningType, Shaped
<1> HIDE DEF calls, gone, s
<1>6. /\ items' \in [SprintItems -> Items] /\ \A i \in gone : items'[i].sprint_id = NULL
      /\ \A j \in SprintItems \ gone : items'[j] = items[j]
  BY <1>1, <1>4 DEF PlanningInv, PlanningType, Items
<1>7. ItemsSound(sprints', items', loose')
  BY <1>1, <1>4, <1>6 DEF ItemsSound, PlanningInv, PlanningType
<1>8. ASSUME NEW q \in Requests
      PROVE  /\ Shaped(calls[q]) /\ Swept(calls[q], items, calls[q].late \cup gone)
             /\ Listed(calls[q], items', loose')
  <2>1. CASE q = r
    BY <1>5, <2>1, QuietSound DEF Planning!Quiet, Swept, Listed
  <2>2. CASE q # r
    <3>1. calls[q] = http[q] /\ Shaped(http[q]) /\ CallSound(http[q], items, loose)
      BY <1>5, <2>2 DEF PlanningInv, PlanningType
    <3>2. Swept(http[q], items, http[q].late \cup gone)
      BY <3>1 DEF CallSound, Swept, Unfinished
    <3>4. Listed(http[q], items', loose')
      BY <1>4, <1>6, <3>1, NullAssumption, BoundAssumption DEF CallSound, Listed, Shaped, SprintIds
    <3> QED BY <3>1, <3>2, <3>4
  <2> QED BY <2>1, <2>2
<1>9. loose' \subseteq SprintItems
  BY <1>4 DEF PlanningInv, PlanningType
<1>10. sprints' \in [SprintIds -> {"planned", "active", "completed", NULL}]
       /\ \A t \in SprintIds : sprints'[t] = "completed" => sprints[t] = "completed"
  BY <1>4, NullAssumption DEF PlanningInv, PlanningType
<1> QED BY <1>1, <1>4, <1>5, <1>6, <1>7, <1>8, <1>9, <1>10, WrittenStep

LEMMA UpdateItemKeeps ==
  ASSUME PlanningInv, NEW i \in SprintItems, Planning!UpdateItem(i)
  PROVE  PlanningInv'
<1>1. /\ items' \in [SprintItems -> Items] /\ loose' \subseteq SprintItems /\ sprints' = sprints
      /\ \A j \in SprintItems \ {i} : items'[j] = items[j] /\ (j \in loose' <=> j \in loose)
      /\ i \notin loose' => \/ items'[i].sprint_id = NULL
                            \/ items'[i].sprint_id = items[i].sprint_id /\ i \notin loose
  <2>1. CASE \E b \in BOOLEAN : items' = [items EXCEPT ![i].done = b] /\ UNCHANGED loose
    BY <2>1 DEF Planning!UpdateItem, PlanningInv, PlanningType, Items
  <2>2. CASE items' = [items EXCEPT ![i].is_active = FALSE] /\ UNCHANGED loose
    BY <2>2 DEF Planning!UpdateItem, PlanningInv, PlanningType, Items
  <2>3. CASE \E s \in Planning!SprintIds \cup {NULL} :
               /\ items' = [items EXCEPT ![i].sprint_id = s]
               /\ loose' = IF s = NULL THEN loose \ {i} ELSE loose \cup {i}
    <3>1. PICK s \in SprintIds \cup {NULL} :
               /\ items' = [items EXCEPT ![i].sprint_id = s]
               /\ loose' = IF s = NULL THEN loose \ {i} ELSE loose \cup {i}
      BY <2>3 DEF Planning!SprintIds, SprintIds
    <3>2. [items[i] EXCEPT !.sprint_id = s] \in Items /\ items'[i] = [items[i] EXCEPT !.sprint_id = s]
      BY <3>1 DEF PlanningInv, PlanningType, Items
    <3>3. items'[i].sprint_id = s
      BY <3>2 DEF PlanningInv, PlanningType, Items
    <3> QED BY <3>1, <3>2, <3>3 DEF Planning!UpdateItem, PlanningInv, PlanningType
  <2> QED BY <2>1, <2>2, <2>3 DEF Planning!UpdateItem
<1>2. ItemsSound(sprints', items', loose')
  BY <1>1 DEF ItemsSound, PlanningInv
<1>3. ASSUME NEW q \in Requests
      PROVE  /\ Shaped(http[q]) /\ Swept(http[q], items, http[q].late \cup {i})
             /\ Listed(http[q], items', loose')
  <2>1. Shaped(http[q]) /\ CallSound(http[q], items, loose)
    BY DEF PlanningInv, PlanningType
  <2>2. Swept(http[q], items, http[q].late \cup {i})
    BY <2>1 DEF CallSound, Swept, Unfinished
  <2>3. Listed(http[q], items', loose')
    BY <1>1, <2>1, NullAssumption, BoundAssumption DEF CallSound, Listed, Shaped, SprintIds
  <2> QED BY <2>1, <2>2, <2>3
<1>4. Planning!Written({i}, http) /\ {i} \in SUBSET SprintItems /\ http \in [Requests -> HttpCalls]
  BY DEF Planning!UpdateItem, PlanningInv, PlanningType
<1>5. sprints' \in [SprintIds -> {"planned", "active", "completed", NULL}]
  BY <1>1 DEF PlanningInv, PlanningType
<1> QED BY <1>1, <1>2, <1>3, <1>4, <1>5, WrittenStep

LEMMA PlanningNext == PlanningInv /\ Planning!Next => PlanningInv'
<1> SUFFICES ASSUME PlanningInv, Planning!Next PROVE PlanningInv'
  OBVIOUS
<1> USE DEF Planning!SprintIds, SprintIds
<1>1. CASE \E status \in {"planned", "active"} : Planning!create(status)
  BY <1>1, CreateKeeps
<1>2. CASE \E s \in SprintIds, status \in Planning!Statuses : Planning!update(s, status)
  BY <1>2, UpdateKeeps
<1>3. CASE \E i \in SprintItems : Planning!UpdateItem(i)
  BY <1>3, UpdateItemKeeps
<1>4. ASSUME NEW r \in Requests, NEW s \in SprintIds,
             \/ Planning!start(r, s) \/ Planning!complete(r, s) \/ Planning!delete(r, s)
             \/ \E i \in SprintItems : Planning!assign_work_item(r, s, i)
      PROVE  PlanningInv'
  BY <1>4, StartKeeps, AssignKeeps, DeleteKeeps
<1>5. ASSUME NEW r \in Requests,
             \/ Planning!StartCommit(r) \/ Planning!CompleteList(r) \/ Planning!CompleteNext(r)
             \/ Planning!CompleteUnlink(r) \/ Planning!CompleteCommit(r) \/ Planning!AssignCommit(r)
             \/ Planning!DeleteCommit(r)
      PROVE  PlanningInv'
  BY <1>5, CommitKeeps, ListKeeps, NextKeeps, UnlinkKeeps, AssignCommitKeeps, DeleteCommitKeeps
<1>6. ASSUME NEW r \in Requests, Planning!Stop(r) PROVE PlanningInv'
  BY <1>6, QuietSound, PlainStep DEF Planning!Stop, Planning!Done
<1> QED BY <1>1, <1>2, <1>3, <1>4, <1>5, <1>6 DEF Planning!Next

THEOREM PlanningHolds == Spec => [](part = "planning" => PlanningInv)
<1>1. Init => (part = "planning" => PlanningInv)
  BY PlanningInit DEF Init
<1>2. (part = "planning" => PlanningInv) /\ [Next]_vars => (part = "planning" => PlanningInv)'
  <2> SUFFICES ASSUME part = "planning" => PlanningInv, [Next]_vars, part' = "planning" PROVE PlanningInv'
    OBVIOUS
  <2>1. part = "planning" /\ (Planning!Next \/ UNCHANGED <<s1, s2, s3, s4, s5>>)
    BY PlanningStep
  <2>2. CASE UNCHANGED <<s1, s2, s3, s4, s5>>
    BY <2>1, <2>2 DEF PlanningInv, PlanningType
  <2> QED BY <2>1, <2>2, PlanningNext
<1> QED BY <1>1, <1>2, PTL DEF Spec

\* A sprint completed through complete() keeps finished items only, except those
\* written since it listed them.
THEOREM CompletedIsFinishedHolds == Spec => []CompletedIsFinished
<1>1. PlanningInv => Planning!CompletedIsFinished
  BY DEF PlanningInv, PlanningType, SprintsSound, Unfinished, Planning!CompletedIsFinished,
         Planning!list_work_items, Planning!Planned, Planning!SprintIds, SprintIds
<1>2. (part = "planning" => PlanningInv) => CompletedIsFinished
  BY <1>1 DEF CompletedIsFinished
<1> QED BY <1>2, PlanningHolds, PTL

\* No item is in a deleted sprint, unless a PATCH or a late assignment put it there.
THEOREM NoDanglingSprintHolds == Spec => []NoDanglingSprint
<1>1. PlanningInv => Planning!NoDanglingSprint
  BY DEF PlanningInv, ItemsSound, Planning!NoDanglingSprint
<1>2. (part = "planning" => PlanningInv) => NoDanglingSprint
  BY <1>1 DEF NoDanglingSprint
<1> QED BY <1>2, PlanningHolds, PTL

-----------------------------------------------------------------------------
(* Project workflows                                                       *)

workflows == s1
statuses == s2
transitions == s3
status_of == s4
job == s5
edited == s6
shared == s7
split == s8
moved == s9
stray == s10
USE DEF workflows, statuses, transitions, status_of, job, edited, shared, split, moved, stray

WorkflowIds == 1..MaxWorkflow
StatusIds == 1..MaxStatus
Known == {Keys[m] : m \in DOMAIN Keys}
StatusRows == [workflow_id : WorkflowIds \cup {NULL}, key : Known, is_active : BOOLEAN]
Jobs == [op : {"none", "read", "create", "move", "delete"},
         at : {"idle", "ensure", "new", "status", "add", "use", "save", "erase"},
         item : WorkItems \cup {NULL}, target : StatusIds \cup {NULL} \cup SUBSET StatusIds,
         workflow : WorkflowIds \cup {NULL}, found : Seq(StatusIds), linked : Nat, again : BOOLEAN]
RepairPlaces == {"status", "add"}
UsePlaces == {"use", "save"}

JobShaped(c) ==
  /\ c \in Jobs
  /\ c.at \in RepairPlaces \cup UsePlaces => c.workflow \in WorkflowIds
  /\ c.at \in {"ensure", "new"} \cup RepairPlaces => c.op \in {"read", "create", "move"}
  /\ c.at \in UsePlaces => c.op \in {"create", "move"}
  /\ c.op \in {"create", "move"} => c.item \in WorkItems
  /\ c.op = "move" \/ c.at = "save" => c.target \in StatusIds
  /\ c.at \in {"ensure", "new"} \cup UsePlaces => c.found = <<>> /\ c.linked = 0
  /\ Len(c.found) <= Len(Keys) /\ c.linked <= Len(Links)
  /\ c.at = "add" => Len(c.found) < Len(Keys)

RepairingType ==
  /\ workflows \in [WorkflowIds -> {"project", OtherProject, NULL}]
  /\ statuses \in [StatusIds -> StatusRows \cup {NULL}]
  /\ status_of \in [WorkItems -> StatusIds \cup {NULL}]
  /\ job \in [Requests -> Jobs] /\ \A r \in Requests : JobShaped(job[r])
  /\ split \in BOOLEAN /\ moved \in BOOLEAN

Find(st, w, key) ==
  {t \in StatusIds : st[t] # NULL /\ st[t].workflow_id = w /\ st[t].is_active /\ st[t].key = key}
Linked(st, tr, w, n) ==
  \E from \in Find(st, w, Links[n][1]), to \in Find(st, w, Links[n][2]) :
    [workflow_id |-> w, from |-> from, to |-> to] \in tr

\* A repair has what it found, and what it linked; a call that goes on has everything.
JobSound(c, wf, st, tr, ed, sh, mv) ==
  ~mv =>
    /\ c.at \in RepairPlaces \cup UsePlaces => wf[c.workflow] = "project"
    /\ c.at \in RepairPlaces /\ c.workflow \notin ed =>
         /\ \A m \in 1..Len(c.found) : c.found[m] \in Find(st, c.workflow, Keys[m])
         /\ \A n \in 1..c.linked : Linked(st, tr, c.workflow, n)
    /\ c.at = "add" /\ c.workflow \notin ed \cup sh =>
         Find(st, c.workflow, Keys[Len(c.found) + 1]) = {}
    /\ c.at \in UsePlaces /\ c.workflow \notin ed =>
         /\ \A m \in 1..Len(Keys) : Find(st, c.workflow, Keys[m]) # {}
         /\ \A n \in 1..Len(Links) : Linked(st, tr, c.workflow, n)
    /\ c.at = "save" => st[c.target] # NULL /\ st[c.target].workflow_id = c.workflow

\* Nobody repairs the same workflow unnoticed.
Alone(jb, sh) ==
  \A q, r \in Requests :
    /\ jb[q].at \in RepairPlaces /\ jb[r].at \in RepairPlaces
    /\ jb[q].workflow = jb[r].workflow /\ jb[q].workflow \notin sh
    => q = r

TablesSound(wf, st, so, ed, sh, sp, mv, sy) ==
  ~mv =>
    /\ \A w \in WorkflowIds \ (ed \cup sh) : \A key \in Known : \A t, u \in Find(st, w, key) : t = u
    /\ \A i \in WorkItems \ sy : so[i] # NULL =>
         st[so[i]] # NULL /\ st[so[i]].workflow_id \in WorkflowIds /\ wf[st[so[i]].workflow_id] = "project"
    /\ ~sp => \A v, w \in WorkflowIds : wf[v] = "project" /\ wf[w] = "project" => v = w

RepairingInv ==
  /\ RepairingType
  /\ Alone(job, shared)
  /\ TablesSound(workflows, statuses, status_of, edited, shared, split, moved, stray)
  /\ \A r \in Requests : JobSound(job[r], workflows, statuses, transitions, edited, shared, moved)

LEMMA RepairingStep ==
  ASSUME [Next]_vars, part' = "repairing"
  PROVE  /\ part = "repairing"
         /\ \/ Repairing!Next
            \/ UNCHANGED <<s1, s2, s3, s4, s5, s6, s7, s8, s9, s10>>
BY DEF Next, vars

LEMMA Template ==
  /\ Len(Keys) \in Nat /\ DOMAIN Keys = 1..Len(Keys) /\ \A m \in 1..Len(Keys) : Keys[m] \in Known
  /\ Len(Links) \in Nat /\ DOMAIN Links = 1..Len(Links)
  /\ \A n \in 1..Len(Links) : Links[n][1] \in Known /\ Links[n][2] \in Known
<1>1. Keys \in Seq(Known) /\ Links \in Seq(Known \X Known)
  BY TemplateAssumption DEF Known
<1> QED BY <1>1

LEMMA NoJobSound ==
  /\ JobShaped(Repairing!NoJob) /\ Repairing!NoJob.at = "idle"
  /\ Repairing!NoJob \in Jobs /\ Repairing!NoJob.found = <<>> /\ Repairing!NoJob.linked = 0
  /\ \A wf, st, tr, ed, sh, mv : JobSound(Repairing!NoJob, wf, st, tr, ed, sh, mv)
<1>1. Repairing!NoJob.at = "idle" /\ Repairing!NoJob.op = "none"
  BY DEF Repairing!NoJob
<1>2. Repairing!NoJob \in Jobs /\ Len(Repairing!NoJob.found) = 0 /\ Repairing!NoJob.linked = 0
  BY DEF Repairing!NoJob, Jobs
<1>3. Repairing!NoJob.found = <<>>
  BY DEF Repairing!NoJob
<1> QED BY <1>1, <1>2, <1>3, Template DEF JobShaped, JobSound, RepairPlaces, UsePlaces

LEMMA RepairingInit == Repairing!Init => RepairingInv
<1> SUFFICES ASSUME Repairing!Init PROVE RepairingInv
  OBVIOUS
<1>1. /\ workflows = [w \in WorkflowIds |-> NULL] /\ statuses = [t \in StatusIds |-> NULL]
      /\ status_of = [i \in WorkItems |-> NULL] /\ job = [r \in Requests |-> Repairing!NoJob]
      /\ split = FALSE /\ moved = FALSE
  BY DEF Repairing!Init, Repairing!WorkflowIds, Repairing!StatusIds, WorkflowIds, StatusIds
<1>2. RepairingType
  BY <1>1, NoJobSound DEF RepairingType, JobShaped
<1>3. Alone(job, shared)
  BY <1>1, NoJobSound DEF Alone, RepairPlaces
<1>4. TablesSound(workflows, statuses, status_of, edited, shared, split, moved, stray)
  BY <1>1, NullAssumption DEF TablesSound, Find
<1> QED BY <1>1, <1>2, <1>3, <1>4, NoJobSound DEF RepairingInv

\* The next id is free.
LEMMA NextIsFree ==
  ASSUME NEW n \in Nat, NEW table, DOMAIN table = 1..n, Repairing!NextFree(table) \in 1..n
  PROVE  table[Repairing!NextFree(table)] = NULL
<1> DEFINE taken == {m \in DOMAIN table : table[m] # NULL} \cup {0}
<1>1. taken \subseteq 0..n /\ taken # {}
  OBVIOUS
<1>2. \E x \in taken : \A y \in taken : x >= y
  BY <1>1, HasMax
<1>3. Repairing!Max(taken) \in taken /\ \A y \in taken : Repairing!Max(taken) >= y
  BY <1>2 DEF Repairing!Max
<1>4. Repairing!NextFree(table) = 1 + Repairing!Max(taken)
  BY DEF Repairing!NextFree
<1> HIDE DEF taken
<1>5. Repairing!NextFree(table) \notin taken
  <2>1. PICK m \in 0..n : m = Repairing!Max(taken) /\ \A y \in taken : m >= y
    BY <1>1, <1>3
  <2> QED BY <1>4, <2>1
<1> QED BY <1>5 DEF taken

\* What a step leaves of the tables, unless a workflow is given away.
Forward(wf, wf2, st, st2, tr, tr2, ed, ed2) ==
  /\ \A w \in WorkflowIds : wf[w] = "project" => wf2[w] = "project"
  /\ \A t \in StatusIds : st[t] # NULL =>
       /\ st2[t] # NULL /\ st2[t].workflow_id = st[t].workflow_id
       /\ st[t].workflow_id \notin ed2 => st2[t] = st[t]
  /\ tr \subseteq tr2 /\ ed \subseteq ed2

LEMMA FindForward ==
  ASSUME NEW wf, NEW wf2, NEW st, NEW st2, NEW tr, NEW tr2, NEW ed, NEW ed2,
         Forward(wf, wf2, st, st2, tr, tr2, ed, ed2), NEW w, w \notin ed2
  PROVE  /\ \A key : Find(st, w, key) \subseteq Find(st2, w, key)
         /\ \A n : Linked(st, tr, w, n) => Linked(st2, tr2, w, n)
<1>1. \A key : Find(st, w, key) \subseteq Find(st2, w, key)
  BY DEF Forward, Find
<1>2. ASSUME NEW n, Linked(st, tr, w, n) PROVE Linked(st2, tr2, w, n)
  BY <1>1, <1>2 DEF Linked, Forward
<1> QED BY <1>1, <1>2

LEMMA JobForward ==
  ASSUME NEW c, JobShaped(c), NEW wf, NEW wf2, NEW st, NEW st2, NEW tr, NEW tr2, NEW ed, NEW ed2, NEW sh, NEW sh2,
         NEW mv, NEW mv2,
         JobSound(c, wf, st, tr, ed, sh, mv), mv => mv2, sh \subseteq sh2,
         ~mv2 => Forward(wf, wf2, st, st2, tr, tr2, ed, ed2),
         ~mv2 /\ c.at = "add" /\ c.workflow \notin ed2 \cup sh2 =>
           \A key : Find(st2, c.workflow, key) \subseteq Find(st, c.workflow, key)
  PROVE  JobSound(c, wf2, st2, tr2, ed2, sh2, mv2)
<1> SUFFICES ASSUME ~mv2 PROVE JobSound(c, wf2, st2, tr2, ed2, sh2, mv2)
  BY DEF JobSound
<1>1. ~mv /\ Forward(wf, wf2, st, st2, tr, tr2, ed, ed2)
  OBVIOUS
<1> DEFINE w == c.workflow
<1>2. c.at \in RepairPlaces \cup UsePlaces => wf2[w] = "project"
  BY <1>1 DEF JobSound, Forward, JobShaped
<1>3. ASSUME c.at \in RepairPlaces, w \notin ed2
      PROVE  /\ \A m \in 1..Len(c.found) : c.found[m] \in Find(st2, w, Keys[m])
             /\ \A n \in 1..c.linked : Linked(st2, tr2, w, n)
  <2>1. w \notin ed
    BY <1>1, <1>3 DEF Forward
  <2>2. /\ \A key : Find(st, w, key) \subseteq Find(st2, w, key)
        /\ \A n : Linked(st, tr, w, n) => Linked(st2, tr2, w, n)
    BY <1>1, <1>3, FindForward
  <2>3. /\ \A m \in 1..Len(c.found) : c.found[m] \in Find(st, w, Keys[m])
        /\ \A n \in 1..c.linked : Linked(st, tr, w, n)
    BY <1>1, <1>3, <2>1 DEF JobSound
  <2> QED BY <2>2, <2>3
<1>4. c.at = "add" /\ w \notin ed2 \cup sh2 => Find(st2, w, Keys[Len(c.found) + 1]) = {}
  BY <1>1 DEF JobSound, Forward
<1>5. ASSUME c.at \in UsePlaces, w \notin ed2
      PROVE  /\ \A m \in 1..Len(Keys) : Find(st2, w, Keys[m]) # {}
             /\ \A n \in 1..Len(Links) : Linked(st2, tr2, w, n)
  <2>1. w \notin ed
    BY <1>1, <1>5 DEF Forward
  <2>2. /\ \A key : Find(st, w, key) \subseteq Find(st2, w, key)
        /\ \A n : Linked(st, tr, w, n) => Linked(st2, tr2, w, n)
    BY <1>1, <1>5, FindForward
  <2>3. /\ \A m \in 1..Len(Keys) : Find(st, w, Keys[m]) # {}
        /\ \A n \in 1..Len(Links) : Linked(st, tr, w, n)
    BY <1>1, <1>5, <2>1 DEF JobSound
  <2> QED BY <2>2, <2>3
<1>6. c.at = "save" => st2[c.target] # NULL /\ st2[c.target].workflow_id = w
  BY <1>1 DEF JobSound, Forward, JobShaped
<1> QED BY <1>2, <1>3, <1>4, <1>5, <1>6 DEF JobSound

\* A step of one call that writes no table.
LEMMA JobStep ==
  ASSUME RepairingInv, NEW r \in Requests, NEW c, JobShaped(c), job' = [job EXCEPT ![r] = c],
         UNCHANGED <<workflows, statuses, status_of, edited, split, moved, stray>>,
         transitions \subseteq transitions', shared \subseteq shared',
         JobSound(c, workflows, statuses, transitions', edited, shared', moved),
         c.at \in RepairPlaces /\ c.workflow \notin shared' =>
           \A q \in Requests \ {r} : ~(job[q].at \in RepairPlaces /\ job[q].workflow = c.workflow)
  PROVE  RepairingInv'
<1>1. \A q \in Requests : job'[q] = IF q = r THEN c ELSE job[q]
  BY DEF RepairingInv, RepairingType
<1>2. RepairingType'
  BY <1>1 DEF RepairingInv, RepairingType, JobShaped
<1>3. Alone(job', shared')
  BY <1>1 DEF RepairingInv, Alone
<1>4. TablesSound(workflows, statuses, status_of, edited, shared', split, moved, stray)
  BY DEF RepairingInv, TablesSound
<1>5. Forward(workflows, workflows, statuses, statuses, transitions, transitions', edited, edited)
  BY DEF Forward
<1>6. ASSUME NEW q \in Requests
      PROVE  JobSound(job'[q], workflows, statuses, transitions', edited, shared', moved)
  <2>1. CASE q = r
    BY <1>1, <2>1
  <2>2. CASE q # r
    <3>1. job'[q] = job[q] /\ JobShaped(job[q])
          /\ JobSound(job[q], workflows, statuses, transitions, edited, shared, moved)
      BY <1>1, <2>2 DEF RepairingInv, RepairingType
    <3> QED BY <1>5, <3>1, JobForward
  <2> QED BY <2>1, <2>2
<1> QED BY <1>2, <1>3, <1>4, <1>6 DEF RepairingInv

\* A call ends.
LEMMA EndStep ==
  ASSUME RepairingInv, NEW r \in Requests, Repairing!NoMore(r),
         UNCHANGED <<workflows, statuses, transitions, status_of, edited, shared, split, moved, stray>>
  PROVE  RepairingInv'
<1>1. job' = [job EXCEPT ![r] = Repairing!NoJob]
  BY DEF Repairing!NoMore
<1> QED BY <1>1, NoJobSound, JobStep DEF RepairPlaces

\* What a call was doing.
LEMMA JobIs ==
  ASSUME RepairingInv, NEW r \in Requests
  PROVE  /\ job[r] \in Jobs /\ JobShaped(job[r])
         /\ JobSound(job[r], workflows, statuses, transitions, edited, shared, moved)
BY DEF RepairingInv, RepairingType

LEMMA AskKeeps ==
  ASSUME RepairingInv, NEW r \in Requests, NEW op \in {"read", "create", "move"},
         NEW i \in WorkItems \cup {NULL}, NEW t \in StatusIds \cup {NULL},
         op \in {"create", "move"} => i \in WorkItems, op = "move" => t \in StatusIds, Repairing!Ask(r, op, i, t)
  PROVE  RepairingInv'
<1> DEFINE c == [Repairing!NoJob EXCEPT !.op = op, !.at = "ensure", !.item = i, !.target = t]
<1>1. job' = [job EXCEPT ![r] = c]
  BY DEF Repairing!Ask
<1>2. /\ c \in Jobs /\ c.op = op /\ c.at = "ensure" /\ c.item = i /\ c.target = t
      /\ c.found = <<>> /\ c.linked = 0
  BY NoJobSound DEF Jobs
<1> HIDE DEF c
<1>3. JobShaped(c)
  BY <1>2, Template DEF JobShaped, RepairPlaces, UsePlaces
<1>4. \A tr, sh : JobSound(c, workflows, statuses, tr, edited, sh, moved)
  BY <1>2 DEF JobSound, RepairPlaces, UsePlaces
<1> QED BY <1>1, <1>2, <1>3, <1>4, JobStep DEF Repairing!Ask, Repairing!past, RepairPlaces

LEMMA DeleteLoadKeeps ==
  ASSUME RepairingInv, NEW r \in Requests, NEW w \in WorkflowIds, Repairing!DeleteLoad(r, w)
  PROVE  RepairingInv'
<1> DEFINE target == Repairing!StatusesOf(w)
           c == [Repairing!NoJob EXCEPT !.op = "delete", !.at = "erase", !.workflow = w, !.target = target]
<1>1. job' = [job EXCEPT ![r] = c]
  BY DEF Repairing!DeleteLoad
<1>0. target \in SUBSET StatusIds
  BY DEF Repairing!StatusesOf, Repairing!StatusIds, StatusIds
<1> HIDE DEF target
<1>2. c \in Jobs /\ c.op = "delete" /\ c.at = "erase" /\ c.found = <<>> /\ c.linked = 0
  BY <1>0, NoJobSound DEF Jobs
<1> HIDE DEF c
<1>3. JobShaped(c)
  BY <1>2, Template DEF JobShaped, RepairPlaces, UsePlaces
<1>4. \A tr, sh : JobSound(c, workflows, statuses, tr, edited, sh, moved)
  BY <1>2 DEF JobSound, RepairPlaces, UsePlaces
<1> QED BY <1>1, <1>2, <1>3, <1>4, JobStep DEF Repairing!DeleteLoad, Repairing!past, RepairPlaces

\* To repair a workflow is to have found nothing of it yet.
LEMMA RepairBegins ==
  ASSUME RepairingInv, NEW r \in Requests, job[r].at \in {"ensure", "new"}, NEW w \in WorkflowIds,
         Repairing!Repair(r, w)
  PROVE  \E c : /\ job' = [job EXCEPT ![r] = c] /\ JobShaped(c) /\ c.at = "status" /\ c.workflow = w
                /\ c.found = <<>> /\ c.linked = 0
                /\ shared \subseteq shared'
                /\ w \notin shared' =>
                     \A q \in Requests \ {r} : ~(job[q].at \in RepairPlaces /\ job[q].workflow = w)
<1> DEFINE c == [job[r] EXCEPT !.at = "status", !.workflow = w]
<1>1. job[r] \in Jobs /\ JobShaped(job[r])
  BY JobIs
<1>2. job' = [job EXCEPT ![r] = c]
  BY <1>1 DEF Repairing!Repair, RepairingInv, RepairingType
<1>3. /\ c \in Jobs /\ c.at = "status" /\ c.workflow = w /\ c.op = job[r].op /\ c.item = job[r].item
      /\ c.target = job[r].target /\ c.found = <<>> /\ c.linked = 0
  BY <1>1 DEF Jobs, JobShaped
<1> HIDE DEF c
<1>4. JobShaped(c)
  BY <1>1, <1>3, Template DEF JobShaped, RepairPlaces, UsePlaces
<1>5. /\ shared \subseteq shared'
      /\ w \notin shared' => \A q \in Requests : ~(job[q].at \in RepairPlaces /\ job[q].workflow = w)
  BY DEF Repairing!Repair, Repairing!Repairs, RepairPlaces
<1> QED BY <1>2, <1>3, <1>4, <1>5

LEMMA GetKeeps ==
  ASSUME RepairingInv, NEW r \in Requests, Repairing!get_for_project(r)
  PROVE  RepairingInv'
<1>1. job[r] \in Jobs /\ JobShaped(job[r]) /\ job[r].at = "ensure"
  BY JobIs DEF Repairing!get_for_project
<1>2. CASE Repairing!OfProject = {}
  <2> DEFINE c == [job[r] EXCEPT !.at = "new"]
  <2>1. job' = [job EXCEPT ![r] = c] /\ shared' = shared
    BY <1>2 DEF Repairing!get_for_project, RepairingInv, RepairingType
  <2>2. /\ c \in Jobs /\ c.at = "new" /\ c.workflow = job[r].workflow /\ c.op = job[r].op /\ c.item = job[r].item
        /\ c.target = job[r].target /\ c.found = job[r].found /\ c.linked = job[r].linked
    BY <1>1 DEF Jobs, JobShaped
  <2> HIDE DEF c
  <2>3. JobShaped(c)
    BY <1>1, <2>2 DEF JobShaped, RepairPlaces, UsePlaces
  <2>4. \A tr, sh : JobSound(c, workflows, statuses, tr, edited, sh, moved)
    BY <2>2 DEF JobSound, RepairPlaces, UsePlaces
  <2> QED BY <2>1, <2>2, <2>3, <2>4, JobStep DEF Repairing!get_for_project, RepairPlaces
<1>3. CASE Repairing!OfProject # {}
  <2> DEFINE w == Repairing!Min(Repairing!OfProject)
  <2>1. w \in WorkflowIds /\ workflows[w] = "project"
    <3>1. Repairing!OfProject \subseteq Nat
      BY BoundAssumption DEF Repairing!OfProject, Repairing!WorkflowIds
    <3>2. w \in Repairing!OfProject
      BY <1>3, <3>1, HasMin DEF Repairing!Min
    <3> QED BY <3>2 DEF Repairing!OfProject, Repairing!WorkflowIds, WorkflowIds, Repairing!Project
  <2> HIDE DEF w
  <2>2. Repairing!Repair(r, w)
    BY <1>3 DEF Repairing!get_for_project, w
  <2>3. PICK c : /\ job' = [job EXCEPT ![r] = c] /\ JobShaped(c) /\ c.at = "status" /\ c.workflow = w
                 /\ c.found = <<>> /\ c.linked = 0
                 /\ shared \subseteq shared'
                 /\ w \notin shared' =>
                      \A q \in Requests \ {r} : ~(job[q].at \in RepairPlaces /\ job[q].workflow = w)
    BY <1>1, <2>1, <2>2, RepairBegins
  <2>4. JobSound(c, workflows, statuses, transitions', edited, shared', moved)
    BY <2>1, <2>3 DEF JobSound, RepairPlaces, UsePlaces
  <2> QED BY <2>3, <2>4, JobStep DEF Repairing!get_for_project
<1> QED BY <1>2, <1>3

\* What find_status finds.
LEMMA FindIs == \A w, key : Repairing!find_status(w, key) = Find(statuses, w, key)
BY DEF Repairing!find_status, Repairing!StatusesOf, Repairing!StatusIds, StatusIds, Find

LEMMA EnsureKeeps ==
  ASSUME RepairingInv, NEW r \in Requests, Repairing!EnsureStatus(r)
  PROVE  RepairingInv'
<1> DEFINE w == job[r].workflow
           n == Len(job[r].found)
           found == Find(statuses, w, Keys[n + 1])
<1>1. /\ job[r] \in Jobs /\ JobShaped(job[r])
      /\ JobSound(job[r], workflows, statuses, transitions, edited, shared, moved)
      /\ job[r].at = "status" /\ n \in Nat /\ n < Len(Keys)
  BY JobIs DEF Repairing!EnsureStatus, Jobs
<1>2. found = Repairing!find_status(w, Keys[n + 1])
  BY FindIs
<1>3. \A q \in Requests \ {r} : w \notin shared => ~(job[q].at \in RepairPlaces /\ job[q].workflow = w)
  BY <1>1 DEF RepairingInv, Alone, RepairPlaces
<1>4. CASE found = {} /\ job' = [job EXCEPT ![r].at = "add"]
  <2> DEFINE c == [job[r] EXCEPT !.at = "add"]
  <2>1. job' = [job EXCEPT ![r] = c]
    BY <1>4 DEF RepairingInv, RepairingType
  <2>2. /\ c \in Jobs /\ c.at = "add" /\ c.workflow = w /\ c.op = job[r].op /\ c.item = job[r].item
        /\ c.target = job[r].target /\ c.found = job[r].found /\ c.linked = job[r].linked
    BY <1>1 DEF Jobs
  <2> HIDE DEF c
  <2>3. JobShaped(c)
    BY <1>1, <2>2 DEF JobShaped, RepairPlaces, UsePlaces
  <2>4. JobSound(c, workflows, statuses, transitions, edited, shared, moved)
    BY <1>1, <1>4, <2>2 DEF JobSound, RepairPlaces, UsePlaces
  <2> QED BY <1>3, <2>1, <2>2, <2>3, <2>4, JobStep DEF Repairing!EnsureStatus, Repairing!past
<1>5. CASE \E t \in found : job' = [job EXCEPT ![r].found = Append(@, t)]
  <2>0. PICK t \in found : job' = [job EXCEPT ![r].found = Append(@, t)]
    BY <1>5
  <2> DEFINE c == [job[r] EXCEPT !.found = Append(@, t)]
  <2>1. job' = [job EXCEPT ![r] = c]
    BY <2>0 DEF RepairingInv, RepairingType
  <2>9. t \in StatusIds /\ job[r].found \in Seq(StatusIds)
    BY <1>1 DEF Find, Jobs
  <2>2. /\ c \in Jobs /\ c.at = "status" /\ c.workflow = w /\ c.op = job[r].op /\ c.item = job[r].item
        /\ c.target = job[r].target /\ c.found = Append(job[r].found, t) /\ c.linked = job[r].linked
    BY <1>1, <2>9 DEF Jobs
  <2>8. Len(c.found) = n + 1 /\ c.found[n + 1] = t /\ \A m \in 1..n : c.found[m] = job[r].found[m]
    BY <2>2, <2>9
  <2> HIDE DEF c
  <2>3. JobShaped(c)
    BY <1>1, <2>2, <2>8, Template DEF JobShaped, RepairPlaces, UsePlaces
  <2>4. JobSound(c, workflows, statuses, transitions, edited, shared, moved)
    <3> SUFFICES ASSUME ~moved PROVE JobSound(c, workflows, statuses, transitions, edited, shared, moved)
      BY DEF JobSound
    <3>1. workflows[w] = "project"
      BY <1>1 DEF JobSound, RepairPlaces
    <3>2. ASSUME w \notin edited
          PROVE  /\ \A m \in 1..Len(c.found) : c.found[m] \in Find(statuses, w, Keys[m])
                 /\ \A k \in 1..c.linked : Linked(statuses, transitions, w, k)
      <4>1. /\ \A m \in 1..n : job[r].found[m] \in Find(statuses, w, Keys[m])
            /\ \A k \in 1..job[r].linked : Linked(statuses, transitions, w, k)
        BY <1>1, <3>2 DEF JobSound, RepairPlaces
      <4>2. \A m \in 1..Len(c.found) : m = n + 1 \/ m \in 1..n
        BY <1>1, <2>8
      <4> HIDE DEF w, n
      <4> QED BY <2>0, <2>2, <2>8, <4>1, <4>2
    <3> QED BY <2>2, <3>1, <3>2 DEF JobSound, RepairPlaces, UsePlaces
  <2> QED BY <1>3, <2>1, <2>2, <2>3, <2>4, JobStep DEF Repairing!EnsureStatus, Repairing!past
<1> QED BY <1>2, <1>4, <1>5 DEF Repairing!EnsureStatus

LEMMA LinkKeeps ==
  ASSUME RepairingInv, NEW r \in Requests, Repairing!EnsureTransition(r)
  PROVE  RepairingInv'
<1> DEFINE w == job[r].workflow
           n == job[r].linked + 1
           row(k) == job[r].found[CHOOSE m \in DOMAIN Keys : Keys[m] = k]
           link == [workflow_id |-> w, from |-> row(Links[n][1]), to |-> row(Links[n][2])]
           c == [job[r] EXCEPT !.linked = n]
<1>1. /\ job[r] \in Jobs /\ JobShaped(job[r])
      /\ JobSound(job[r], workflows, statuses, transitions, edited, shared, moved)
      /\ job[r].at = "status" /\ Len(job[r].found) = Len(Keys) /\ job[r].linked \in Nat
      /\ n \in 1..Len(Links)
  BY JobIs, Template DEF Repairing!EnsureTransition, Jobs
<1>2. job' = [job EXCEPT ![r] = c] /\ transitions' = transitions \cup {link}
  BY DEF Repairing!EnsureTransition, RepairingInv, RepairingType
<1>3. /\ c \in Jobs /\ c.at = "status" /\ c.workflow = w /\ c.op = job[r].op /\ c.item = job[r].item
      /\ c.target = job[r].target /\ c.found = job[r].found /\ c.linked = n
  BY <1>1 DEF Jobs
<1> HIDE DEF c
<1>4. JobShaped(c)
  BY <1>1, <1>3 DEF JobShaped, RepairPlaces, UsePlaces
<1>5. \A q \in Requests \ {r} : w \notin shared => ~(job[q].at \in RepairPlaces /\ job[q].workflow = w)
  BY <1>1 DEF RepairingInv, Alone, RepairPlaces
<1>6. JobSound(c, workflows, statuses, transitions', edited, shared, moved)
  <2> SUFFICES ASSUME ~moved PROVE JobSound(c, workflows, statuses, transitions', edited, shared, moved)
    BY DEF JobSound
  <2>1. workflows[w] = "project"
    BY <1>1 DEF JobSound, RepairPlaces
  <2>2. ASSUME w \notin edited
        PROVE  /\ \A m \in 1..Len(c.found) : c.found[m] \in Find(statuses, w, Keys[m])
               /\ \A k \in 1..c.linked : Linked(statuses, transitions', w, k)
    <3>1. /\ \A m \in 1..Len(Keys) : job[r].found[m] \in Find(statuses, w, Keys[m])
          /\ \A k \in 1..job[r].linked : Linked(statuses, transitions, w, k)
      BY <1>1, <2>2 DEF JobSound, RepairPlaces
    <3>2. \A key \in Known : row(key) \in Find(statuses, w, key)
      <4> SUFFICES ASSUME NEW key \in Known PROVE row(key) \in Find(statuses, w, key)
        OBVIOUS
      <4>1. \E m \in DOMAIN Keys : Keys[m] = key
        BY DEF Known
      <4>2. PICK m \in DOMAIN Keys : Keys[m] = key /\ row(key) = job[r].found[m]
        BY <4>1
      <4> QED BY <3>1, <4>2, Template
    <3>3. row(Links[n][1]) \in Find(statuses, w, Links[n][1]) /\ row(Links[n][2]) \in Find(statuses, w, Links[n][2])
      BY <1>1, <3>2, Template
    <3> HIDE DEF row
    <3>4. Linked(statuses, transitions', w, n)
      BY <1>2, <3>3 DEF Linked
    <3>5. \A k \in 1..job[r].linked : Linked(statuses, transitions', w, k)
      BY <1>2, <3>1 DEF Linked
    <3>6. \A k \in 1..c.linked : k = n \/ k \in 1..job[r].linked
      BY <1>1, <1>3
    <3> QED BY <1>1, <1>3, <3>1, <3>4, <3>5, <3>6
  <2> QED BY <1>3, <2>1, <2>2 DEF JobSound, RepairPlaces, UsePlaces
<1>7. transitions \subseteq transitions'
  BY <1>2
<1>8. UNCHANGED <<workflows, statuses, status_of, edited, shared, split, moved, stray>>
  BY DEF Repairing!EnsureTransition, Repairing!past
<1> HIDE DEF w, n, row, link
<1> QED BY <1>2, <1>3, <1>4, <1>5, <1>6, <1>7, <1>8, JobStep

LEMMA ReturnKeeps ==
  ASSUME RepairingInv, NEW r \in Requests, Repairing!EnsureReturn(r)
  PROVE  RepairingInv'
<1>1. CASE workflows[job[r].workflow] = NULL \/ job[r].op = "read"
  BY <1>1, EndStep DEF Repairing!EnsureReturn, Repairing!past
<1>2. CASE ~(workflows[job[r].workflow] = NULL \/ job[r].op = "read")
  <2> DEFINE w == job[r].workflow
             c == [job[r] EXCEPT !.at = "use", !.found = <<>>, !.linked = 0]
  <2>1. /\ job[r] \in Jobs /\ JobShaped(job[r])
        /\ JobSound(job[r], workflows, statuses, transitions, edited, shared, moved)
        /\ job[r].at = "status" /\ Len(job[r].found) = Len(Keys) /\ job[r].linked = Len(Links)
    BY JobIs, Template DEF Repairing!EnsureReturn, Jobs
  <2>2. job' = [job EXCEPT ![r] = c]
    BY <1>2 DEF Repairing!EnsureReturn, RepairingInv, RepairingType
  <2>3. /\ c \in Jobs /\ c.at = "use" /\ c.workflow = w /\ c.op = job[r].op /\ c.item = job[r].item
        /\ c.target = job[r].target /\ c.found = <<>> /\ c.linked = 0
    <3>1. <<>> \in Seq(StatusIds)
      OBVIOUS
    <3> QED BY <2>1, <3>1 DEF Jobs
  <2> HIDE DEF c
  <2>4. JobShaped(c)
    BY <1>2, <2>1, <2>3, Template DEF JobShaped, RepairPlaces, UsePlaces
  <2>5. JobSound(c, workflows, statuses, transitions, edited, shared, moved)
    <3> SUFFICES ASSUME ~moved PROVE JobSound(c, workflows, statuses, transitions, edited, shared, moved)
      BY DEF JobSound
    <3>1. workflows[w] = "project"
      BY <2>1 DEF JobSound, RepairPlaces
    <3>2. w \notin edited => /\ \A m \in 1..Len(Keys) : Find(statuses, w, Keys[m]) # {}
                             /\ \A k \in 1..Len(Links) : Linked(statuses, transitions, w, k)
      BY <2>1 DEF JobSound, RepairPlaces
    <3> QED BY <2>3, <3>1, <3>2 DEF JobSound, RepairPlaces, UsePlaces
  <2> QED BY <2>2, <2>3, <2>4, <2>5, JobStep DEF Repairing!EnsureReturn, Repairing!past, RepairPlaces
<1> QED BY <1>1, <1>2

LEMMA TakeKeeps ==
  ASSUME RepairingInv, NEW r \in Requests, Repairing!TakeDefault(r)
  PROVE  RepairingInv'
<1> DEFINE w == job[r].workflow
           found == Find(statuses, w, Keys[1])
           repair == found = {} /\ ~job[r].again /\ workflows[w] # NULL
<1>1. /\ job[r] \in Jobs /\ JobShaped(job[r])
      /\ JobSound(job[r], workflows, statuses, transitions, edited, shared, moved)
      /\ job[r].at = "use" /\ job[r].op = "create" /\ job[r].found = <<>> /\ job[r].linked = 0
  BY JobIs DEF Repairing!TakeDefault, JobShaped, UsePlaces
<1>2. /\ UNCHANGED <<workflows, statuses, transitions, status_of, edited, split, moved, stray>>
      /\ shared' = IF repair /\ Repairing!Repairs(w) # {} THEN shared \cup {w} ELSE shared
      /\ \/ found = {} /\ ~repair /\ Repairing!NoMore(r)
         \/ \E t \in found : job' = [job EXCEPT ![r].at = "save", ![r].target = t]
         \/ repair /\ job' = [job EXCEPT ![r].at = "status", ![r].again = TRUE]
  BY FindIs DEF Repairing!TakeDefault
<1>3. CASE found = {} /\ ~repair /\ Repairing!NoMore(r)
  BY <1>2, <1>3, EndStep
<1>4. CASE \E t \in found : job' = [job EXCEPT ![r].at = "save", ![r].target = t]
  <2>0. PICK t \in found : job' = [job EXCEPT ![r].at = "save", ![r].target = t]
    BY <1>4
  <2> DEFINE c == [job[r] EXCEPT !.at = "save", !.target = t]
  <2>1. job' = [job EXCEPT ![r] = c] /\ shared' = shared
    BY <1>2, <2>0 DEF RepairingInv, RepairingType
  <2>2. t \in StatusIds /\ statuses[t] # NULL /\ statuses[t].workflow_id = w
    BY DEF Find
  <2>3. /\ c \in Jobs /\ c.at = "save" /\ c.workflow = w /\ c.op = job[r].op /\ c.item = job[r].item
        /\ c.target = t /\ c.found = job[r].found /\ c.linked = job[r].linked
    BY <1>1, <2>2 DEF Jobs
  <2> HIDE DEF c
  <2>4. JobShaped(c)
    BY <1>1, <2>2, <2>3 DEF JobShaped, RepairPlaces, UsePlaces
  <2>5. JobSound(c, workflows, statuses, transitions, edited, shared, moved)
    BY <1>1, <2>2, <2>3 DEF JobSound, RepairPlaces, UsePlaces
  <2> QED BY <1>2, <2>1, <2>3, <2>4, <2>5, JobStep DEF RepairPlaces
<1>5. CASE repair /\ job' = [job EXCEPT ![r].at = "status", ![r].again = TRUE]
  <2> DEFINE c == [job[r] EXCEPT !.at = "status", !.again = TRUE]
  <2>1. job' = [job EXCEPT ![r] = c]
    BY <1>5 DEF RepairingInv, RepairingType
  <2>3. /\ c \in Jobs /\ c.at = "status" /\ c.workflow = w /\ c.op = job[r].op /\ c.item = job[r].item
        /\ c.target = job[r].target /\ c.found = job[r].found /\ c.linked = job[r].linked
    BY <1>1 DEF Jobs
  <2> HIDE DEF c
  <2>4. JobShaped(c)
    BY <1>1, <2>3 DEF JobShaped, RepairPlaces, UsePlaces
  <2>5. \A sh : JobSound(c, workflows, statuses, transitions, edited, sh, moved)
    BY <1>1, <2>3 DEF JobSound, RepairPlaces, UsePlaces
  <2>6. /\ shared \subseteq shared'
        /\ w \notin shared' => \A q \in Requests : ~(job[q].at \in RepairPlaces /\ job[q].workflow = w)
    BY <1>2, <1>5 DEF Repairing!Repairs, RepairPlaces
  <2> QED BY <1>2, <2>1, <2>3, <2>4, <2>5, <2>6, JobStep
<1> QED BY <1>2, <1>3, <1>4, <1>5

LEMMA ValidateKeeps ==
  ASSUME RepairingInv, NEW r \in Requests, Repairing!validate_transition(r)
  PROVE  RepairingInv'
<1> DEFINE t == job[r].target
           w == job[r].workflow
           c == [job[r] EXCEPT !.at = "save"]
<1>1. /\ job[r] \in Jobs /\ JobShaped(job[r])
      /\ JobSound(job[r], workflows, statuses, transitions, edited, shared, moved)
      /\ job[r].at = "use" /\ job[r].op = "move" /\ job[r].found = <<>> /\ job[r].linked = 0
  BY JobIs DEF Repairing!validate_transition, JobShaped, UsePlaces
<1>2. CASE Repairing!NoMore(r)
  BY <1>2, EndStep DEF Repairing!validate_transition, Repairing!past
<1>3. CASE t \in Repairing!StatusesOf(w) /\ job' = [job EXCEPT ![r].at = "save"]
  <2>1. job' = [job EXCEPT ![r] = c]
    BY <1>3 DEF RepairingInv, RepairingType
  <2>2. t \in StatusIds /\ statuses[t] # NULL /\ statuses[t].workflow_id = w
    BY <1>3 DEF Repairing!StatusesOf, Repairing!StatusIds, StatusIds
  <2>3. /\ c \in Jobs /\ c.at = "save" /\ c.workflow = w /\ c.op = job[r].op /\ c.item = job[r].item
        /\ c.target = t /\ c.found = job[r].found /\ c.linked = job[r].linked
    BY <1>1 DEF Jobs
  <2> HIDE DEF c
  <2>4. JobShaped(c)
    BY <1>1, <2>2, <2>3 DEF JobShaped, RepairPlaces, UsePlaces
  <2>5. JobSound(c, workflows, statuses, transitions, edited, shared, moved)
    BY <1>1, <2>2, <2>3 DEF JobSound, RepairPlaces, UsePlaces
  <2> QED BY <2>1, <2>3, <2>4, <2>5, JobStep DEF RepairPlaces, Repairing!validate_transition, Repairing!past
<1> QED BY <1>2, <1>3 DEF Repairing!validate_transition

\* A step that writes tables.
LEMMA TablesStep ==
  ASSUME RepairingInv, RepairingType', Alone(job', shared'),
         TablesSound(workflows', statuses', status_of', edited', shared', split', moved', stray'),
         moved => moved', shared \subseteq shared',
         ~moved' => Forward(workflows, workflows', statuses, statuses', transitions, transitions', edited, edited'),
         \A q \in Requests :
           \/ JobSound(job'[q], workflows', statuses', transitions', edited', shared', moved')
           \/ /\ job'[q] = job[q]
              /\ ~moved' /\ job[q].at = "add" /\ job[q].workflow \notin edited' \cup shared' =>
                   \A key : Find(statuses', job[q].workflow, key) \subseteq Find(statuses, job[q].workflow, key)
  PROVE  RepairingInv'
<1>1. ASSUME NEW q \in Requests
      PROVE  JobSound(job'[q], workflows', statuses', transitions', edited', shared', moved')
  <2>1. JobShaped(job[q]) /\ JobSound(job[q], workflows, statuses, transitions, edited, shared, moved)
    BY JobIs
  <2> QED BY <2>1, JobForward
<1> QED BY <1>1 DEF RepairingInv

LEMMA SaveKeeps ==
  ASSUME RepairingInv, NEW r \in Requests, Repairing!SaveItem(r)
  PROVE  RepairingInv'
<1> DEFINE i == job[r].item
           t == job[r].target
<1>1. /\ job[r].at = "save" /\ i \in WorkItems /\ t \in StatusIds /\ job[r].workflow \in WorkflowIds
      /\ JobSound(job[r], workflows, statuses, transitions, edited, shared, moved)
  BY JobIs DEF Repairing!SaveItem, JobShaped, UsePlaces
<1>2. /\ UNCHANGED <<workflows, statuses, transitions, edited, shared, split, moved>>
      /\ status_of' = [status_of EXCEPT ![i] = t] /\ stray' = stray \ {i}
      /\ job' = [job EXCEPT ![r] = Repairing!NoJob]
  BY DEF Repairing!SaveItem, Repairing!NoMore
<1>3. \A q \in Requests : job'[q] = IF q = r THEN Repairing!NoJob ELSE job[q]
  BY <1>2 DEF RepairingInv, RepairingType
<1>4. ~moved => statuses[t] # NULL /\ statuses[t].workflow_id = job[r].workflow
                /\ workflows[job[r].workflow] = "project"
  BY <1>1 DEF JobSound, UsePlaces
<1> HIDE DEF i, t
<1>5. RepairingType'
  BY <1>1, <1>2, <1>3, NoJobSound DEF RepairingInv, RepairingType
<1>6. Alone(job', shared')
  BY <1>2, <1>3, NoJobSound DEF RepairingInv, Alone, RepairPlaces
<1>7. TablesSound(workflows, statuses, status_of', edited, shared, split, moved, stray')
  BY <1>1, <1>2, <1>4 DEF RepairingInv, RepairingType, TablesSound
<1>8. Forward(workflows, workflows, statuses, statuses, transitions, transitions, edited, edited)
  BY DEF Forward
<1> QED BY <1>2, <1>3, <1>5, <1>6, <1>7, <1>8, NoJobSound, TablesStep

\* A status that is added is found by its key, and nothing else changes.
LEMMA InsertFinds ==
  ASSUME RepairingInv, NEW t, t = Repairing!NextFree(statuses), t \in StatusIds,
         NEW w \in WorkflowIds \cup {NULL}, NEW key \in Known, Repairing!Insert(t, w, key)
  PROVE  /\ statuses[t] = NULL /\ statuses' \in [StatusIds -> StatusRows \cup {NULL}]
         /\ statuses'[t] # NULL /\ statuses'[t].workflow_id = w /\ \A u \in StatusIds \ {t} : statuses'[u] = statuses[u]
         /\ \A v, k : Find(statuses', v, k) = IF v = w /\ k = key THEN Find(statuses, v, k) \cup {t}
                                              ELSE Find(statuses, v, k)
<1> DEFINE row == [workflow_id |-> w, key |-> key, is_active |-> TRUE]
<1>1. statuses[t] = NULL
  BY NextIsFree, BoundAssumption DEF RepairingInv, RepairingType, StatusIds
<1>2. row \in StatusRows /\ row # NULL
  <2>1. row \in StatusRows
    BY DEF StatusRows
  <2> QED BY <2>1, NullAssumption DEF StatusRows, Known, WorkflowIds
<1>3. statuses' = [statuses EXCEPT ![t] = row]
  BY DEF Repairing!Insert
<1>4. row.workflow_id = w /\ row.key = key /\ row.is_active = TRUE
  OBVIOUS
<1> HIDE DEF row
<1>5. statuses' \in [StatusIds -> StatusRows \cup {NULL}] /\ statuses'[t] = row
      /\ \A u \in StatusIds \ {t} : statuses'[u] = statuses[u]
  BY <1>2, <1>3 DEF RepairingInv, RepairingType
<1>6. ASSUME NEW v, NEW k
      PROVE  Find(statuses', v, k) = IF v = w /\ k = key THEN Find(statuses, v, k) \cup {t} ELSE Find(statuses, v, k)
  BY <1>1, <1>2, <1>4, <1>5 DEF Find
<1> QED BY <1>1, <1>2, <1>4, <1>5, <1>6

LEMMA CreateDefaultKeeps ==
  ASSUME RepairingInv, NEW r \in Requests, Repairing!CreateDefault(r)
  PROVE  RepairingInv'
<1> DEFINE w == Repairing!NextFree(workflows)
<1>1. /\ w \in WorkflowIds /\ Repairing!Repair(r, w) /\ job[r].at = "new"
      /\ workflows' = [workflows EXCEPT ![w] = "project"]
      /\ split' = (split \/ Repairing!OfProject # {})
      /\ UNCHANGED <<statuses, transitions, status_of, edited, moved, stray>>
  BY DEF Repairing!CreateDefault, Repairing!WorkflowIds, WorkflowIds, Repairing!Project
<1>2. PICK c : /\ job' = [job EXCEPT ![r] = c] /\ JobShaped(c) /\ c.at = "status" /\ c.workflow = w
               /\ c.found = <<>> /\ c.linked = 0
               /\ shared \subseteq shared'
               /\ w \notin shared' =>
                    \A q \in Requests \ {r} : ~(job[q].at \in RepairPlaces /\ job[q].workflow = w)
  BY <1>1, RepairBegins
<1> HIDE DEF w
<1>3. \A q \in Requests : job'[q] = IF q = r THEN c ELSE job[q]
  BY <1>2 DEF RepairingInv, RepairingType
<1>4. RepairingType'
  BY <1>1, <1>2, <1>3 DEF RepairingInv, RepairingType, JobShaped
<1>5. Alone(job', shared')
  BY <1>2, <1>3 DEF RepairingInv, Alone
<1>6. ~split' => ~split /\ \A v \in WorkflowIds : workflows[v] # "project"
  BY <1>1 DEF Repairing!OfProject, Repairing!WorkflowIds, WorkflowIds, Repairing!Project, RepairingInv, RepairingType
<1>7. \A v \in WorkflowIds : workflows'[v] = IF v = w THEN "project" ELSE workflows[v]
  BY <1>1 DEF RepairingInv, RepairingType
<1>8. TablesSound(workflows', statuses', status_of', edited', shared', split', moved', stray')
  BY <1>1, <1>2, <1>6, <1>7 DEF RepairingInv, TablesSound
<1>9. Forward(workflows, workflows', statuses, statuses', transitions, transitions', edited, edited')
  BY <1>1, <1>7 DEF Forward
<1>10. JobSound(c, workflows', statuses', transitions', edited', shared', moved')
  BY <1>1, <1>2, <1>7 DEF JobSound, RepairPlaces, UsePlaces
<1> QED BY <1>1, <1>2, <1>3, <1>4, <1>5, <1>8, <1>9, <1>10, TablesStep

LEMMA CreateStatusKeeps ==
  ASSUME RepairingInv, NEW r \in Requests, Repairing!create_status(r)
  PROVE  RepairingInv'
<1> DEFINE t == Repairing!NextFree(statuses)
           w == job[r].workflow
           n == Len(job[r].found)
           key == Keys[n + 1]
           c == [job[r] EXCEPT !.at = "status", !.found = Append(@, t)]
<1>1. /\ job[r] \in Jobs /\ JobShaped(job[r]) /\ job[r].found \in Seq(StatusIds)
      /\ JobSound(job[r], workflows, statuses, transitions, edited, shared, moved)
      /\ job[r].at = "add" /\ n \in Nat /\ n < Len(Keys) /\ w \in WorkflowIds /\ key \in Known
  <2>1. /\ job[r] \in Jobs /\ JobShaped(job[r]) /\ job[r].at = "add"
        /\ JobSound(job[r], workflows, statuses, transitions, edited, shared, moved)
    BY JobIs DEF Repairing!create_status
  <2>2. job[r].found \in Seq(StatusIds) /\ n \in Nat
    BY <2>1 DEF Jobs
  <2>3. n < Len(Keys) /\ w \in WorkflowIds
    BY <2>1 DEF JobShaped, RepairPlaces
  <2>4. n + 1 \in 1..Len(Keys)
    BY <2>2, <2>3, Template
  <2> QED BY <2>1, <2>2, <2>3, <2>4, Template
<1>2. /\ t = Repairing!NextFree(statuses) /\ t \in StatusIds /\ Repairing!Insert(t, w, key)
      /\ UNCHANGED <<workflows, transitions, status_of, edited, shared, split, moved, stray>>
      /\ job' = [job EXCEPT ![r].at = "status", ![r].found = Append(@, t)]
  BY DEF Repairing!create_status, Repairing!StatusIds, StatusIds, Repairing!past
<1> HIDE DEF t
<1>3. job' = [job EXCEPT ![r] = c]
  BY <1>2 DEF RepairingInv, RepairingType
<1>4. /\ c \in Jobs /\ c.at = "status" /\ c.workflow = w /\ c.op = job[r].op /\ c.item = job[r].item
      /\ c.target = job[r].target /\ c.found = Append(job[r].found, t) /\ c.linked = job[r].linked
  <2>1. Append(job[r].found, t) \in Seq(StatusIds)
    BY <1>1, <1>2
  <2> HIDE DEF t, n, key, w
  <2> QED BY <1>1, <2>1 DEF Jobs, w
<1>5. Len(c.found) = n + 1 /\ c.found[n + 1] = t /\ \A m \in 1..n : c.found[m] = job[r].found[m]
  BY <1>1, <1>2, <1>4
<1>6. /\ statuses[t] = NULL /\ statuses' \in [StatusIds -> StatusRows \cup {NULL}]
      /\ \A u \in StatusIds \ {t} : statuses'[u] = statuses[u]
      /\ \A v, k : Find(statuses', v, k) = IF v = w /\ k = key THEN Find(statuses, v, k) \cup {t}
                                           ELSE Find(statuses, v, k)
  BY <1>1, <1>2, InsertFinds
<1> HIDE DEF c
<1>7. JobShaped(c)
  BY <1>1, <1>4, <1>5, Template DEF JobShaped, RepairPlaces, UsePlaces
<1>8. \A q \in Requests : job'[q] = IF q = r THEN c ELSE job[q]
  BY <1>3 DEF RepairingInv, RepairingType
<1>9. RepairingType'
  <2>1. job' \in [Requests -> Jobs] /\ \A q \in Requests : JobShaped(job'[q])
    BY <1>3, <1>4, <1>7, <1>8 DEF RepairingInv, RepairingType
  <2> QED BY <1>2, <1>6, <2>1 DEF RepairingInv, RepairingType
<1>10. /\ Alone(job', shared')
       /\ \A q \in Requests \ {r} : job[q].at = "add" /\ job[q].workflow \notin shared => job[q].workflow # w
  <2>1. \A q \in Requests \ {r} : job[q].at \in RepairPlaces /\ job[q].workflow \notin shared => job[q].workflow # w
    BY <1>1 DEF RepairingInv, Alone, RepairPlaces
  <2>2. Alone(job, shared)
    BY DEF RepairingInv
  <2> HIDE DEF w, n, key
  <2>3. Alone(job', shared)
    BY <1>4, <1>8, <2>1, <2>2 DEF Alone, RepairPlaces
  <2> QED BY <1>2, <2>1, <2>3 DEF RepairPlaces
<1>11. Forward(workflows, workflows', statuses, statuses', transitions, transitions', edited, edited')
  BY <1>2, <1>6 DEF Forward
<1>12. TablesSound(workflows', statuses', status_of', edited', shared', split', moved', stray')
  <2> SUFFICES ASSUME ~moved PROVE TablesSound(workflows, statuses', status_of, edited, shared, split, moved, stray)
    BY <1>2 DEF TablesSound
  <2>1. ASSUME NEW v \in WorkflowIds \ (edited \cup shared), NEW k \in Known PROVE \A t1, u \in Find(statuses', v, k) : t1 = u
    <3>1. \A t1, u \in Find(statuses, v, k) : t1 = u
      BY <2>1 DEF RepairingInv, TablesSound
    <3>2. v = w /\ k = key => Find(statuses, v, k) = {}
      BY <1>1, <2>1 DEF JobSound
    <3> QED BY <1>6, <3>1, <3>2
  <2>2. ASSUME NEW i \in WorkItems \ stray, status_of[i] # NULL
        PROVE  /\ statuses'[status_of[i]] # NULL /\ statuses'[status_of[i]].workflow_id \in WorkflowIds
               /\ workflows[statuses'[status_of[i]].workflow_id] = "project"
    <3>1. /\ statuses[status_of[i]] # NULL /\ statuses[status_of[i]].workflow_id \in WorkflowIds
          /\ workflows[statuses[status_of[i]].workflow_id] = "project" /\ status_of[i] \in StatusIds
      BY <2>2 DEF RepairingInv, RepairingType, TablesSound
    <3> QED BY <1>6, <3>1
  <2>3. ~split => \A v, u \in WorkflowIds : workflows[v] = "project" /\ workflows[u] = "project" => v = u
    BY DEF RepairingInv, TablesSound
  <2> QED BY <2>1, <2>2, <2>3 DEF TablesSound
<1>13. JobSound(c, workflows', statuses', transitions', edited', shared', moved')
  <2> SUFFICES ASSUME ~moved PROVE JobSound(c, workflows, statuses', transitions, edited, shared, moved)
    BY <1>2 DEF JobSound
  <2>1. workflows[w] = "project"
    BY <1>1 DEF JobSound, RepairPlaces
  <2>2. ASSUME w \notin edited
        PROVE  /\ \A m \in 1..Len(c.found) : c.found[m] \in Find(statuses', w, Keys[m])
               /\ \A k \in 1..c.linked : Linked(statuses', transitions, w, k)
    <3>1. /\ \A m \in 1..n : job[r].found[m] \in Find(statuses, w, Keys[m])
          /\ \A k \in 1..job[r].linked : Linked(statuses, transitions, w, k)
      BY <1>1, <2>2 DEF JobSound, RepairPlaces
    <3>2. \A m \in 1..Len(c.found) : m = n + 1 \/ m \in 1..n
      BY <1>1, <1>5
    <3>3. /\ \A k : Find(statuses, w, k) \subseteq Find(statuses', w, k)
          /\ \A k : Linked(statuses, transitions, w, k) => Linked(statuses', transitions, w, k)
      BY <1>2, <1>11, <2>2, FindForward
    <3>4. t \in Find(statuses', w, key)
      BY <1>6
    <3> HIDE DEF w, n
    <3> QED BY <1>4, <1>5, <3>1, <3>2, <3>3, <3>4
  <2> QED BY <1>4, <2>1, <2>2 DEF JobSound, RepairPlaces, UsePlaces
<1>14. ASSUME NEW q \in Requests, q # r
       PROVE  /\ job'[q] = job[q]
              /\ ~moved' /\ job[q].at = "add" /\ job[q].workflow \notin edited' \cup shared' =>
                   \A k : Find(statuses', job[q].workflow, k) \subseteq Find(statuses, job[q].workflow, k)
  BY <1>2, <1>6, <1>8, <1>10, <1>14
<1> QED BY <1>2, <1>8, <1>9, <1>10, <1>11, <1>12, <1>13, <1>14, TablesStep

LEMMA PostKeeps ==
  ASSUME RepairingInv, NEW i \in WorkItems, NEW t \in StatusIds, Repairing!CreateWithStatus(i, t)
  PROVE  RepairingInv'
<1>1. /\ UNCHANGED <<workflows, statuses, transitions, job, edited, shared, split, moved>>
      /\ status_of' = [status_of EXCEPT ![i] = t] /\ stray' = stray \cup {i}
  BY DEF Repairing!CreateWithStatus
<1>2. RepairingType'
  BY <1>1 DEF RepairingInv, RepairingType
<1>3. TablesSound(workflows, statuses, status_of', edited, shared, split, moved, stray')
  BY <1>1 DEF RepairingInv, RepairingType, TablesSound
<1>4. Forward(workflows, workflows, statuses, statuses, transitions, transitions, edited, edited)
  BY DEF Forward
<1> QED BY <1>1, <1>2, <1>3, <1>4, TablesStep DEF RepairingInv

LEMMA AutomateKeeps ==
  ASSUME RepairingInv, NEW i \in WorkItems, NEW key \in Known, Repairing!Automate(i, key)
  PROVE  RepairingInv'
<1>1. PICK t \in StatusIds :
        /\ \/ UNCHANGED statuses
           \/ t = Repairing!NextFree(statuses) /\ Repairing!Insert(t, NULL, key)
        /\ status_of' = [status_of EXCEPT ![i] = t]
  BY DEF Repairing!Automate, Repairing!StatusIds, StatusIds
<1>2. UNCHANGED <<workflows, transitions, job, edited, shared, split, moved>> /\ stray' = stray \cup {i}
  BY DEF Repairing!Automate
<1>3. /\ statuses' \in [StatusIds -> StatusRows \cup {NULL}]
      /\ \A u \in StatusIds : statuses[u] # NULL => statuses'[u] = statuses[u]
      /\ \A w \in WorkflowIds : \A k : Find(statuses', w, k) = Find(statuses, w, k)
  <2>1. CASE UNCHANGED statuses
    BY <2>1 DEF RepairingInv, RepairingType
  <2>2. CASE t = Repairing!NextFree(statuses) /\ Repairing!Insert(t, NULL, key)
    <3>1. NULL \notin WorkflowIds
      BY NullAssumption, BoundAssumption DEF WorkflowIds
    <3> QED BY <2>2, <3>1, InsertFinds
  <2> QED BY <1>1, <2>1, <2>2
<1>4. RepairingType'
  BY <1>1, <1>2, <1>3 DEF RepairingInv, RepairingType
<1>5. TablesSound(workflows, statuses', status_of', edited, shared, split, moved, stray')
  BY <1>1, <1>2, <1>3 DEF RepairingInv, RepairingType, TablesSound
<1>6. Forward(workflows, workflows, statuses, statuses', transitions, transitions, edited, edited)
  BY <1>3 DEF Forward
<1>7. ASSUME NEW q \in Requests, job[q].at = "add"
      PROVE  \A k : Find(statuses', job[q].workflow, k) \subseteq Find(statuses, job[q].workflow, k)
  <2>1. job[q].workflow \in WorkflowIds
    BY <1>7, JobIs DEF JobShaped, RepairPlaces
  <2> QED BY <1>3, <2>1
<1> QED BY <1>2, <1>4, <1>5, <1>6, <1>7, TablesStep DEF RepairingInv

LEMMA CreateWorkflowKeeps ==
  ASSUME RepairingInv, Repairing!CreateWorkflow
  PROVE  RepairingInv'
<1> DEFINE w == Repairing!NextFree(workflows)
<1>1. /\ w \in WorkflowIds /\ workflows' = [workflows EXCEPT ![w] = OtherProject]
      /\ UNCHANGED <<statuses, transitions, status_of, job, edited, shared, split, moved, stray>>
  BY DEF Repairing!CreateWorkflow, Repairing!WorkflowIds, WorkflowIds, Repairing!past
<1>2. workflows[w] = NULL
  BY <1>1, NextIsFree, BoundAssumption DEF RepairingInv, RepairingType, WorkflowIds
<1> HIDE DEF w
<1>3. \A v \in WorkflowIds : workflows'[v] = "project" <=> workflows[v] = "project"
  BY <1>1, <1>2, NullAssumption, TemplateAssumption DEF RepairingInv, RepairingType
<1>4. RepairingType'
  BY <1>1 DEF RepairingInv, RepairingType
<1>5. TablesSound(workflows', statuses, status_of, edited, shared, split, moved, stray)
  BY <1>3 DEF RepairingInv, TablesSound
<1>6. Forward(workflows, workflows', statuses, statuses, transitions, transitions, edited, edited)
  BY <1>3 DEF Forward
<1> QED BY <1>1, <1>4, <1>5, <1>6, TablesStep DEF RepairingInv

LEMMA AssignProjectKeeps ==
  ASSUME RepairingInv, NEW w \in WorkflowIds, NEW project \in {"project", OtherProject},
         Repairing!assign_project(w, project)
  PROVE  RepairingInv'
<1>1. /\ workflows' = [workflows EXCEPT ![w] = project]
      /\ split' = (split \/ (project = "project" /\ Repairing!OfProject # {}))
      /\ moved' = (moved \/ project = OtherProject)
      /\ UNCHANGED <<statuses, transitions, status_of, job, edited, shared, stray>>
  BY DEF Repairing!assign_project, Repairing!Project
<1>2. \A v \in WorkflowIds : workflows'[v] = IF v = w THEN project ELSE workflows[v]
  BY <1>1 DEF RepairingInv, RepairingType
<1>3. RepairingType'
  BY <1>1 DEF RepairingInv, RepairingType
<1>4. moved => moved'
  BY <1>1
<1>5. ASSUME ~moved'
      PROVE  ~moved /\ project = "project" /\ (split => split')
             /\ (~split' => ~split /\ \A v \in WorkflowIds : workflows[v] # "project")
  BY <1>1, <1>5, TemplateAssumption
     DEF Repairing!OfProject, Repairing!WorkflowIds, WorkflowIds, Repairing!Project, RepairingInv, RepairingType
<1>6. TablesSound(workflows', statuses', status_of', edited', shared', split', moved', stray')
  BY <1>1, <1>2, <1>5 DEF RepairingInv, TablesSound
<1>7. ~moved' => Forward(workflows, workflows', statuses, statuses', transitions, transitions', edited, edited')
  BY <1>1, <1>2, <1>5 DEF Forward
<1> QED BY <1>1, <1>3, <1>4, <1>6, <1>7, TablesStep DEF RepairingInv

LEMMA UpdateStatusKeeps ==
  ASSUME RepairingInv, NEW t \in StatusIds, NEW active \in BOOLEAN, Repairing!update_status(t, active)
  PROVE  RepairingInv'
<1> DEFINE w == statuses[t].workflow_id
<1>1. /\ statuses[t] # NULL /\ statuses' = [statuses EXCEPT ![t].is_active = active]
      /\ edited' = edited \cup {w}
      /\ UNCHANGED <<workflows, transitions, status_of, job, shared, split, moved, stray>>
  BY DEF Repairing!update_status
<1>2. /\ statuses[t] \in StatusRows /\ statuses'[t] \in StatusRows /\ statuses'[t] # NULL
      /\ statuses'[t].workflow_id = w /\ statuses' \in [StatusIds -> StatusRows \cup {NULL}]
      /\ \A u \in StatusIds \ {t} : statuses'[u] = statuses[u]
  <2>1. statuses[t] \in StatusRows
    BY <1>1 DEF RepairingInv, RepairingType
  <2>2. [statuses[t] EXCEPT !.is_active = active] \in StatusRows
        /\ [statuses[t] EXCEPT !.is_active = active].workflow_id = w
    BY <2>1 DEF StatusRows
  <2>3. [statuses[t] EXCEPT !.is_active = active] # NULL
    BY <2>2, NullAssumption DEF StatusRows, Known, WorkflowIds
  <2> QED BY <1>1, <2>1, <2>2, <2>3 DEF RepairingInv, RepairingType
<1>3. \A v : v # w => \A k : Find(statuses', v, k) = Find(statuses, v, k)
  BY <1>2 DEF Find
<1> HIDE DEF w
<1>4. RepairingType'
  BY <1>1, <1>2 DEF RepairingInv, RepairingType
<1>5. TablesSound(workflows', statuses', status_of', edited', shared', split', moved', stray')
  <2> SUFFICES ASSUME ~moved PROVE TablesSound(workflows, statuses', status_of, edited', shared, split, moved, stray)
    BY <1>1 DEF TablesSound
  <2>1. \A v \in WorkflowIds \ (edited' \cup shared) : \A k \in Known : \A t1, u \in Find(statuses', v, k) : t1 = u
    BY <1>1, <1>3 DEF RepairingInv, TablesSound
  <2>2. ASSUME NEW i \in WorkItems \ stray, status_of[i] # NULL
        PROVE  /\ statuses'[status_of[i]] # NULL /\ statuses'[status_of[i]].workflow_id \in WorkflowIds
               /\ workflows[statuses'[status_of[i]].workflow_id] = "project"
    <3>1. /\ statuses[status_of[i]] # NULL /\ statuses[status_of[i]].workflow_id \in WorkflowIds
          /\ workflows[statuses[status_of[i]].workflow_id] = "project" /\ status_of[i] \in StatusIds
      BY <2>2 DEF RepairingInv, RepairingType, TablesSound
    <3> QED BY <1>2, <3>1 DEF w
  <2>3. ~split => \A v, u \in WorkflowIds : workflows[v] = "project" /\ workflows[u] = "project" => v = u
    BY DEF RepairingInv, TablesSound
  <2> QED BY <2>1, <2>2, <2>3 DEF TablesSound
<1>6. Forward(workflows, workflows', statuses, statuses', transitions, transitions', edited, edited')
  BY <1>1, <1>2 DEF Forward, w
<1> QED BY <1>1, <1>3, <1>4, <1>5, <1>6, TablesStep DEF RepairingInv

LEMMA AddStatusKeeps ==
  ASSUME RepairingInv, NEW w \in WorkflowIds, NEW key \in Known, Repairing!add_status(w, key)
  PROVE  RepairingInv'
<1> DEFINE t == Repairing!NextFree(statuses)
<1>1. /\ t = Repairing!NextFree(statuses) /\ t \in StatusIds /\ Repairing!Insert(t, w, key)
      /\ edited' = edited \cup {w}
      /\ UNCHANGED <<workflows, transitions, status_of, job, shared, split, moved, stray>>
  BY DEF Repairing!add_status, Repairing!StatusIds, StatusIds
<1> HIDE DEF t
<1>2. /\ statuses[t] = NULL /\ statuses' \in [StatusIds -> StatusRows \cup {NULL}]
      /\ \A u \in StatusIds \ {t} : statuses'[u] = statuses[u]
      /\ \A v : v # w => \A k : Find(statuses', v, k) = Find(statuses, v, k)
  BY <1>1, InsertFinds
<1>4. RepairingType'
  BY <1>1, <1>2 DEF RepairingInv, RepairingType
<1>5. TablesSound(workflows', statuses', status_of', edited', shared', split', moved', stray')
  <2> SUFFICES ASSUME ~moved PROVE TablesSound(workflows, statuses', status_of, edited', shared, split, moved, stray)
    BY <1>1 DEF TablesSound
  <2>1. \A v \in WorkflowIds \ (edited' \cup shared) : \A k \in Known : \A t1, u \in Find(statuses', v, k) : t1 = u
    BY <1>1, <1>2 DEF RepairingInv, TablesSound
  <2>2. ASSUME NEW i \in WorkItems \ stray, status_of[i] # NULL
        PROVE  /\ statuses'[status_of[i]] # NULL /\ statuses'[status_of[i]].workflow_id \in WorkflowIds
               /\ workflows[statuses'[status_of[i]].workflow_id] = "project"
    <3>1. /\ statuses[status_of[i]] # NULL /\ statuses[status_of[i]].workflow_id \in WorkflowIds
          /\ workflows[statuses[status_of[i]].workflow_id] = "project" /\ status_of[i] \in StatusIds
      BY <2>2 DEF RepairingInv, RepairingType, TablesSound
    <3> QED BY <1>2, <3>1
  <2>3. ~split => \A v, u \in WorkflowIds : workflows[v] = "project" /\ workflows[u] = "project" => v = u
    BY DEF RepairingInv, TablesSound
  <2> QED BY <2>1, <2>2, <2>3 DEF TablesSound
<1>6. Forward(workflows, workflows', statuses, statuses', transitions, transitions', edited, edited')
  BY <1>1, <1>2 DEF Forward
<1> QED BY <1>1, <1>2, <1>4, <1>5, <1>6, TablesStep DEF RepairingInv

LEMMA EraseKeeps ==
  ASSUME RepairingInv, NEW r \in Requests, Repairing!DeleteCommit(r)
  PROVE  RepairingInv'
<1>1. /\ workflows' = [workflows EXCEPT ![job[r].workflow] = NULL]
      /\ statuses' = [t \in StatusIds |-> IF t \in job[r].target THEN NULL ELSE statuses[t]]
      /\ moved' = TRUE /\ UNCHANGED <<status_of, edited, shared, split, stray>>
      /\ job' = [job EXCEPT ![r] = Repairing!NoJob]
  BY DEF Repairing!DeleteCommit, Repairing!NoMore, Repairing!StatusIds, StatusIds
<1>2. RepairingType'
  <2>1. job' \in [Requests -> Jobs] /\ \A q \in Requests : JobShaped(job'[q])
    BY <1>1, NoJobSound DEF RepairingInv, RepairingType
  <2> QED BY <1>1, <2>1 DEF RepairingInv, RepairingType
<1>3. \A q \in Requests : job'[q] = IF q = r THEN Repairing!NoJob ELSE job[q]
  BY <1>1 DEF RepairingInv, RepairingType
<1>4. Alone(job', shared')
  BY <1>1, <1>3, NoJobSound DEF RepairingInv, Alone, RepairPlaces
<1>5. TablesSound(workflows', statuses', status_of', edited', shared', split', moved', stray')
  BY <1>1 DEF TablesSound
<1>6. \A q \in Requests : JobSound(job'[q], workflows', statuses', transitions', edited', shared', moved')
  BY <1>1 DEF JobSound
<1> QED BY <1>1, <1>2, <1>4, <1>5, <1>6, TablesStep

LEMMA RepairingNext == RepairingInv /\ Repairing!Next => RepairingInv'
<1> SUFFICES ASSUME RepairingInv, Repairing!Next PROVE RepairingInv'
  OBVIOUS
<1> USE DEF Repairing!WorkflowIds, WorkflowIds, Repairing!StatusIds, StatusIds
<1>1. ASSUME NEW r \in Requests, Repairing!Use(r) PROVE RepairingInv'
  <2>1. CASE Repairing!Ask(r, "read", NULL, NULL)
    BY <2>1, AskKeeps
  <2>2. CASE \E i \in WorkItems : Repairing!Ask(r, "create", i, NULL)
    BY <2>2, AskKeeps
  <2>3. CASE \E i \in WorkItems : \E t \in StatusIds : Repairing!Ask(r, "move", i, t)
    BY <2>3, AskKeeps
  <2>4. CASE Repairing!Stop(r)
    BY <2>4, EndStep DEF Repairing!Stop, Repairing!past
  <2> QED BY <1>1, <2>1, <2>2, <2>3, <2>4, GetKeeps, CreateDefaultKeeps, EnsureKeeps, CreateStatusKeeps,
             LinkKeeps, ReturnKeeps, TakeKeeps, ValidateKeeps, SaveKeeps DEF Repairing!Use
<1>2. ASSUME Repairing!Interfere PROVE RepairingInv'
  <2>1. \A m \in DOMAIN Keys : Keys[m] \in Known
    BY DEF Known
  <2>2. CASE \E i \in WorkItems, t \in StatusIds : Repairing!CreateWithStatus(i, t)
    BY <2>2, PostKeeps
  <2>3. CASE \E i \in WorkItems, m \in DOMAIN Keys : Repairing!Automate(i, Keys[m])
    BY <2>1, <2>3, AutomateKeeps
  <2>4. CASE \E w \in WorkflowIds : \E m \in DOMAIN Keys : Repairing!add_status(w, Keys[m])
    BY <2>1, <2>4, AddStatusKeeps
  <2>5. CASE \E w \in WorkflowIds : \E project \in {"project", OtherProject} : Repairing!assign_project(w, project)
    BY <2>5, AssignProjectKeeps
  <2>6. CASE \E w \in WorkflowIds : \E r \in Requests : Repairing!DeleteLoad(r, w)
    BY <2>6, DeleteLoadKeeps
  <2>7. CASE \E t \in StatusIds, active \in BOOLEAN : Repairing!update_status(t, active)
    BY <2>7, UpdateStatusKeeps
  <2> QED BY <1>2, <2>2, <2>3, <2>4, <2>5, <2>6, <2>7, CreateWorkflowKeeps DEF Repairing!Interfere, Repairing!Project
<1> QED BY <1>1, <1>2, EraseKeeps DEF Repairing!Next

THEOREM RepairingHolds == Spec => [](part = "repairing" => RepairingInv)
<1>1. Init => (part = "repairing" => RepairingInv)
  BY RepairingInit DEF Init
<1>2. (part = "repairing" => RepairingInv) /\ [Next]_vars => (part = "repairing" => RepairingInv)'
  <2> SUFFICES ASSUME part = "repairing" => RepairingInv, [Next]_vars, part' = "repairing" PROVE RepairingInv'
    OBVIOUS
  <2>1. part = "repairing" /\ (Repairing!Next \/ UNCHANGED <<s1, s2, s3, s4, s5, s6, s7, s8, s9, s10>>)
    BY RepairingStep
  <2>2. CASE UNCHANGED <<s1, s2, s3, s4, s5, s6, s7, s8, s9, s10>>
    BY <2>1, <2>2 DEF RepairingInv, RepairingType
  <2> QED BY <2>1, <2>2, RepairingNext
<1> QED BY <1>1, <1>2, PTL DEF Spec

\* A call that goes on has a complete workflow in hand, also after one that stopped half-way.
THEOREM RepairedIsCompleteHolds == Spec => []RepairedIsComplete
<1>1. RepairingInv => Repairing!RepairedIsComplete
  <2> SUFFICES ASSUME RepairingInv, NEW r \in Requests, job[r].at \in {"use", "save"},
                      job[r].workflow \notin edited, ~moved
               PROVE  LET w == job[r].workflow
                      IN /\ \A m \in DOMAIN Keys : Repairing!find_status(w, Keys[m]) # {}
                         /\ \A n \in DOMAIN Links :
                              \E from \in Repairing!find_status(w, Links[n][1]),
                                 to \in Repairing!find_status(w, Links[n][2]) :
                                [workflow_id |-> w, from |-> from, to |-> to] \in transitions
    BY Zenon DEF Repairing!RepairedIsComplete
  <2> DEFINE w == job[r].workflow
  <2>1. /\ \A m \in DOMAIN Keys : Find(statuses, w, Keys[m]) # {}
        /\ \A n \in DOMAIN Links : Linked(statuses, transitions, w, n)
    BY JobIs, Template DEF JobSound, UsePlaces
  <2> HIDE DEF w
  <2>2. ASSUME NEW m \in DOMAIN Keys PROVE Repairing!find_status(w, Keys[m]) # {}
    BY <2>1, FindIs
  <2>3. ASSUME NEW n \in DOMAIN Links
        PROVE  \E from \in Repairing!find_status(w, Links[n][1]), to \in Repairing!find_status(w, Links[n][2]) :
                 [workflow_id |-> w, from |-> from, to |-> to] \in transitions
    <3>1. /\ Repairing!find_status(w, Links[n][1]) = Find(statuses, w, Links[n][1])
          /\ Repairing!find_status(w, Links[n][2]) = Find(statuses, w, Links[n][2])
      BY FindIs
    <3> QED BY <2>1, <3>1 DEF Linked
  <2> QED BY <2>2, <2>3 DEF w
<1>2. (part = "repairing" => RepairingInv) => RepairedIsComplete
  BY <1>1 DEF RepairedIsComplete
<1> QED BY <1>2, RepairingHolds, PTL

\* Repairs one after another leave one active status per key.
THEOREM OneStatusPerKeyHolds == Spec => []OneStatusPerKey
<1>1. RepairingInv => Repairing!OneStatusPerKey
  <2> SUFFICES ASSUME RepairingInv, ~moved, NEW w \in WorkflowIds \ (edited \cup shared), NEW m \in DOMAIN Keys
               PROVE  Repairing!Cardinality(Find(statuses, w, Keys[m])) <= 1
    BY FindIs DEF Repairing!OneStatusPerKey, Repairing!WorkflowIds, WorkflowIds
  <2> DEFINE S == Find(statuses, w, Keys[m])
  <2>1. \A t, u \in S : t = u
    BY DEF RepairingInv, TablesSound, Known
  <2> HIDE DEF S
  <2>2. Repairing!Cardinality(S) = Cardinality(S)
    BY DEF Repairing!Cardinality, Cardinality
  <2>3. S = {} \/ \E t : S = {t}
    BY <2>1
  <2>4. Cardinality(S) <= 1
    <3>1. CASE S = {}
      <4>1. Cardinality(S) = 0
        BY <3>1, FS_EmptySet, Zenon
      <4> QED BY <4>1
    <3>2. CASE \E t : S = {t}
      <4>1. Cardinality(S) = 1
        BY <3>2, FS_Singleton, Zenon
      <4> QED BY <4>1
    <3> QED BY <2>3, <3>1, <3>2
  <2> QED BY <2>2, <2>4 DEF S
<1>2. (part = "repairing" => RepairingInv) => OneStatusPerKey
  BY <1>1 DEF OneStatusPerKey
<1> QED BY <1>2, RepairingHolds, PTL

\* An item's status is one of its project's workflow, unless a rule or a POST wrote it.
THEOREM StatusOfProjectHolds == Spec => []StatusOfProject
<1>1. RepairingInv => Repairing!StatusOfProject
  <2> SUFFICES ASSUME RepairingInv, NEW i \in WorkItems \ stray, status_of[i] # NULL, ~moved
               PROVE  /\ statuses[status_of[i]] # NULL
                      /\ statuses[status_of[i]].workflow_id \in
                           IF split THEN Repairing!OfProject ELSE {Repairing!Min(Repairing!OfProject)}
    BY DEF Repairing!StatusOfProject
  <2> DEFINE w == statuses[status_of[i]].workflow_id
  <2>1. statuses[status_of[i]] # NULL /\ w \in Repairing!OfProject
    BY DEF RepairingInv, TablesSound, Repairing!OfProject, Repairing!WorkflowIds, WorkflowIds, Repairing!Project
  <2>2. ASSUME ~split PROVE w = Repairing!Min(Repairing!OfProject)
    <3>1. Repairing!OfProject \subseteq Nat /\ Repairing!OfProject \subseteq {w}
      BY <2>1, <2>2, BoundAssumption
         DEF RepairingInv, TablesSound, Repairing!OfProject, Repairing!WorkflowIds, WorkflowIds, Repairing!Project
    <3> HIDE DEF w
    <3>2. Repairing!Min(Repairing!OfProject) \in Repairing!OfProject
      BY <2>1, <3>1, HasMin DEF Repairing!Min
    <3> QED BY <3>1, <3>2
  <2> QED BY <2>1, <2>2
<1>2. (part = "repairing" => RepairingInv) => StatusOfProject
  BY <1>1 DEF StatusOfProject
<1> QED BY <1>2, RepairingHolds, PTL

-----------------------------------------------------------------------------
(* The audit trail of an item                                              *)

item == s1
rules == s2
trail == s3
work == s4
unclear == s5
USE DEF item, rules, trail, work, unclear

Fields == {"status", "priority"}
Rows == [Fields -> Values]
RuleIds == 1..MaxRule
Rules == [RuleIds -> Shapes \cup {NULL}]
TrailRows == [action : {"changed", "executed"}, field : Fields \cup {"created", "comment", "test", NULL},
              new_value : Values \cup {NULL}]
InRule == {"rule", "match", "act", "executed"}
WithRule == {"match", "act", "executed"}

\* A call's record; what its body and due are does not matter.
CallType(c) ==
  c \in [op : {"none", "create", "update", "comment", "test"},
         at : {"idle", "write", "notify", "audit", "rules", "done"} \cup InRule,
         before : Rows \cup {NULL}, body : {c.body}, n : {1, 2}, row : Rows \cup {NULL},
         queue : SUBSET RuleIds, listed : Rules \cup {NULL}, rule : Shapes \cup {NULL},
         alone : BOOLEAN, due : {c.due}]

\* Where it can be.
CallShaped(c) ==
  /\ CallType(c)
  /\ \A f \in Fields \cap DOMAIN c.body : c.body[f] \in Values
  /\ c.op = "create" => c.body \in Rows
  /\ c.n = 2 => c.op = "update" /\ c.at \in {"notify", "audit", "rules"} \cup InRule
  /\ c.at = "write" => c.op \in {"create", "update"}
  /\ c.at \in {"notify", "audit"} => c.op \in {"create", "update", "comment"}
  /\ c.at \in InRule => c.queue # {}
  /\ c.at \in WithRule => c.rule \in Shapes
  /\ c.at # "idle" => c.op # "none"

TrailType ==
  /\ item \in Rows \cup {NULL} /\ rules \in Rules /\ trail \in Seq(TrailRows)
  /\ work = [r \in Requests |-> work[r]] /\ \A r \in Requests : CallShaped(work[r])

\* The last row about a field, when it is of a change, names the value the field has.
Accounted(f, tr, it) ==
  \A n \in 1..Len(tr) :
    /\ tr[n].field = f /\ tr[n].action = "changed"
    /\ \A m \in 1..Len(tr) : tr[m].field = f => m <= n
    => tr[n].new_value = it[f]

\* It does, or will once the call has audited the field, or the rule.
Yet(c, f) == c.at = "notify" \/ (c.at = "audit" /\ (f = "priority" \/ c.n = 1))
InProgress(c, tr, it, f) ==
  \/ Accounted(f, tr, it)
  \/ c.op = "update" /\ Yet(c, f) /\ f \in DOMAIN c.body /\ it[f] # c.before[f]
  \/ c.at = "executed" /\ c.rule.does = "update" /\ c.rule.field = f

\* A call to itself has the present item, when it has one.
Fresh(c, it) ==
  /\ c.row # NULL => c.row = it
  /\ c.at = "write" /\ c.op = "update" => c.row = it /\ c.before = it

Unwritten(tr, wk) ==
  /\ \A n \in 1..Len(tr) : tr[n].field \notin Fields
  /\ \A r \in Requests : wk[r].at = "idle" \/ (wk[r].at = "write" /\ wk[r].op = "create")

OneCreator(it, wk) ==
  /\ \A q, r \in Requests : wk[q].op = "create" /\ wk[r].op = "create" => q = r
  /\ \A r \in Requests : wk[r].at = "write" /\ wk[r].op = "create" => it = NULL

CallsAccount(it, tr, wk, un) ==
  \A r \in Requests : wk[r].at # "idle" =>
    IF wk[r].alone
    THEN /\ \A q \in Requests \ {r} : wk[q].at = "idle"
         /\ Fresh(wk[r], it)
         /\ \A f \in Fields \ un : InProgress(wk[r], tr, it, f)
    ELSE Fields \subseteq un

TrailInv ==
  /\ TrailType
  /\ item = NULL => Unwritten(trail, work)
  /\ OneCreator(item, work)
  /\ CallsAccount(item, trail, work, unclear)
  /\ (\A r \in Requests : work[r].at = "idle") => \A f \in Fields \ unclear : Accounted(f, trail, item)

LEMMA ChangingStep ==
  ASSUME [Next]_vars, part' = "changing"
  PROVE  /\ part = "changing"
         /\ Changing!Next \/ UNCHANGED <<s1, s2, s3, s4, s5>>
BY DEF Next, vars

LEMMA FieldsAre == Changing!Fields = Fields
<1>1. Changing!FieldOrder = <<"status", "priority">> /\ DOMAIN <<"status", "priority">> = {1, 2}
  BY DEF Changing!FieldOrder
<1> QED BY <1>1 DEF Changing!Fields, Changing!Range, Fields

LEMMA IdleShaped ==
  CallShaped(Changing!Idle) /\ Changing!Idle.at = "idle" /\ Changing!Idle.op = "none" /\ Changing!Idle.n = 1
<1>1. CallType(Changing!Idle)
  BY DEF CallType, Changing!Idle
<1>2. /\ Changing!Idle.at = "idle" /\ Changing!Idle.op = "none" /\ Changing!Idle.n = 1
      /\ Changing!Idle.body = <<>>
  BY DEF Changing!Idle
<1>3. Fields \cap DOMAIN Changing!Idle.body = {}
  <2>1. DOMAIN <<>> = {}
    OBVIOUS
  <2> QED BY <1>2, <2>1
<1> QED BY <1>1, <1>2, <1>3 DEF CallShaped, InRule, WithRule

LEMMA TrailInit == Changing!Init => TrailInv
<1> SUFFICES ASSUME Changing!Init PROVE TrailInv
  OBVIOUS
<1>1. /\ item = NULL /\ trail = <<>> /\ rules \in Rules /\ work = [r \in Requests |-> Changing!Idle]
  BY DEF Changing!Init, Changing!RuleIds, RuleIds, Rules
<1>2. Len(trail) = 0 /\ trail \in Seq(TrailRows)
  BY <1>1
<1>3. TrailType
  BY <1>1, <1>2, IdleShaped DEF TrailType
<1>4. \A f : Accounted(f, trail, item)
  BY <1>2 DEF Accounted
<1> QED BY <1>1, <1>2, <1>3, <1>4, IdleShaped DEF TrailInv, Unwritten, OneCreator, CallsAccount

\* A call goes on.
LEMMA GoesOn ==
  ASSUME TrailInv, NEW r \in Requests, work[r].at # "idle", NEW c, CallShaped(c),
         c.at \notin {"idle", "write"}, c.op = work[r].op, c.alone = work[r].alone,
         work' = [work EXCEPT ![r] = c], rules' = rules,
         item' \in Rows, trail' \in Seq(TrailRows),
         ~work[r].alone => unclear' = unclear,
         work[r].alone => Fresh(c, item') /\ \A f \in Fields \ unclear' : InProgress(c, trail', item', f)
  PROVE  TrailInv'
<1>1. \A q \in Requests : work'[q] = IF q = r THEN c ELSE work[q]
  BY DEF TrailInv, TrailType
<1>2. work' = [q \in Requests |-> work'[q]]
  BY DEF TrailInv, TrailType
<1>3. TrailType'
  BY <1>1, <1>2 DEF TrailInv, TrailType
<1>4. item' # NULL
  BY NullAssumption DEF Rows, Fields
<1>5. \A q \in Requests \ {r} : ~(work[q].at = "write" /\ work[q].op = "create")
  BY DEF TrailInv, OneCreator, Unwritten
<1>6. OneCreator(item', work')
  <2>1. \A q, p \in Requests : work'[q].op = "create" /\ work'[p].op = "create" => q = p
    BY <1>1 DEF TrailInv, OneCreator
  <2>2. \A q \in Requests : ~(work'[q].at = "write" /\ work'[q].op = "create")
    BY <1>1, <1>5
  <2> QED BY <2>1, <2>2 DEF OneCreator
<1>7. CallsAccount(item', trail', work', unclear')
  <2> SUFFICES ASSUME NEW q \in Requests, work'[q].at # "idle"
               PROVE  IF work'[q].alone
                      THEN /\ \A p \in Requests \ {q} : work'[p].at = "idle"
                           /\ Fresh(work'[q], item')
                           /\ \A f \in Fields \ unclear' : InProgress(work'[q], trail', item', f)
                      ELSE Fields \subseteq unclear'
    BY DEF CallsAccount
  <2>1. CASE work[r].alone
    <3>1. \A p \in Requests \ {r} : work[p].at = "idle"
      BY <2>1 DEF TrailInv, CallsAccount
    <3>2. q = r
      BY <1>1, <3>1
    <3> QED BY <1>1, <2>1, <3>1, <3>2
  <2>2. CASE ~work[r].alone
    <3>1. Fields \subseteq unclear /\ unclear' = unclear
      BY <2>2 DEF TrailInv, CallsAccount
    <3>2. q # r => ~work[q].alone
      BY <1>1, <2>2 DEF TrailInv, CallsAccount
    <3> QED BY <1>1, <2>2, <3>1, <3>2
  <2> QED BY <2>1, <2>2
<1>8. ~(\A q \in Requests : work'[q].at = "idle")
  BY <1>1
<1> QED BY <1>3, <1>4, <1>6, <1>7, <1>8 DEF TrailInv

\* A call ends, in order or not.
LEMMA Ends ==
  ASSUME TrailInv, NEW r \in Requests, work' = [work EXCEPT ![r] = Changing!Idle], UNCHANGED <<item, rules, trail>>,
         unclear' = Changing!Fields \/ (unclear' = unclear /\ work[r].at = "done")
  PROVE  TrailInv'
<1>1. \A q \in Requests : work'[q] = IF q = r THEN Changing!Idle ELSE work[q]
  BY DEF TrailInv, TrailType
<1>2. work' = [q \in Requests |-> work'[q]]
  BY DEF TrailInv, TrailType
<1>3. TrailType'
  BY <1>1, <1>2, IdleShaped DEF TrailInv, TrailType
<1>4. item = NULL => Unwritten(trail, work')
  BY <1>1, IdleShaped DEF TrailInv, Unwritten
<1>5. OneCreator(item, work')
  BY <1>1, IdleShaped DEF TrailInv, OneCreator
<1>6. CASE unclear' = Changing!Fields
  <2>1. CallsAccount(item, trail, work', unclear')
    <3> SUFFICES ASSUME NEW q \in Requests, work'[q].at # "idle"
                 PROVE  IF work'[q].alone
                        THEN /\ \A p \in Requests \ {q} : work'[p].at = "idle"
                             /\ Fresh(work'[q], item)
                             /\ \A f \in Fields \ unclear' : InProgress(work'[q], trail, item, f)
                        ELSE Fields \subseteq unclear'
      BY DEF CallsAccount
    <3> QED BY <1>1, <1>6, FieldsAre, IdleShaped DEF TrailInv, CallsAccount
  <2> QED BY <1>3, <1>4, <1>5, <1>6, <2>1, FieldsAre DEF TrailInv
<1>7. CASE unclear' = unclear /\ work[r].at = "done"
  <2>1. CallsAccount(item, trail, work', unclear)
    <3> SUFFICES ASSUME NEW q \in Requests, work'[q].at # "idle"
                 PROVE  IF work'[q].alone
                        THEN /\ \A p \in Requests \ {q} : work'[p].at = "idle"
                             /\ Fresh(work'[q], item)
                             /\ \A f \in Fields \ unclear : InProgress(work'[q], trail, item, f)
                        ELSE Fields \subseteq unclear
      BY DEF CallsAccount
    <3> QED BY <1>1, IdleShaped DEF TrailInv, CallsAccount
  <2>2. \A f \in Fields \ unclear : Accounted(f, trail, item)
    BY <1>7 DEF TrailInv, CallsAccount, InProgress, Yet
  <2> QED BY <1>3, <1>4, <1>5, <1>7, <2>1, <2>2 DEF TrailInv
<1> QED BY <1>6, <1>7

\* What a call was doing.
LEMMA CallIs ==
  ASSUME TrailInv, NEW r \in Requests, work[r].at \notin {"idle", "write"}
  PROVE  /\ CallShaped(work[r]) /\ CallType(work[r]) /\ item \in Rows /\ item # NULL
         /\ work[r].alone \in BOOLEAN /\ trail \in Seq(TrailRows)
         /\ work[r].alone => Fresh(work[r], item) /\ \A f \in Fields \ unclear : InProgress(work[r], trail, item, f)
<1>1. CallShaped(work[r]) /\ CallType(work[r])
  BY DEF TrailInv, TrailType, CallShaped
<1>2. item # NULL
  BY DEF TrailInv, Unwritten
<1>3. work[r].alone \in BOOLEAN
  BY <1>1 DEF CallType
<1> QED BY <1>1, <1>2, <1>3 DEF TrailInv, TrailType, CallsAccount

\* A call that goes on without writing.
LEMMA ReadsOn ==
  ASSUME TrailInv, NEW r \in Requests, work[r].at \notin {"idle", "write"}, NEW c, CallShaped(c),
         c.at \notin {"idle", "write"}, c.op = work[r].op, c.alone = work[r].alone,
         work' = [work EXCEPT ![r] = c], UNCHANGED <<item, rules, trail, unclear>>,
         work[r].alone => c.row \in {work[r].row, item, NULL} /\
           \A f \in Fields \ unclear : InProgress(work[r], trail, item, f) => InProgress(c, trail, item, f)
  PROVE  TrailInv'
<1>1. /\ item \in Rows /\ trail \in Seq(TrailRows)
      /\ work[r].alone => Fresh(work[r], item) /\ \A f \in Fields \ unclear : InProgress(work[r], trail, item, f)
  BY CallIs
<1>2. work[r].alone => Fresh(c, item)
  BY <1>1 DEF Fresh
<1> QED BY <1>1, <1>2, GoesOn

\* The fields are gone through in each phase of an update, and one thing in others.
LEMMA TriggersAre ==
  ASSUME NEW r, work[r].op \in {"create", "update", "comment", "test"}
  PROVE  /\ work[r].op = "update" => /\ Len(Changing!Triggers(r)) = 2
                                     /\ work[r].n = 1 => Changing!Here(r) = "status"
                                     /\ work[r].n = 2 => Changing!Here(r) = "priority"
         /\ work[r].op # "update" => /\ Len(Changing!Triggers(r)) = 1
                                     /\ work[r].n = 1 => Changing!Here(r) \in {"created", "comment", "test"}
<1>1. CASE work[r].op = "update"
  <2>1. Changing!Triggers(r) = <<"status", "priority">>
    BY <1>1 DEF Changing!Triggers, Changing!FieldOrder
  <2> QED BY <1>1, <2>1 DEF Changing!Here
<1>2. CASE work[r].op # "update"
  <2>1. Changing!Triggers(r) \in {<<"created">>, <<"comment">>, <<"test">>}
    BY <1>2 DEF Changing!Triggers
  <2> QED BY <1>2, <2>1 DEF Changing!Here
<1> QED BY <1>1, <1>2

PhaseAfter(at) == CASE at = "notify" -> "audit" [] at = "audit" -> "rules" [] OTHER -> "done"

LEMMA OnwardIs ==
  ASSUME NEW r, NEW call, CallShaped(call), call.op = work[r].op, call.at \in {"notify", "audit", "rules"},
         NEW c, c = Changing!Onward(call, r)
  PROVE  /\ CallShaped(c) /\ c.op = call.op /\ c.alone = call.alone /\ c.row = call.row
         /\ c.before = call.before /\ c.body = call.body /\ c.rule = call.rule
         /\ c.listed = call.listed /\ c.due = call.due
         /\ \/ call.op = "update" /\ call.n = 1 /\ c.n = 2 /\ c.at = call.at
            \/ (call.op = "update" => call.n = 2) /\ c.n = 1 /\ c.at = PhaseAfter(call.at)
<1>1. CallType(call) /\ call.op \in {"create", "update", "comment", "test"} /\ call.n \in {1, 2}
      /\ (call.n = 2 => call.op = "update")
  BY DEF CallShaped, CallType
<1>2. Len(Changing!Triggers(r)) = IF call.op = "update" THEN 2 ELSE 1
  BY <1>1, TriggersAre
<1>3. CASE call.op = "update" /\ call.n = 1
  <2>1. c = [call EXCEPT !.n = @ + 1]
    BY <1>2, <1>3 DEF Changing!Onward
  <2>2. /\ c.op = call.op /\ c.at = call.at /\ c.before = call.before /\ c.body = call.body /\ c.n = 2
        /\ c.row = call.row /\ c.queue = call.queue /\ c.listed = call.listed /\ c.rule = call.rule
        /\ c.alone = call.alone /\ c.due = call.due /\ CallType(c)
    BY <1>1, <1>3, <2>1 DEF CallType
  <2>3. CallShaped(c)
    BY <1>3, <2>2 DEF CallShaped, InRule, WithRule
  <2> QED BY <1>3, <2>2, <2>3
<1>4. CASE ~(call.op = "update" /\ call.n = 1)
  <2>1. c = [call EXCEPT !.n = 1, !.at = Changing!NextPhase(call.at)]
    BY <1>1, <1>2, <1>4 DEF Changing!Onward
  <2>2. Changing!NextPhase(call.at) = PhaseAfter(call.at) /\ PhaseAfter(call.at) \in {"audit", "rules", "done"}
    BY DEF Changing!NextPhase, PhaseAfter
  <2>3. /\ c.op = call.op /\ c.at = PhaseAfter(call.at) /\ c.before = call.before /\ c.body = call.body /\ c.n = 1
        /\ c.row = call.row /\ c.queue = call.queue /\ c.listed = call.listed /\ c.rule = call.rule
        /\ c.alone = call.alone /\ c.due = call.due /\ CallType(c)
    BY <1>1, <2>1, <2>2 DEF CallType
  <2>4. CallShaped(c)
    BY <1>1, <2>2, <2>3 DEF CallShaped, InRule, WithRule, PhaseAfter
  <2> QED BY <1>1, <1>4, <2>3, <2>4
<1> QED BY <1>3, <1>4

LEMMA ExpiredIs ==
  ASSUME NEW call, CallShaped(call), NEW c, c = Changing!Expired(call)
  PROVE  /\ CallType(c) /\ c.op = call.op /\ c.at = call.at /\ c.before = call.before /\ c.body = call.body
         /\ c.n = call.n /\ c.row = NULL /\ c.queue = call.queue /\ c.rule = NULL /\ c.alone = call.alone
         /\ c.listed = NULL /\ c.due = call.due
         /\ call.at \notin WithRule => CallShaped(c)
<1>1. c = [call EXCEPT !.row = NULL, !.listed = NULL, !.rule = NULL] /\ CallType(call)
  BY DEF Changing!Expired, CallShaped
<1>2. /\ c.op = call.op /\ c.at = call.at /\ c.before = call.before /\ c.body = call.body /\ c.n = call.n
      /\ c.row = NULL /\ c.queue = call.queue /\ c.listed = NULL /\ c.rule = NULL
      /\ c.alone = call.alone /\ c.due = call.due /\ CallType(c)
  BY <1>1 DEF CallType
<1>3. call.at \notin WithRule => CallShaped(c)
  BY <1>2 DEF CallShaped
<1> QED BY <1>2, <1>3

LEMMA LoadKeeps ==
  ASSUME TrailInv, NEW r \in Requests, Changing!Load(r)
  PROVE  TrailInv'
<1> DEFINE c == [work[r] EXCEPT !.row = item]
<1>1. work[r].at \notin {"idle", "write"}
  BY DEF Changing!Load, Changing!Reads
<1>2. CallShaped(work[r]) /\ CallType(work[r]) /\ item \in Rows
  BY <1>1, CallIs
<1>3. work' = [work EXCEPT ![r] = c] /\ UNCHANGED <<item, rules, trail, unclear>>
  BY DEF Changing!Load, TrailInv, TrailType
<1>4. /\ c.op = work[r].op /\ c.at = work[r].at /\ c.before = work[r].before /\ c.body = work[r].body
      /\ c.n = work[r].n /\ c.row = item /\ c.queue = work[r].queue /\ c.rule = work[r].rule
      /\ c.alone = work[r].alone /\ CallType(c)
  BY <1>2 DEF CallType
<1> HIDE DEF c
<1>5. CallShaped(c)
  BY <1>2, <1>4 DEF CallShaped
<1>6. \A f : InProgress(work[r], trail, item, f) => InProgress(c, trail, item, f)
  BY <1>4 DEF InProgress, Yet
<1> QED BY <1>1, <1>3, <1>4, <1>5, <1>6, ReadsOn

\* Rows that are not about the fields tell nothing.
LEMMA NothingTold ==
  ASSUME NEW tr, \A n \in 1..Len(tr) : tr[n].field \notin Fields, NEW f \in Fields, NEW it
  PROVE  Accounted(f, tr, it)
BY DEF Accounted

LEMMA WriteKeeps ==
  ASSUME TrailInv, NEW r \in Requests, Changing!Write(r)
  PROVE  TrailInv'
<1> DEFINE call == work[r]
           new(f) == IF f \in DOMAIN call.body /\ (call.op = "create" \/ call.body[f] # call.row[f])
                     THEN call.body[f] ELSE item[f]
           moved_on == [call EXCEPT !.at = IF call.op = "create" THEN "audit" ELSE "notify"]
           c == Changing!Expired(moved_on)
<1>1. /\ call.at = "write" /\ item' = [f \in Fields |-> new(f)] /\ work' = [work EXCEPT ![r] = c]
      /\ UNCHANGED <<rules, trail, unclear>>
  BY FieldsAre DEF Changing!Write
<1>2. CallShaped(call) /\ CallType(call) /\ call.op \in {"create", "update"} /\ call.n = 1
  BY <1>1 DEF TrailInv, TrailType, CallShaped, CallType, InRule
<1>3. /\ moved_on.op = call.op /\ moved_on.at = IF call.op = "create" THEN "audit" ELSE "notify"
      /\ moved_on.before = call.before /\ moved_on.body = call.body /\ moved_on.n = 1
      /\ moved_on.alone = call.alone /\ CallType(moved_on)
  BY <1>2 DEF CallType
<1> HIDE DEF moved_on
<1>4. CallShaped(moved_on)
  BY <1>2, <1>3 DEF CallShaped, InRule, WithRule
<1>5. /\ CallShaped(c) /\ c.op = call.op /\ c.at = IF call.op = "create" THEN "audit" ELSE "notify"
      /\ c.before = call.before /\ c.body = call.body /\ c.n = 1 /\ c.row = NULL /\ c.alone = call.alone
  BY <1>3, <1>4, ExpiredIs DEF WithRule
<1> HIDE DEF c
<1>6. call.op = "create" => /\ call.body \in Rows
                            /\ \A n \in 1..Len(trail) : trail[n].field \notin Fields
  BY <1>1, <1>2 DEF CallShaped, TrailInv, OneCreator, Unwritten
<1>7. call.op = "update" => item \in Rows
  BY <1>1 DEF TrailInv, TrailType, Unwritten
<1>8. item' \in Rows /\ \A f \in Fields : item'[f] = new(f)
  <2>1. ASSUME NEW f \in Fields PROVE new(f) \in Values
    <3>1. f \in DOMAIN call.body => call.body[f] \in Values
      BY <1>2 DEF CallShaped
    <3>2. CASE call.op = "create"
      BY <1>6, <3>1, <3>2 DEF Rows
    <3>3. CASE call.op = "update"
      BY <1>7, <3>1, <3>3 DEF Rows
    <3> QED BY <1>2, <3>2, <3>3
  <2> HIDE DEF new
  <2> QED BY <1>1, <2>1 DEF Rows
<1>9. ASSUME call.alone, NEW f \in Fields \ unclear PROVE InProgress(c, trail, item', f)
  <2>1. CASE call.op = "create"
    BY <1>6, <2>1, NothingTold DEF InProgress
  <2>2. CASE call.op = "update"
    <3>1. call.row = item /\ call.before = item /\ InProgress(call, trail, item, f)
      BY <1>1, <1>9, <2>2 DEF TrailInv, CallsAccount, Fresh
    <3>2. Accounted(f, trail, item)
      BY <1>1, <3>1 DEF InProgress, Yet
    <3>3. CASE f \in DOMAIN call.body /\ call.body[f] # call.row[f]
      BY <1>5, <1>8, <2>2, <3>1, <3>3 DEF InProgress, Yet
    <3>4. CASE ~(f \in DOMAIN call.body /\ call.body[f] # call.row[f])
      <4>1. item'[f] = item[f]
        BY <1>8, <2>2, <3>4
      <4> QED BY <3>2, <4>1 DEF InProgress, Accounted
    <3> QED BY <3>3, <3>4
  <2> QED BY <1>2, <2>1, <2>2
<1>10. c.at \notin {"idle", "write"} /\ Fresh(c, item')
  BY <1>5 DEF Fresh
<1>11. trail' \in Seq(TrailRows)
  BY <1>1 DEF TrailInv, TrailType
<1> HIDE DEF new
<1> QED BY <1>1, <1>5, <1>8, <1>9, <1>10, <1>11, GoesOn

LEMMA NotifyKeeps ==
  ASSUME TrailInv, NEW r \in Requests, Changing!Notify(r)
  PROVE  TrailInv'
<1> DEFINE call == work[r]
           told == IF Changing!Changed(r) THEN Changing!Expired(call) ELSE call
           c == Changing!Onward(told, r)
<1>1. call.at = "notify" /\ work' = [work EXCEPT ![r] = c] /\ UNCHANGED <<item, rules, trail, unclear>>
  BY DEF Changing!Notify
<1>2. CallShaped(call)
  BY <1>1, CallIs
<1>3. /\ CallShaped(told) /\ told.op = call.op /\ told.at = "notify" /\ told.before = call.before
      /\ told.body = call.body /\ told.n = call.n /\ told.row \in {call.row, NULL} /\ told.alone = call.alone
  BY <1>1, <1>2, ExpiredIs DEF WithRule
<1> HIDE DEF told
<1>4. /\ CallShaped(c) /\ c.op = call.op /\ c.alone = call.alone /\ c.row = told.row
      /\ c.before = call.before /\ c.body = call.body
      /\ c.at = "notify" \/ (c.at = "audit" /\ c.n = 1)
  BY <1>3, OnwardIs DEF PhaseAfter
<1> HIDE DEF c
<1>5. \A f : InProgress(call, trail, item, f) => InProgress(c, trail, item, f)
  BY <1>1, <1>4 DEF InProgress, Yet
<1> QED BY <1>1, <1>3, <1>4, <1>5, ReadsOn

\* A row more: the others are still what they were.
LEMMA RowMore ==
  ASSUME NEW tr \in Seq(TrailRows), NEW row \in TrailRows, NEW f \in Fields, NEW it,
         \/ row.field # f /\ Accounted(f, tr, it)
         \/ row.field = f /\ (row.action # "changed" \/ row.new_value = it[f])
  PROVE  Accounted(f, Append(tr, row), it)
<1> DEFINE new == Append(tr, row)
<1>1. /\ Len(tr) \in Nat /\ Len(new) = Len(tr) + 1 /\ new[Len(new)] = row
      /\ \A n \in 1..Len(tr) : new[n] = tr[n]
  OBVIOUS
<1> HIDE DEF new
<1> SUFFICES ASSUME NEW n \in 1..Len(new), new[n].field = f, new[n].action = "changed",
                    \A m \in 1..Len(new) : new[m].field = f => m <= n
             PROVE  new[n].new_value = it[f]
  BY DEF Accounted, new
<1>2. CASE n = Len(new)
  BY <1>1, <1>2
<1>3. CASE n # Len(new)
  <2>1. n \in 1..Len(tr) /\ row.field # f
    BY <1>1, <1>3
  <2> QED BY <1>1, <2>1 DEF Accounted
<1> QED BY <1>2, <1>3

LEMMA AuditKeeps ==
  ASSUME TrailInv, NEW r \in Requests, Changing!Audit(r)
  PROVE  TrailInv'
<1> DEFINE call == work[r]
           f == Changing!Here(r)
           row == [action |-> "changed", field |-> f, new_value |-> IF f \in Fields THEN call.row[f] ELSE NULL]
           written == IF Changing!Changed(r) THEN Changing!Expired(call) ELSE call
           c == Changing!Onward(written, r)
<1>1. /\ call.at = "audit" /\ Changing!Ready(r) /\ work' = [work EXCEPT ![r] = c] /\ UNCHANGED <<item, rules>>
      /\ IF Changing!Changed(r)
         THEN trail' = Append(trail, row) /\ unclear' = IF call.alone THEN unclear \ {f} ELSE unclear
         ELSE UNCHANGED <<trail, unclear>>
  BY FieldsAre DEF Changing!Audit
<1>2. /\ CallShaped(call) /\ CallType(call) /\ item \in Rows /\ trail \in Seq(TrailRows)
      /\ call.alone => Fresh(call, item) /\ \A g \in Fields \ unclear : InProgress(call, trail, item, g)
  BY <1>1, CallIs
<1>3. /\ call.op \in {"create", "update", "comment"} /\ call.n \in {1, 2} /\ (call.n = 2 => call.op = "update")
  BY <1>1, <1>2 DEF CallShaped, CallType
<1>4. /\ call.op = "update" => f = IF call.n = 1 THEN "status" ELSE "priority"
      /\ call.op # "update" => f \in {"created", "comment", "test"}
  BY <1>3, TriggersAre
<1>5. f \in Fields /\ f \in DOMAIN call.body => call.row \in Rows /\ (call.alone => call.row = item)
  <2>1. f \in DOMAIN call.body => call.row # NULL
    BY <1>1 DEF Changing!Ready, Changing!Reads
  <2> QED BY <1>2, <2>1 DEF CallType, Fresh
<1>6. Changing!Changed(r) <=> (f \in Fields => f \in DOMAIN call.body /\ call.row[f] # call.before[f])
  BY FieldsAre DEF Changing!Changed
<1>7. Changing!Changed(r) => row \in TrailRows /\ (f \in Fields /\ call.alone => row.new_value = item[f])
  <2> SUFFICES ASSUME Changing!Changed(r)
               PROVE  row \in TrailRows /\ (f \in Fields /\ call.alone => row.new_value = item[f])
    OBVIOUS
  <2>1. f \in Fields \cup {"created", "comment", "test"}
    BY <1>3, <1>4 DEF Fields
  <2>2. CASE f \in Fields
    <3>1. row.new_value \in Values /\ (call.alone => row.new_value = item[f])
      BY <1>5, <1>6, <2>2 DEF Rows
    <3> QED BY <2>1, <3>1 DEF TrailRows
  <2>3. CASE f \notin Fields
    BY <2>1, <2>3 DEF TrailRows
  <2> QED BY <2>2, <2>3
<1>8. trail' \in Seq(TrailRows)
  BY <1>1, <1>2, <1>7
<1>9. /\ CallShaped(written) /\ written.op = call.op /\ written.at = "audit" /\ written.before = call.before
      /\ written.body = call.body /\ written.n = call.n /\ written.row \in {call.row, NULL} /\ written.alone = call.alone
  BY <1>1, <1>2, ExpiredIs DEF WithRule
<1> HIDE DEF written
<1>10. /\ CallShaped(c) /\ c.op = call.op /\ c.alone = call.alone /\ c.row = written.row
       /\ c.before = call.before /\ c.body = call.body
       /\ \/ call.op = "update" /\ call.n = 1 /\ c.n = 2 /\ c.at = "audit"
          \/ (call.op = "update" => call.n = 2) /\ c.n = 1 /\ c.at = "rules"
  BY <1>9, OnwardIs DEF PhaseAfter
<1> HIDE DEF c
<1>11. call.alone => Fresh(c, item)
  BY <1>2, <1>9, <1>10 DEF Fresh
<1>12. ASSUME call.alone, NEW g \in Fields \ unclear' PROVE InProgress(c, trail', item, g)
  <2>1. CASE g = f
    <3>1. CASE Changing!Changed(r)
      <4>1. row.field = f /\ row.new_value = item[f]
        BY <1>7, <1>12, <2>1, <3>1
      <4>2. Accounted(g, trail', item)
        BY <1>1, <1>2, <1>7, <2>1, <3>1, <4>1, RowMore
      <4> QED BY <4>2 DEF InProgress
    <3>2. CASE ~Changing!Changed(r)
      <4>1. InProgress(call, trail, item, g)
        BY <1>1, <1>2, <1>12, <3>2
      <4>2. Accounted(g, trail, item)
        BY <1>1, <1>5, <1>6, <1>12, <2>1, <3>2, <4>1 DEF InProgress
      <4> QED BY <1>1, <3>2, <4>2 DEF InProgress
    <3> QED BY <3>1, <3>2
  <2>2. CASE g # f
    <3>1. InProgress(call, trail, item, g)
      BY <1>1, <1>2, <1>12, <2>2
    <3>2. Accounted(g, trail, item) => Accounted(g, trail', item)
      BY <1>1, <1>2, <1>7, <2>2, RowMore
    <3>3. CASE Accounted(g, trail, item)
      BY <3>2, <3>3 DEF InProgress
    <3>4. CASE ~Accounted(g, trail, item)
      <4>1. call.op = "update" /\ Yet(call, g) /\ g \in DOMAIN call.body /\ item[g] # call.before[g]
        BY <1>1, <3>1, <3>4 DEF InProgress
      <4>2. g = "priority" /\ call.n = 1
        BY <1>1, <1>3, <1>4, <2>2, <4>1 DEF Yet, Fields
      <4> QED BY <1>10, <4>1, <4>2 DEF InProgress, Yet
    <3> QED BY <3>3, <3>4
  <2> QED BY <2>1, <2>2
<1>13. ~call.alone => unclear' = unclear
  BY <1>1
<1> HIDE DEF f, row
<1> QED BY <1>1, <1>2, <1>8, <1>10, <1>11, <1>12, <1>13, GoesOn

LEMMA EventKeeps ==
  ASSUME TrailInv, NEW r \in Requests, Changing!execute_for_event(r)
  PROVE  TrailInv'
<1> DEFINE call == work[r]
           found == Changing!list(Changing!Here(r))
           begun == [call EXCEPT !.at = "rule", !.queue = found, !.listed = rules]
           c == IF Changing!Changed(r) /\ found # {} THEN begun ELSE Changing!Onward(call, r)
<1>1. call.at = "rules" /\ work' = [work EXCEPT ![r] = c] /\ UNCHANGED <<item, rules, trail, unclear>>
  BY DEF Changing!execute_for_event
<1>2. CallShaped(call) /\ CallType(call) /\ rules \in Rules
  BY <1>1, CallIs DEF TrailInv, TrailType
<1>3. found \subseteq RuleIds
  BY DEF Changing!list, Changing!RuleIds, RuleIds
<1> HIDE DEF found
<1>4. ASSUME found # {} PROVE /\ CallShaped(begun) /\ begun.op = call.op /\ begun.at = "rule"
                              /\ begun.row = call.row /\ begun.alone = call.alone
  <2>1. /\ begun.op = call.op /\ begun.at = "rule" /\ begun.before = call.before /\ begun.body = call.body
        /\ begun.n = call.n /\ begun.row = call.row /\ begun.queue = found /\ begun.rule = call.rule
        /\ begun.alone = call.alone /\ CallType(begun)
    BY <1>2, <1>3 DEF CallType, InRule
  <2> HIDE DEF begun
  <2>2. CallShaped(begun)
    BY <1>1, <1>2, <1>4, <2>1 DEF CallShaped, InRule, WithRule
  <2> QED BY <2>1, <2>2
<1>5. LET o == Changing!Onward(call, r)
      IN /\ CallShaped(o) /\ o.op = call.op /\ o.alone = call.alone /\ o.row = call.row
         /\ o.at \in {"rules", "done"}
  BY <1>1, <1>2, OnwardIs DEF PhaseAfter
<1>6. /\ CallShaped(c) /\ c.op = call.op /\ c.alone = call.alone /\ c.row = call.row
      /\ c.at \in {"rule", "rules", "done"}
  BY <1>4, <1>5
<1> HIDE DEF c
<1>7. \A f : InProgress(call, trail, item, f) => InProgress(c, trail, item, f)
  BY <1>1 DEF InProgress, Yet
<1> QED BY <1>1, <1>6, <1>7, ReadsOn
\* A call that has gone through with a rule.
Running(c) ==
  /\ CallType(c) /\ c.op # "none"
  /\ \A f \in Fields \cap DOMAIN c.body : c.body[f] \in Values
  /\ c.op = "create" => c.body \in Rows
  /\ c.n = 2 => c.op = "update"

LEMMA SkipIs ==
  ASSUME NEW r, NEW call, Running(call), call.op = work[r].op, NEW c, c = Changing!Skip(call, r)
  PROVE  /\ CallShaped(c) /\ c.op = call.op /\ c.alone = call.alone /\ c.row = call.row
         /\ c.before = call.before /\ c.body = call.body /\ c.due = call.due
         /\ LET left == call.queue \ {Changing!First(call.queue)}
            IN \/ left # {} /\ c.at = "rule" /\ c.n = call.n /\ c.queue = left /\ c.listed = call.listed
               \/ /\ left = {} /\ c.listed = NULL
                  /\ \/ call.op = "update" /\ call.n = 1 /\ c.n = 2 /\ c.at = "rules"
                     \/ (call.op = "update" => call.n = 2) /\ c.at = "done"
<1> DEFINE left == call.queue \ {Changing!First(call.queue)}
           rest == [call EXCEPT !.queue = @ \ {Changing!First(@)}, !.rule = NULL, !.at = "rule"]
           next == [rest EXCEPT !.at = "rules", !.listed = NULL]
<1>1. c = IF rest.queue # {} THEN rest ELSE Changing!Onward(next, r)
  BY DEF Changing!Skip
<1>2. /\ rest.op = call.op /\ rest.at = "rule" /\ rest.body = call.body /\ rest.before = call.before
      /\ rest.n = call.n /\ rest.row = call.row /\ rest.rule = NULL /\ rest.listed = call.listed
      /\ rest.alone = call.alone /\ rest.due = call.due /\ rest.queue = left /\ CallType(rest)
  <2> HIDE DEF left
  <2>1. left \in SUBSET RuleIds /\ rest = [call EXCEPT !.queue = left, !.rule = NULL, !.at = "rule"]
    BY DEF Running, CallType, left
  <2> HIDE DEF rest
  <2> QED BY <2>1 DEF Running, CallType, InRule
<1> HIDE DEF rest
<1>3. rest.queue # {} => CallShaped(rest)
  BY <1>2 DEF Running, CallShaped, InRule, WithRule
<1>4. /\ next.op = call.op /\ next.at = "rules" /\ next.body = call.body /\ next.before = call.before
      /\ next.n = call.n /\ next.row = call.row /\ next.rule = NULL /\ next.listed = NULL
      /\ next.alone = call.alone /\ next.due = call.due /\ CallType(next)
  BY <1>2 DEF CallType, InRule
<1> HIDE DEF next
<1>5. CallShaped(next)
  BY <1>4 DEF Running, CallShaped, InRule, WithRule
<1>6. LET o == Changing!Onward(next, r)
      IN /\ CallShaped(o) /\ o.op = call.op /\ o.alone = call.alone /\ o.row = call.row
         /\ o.before = call.before /\ o.body = call.body /\ o.due = call.due /\ o.listed = NULL
         /\ \/ call.op = "update" /\ call.n = 1 /\ o.n = 2 /\ o.at = "rules"
            \/ (call.op = "update" => call.n = 2) /\ o.at = "done"
  BY <1>4, <1>5, OnwardIs DEF PhaseAfter
<1> HIDE DEF left
<1> QED BY <1>1, <1>2, <1>3, <1>6 DEF left

\* The rule whose turn it is.
LEMMA FirstIs ==
  ASSUME NEW queue \in SUBSET RuleIds, queue # {}
  PROVE  Changing!First(queue) \in RuleIds
<1>1. queue \subseteq 0..MaxRule /\ MaxRule \in Nat
  BY BoundAssumption DEF RuleIds
<1>2. \E x \in queue : \A y \in queue : x >= y
  BY <1>1, HasMax
<1>3. Changing!First(queue) \in queue
  BY <1>2 DEF Changing!First, Changing!Max
<1> QED BY <1>3

LEMMA FetchKeeps ==
  ASSUME TrailInv, NEW r \in Requests, Changing!Fetch(r)
  PROVE  TrailInv'
<1> DEFINE call == work[r]
           id == Changing!First(call.queue)
           rule == IF call.listed # NULL THEN call.listed[id] ELSE rules[id]
           c == [call EXCEPT !.rule = rule, !.at = "match"]
<1>1. /\ call.at = "rule" /\ UNCHANGED <<item, rules, trail>>
      /\ IF rule = NULL THEN Changing!Broken(r)
         ELSE work' = [work EXCEPT ![r].rule = rule, ![r].at = "match"] /\ UNCHANGED unclear
  BY DEF Changing!Fetch
<1>2. CASE rule = NULL
  BY <1>1, <1>2, Ends DEF Changing!Broken
<1>3. CASE rule # NULL
  <2>1. CallShaped(call) /\ CallType(call) /\ rules \in Rules /\ call.queue # {}
    BY <1>1, CallIs DEF TrailInv, TrailType, CallShaped, InRule
  <2>2. id \in RuleIds
    BY <2>1, FirstIs DEF CallType
  <2> HIDE DEF id
  <2>3. rule \in Shapes
    BY <1>3, <2>1, <2>2 DEF CallType, Rules
  <2>4. work' = [work EXCEPT ![r] = c]
    BY <1>1, <1>3 DEF TrailInv, TrailType
  <2> HIDE DEF rule
  <2>5. /\ c.op = call.op /\ c.at = "match" /\ c.before = call.before /\ c.body = call.body
        /\ c.n = call.n /\ c.row = call.row /\ c.queue = call.queue /\ c.rule = rule
        /\ c.alone = call.alone /\ CallType(c)
    BY <2>1, <2>3 DEF CallType, InRule
  <2> HIDE DEF c
  <2>6. CallShaped(c)
    BY <1>1, <2>1, <2>3, <2>5 DEF CallShaped, InRule, WithRule
  <2>7. \A f : InProgress(call, trail, item, f) => InProgress(c, trail, item, f)
    BY <1>1, <2>5 DEF InProgress, Yet
  <2> QED BY <1>1, <1>3, <2>4, <2>5, <2>6, <2>7, ReadsOn
<1> QED BY <1>2, <1>3

LEMMA MatchKeeps ==
  ASSUME TrailInv, NEW r \in Requests, Changing!_conditions_match(r)
  PROVE  TrailInv'
<1> DEFINE call == work[r]
           act == [call EXCEPT !.at = "act"]
           c == IF Changing!Malformed(call.rule) \/ ~Changing!Matches(call.rule, call.row)
                THEN Changing!Skip(call, r) ELSE act
<1>1. call.at = "match" /\ work' = [work EXCEPT ![r] = c] /\ UNCHANGED <<item, rules, trail, unclear>>
  BY DEF Changing!_conditions_match
<1>2. CallShaped(call) /\ CallType(call)
  BY <1>1, CallIs
<1>3. Running(call)
  BY <1>1, <1>2 DEF CallShaped, Running
<1>4. /\ CallShaped(act) /\ act.op = call.op /\ act.alone = call.alone /\ act.row = call.row /\ act.at = "act"
  <2>1. /\ act.op = call.op /\ act.at = "act" /\ act.before = call.before /\ act.body = call.body
        /\ act.n = call.n /\ act.row = call.row /\ act.queue = call.queue /\ act.rule = call.rule
        /\ act.alone = call.alone /\ CallType(act)
    BY <1>2 DEF CallType, InRule
  <2> HIDE DEF act
  <2> QED BY <1>1, <1>2, <2>1 DEF CallShaped, InRule, WithRule
<1> HIDE DEF act
<1>5. LET s == Changing!Skip(call, r)
      IN /\ CallShaped(s) /\ s.op = call.op /\ s.alone = call.alone /\ s.row = call.row
         /\ s.at \in {"rule", "rules", "done"}
  BY <1>3, SkipIs
<1>6. /\ CallShaped(c) /\ c.op = call.op /\ c.alone = call.alone /\ c.row = call.row
      /\ c.at \in {"act", "rule", "rules", "done"}
  BY <1>4, <1>5
<1> HIDE DEF c
<1>7. \A f : InProgress(call, trail, item, f) => InProgress(c, trail, item, f)
  BY <1>1 DEF InProgress, Yet
<1> QED BY <1>1, <1>6, <1>7, ReadsOn

LEMMA ActionKeeps ==
  ASSUME TrailInv, NEW r \in Requests, Changing!_execute_action(r)
  PROVE  TrailInv'
<1> DEFINE call == work[r]
           rule == call.rule
           writes == rule.does = "update" /\ (call.row = NULL \/ call.row[rule.field] # rule.value)
           past == Changing!Expired(call)
           c == [past EXCEPT !.at = "executed", !.rule = rule]
<1>1. /\ call.at = "act" /\ work' = [work EXCEPT ![r] = c] /\ UNCHANGED <<rules, trail, unclear>>
      /\ item' = IF writes THEN [item EXCEPT ![rule.field] = rule.value] ELSE item
  BY DEF Changing!_execute_action, Changing!Updates
<1>2. /\ CallShaped(call) /\ CallType(call) /\ item \in Rows /\ trail \in Seq(TrailRows)
      /\ call.alone => \A g \in Fields \ unclear : InProgress(call, trail, item, g)
  BY <1>1, CallIs
<1>3. rule \in Shapes /\ call.queue # {} /\ (writes => rule.field \in Fields /\ rule.value \in Values)
  BY <1>1, <1>2, RuleAssumption DEF CallShaped, InRule, WithRule, Fields
<1>4. item' \in Rows /\ \A g \in Fields : item'[g] = IF writes /\ g = rule.field THEN rule.value ELSE item[g]
  BY <1>1, <1>2, <1>3 DEF Rows
<1>5. /\ CallType(past) /\ past.op = call.op /\ past.at = call.at /\ past.before = call.before /\ past.body = call.body
      /\ past.n = call.n /\ past.row = NULL /\ past.queue = call.queue /\ past.alone = call.alone
  BY <1>2, ExpiredIs
<1> HIDE DEF past
<1>6. /\ c.op = call.op /\ c.at = "executed" /\ c.before = call.before /\ c.body = call.body
      /\ c.n = call.n /\ c.row = NULL /\ c.queue = call.queue /\ c.rule = rule
      /\ c.alone = call.alone /\ CallType(c)
  BY <1>3, <1>5 DEF CallType, InRule
<1> HIDE DEF c
<1>7. CallShaped(c) /\ Fresh(c, item')
  BY <1>1, <1>2, <1>3, <1>6 DEF CallShaped, InRule, WithRule, Fresh
<1>8. ASSUME call.alone, NEW g \in Fields \ unclear PROVE InProgress(c, trail, item', g)
  <2>1. Accounted(g, trail, item)
    BY <1>1, <1>2, <1>8 DEF InProgress, Yet
  <2>2. CASE writes /\ g = rule.field
    BY <1>6, <2>2 DEF InProgress
  <2>3. CASE ~(writes /\ g = rule.field)
    <3>1. item'[g] = item[g]
      BY <1>4, <2>3
    <3> QED BY <2>1, <3>1 DEF InProgress, Accounted
  <2> QED BY <2>2, <2>3
<1> HIDE DEF rule
<1> QED BY <1>1, <1>2, <1>4, <1>6, <1>7, <1>8, GoesOn
LEMMA RecordKeeps ==
  ASSUME TrailInv, NEW r \in Requests, Changing!_record_execution_audit(r)
  PROVE  TrailInv'
<1> DEFINE call == work[r]
           rule == call.rule
           row == [action |-> "executed", new_value |-> NULL,
                   field |-> IF rule.does = "update" THEN rule.field ELSE NULL]
           past == Changing!Expired(call)
           c == Changing!Skip(past, r)
           gone == rules[Changing!First(call.queue)] = NULL
<1>1. /\ call.at = "executed" /\ UNCHANGED <<item, rules>>
      /\ IF gone THEN Changing!Broken(r) /\ UNCHANGED trail
         ELSE trail' = Append(trail, row) /\ work' = [work EXCEPT ![r] = c] /\ UNCHANGED unclear
  BY DEF Changing!_record_execution_audit, Changing!Updates
<1> HIDE DEF gone
<1>2. CASE gone
  BY <1>1, <1>2, Ends DEF Changing!Broken
<1>3. CASE ~gone
  <2>1. /\ CallShaped(call) /\ CallType(call) /\ item \in Rows /\ trail \in Seq(TrailRows)
        /\ call.alone => \A g \in Fields \ unclear : InProgress(call, trail, item, g)
    BY <1>1, CallIs
  <2>2. rule \in Shapes /\ (rule.does = "update" => rule.field \in Fields)
    BY <1>1, <2>1, RuleAssumption DEF CallShaped, WithRule, Fields
  <2>3. row \in TrailRows
    BY <2>2 DEF TrailRows
  <2>4. /\ CallType(past) /\ past.op = call.op /\ past.before = call.before /\ past.body = call.body
        /\ past.n = call.n /\ past.row = NULL /\ past.alone = call.alone
    BY <2>1, ExpiredIs
  <2> HIDE DEF past
  <2>5. Running(past)
    BY <1>1, <2>1, <2>4 DEF CallShaped, Running
  <2>6. /\ CallShaped(c) /\ c.op = call.op /\ c.alone = call.alone /\ c.row = NULL
        /\ c.at \in {"rule", "rules", "done"}
    BY <2>4, <2>5, SkipIs
  <2> HIDE DEF c
  <2>7. trail' = Append(trail, row) /\ trail' \in Seq(TrailRows)
    BY <1>1, <1>3, <2>1, <2>3
  <2>8. ASSUME call.alone, NEW g \in Fields \ unclear PROVE InProgress(c, trail', item, g)
    <3>1. Accounted(g, trail, item) \/ (rule.does = "update" /\ rule.field = g)
      BY <1>1, <2>1, <2>8 DEF InProgress, Yet
    <3>2. row.action # "changed" /\ (rule.does = "update" => row.field = rule.field)
      OBVIOUS
    <3> HIDE DEF row
    <3>3. Accounted(g, trail', item)
      BY <2>1, <2>3, <2>7, <3>1, <3>2, RowMore
    <3> QED BY <3>3 DEF InProgress
  <2>9. Fresh(c, item)
    BY <2>6 DEF Fresh
  <2> HIDE DEF rule, row
  <2> QED BY <1>1, <1>3, <2>1, <2>6, <2>7, <2>8, <2>9, GoesOn
<1> QED BY <1>2, <1>3

\* A call begins, alone or beside others.
LEMMA CallBegins ==
  ASSUME TrailInv, NEW r \in Requests, NEW call, CallShaped(call), Changing!Start(r, call),
         call.at # "idle", call.n = 1,
         IF call.op = "create" THEN call.at = "write" /\ item = NULL /\ \A q \in Requests : work[q].op # "create"
         ELSE item # NULL
  PROVE  TrailInv'
<1> DEFINE others == Changing!AtWork \ {r}
           alone == others = {}
           new == [call EXCEPT !.before = item, !.row = item, !.alone = alone, !.due = Changing!Due(call, item)]
           beside(q) == [work[q] EXCEPT !.alone = (q \notin others)]
<1>1. /\ work[r] = Changing!Idle /\ UNCHANGED <<item, rules, trail>>
      /\ work' = [q \in Requests |-> IF q = r THEN new ELSE beside(q)]
      /\ unclear' = IF alone THEN unclear ELSE Fields
  BY FieldsAre DEF Changing!Start
<1>2. \A q \in Requests : CallShaped(work[q]) /\ CallType(work[q])
  BY DEF TrailInv, TrailType, CallShaped
<1>3. item \in Rows \cup {NULL} /\ rules \in Rules /\ trail \in Seq(TrailRows)
  BY DEF TrailInv, TrailType
<1>4. \A q \in Requests \ {r} : q \notin others => work[q] = Changing!Idle
  BY DEF Changing!AtWork
<1>5. alone \in BOOLEAN /\ \A q : (q \notin others) \in BOOLEAN
  OBVIOUS
<1>6. /\ new.op = call.op /\ new.at = call.at /\ new.before = item /\ new.body = call.body /\ new.n = call.n
      /\ new.row = item /\ new.queue = call.queue /\ new.rule = call.rule /\ CallType(new)
  <2> HIDE DEF alone
  <2> QED BY <1>3, <1>5 DEF CallShaped, CallType
<1>7. new.alone = alone
  <2> HIDE DEF alone
  <2> QED BY DEF CallShaped, CallType
<1>8. \A q \in Requests \ {r} :
        LET b == beside(q)
        IN /\ b.op = work[q].op /\ b.at = work[q].at /\ b.before = work[q].before /\ b.body = work[q].body
           /\ b.n = work[q].n /\ b.row = work[q].row /\ b.queue = work[q].queue /\ b.rule = work[q].rule
           /\ CallType(b)
  <2> HIDE DEF others
  <2> QED BY <1>2, <1>5 DEF CallType
<1>9. \A q \in Requests \ {r} : q \in others => ~beside(q).alone
  <2> SUFFICES ASSUME NEW q \in Requests \ {r}, q \in others PROVE ~beside(q).alone
    OBVIOUS
  <2>1. (q \notin others) = FALSE
    OBVIOUS
  <2>2. beside(q) = [work[q] EXCEPT !.alone = FALSE]
    BY <2>1
  <2> QED BY <1>2, <2>2 DEF CallType
<1>10. \A q \in Requests : work'[q] = IF q = r THEN new ELSE beside(q)
  BY <1>1
<1>11. work' = [q \in Requests |-> work'[q]]
  BY <1>1
<1> HIDE DEF new, beside
<1>12. TrailType'
  <2>1. CallShaped(new)
    BY <1>6 DEF CallShaped
  <2>2. \A q \in Requests \ {r} : CallShaped(beside(q))
    BY <1>2, <1>8 DEF CallShaped
  <2> QED BY <1>1, <1>3, <1>10, <1>11, <2>1, <2>2 DEF TrailType
<1>13. item = NULL => Unwritten(trail, work')
  BY <1>6, <1>8, <1>10 DEF TrailInv, Unwritten
<1>14. OneCreator(item, work')
  <2>1. work[r].op = "none"
    BY <1>1, IdleShaped
  <2>2. \A q \in Requests : work'[q].op = "create" => work[q].op = "create" \/ (q = r /\ call.op = "create")
    BY <1>6, <1>8, <1>10
  <2>3. \A q, p \in Requests : work'[q].op = "create" /\ work'[p].op = "create" => q = p
    BY <2>1, <2>2 DEF TrailInv, OneCreator
  <2>4. \A q \in Requests : work'[q].at = "write" /\ work'[q].op = "create" => item = NULL
    BY <1>6, <1>8, <1>10 DEF TrailInv, OneCreator
  <2> QED BY <2>3, <2>4 DEF OneCreator
<1>15. CallsAccount(item, trail, work', unclear')
  <2> SUFFICES ASSUME NEW q \in Requests, work'[q].at # "idle"
               PROVE  IF work'[q].alone
                      THEN /\ \A p \in Requests \ {q} : work'[p].at = "idle"
                           /\ Fresh(work'[q], item)
                           /\ \A f \in Fields \ unclear' : InProgress(work'[q], trail, item, f)
                      ELSE Fields \subseteq unclear'
    BY DEF CallsAccount
  <2>1. CASE alone
    <3>1. \A p \in Requests : work[p].at = "idle"
      BY <1>1, <1>4, <2>1, IdleShaped
    <3>2. \A p \in Requests \ {r} : work'[p].at = "idle"
      BY <1>8, <1>10, <3>1
    <3>3. q = r /\ work'[r] = new /\ new.alone
      BY <1>7, <1>10, <2>1, <3>2
    <3>4. \A f \in Fields \ unclear' : Accounted(f, trail, item)
      BY <1>1, <2>1, <3>1 DEF TrailInv
    <3> QED BY <1>6, <3>2, <3>3, <3>4 DEF Fresh, InProgress
  <2>2. CASE ~alone
    <3>1. ~work'[r].alone
      BY <1>7, <1>10, <2>2
    <3>2. q # r => q \in others
      BY <1>4, <1>8, <1>10, IdleShaped
    <3>3. ~work'[q].alone
      BY <1>9, <1>10, <3>1, <3>2
    <3> QED BY <1>1, <2>2, <3>3
  <2> QED BY <2>1, <2>2
<1>16. work'[r].at # "idle"
  BY <1>6, <1>10
<1> QED BY <1>1, <1>12, <1>13, <1>14, <1>15, <1>16 DEF TrailInv

LEMMA NewItemKeeps ==
  ASSUME TrailInv, NEW r \in Requests, NEW row \in Rows, Changing!Create(r, row)
  PROVE  TrailInv'
<1> DEFINE call == [Changing!Idle EXCEPT !.op = "create", !.at = "write", !.body = row]
<1>1. item = NULL /\ (\A q \in Requests : work[q].op # "create") /\ Changing!Start(r, call)
  BY DEF Changing!Create
<1>2. call.op = "create" /\ call.at = "write" /\ call.body = row /\ call.n = 1 /\ CallType(call)
  BY DEF CallType, Changing!Idle
<1> HIDE DEF call
<1>3. CallShaped(call)
  BY <1>2 DEF CallShaped, InRule, WithRule, Rows
<1> QED BY <1>1, <1>2, <1>3, CallBegins

LEMMA PatchKeeps ==
  ASSUME TrailInv, NEW r \in Requests, NEW body \in Changing!Bodies, Changing!Update(r, body)
  PROVE  TrailInv'
<1> DEFINE call == [Changing!Idle EXCEPT !.op = "update", !.at = "write", !.body = body]
<1>1. item # NULL /\ Changing!Start(r, call)
  BY DEF Changing!Update
<1>2. call.op = "update" /\ call.at = "write" /\ call.body = body /\ call.n = 1 /\ CallType(call)
  BY DEF CallType, Changing!Idle
<1>3. \A f \in DOMAIN body : body[f] \in Values
  BY DEF Changing!Bodies
<1> HIDE DEF call
<1>4. CallShaped(call)
  BY <1>2, <1>3 DEF CallShaped, InRule, WithRule
<1> QED BY <1>1, <1>2, <1>4, CallBegins

LEMMA CommentKeeps ==
  ASSUME TrailInv, NEW r \in Requests, Changing!Comment(r)
  PROVE  TrailInv'
<1> DEFINE call == [Changing!Idle EXCEPT !.op = "comment", !.at = "notify"]
<1>1. item # NULL /\ Changing!Start(r, call)
  BY DEF Changing!Comment
<1>2. call.op = "comment" /\ call.at = "notify" /\ call.body = Changing!Idle.body /\ call.n = 1 /\ CallType(call)
  BY DEF CallType, Changing!Idle
<1> HIDE DEF call
<1>3. CallShaped(call)
  BY <1>2, IdleShaped DEF CallShaped, InRule, WithRule
<1> QED BY <1>1, <1>2, <1>3, CallBegins

LEMMA TestKeeps ==
  ASSUME TrailInv, NEW r \in Requests, NEW n \in RuleIds, Changing!test_rule(r, n)
  PROVE  TrailInv'
<1> DEFINE call == [Changing!Idle EXCEPT !.op = "test", !.at = "match", !.queue = {n}, !.rule = rules[n]]
<1>1. item # NULL /\ rules[n] # NULL /\ Changing!Start(r, call)
  BY DEF Changing!test_rule
<1>2. rules[n] \in Shapes
  BY <1>1 DEF TrailInv, TrailType, Rules
<1>3. /\ call.op = "test" /\ call.at = "match" /\ call.body = Changing!Idle.body /\ call.n = 1
      /\ call.queue = {n} /\ call.rule = rules[n] /\ CallType(call)
  BY <1>2 DEF CallType, Changing!Idle, InRule
<1> HIDE DEF call
<1>4. CallShaped(call)
  BY <1>2, <1>3, IdleShaped DEF CallShaped, InRule, WithRule
<1> QED BY <1>1, <1>3, <1>4, CallBegins
\* A rule is changed: the calls only forget what the rules said before.
LEMMA AdministerKeeps ==
  ASSUME TrailInv, NEW n \in RuleIds, NEW rule \in Shapes \cup {NULL}, Changing!Administer(n, rule)
  PROVE  TrailInv'
<1> DEFINE past(q) == [work[q] EXCEPT !.due = NULL]
<1>1. /\ rules' = [rules EXCEPT ![n] = rule] /\ work' = [q \in Requests |-> past(q)]
      /\ UNCHANGED <<item, trail, unclear>>
  BY DEF Changing!Administer
<1>2. \A q \in Requests : CallShaped(work[q]) /\ CallType(work[q])
  BY DEF TrailInv, TrailType, CallShaped
<1>3. \A q \in Requests :
        LET b == past(q)
        IN /\ b.op = work[q].op /\ b.at = work[q].at /\ b.before = work[q].before /\ b.body = work[q].body
           /\ b.n = work[q].n /\ b.row = work[q].row /\ b.queue = work[q].queue /\ b.rule = work[q].rule
           /\ b.alone = work[q].alone /\ CallType(b)
  BY <1>2 DEF CallType
<1>4. \A q \in Requests : work'[q] = past(q)
  BY <1>1
<1>5. work' = [q \in Requests |-> work'[q]]
  BY <1>1
<1> HIDE DEF past
<1>6. \A q \in Requests : CallShaped(work'[q])
  BY <1>2, <1>3, <1>4 DEF CallShaped
<1>7. rules' \in Rules
  BY <1>1 DEF TrailInv, TrailType, Rules
<1>8. TrailType'
  BY <1>1, <1>5, <1>6, <1>7 DEF TrailInv, TrailType
<1>9. item = NULL => Unwritten(trail, work')
  BY <1>3, <1>4 DEF TrailInv, Unwritten
<1>10. OneCreator(item, work')
  BY <1>3, <1>4 DEF TrailInv, OneCreator
<1>11. CallsAccount(item, trail, work', unclear)
  <2> SUFFICES ASSUME NEW q \in Requests, work'[q].at # "idle"
               PROVE  IF work'[q].alone
                      THEN /\ \A p \in Requests \ {q} : work'[p].at = "idle"
                           /\ Fresh(work'[q], item)
                           /\ \A f \in Fields \ unclear : InProgress(work'[q], trail, item, f)
                      ELSE Fields \subseteq unclear
    BY DEF CallsAccount
  <2>1. CASE work[q].alone
    <3>1. /\ \A p \in Requests \ {q} : work[p].at = "idle"
          /\ Fresh(work[q], item)
          /\ \A f \in Fields \ unclear : InProgress(work[q], trail, item, f)
      BY <1>3, <1>4, <2>1 DEF TrailInv, CallsAccount
    <3>2. Fresh(work'[q], item)
      BY <1>3, <1>4, <3>1 DEF Fresh
    <3>3. \A f \in Fields \ unclear : InProgress(work'[q], trail, item, f)
      BY <1>3, <1>4, <3>1 DEF InProgress, Yet
    <3> QED BY <1>3, <1>4, <2>1, <3>1, <3>2, <3>3
  <2>2. CASE ~work[q].alone
    BY <1>3, <1>4, <2>2 DEF TrailInv, CallsAccount
  <2> QED BY <2>1, <2>2
<1>12. (\A q \in Requests : work'[q].at = "idle") => \A f \in Fields \ unclear : Accounted(f, trail, item)
  BY <1>3, <1>4 DEF TrailInv
<1> QED BY <1>1, <1>8, <1>9, <1>10, <1>11, <1>12 DEF TrailInv

LEMMA EndKeeps ==
  ASSUME TrailInv, NEW r \in Requests, Changing!Return(r) \/ Changing!Fail(r)
  PROVE  TrailInv'
BY Ends DEF Changing!Return, Changing!Fail, Changing!Broken

LEMMA TrailNext ==
  ASSUME TrailInv, Changing!Next \/ UNCHANGED <<s1, s2, s3, s4, s5>>
  PROVE  TrailInv'
<1>1. CASE Changing!Next
  <2>1. ASSUME NEW r \in Requests, NEW row \in [Changing!Fields -> Values], Changing!Create(r, row)
        PROVE  TrailInv'
    BY <2>1, FieldsAre, NewItemKeeps DEF Rows
  <2>2. ASSUME NEW r \in Requests, NEW body \in Changing!Bodies, Changing!Update(r, body)
        PROVE  TrailInv'
    BY <2>2, PatchKeeps
  <2>3. ASSUME NEW r \in Requests, NEW n \in Changing!RuleIds, Changing!test_rule(r, n)
        PROVE  TrailInv'
    BY <2>3, TestKeeps DEF RuleIds, Changing!RuleIds
  <2>4. ASSUME NEW r \in Requests,
               \/ Changing!Comment(r) \/ Changing!Write(r) \/ Changing!Load(r) \/ Changing!Notify(r)
               \/ Changing!Audit(r) \/ Changing!execute_for_event(r) \/ Changing!Fetch(r)
        PROVE  TrailInv'
    BY <2>4, CommentKeeps, WriteKeeps, LoadKeeps, NotifyKeeps, AuditKeeps, EventKeeps, FetchKeeps
  <2>5. ASSUME NEW r \in Requests,
               \/ Changing!_conditions_match(r) \/ Changing!_execute_action(r)
               \/ Changing!_record_execution_audit(r) \/ Changing!Return(r) \/ Changing!Fail(r)
        PROVE  TrailInv'
    BY <2>5, MatchKeeps, ActionKeeps, RecordKeeps, EndKeeps
  <2>6. ASSUME NEW n \in Changing!RuleIds, NEW rule \in Shapes \cup {NULL}, Changing!Administer(n, rule)
        PROVE  TrailInv'
    BY <2>6, AdministerKeeps DEF RuleIds, Changing!RuleIds
  <2> QED BY <1>1, <2>1, <2>2, <2>3, <2>4, <2>5, <2>6 DEF Changing!Next
<1>2. CASE UNCHANGED <<s1, s2, s3, s4, s5>>
  BY <1>2 DEF TrailInv, TrailType, Unwritten, OneCreator, CallsAccount
<1> QED BY <1>1, <1>2

LEMMA TrailHolds == Spec => [](part = "changing" => TrailInv)
<1>1. Init => (part = "changing" => TrailInv)
  BY TrailInit DEF Init
<1>2. (part = "changing" => TrailInv) /\ [Next]_vars => (part = "changing" => TrailInv)'
  BY ChangingStep, TrailNext
<1> QED BY <1>1, <1>2, PTL DEF Spec

\* At rest, the last audit row about a field names its value, unless it names a rule
\* that wrote it, or calls overlapped, or one broke off.
THEOREM TrailAccountsHolds == Spec => []TrailAccounts
<1>1. TrailInv => Changing!TrailAccounts
  <2> DEFINE about(f) == {n \in DOMAIN trail : trail[n].field = f}
  <2> SUFFICES ASSUME TrailInv, Changing!AtWork = {}, NEW f \in Fields \ unclear, about(f) # {},
                      trail[Changing!Max(about(f))].action = "changed"
               PROVE  trail[Changing!Max(about(f))].new_value = item[f]
    BY FieldsAre DEF Changing!TrailAccounts
  <2>1. Accounted(f, trail, item)
    <3>1. \A r \in Requests : work[r].at = "idle"
      BY IdleShaped DEF Changing!AtWork
    <3> QED BY <3>1 DEF TrailInv
  <2>2. DOMAIN trail = 1..Len(trail) /\ Len(trail) \in Nat
    BY DEF TrailInv, TrailType
  <2>3. about(f) \subseteq 0..Len(trail)
    BY <2>2
  <2>4. \E x \in about(f) : \A y \in about(f) : x >= y
    <3> HIDE DEF about
    <3> QED BY <2>2, <2>3, HasMax
  <2>5. Changing!Max(about(f)) \in about(f) /\ \A y \in about(f) : Changing!Max(about(f)) >= y
    <3> HIDE DEF about
    <3> QED BY <2>4 DEF Changing!Max
  <2> DEFINE last == Changing!Max(about(f))
  <2>6. trail[last].action = "changed" /\ last \in about(f) /\ \A y \in about(f) : last >= y
    BY <2>5
  <2> HIDE DEF last
  <2>7. trail[last].new_value = item[f]
    BY <2>1, <2>2, <2>6 DEF Accounted
  <2> QED BY <2>7 DEF last
<1>2. (part = "changing" => TrailInv) => TrailAccounts
  BY <1>1 DEF TrailAccounts
<1> QED BY <1>2, TrailHolds, PTL

-----------------------------------------------------------------------------
(* The rules of an event, one after the other                              *)

\* What a list of rules makes of a row, as WorkItemTrail's Applied.
Newest(queue) == CHOOSE n \in queue : \A m \in queue : n >= m
After(rule, row) ==
  IF rule.does = "update" /\ (rule.when = NULL \/ row[rule.when[1]] = rule.when[2])
  THEN [row EXCEPT ![rule.field] = rule.value] ELSE row
One(f, rs, queue) ==
  [row \in Rows |-> IF queue = {} THEN row ELSE f[queue \ {Newest(queue)}][After(rs[Newest(queue)], row)]]
Applies(f, rs) == f = [queue \in SUBSET RuleIds |-> One(f, rs, queue)]
Applied(rs) == CHOOSE f : Applies(f, rs)
Chosen(rs, trigger) == {n \in RuleIds : rs[n] # NULL /\ rs[n].is_active /\ rs[n].trigger = trigger}
Chain(rs, trigger, row) == Applied(rs)[Chosen(rs, trigger)][row]

\* Only what a function gives for the rest of a list matters.
LEMMA OneSame ==
  ASSUME NEW f, NEW g, NEW rs, NEW queue, f[queue \ {Newest(queue)}] = g[queue \ {Newest(queue)}]
  PROVE  One(f, rs, queue) = One(g, rs, queue)
BY DEF One

\* The recursion is well founded: a list loses its newest rule at each turn.
LEMMA AppliesExists ==
  ASSUME NEW rs
  PROVE  \E f : Applies(f, rs)
<1> DEFINE Upto(n) == \E f : \A queue \in SUBSET (1..n) : f[queue] = One(f, rs, queue)
           S == {n \in Nat : ~Upto(n)}
<1>1. Upto(0)
  <2> DEFINE f == [queue \in {{}} |-> [row \in Rows |-> row]]
  <2>1. f[{}] = [row \in Rows |-> row]
    OBVIOUS
  <2>2. One(f, rs, {}) = [row \in Rows |-> row]
    BY DEF One
  <2>3. \A queue \in SUBSET (1..0) : queue = {}
    OBVIOUS
  <2> HIDE DEF f
  <2> QED BY <2>1, <2>2, <2>3
<1>2. ASSUME NEW n \in Nat, n # 0, Upto(n - 1) PROVE Upto(n)
  <2>1. PICK f : \A queue \in SUBSET (1..(n - 1)) : f[queue] = One(f, rs, queue)
    BY <1>2
  <2> DEFINE g == [queue \in SUBSET (1..n) |-> IF n \in queue THEN One(f, rs, queue) ELSE f[queue]]
  <2>2. \A queue \in SUBSET (1..n) : g[queue] = IF n \in queue THEN One(f, rs, queue) ELSE f[queue]
    OBVIOUS
  <2> HIDE DEF g
  <2> SUFFICES ASSUME NEW queue \in SUBSET (1..n) PROVE g[queue] = One(g, rs, queue)
    OBVIOUS
  <2> DEFINE rest == queue \ {Newest(queue)}
  <2>3. rest \in SUBSET (1..n)
    OBVIOUS
  <2>4. n \notin rest
    <3>1. CASE n \in queue
      <4>1. \A m \in queue : n >= m
        OBVIOUS
      <4>2. Newest(queue) \in queue /\ Newest(queue) >= n
        BY <3>1, <4>1 DEF Newest
      <4>3. Newest(queue) = n
        <5>1. \A m \in queue : m \in Int
          OBVIOUS
        <5>2. Newest(queue) \in Int /\ n >= Newest(queue)
          BY <4>1, <4>2, <5>1
        <5> QED BY <4>2, <5>2
      <4> QED BY <4>3
    <3>2. CASE n \notin queue
      BY <3>2
    <3> QED BY <3>1, <3>2
  <2>5. g[rest] = f[rest]
    BY <2>2, <2>3, <2>4
  <2> HIDE DEF rest
  <2>6. One(f, rs, queue) = One(g, rs, queue)
    BY <2>5, OneSame DEF rest
  <2>7. CASE n \in queue
    BY <2>2, <2>6, <2>7
  <2>8. CASE n \notin queue
    <3>1. queue \in SUBSET (1..(n - 1))
      BY <2>8
    <3> QED BY <2>1, <2>2, <2>6, <2>8, <3>1
  <2> QED BY <2>7, <2>8
<1>3. S = {}
  <2> SUFFICES ASSUME S # {} PROVE FALSE
    OBVIOUS
  <2>1. S \subseteq Nat
    OBVIOUS
  <2> HIDE DEF Upto
  <2>2. PICK n \in S : \A m \in S : n <= m
    <3> HIDE DEF S
    <3> QED BY <2>1, HasMin
  <2>3. n \in Nat /\ ~Upto(n)
    BY <2>2
  <2>4. n # 0
    BY <1>1, <2>3
  <2>5. n - 1 \in Nat /\ n - 1 \notin S
    BY <2>2, <2>3, <2>4
  <2> QED BY <1>2, <2>3, <2>4, <2>5
<1>4. Upto(MaxRule)
  <2> HIDE DEF Upto
  <2> QED BY <1>3, BoundAssumption
<1>5. PICK f : \A queue \in SUBSET RuleIds : f[queue] = One(f, rs, queue)
  BY <1>4 DEF RuleIds
<1> DEFINE g == [queue \in SUBSET RuleIds |-> f[queue]]
<1>6. /\ g = [queue \in SUBSET RuleIds |-> g[queue]]
      /\ \A queue \in SUBSET RuleIds : g[queue] = f[queue]
  OBVIOUS
<1> HIDE DEF g
<1>7. \A queue \in SUBSET RuleIds : g[queue] = One(g, rs, queue)
  <2> SUFFICES ASSUME NEW queue \in SUBSET RuleIds PROVE g[queue] = One(g, rs, queue)
    OBVIOUS
  <2>1. queue \ {Newest(queue)} \in SUBSET RuleIds
    OBVIOUS
  <2>2. f[queue \ {Newest(queue)}] = g[queue \ {Newest(queue)}]
    BY <1>6, <2>1
  <2>3. One(f, rs, queue) = One(g, rs, queue)
    BY <2>2, OneSame
  <2> QED BY <1>5, <1>6, <2>3
<1>8. g = [queue \in SUBSET RuleIds |-> One(g, rs, queue)]
  BY <1>6, <1>7
<1> QED BY <1>8 DEF Applies

\* No rule leaves the row, some rules leave it to the newest first.
LEMMA AppliedIs ==
  ASSUME NEW rs, NEW queue \in SUBSET RuleIds, NEW row \in Rows
  PROVE  /\ queue = {} => Applied(rs)[queue][row] = row
         /\ queue # {} => Applied(rs)[queue][row] =
                            Applied(rs)[queue \ {Newest(queue)}][After(rs[Newest(queue)], row)]
<1>1. Applies(Applied(rs), rs)
  BY AppliesExists DEF Applied
<1>2. Applied(rs)[queue] = One(Applied(rs), rs, queue)
  BY <1>1 DEF Applies
<1> HIDE DEF Applied
<1> QED BY <1>2 DEF One

LEMMA ChainIs ==
  /\ \A queue : Changing!First(queue) = Newest(queue)
  /\ \A rule, row : Changing!After(rule, row) = After(rule, row)
  /\ \A trigger : Changing!list(trigger) = Chosen(rules, trigger)
  /\ \A trigger, row : Changing!Chain(trigger, row) = Chain(rules, trigger, row)
<1>1. \A queue : Changing!First(queue) = Newest(queue)
  BY DEF Changing!First, Changing!Max, Newest
<1>2. \A rule, row : Changing!After(rule, row) = After(rule, row)
  BY DEF Changing!After, Changing!Updates, Changing!Matches, After
<1>3. \A trigger : Changing!list(trigger) = Chosen(rules, trigger)
  BY DEF Changing!list, Chosen, Changing!RuleIds, RuleIds
<1>4. Changing!Applied = Applied(rules)
  BY FieldsAre DEF Changing!Applied, Applied, Applies, One, Changing!First, Changing!Max, Newest,
     Changing!After, Changing!Updates, Changing!Matches, After, Changing!RuleIds, RuleIds, Rows
<1> QED BY <1>1, <1>2, <1>3, <1>4 DEF Changing!Chain, Chain


\* What a rule makes of an item is one.
LEMMA AfterIs ==
  ASSUME NEW rule \in Shapes, NEW row \in Rows
  PROVE  After(rule, row) \in Rows
BY RuleAssumption DEF After, Rows, Fields

\* A field of a PATCH was moved; what the rules of the events after the nth make of
\* the item; what those from the nth on make of it.
Moved(c, f, row) == f \in DOMAIN c.body /\ row[f] # c.before[f]
Event(c, n) == CASE c.op = "create" -> "created" [] c.op = "comment" -> "comment"
                 [] c.op = "update" /\ n = 1 -> "status" [] OTHER -> "priority"
Beyond(rs, c, n, row) ==
  IF c.op = "update" /\ n = 1 /\ Moved(c, "priority", row) THEN Chain(rs, "priority", row) ELSE row
Happens(c, n, row) == c.op = "update" => Moved(c, Event(c, n), row)
Coming(rs, c, n, row) ==
  Beyond(rs, c, n, IF Happens(c, n, row) THEN Chain(rs, Event(c, n), row) ELSE row)

\* What is due of a call's item, wherever the call is.
Written(c, it) ==
  IF c.op = "create" THEN c.body ELSE [f \in Fields |-> IF f \in DOMAIN c.body THEN c.body[f] ELSE it[f]]
Left(queue) == queue \ {Newest(queue)}
Owes(c, it, rs) ==
  /\ c.at = "write" => c.due = Coming(rs, c, 1, Written(c, it))
  /\ c.at \in {"notify", "audit"} => c.due = Coming(rs, c, 1, it)
  /\ c.at = "rules" => c.op # "test" /\ c.due = Coming(rs, c, c.n, it)
  /\ c.at \in {"rule", "match", "act"} => c.due = Beyond(rs, c, c.n, Applied(rs)[c.queue][it])
  /\ c.at = "executed" => c.due = Beyond(rs, c, c.n, Applied(rs)[Left(c.queue)][it])
  /\ c.at = "done" => c.due = it
  /\ c.at \in InRule => c.listed \in {NULL, rs}
  /\ c.at \in WithRule => c.rule = rs[Newest(c.queue)]
  /\ c.at = "act" => c.rule.when = NULL \/ it[c.rule.when[1]] = c.rule.when[2]

\* A call to itself, while the rules stay, owes what it was to leave.
Pays(c, it, rs) == c.at # "idle" /\ c.alone /\ c.due # NULL => Owes(c, it, rs)
DueInv == \A r \in Requests : Pays(work[r], item, rules)

\* Only what was asked and what the item was count.
LEMMA SameAsked ==
  ASSUME NEW c, NEW d, c.op = d.op, c.before = d.before, c.body = d.body, NEW rs, NEW n, NEW row
  PROVE  Beyond(rs, c, n, row) = Beyond(rs, d, n, row) /\ Coming(rs, c, n, row) = Coming(rs, d, n, row)
BY DEF Coming, Beyond, Happens, Moved, Event

LEMMA DueGoesOn ==
  ASSUME TrailInv, DueInv, NEW r \in Requests, work[r].at # "idle", NEW c,
         c.alone = work[r].alone, c.due = work[r].due, work' = [work EXCEPT ![r] = c], rules' = rules,
         work[r].alone /\ work[r].due # NULL /\ Owes(work[r], item, rules) => Owes(c, item', rules)
  PROVE  DueInv'
<1>1. \A q \in Requests : work'[q] = IF q = r THEN c ELSE work[q]
  BY DEF TrailInv, TrailType
<1>2. Pays(c, item', rules)
  BY DEF DueInv, Pays
<1>3. ASSUME NEW q \in Requests \ {r} PROVE Pays(work[q], item', rules)
  BY DEF TrailInv, CallsAccount, Pays
<1> QED BY <1>1, <1>2, <1>3 DEF DueInv

LEMMA DueEnds ==
  ASSUME TrailInv, DueInv, NEW r \in Requests, work' = [work EXCEPT ![r] = Changing!Idle], UNCHANGED <<item, rules>>
  PROVE  DueInv'
<1>1. \A q \in Requests : work'[q] = IF q = r THEN Changing!Idle ELSE work[q]
  BY DEF TrailInv, TrailType
<1> QED BY <1>1, IdleShaped DEF DueInv, Pays

\* The rules of an event are done, or it did not happen.
LEMMA NextEvent ==
  ASSUME NEW rs, NEW it, NEW c, NEW n, c.op # "test", n \in {1, 2}, c.due = Beyond(rs, c, n, it),
         \/ c.op = "update" /\ n = 1 /\ c.n = 2 /\ c.at = "rules"
         \/ (c.op = "update" => n = 2) /\ c.at = "done"
  PROVE  Owes(c, it, rs)
<1>1. CASE c.op = "update" /\ n = 1 /\ c.n = 2 /\ c.at = "rules"
  <2>1. Event(c, 2) = "priority" /\ Coming(rs, c, 2, it) = Beyond(rs, c, 1, it)
    BY <1>1 DEF Coming, Beyond, Happens, Event
  <2> QED BY <1>1, <2>1 DEF Owes, InRule, WithRule
<1>2. CASE (c.op = "update" => n = 2) /\ c.at = "done"
  <2>1. Beyond(rs, c, n, it) = it
    BY <1>2 DEF Beyond
  <2> QED BY <1>2, <2>1 DEF Owes, InRule, WithRule
<1> QED BY <1>1, <1>2

\* A rule is done.
LEMMA NextRule ==
  ASSUME NEW r, NEW call, Running(call), call.op = work[r].op, NEW c, c = Changing!Skip(call, r),
         NEW it \in Rows, NEW rs, call.listed \in {NULL, rs},
         call.due = Beyond(rs, call, call.n, Applied(rs)[Left(call.queue)][it])
  PROVE  Owes(c, it, rs)
<1> DEFINE left == Left(call.queue)
<1>1. /\ c.op = call.op /\ c.before = call.before /\ c.body = call.body /\ c.due = call.due
      /\ \/ left # {} /\ c.at = "rule" /\ c.n = call.n /\ c.queue = left /\ c.listed = call.listed
         \/ /\ left = {}
            /\ \/ call.op = "update" /\ call.n = 1 /\ c.n = 2 /\ c.at = "rules"
               \/ (call.op = "update" => call.n = 2) /\ c.at = "done"
  BY SkipIs, ChainIs DEF Left
<1>2. \A n, row : Beyond(rs, c, n, row) = Beyond(rs, call, n, row)
  BY <1>1, SameAsked
<1>3. call.n \in {1, 2} /\ left \in SUBSET RuleIds
  BY DEF Running, CallType, Left
<1>4. CASE left # {}
  BY <1>1, <1>2, <1>4 DEF Owes, InRule, WithRule
<1>5. CASE left = {}
  <2>1. Applied(rs)[left][it] = it
    BY <1>3, <1>5, AppliedIs
  <2>2. c.due = Beyond(rs, c, call.n, it)
    BY <1>1, <1>2, <2>1
  <2>3. CASE c.op # "test"
    <3> HIDE DEF left
    <3> QED BY <1>1, <1>3, <1>5, <2>2, <2>3, NextEvent
  <2>4. CASE c.op = "test"
    <3>1. c.at = "done" /\ c.due = it
      BY <1>1, <1>5, <2>2, <2>4 DEF Beyond
    <3> QED BY <3>1 DEF Owes, InRule, WithRule
  <2> QED BY <2>3, <2>4
<1> QED BY <1>4, <1>5

\* The newest rule's turn.
LEMMA OneRule ==
  ASSUME NEW rs, NEW queue \in SUBSET RuleIds, queue # {}, NEW row \in Rows,
         NEW rule, rule = rs[Newest(queue)], NEW new, new = After(rule, row)
  PROVE  Applied(rs)[queue][row] = Applied(rs)[Left(queue)][new]
<1>1. Applied(rs)[queue][row] = Applied(rs)[queue \ {Newest(queue)}][After(rs[Newest(queue)], row)]
  BY AppliedIs
<1>2. new = After(rs[Newest(queue)], row) /\ Left(queue) = queue \ {Newest(queue)}
  BY DEF Left
<1> QED BY <1>1, <1>2

LEMMA WriteOwes ==
  ASSUME TrailInv, DueInv, NEW r \in Requests, Changing!Write(r)
  PROVE  DueInv'
<1> DEFINE call == work[r]
           new(f) == IF f \in DOMAIN call.body /\ (call.op = "create" \/ call.body[f] # call.row[f])
                     THEN call.body[f] ELSE item[f]
           moved_on == [call EXCEPT !.at = IF call.op = "create" THEN "audit" ELSE "notify"]
           c == Changing!Expired(moved_on)
<1>1. /\ call.at = "write" /\ item' = [f \in Fields |-> new(f)] /\ work' = [work EXCEPT ![r] = c]
      /\ UNCHANGED <<rules, trail, unclear>>
  BY FieldsAre DEF Changing!Write
<1>2. CallShaped(call) /\ CallType(call) /\ call.op \in {"create", "update"} /\ call.n = 1
  BY <1>1 DEF TrailInv, TrailType, CallShaped, CallType, InRule
<1>3. /\ moved_on.op = call.op /\ moved_on.at = IF call.op = "create" THEN "audit" ELSE "notify"
      /\ moved_on.before = call.before /\ moved_on.body = call.body /\ moved_on.n = 1
      /\ moved_on.alone = call.alone /\ moved_on.due = call.due /\ CallType(moved_on)
  BY <1>2 DEF CallType
<1> HIDE DEF moved_on
<1>4. CallShaped(moved_on)
  BY <1>2, <1>3 DEF CallShaped, InRule, WithRule
<1>5. /\ c.op = call.op /\ c.at \in {"audit", "notify"} /\ c.before = call.before /\ c.body = call.body
      /\ c.alone = call.alone /\ c.due = call.due
  BY <1>3, <1>4, ExpiredIs
<1> HIDE DEF c
<1>6. ASSUME call.alone PROVE item' = Written(call, item)
  <2>1. CASE call.op = "create"
    <3>1. call.body \in Rows
      BY <1>2, <2>1 DEF CallShaped
    <3>2. \A f \in Fields : new(f) = call.body[f]
      BY <2>1, <3>1 DEF Rows
    <3>3. call.body = [f \in Fields |-> call.body[f]]
      BY <3>1 DEF Rows
    <3> HIDE DEF new
    <3> QED BY <1>1, <2>1, <3>2, <3>3 DEF Written
  <2>2. CASE call.op = "update"
    <3>1. call.row = item
      BY <1>1, <1>6, <2>2 DEF TrailInv, CallsAccount, Fresh
    <3>2. \A f \in Fields : new(f) = IF f \in DOMAIN call.body THEN call.body[f] ELSE item[f]
      BY <2>2, <3>1
    <3> HIDE DEF new
    <3> QED BY <1>1, <2>2, <3>2 DEF Written
  <2> QED BY <1>2, <2>1, <2>2
<1>7. ASSUME call.alone, Owes(call, item, rules) PROVE Owes(c, item', rules)
  <2>1. c.due = Coming(rules, call, 1, item')
    BY <1>1, <1>5, <1>6, <1>7 DEF Owes
  <2>2. c.due = Coming(rules, c, 1, item')
    BY <1>5, <2>1, SameAsked
  <2> QED BY <1>5, <2>2 DEF Owes, InRule, WithRule
<1> QED BY <1>1, <1>5, <1>7, DueGoesOn

LEMMA LoadOwes ==
  ASSUME TrailInv, DueInv, NEW r \in Requests, Changing!Load(r)
  PROVE  DueInv'
<1> DEFINE c == [work[r] EXCEPT !.row = item]
<1>1. work[r].at \notin {"idle", "write"}
  BY DEF Changing!Load, Changing!Reads
<1>2. CallType(work[r])
  BY <1>1, CallIs
<1>3. work' = [work EXCEPT ![r] = c] /\ UNCHANGED <<item, rules>>
  BY DEF Changing!Load, TrailInv, TrailType
<1>4. /\ c.op = work[r].op /\ c.at = work[r].at /\ c.before = work[r].before /\ c.body = work[r].body
      /\ c.n = work[r].n /\ c.queue = work[r].queue /\ c.rule = work[r].rule /\ c.listed = work[r].listed
      /\ c.alone = work[r].alone /\ c.due = work[r].due
  BY <1>2 DEF CallType
<1> HIDE DEF c
<1>5. /\ \A n, row : Beyond(rules, c, n, row) = Beyond(rules, work[r], n, row)
      /\ \A n, row : Coming(rules, c, n, row) = Coming(rules, work[r], n, row)
  BY <1>4, SameAsked
<1>6. Owes(work[r], item, rules) => Owes(c, item, rules)
  BY <1>1, <1>4, <1>5 DEF Owes
<1> QED BY <1>1, <1>3, <1>4, <1>6, DueGoesOn

\* Notifications and audit rows leave the item.
LEMMA TellsOwes ==
  ASSUME TrailInv, DueInv, NEW r \in Requests, Changing!Notify(r) \/ Changing!Audit(r)
  PROVE  DueInv'
<1> DEFINE call == work[r]
           told == IF Changing!Changed(r) THEN Changing!Expired(call) ELSE call
           c == Changing!Onward(told, r)
<1>1. call.at \in {"notify", "audit"} /\ work' = [work EXCEPT ![r] = c] /\ UNCHANGED <<item, rules>>
  BY DEF Changing!Notify, Changing!Audit
<1>2. CallShaped(call) /\ call.op \in {"create", "update", "comment"}
  BY <1>1, CallIs DEF CallShaped
<1>3. /\ CallShaped(told) /\ told.op = call.op /\ told.at = call.at /\ told.before = call.before
      /\ told.body = call.body /\ told.alone = call.alone /\ told.due = call.due
  BY <1>1, <1>2, ExpiredIs DEF WithRule
<1> HIDE DEF told
<1>4. /\ c.op = call.op /\ c.alone = call.alone /\ c.before = call.before /\ c.body = call.body /\ c.due = call.due
      /\ c.at \in {"notify", "audit"} \/ (c.at = "rules" /\ c.n = 1)
  BY <1>1, <1>3, OnwardIs DEF PhaseAfter
<1> HIDE DEF c
<1>5. \A row : Coming(rules, c, 1, row) = Coming(rules, call, 1, row)
  BY <1>4, SameAsked
<1>6. Owes(call, item, rules) => Owes(c, item, rules)
  BY <1>1, <1>2, <1>4, <1>5 DEF Owes, InRule, WithRule
<1> QED BY <1>1, <1>4, <1>6, DueGoesOn

LEMMA EventOwes ==
  ASSUME TrailInv, DueInv, NEW r \in Requests, Changing!execute_for_event(r)
  PROVE  DueInv'
<1> DEFINE call == work[r]
           found == Changing!list(Changing!Here(r))
           begun == [call EXCEPT !.at = "rule", !.queue = found, !.listed = rules]
           o == Changing!Onward(call, r)
           c == IF Changing!Changed(r) /\ found # {} THEN begun ELSE o
<1>1. call.at = "rules" /\ Changing!Ready(r) /\ work' = [work EXCEPT ![r] = c] /\ UNCHANGED <<item, rules>>
  BY DEF Changing!execute_for_event
<1>2. /\ CallShaped(call) /\ CallType(call) /\ rules \in Rules /\ item \in Rows
      /\ call.alone => Fresh(call, item)
  BY <1>1, CallIs DEF TrailInv, TrailType
<1>3. found = Chosen(rules, Changing!Here(r)) /\ found \in SUBSET RuleIds
  BY ChainIs DEF Chosen
<1> HIDE DEF found
<1>4. found # {} => /\ begun.op = call.op /\ begun.at = "rule" /\ begun.before = call.before /\ begun.body = call.body
                    /\ begun.n = call.n /\ begun.queue = found /\ begun.listed = rules
                    /\ begun.alone = call.alone /\ begun.due = call.due
  BY <1>2, <1>3 DEF CallType, InRule
<1> HIDE DEF begun
<1>5. /\ o.op = call.op /\ o.alone = call.alone /\ o.before = call.before /\ o.body = call.body /\ o.due = call.due
      /\ \/ call.op = "update" /\ call.n = 1 /\ o.n = 2 /\ o.at = "rules"
         \/ (call.op = "update" => call.n = 2) /\ o.at = "done"
  BY <1>1, <1>2, OnwardIs DEF PhaseAfter
<1> HIDE DEF o
<1>6. c.alone = call.alone /\ c.due = call.due
  BY <1>4, <1>5
<1>7. ASSUME call.alone, Owes(call, item, rules) PROVE Owes(c, item, rules)
  <2>1. /\ call.op \in {"create", "update", "comment"} /\ call.n \in {1, 2} /\ (call.n = 2 => call.op = "update")
        /\ call.due = Coming(rules, call, call.n, item)
    BY <1>1, <1>2, <1>7 DEF CallShaped, CallType, Owes
  <2>2. Changing!Here(r) = Event(call, call.n)
    <3>1. CASE call.op = "create"
      <4>1. Changing!Triggers(r) = <<"created">> /\ call.n = 1
        BY <2>1, <3>1 DEF Changing!Triggers
      <4> QED BY <3>1, <4>1 DEF Changing!Here, Event
    <3>2. CASE call.op = "comment"
      <4>1. Changing!Triggers(r) = <<"comment">> /\ call.n = 1
        BY <2>1, <3>2 DEF Changing!Triggers
      <4> QED BY <3>2, <4>1 DEF Changing!Here, Event
    <3>3. CASE call.op = "update"
      BY <2>1, <3>3, TriggersAre DEF Event
    <3> QED BY <2>1, <3>1, <3>2, <3>3
  <2>3. Changing!Changed(r) <=> Happens(call, call.n, item)
    <3>1. CASE call.op = "update"
      <4>1. Changing!Here(r) \in Fields
        BY <2>1, <2>2, <3>1 DEF Event, Fields
      <4>2. Changing!Here(r) \in DOMAIN call.body => call.row = item
        BY <1>1, <1>2, <1>7 DEF Changing!Ready, Changing!Reads, Fresh
      <4> QED BY <2>2, <3>1, <4>1, <4>2, FieldsAre DEF Changing!Changed, Happens, Moved
    <3>2. CASE call.op # "update"
      <4>1. Changing!Here(r) \notin Fields
        BY <2>1, <2>2, <3>2 DEF Event, Fields
      <4> QED BY <3>2, <4>1, FieldsAre DEF Changing!Changed, Happens
    <3> QED BY <3>1, <3>2
  <2>4. CASE Changing!Changed(r) /\ found # {}
    <3>1. call.due = Beyond(rules, call, call.n, Applied(rules)[found][item])
      BY <1>3, <2>1, <2>2, <2>3, <2>4 DEF Coming, Chain
    <3>2. begun.due = Beyond(rules, begun, begun.n, Applied(rules)[begun.queue][item])
      BY <1>4, <2>4, <3>1, SameAsked
    <3> QED BY <1>4, <2>4, <3>2 DEF Owes, InRule, WithRule
  <2>5. CASE ~(Changing!Changed(r) /\ found # {})
    <3>1. found = {} => Applied(rules)[found][item] = item
      BY <1>2, <1>3, AppliedIs
    <3>2. call.due = Beyond(rules, call, call.n, item)
      BY <1>3, <2>1, <2>2, <2>3, <2>5, <3>1 DEF Coming, Chain
    <3>3. o.due = Beyond(rules, o, call.n, item)
      BY <1>5, <3>2, SameAsked
    <3>4. Owes(o, item, rules)
      BY <1>5, <2>1, <3>3, NextEvent
    <3> QED BY <2>5, <3>4
  <2> QED BY <2>4, <2>5
<1> HIDE DEF c
<1> QED BY <1>1, <1>6, <1>7, DueGoesOn

LEMMA FetchOwes ==
  ASSUME TrailInv, DueInv, NEW r \in Requests, Changing!Fetch(r)
  PROVE  DueInv'
<1> DEFINE call == work[r]
           id == Changing!First(call.queue)
           rule == IF call.listed # NULL THEN call.listed[id] ELSE rules[id]
           c == [call EXCEPT !.rule = rule, !.at = "match"]
<1>1. /\ call.at = "rule" /\ UNCHANGED <<item, rules>>
      /\ IF rule = NULL THEN Changing!Broken(r) ELSE work' = [work EXCEPT ![r].rule = rule, ![r].at = "match"]
  BY DEF Changing!Fetch
<1>2. CASE rule = NULL
  BY <1>1, <1>2, DueEnds DEF Changing!Broken
<1>3. CASE rule # NULL
  <2>1. CallType(call)
    BY <1>1, CallIs
  <2>2. id = Newest(call.queue)
    BY ChainIs
  <2> HIDE DEF id
  <2>3. Owes(call, item, rules) => rule = rules[Newest(call.queue)]
    BY <1>1, <2>2 DEF Owes, InRule
  <2>4. work' = [work EXCEPT ![r] = c]
    BY <1>1, <1>3 DEF TrailInv, TrailType
  <2> HIDE DEF rule
  <2>5. /\ c.op = call.op /\ c.at = "match" /\ c.before = call.before /\ c.body = call.body
        /\ c.n = call.n /\ c.queue = call.queue /\ c.rule = rule /\ c.listed = call.listed
        /\ c.alone = call.alone /\ c.due = call.due
    BY <2>1 DEF CallType
  <2> HIDE DEF c
  <2>6. \A n, row : Beyond(rules, c, n, row) = Beyond(rules, call, n, row)
    BY <2>5, SameAsked
  <2>7. Owes(call, item, rules) => Owes(c, item, rules)
    BY <1>1, <2>3, <2>5, <2>6 DEF Owes, InRule, WithRule
  <2> QED BY <1>1, <2>4, <2>5, <2>7, DueGoesOn
<1> QED BY <1>2, <1>3

LEMMA MatchOwes ==
  ASSUME TrailInv, DueInv, NEW r \in Requests, Changing!_conditions_match(r)
  PROVE  DueInv'
<1> DEFINE call == work[r]
           act == [call EXCEPT !.at = "act"]
           over == Changing!Malformed(call.rule) \/ ~Changing!Matches(call.rule, call.row)
           s == Changing!Skip(call, r)
           c == IF over THEN s ELSE act
<1>1. call.at = "match" /\ Changing!Ready(r) /\ work' = [work EXCEPT ![r] = c] /\ UNCHANGED <<item, rules>>
  BY DEF Changing!_conditions_match
<1>2. /\ CallShaped(call) /\ CallType(call) /\ item \in Rows
      /\ call.alone => Fresh(call, item)
  BY <1>1, CallIs
<1>3. Running(call) /\ call.queue \in SUBSET RuleIds /\ call.queue # {}
  BY <1>1, <1>2 DEF CallShaped, CallType, Running, InRule
<1>4. /\ act.op = call.op /\ act.at = "act" /\ act.before = call.before /\ act.body = call.body
      /\ act.n = call.n /\ act.queue = call.queue /\ act.rule = call.rule /\ act.listed = call.listed
      /\ act.alone = call.alone /\ act.due = call.due
  BY <1>2 DEF CallType
<1> HIDE DEF act
<1>5. s.alone = call.alone /\ s.due = call.due
  BY <1>3, SkipIs
<1>6. c.alone = call.alone /\ c.due = call.due
  BY <1>4, <1>5
<1>7. ASSUME call.alone, Owes(call, item, rules) PROVE Owes(c, item, rules)
  <2>1. /\ call.due = Beyond(rules, call, call.n, Applied(rules)[call.queue][item])
        /\ call.listed \in {NULL, rules} /\ call.rule = rules[Newest(call.queue)]
    BY <1>1, <1>7 DEF Owes, InRule, WithRule
  <2>2. call.rule.when # NULL => call.row = item
    BY <1>1, <1>2, <1>7 DEF Changing!Ready, Changing!Reads, Fresh
  <2>3. CASE over
    <3>1. After(call.rule, item) = item
      BY <2>2, <2>3 DEF After, Changing!Malformed, Changing!Matches
    <3>2. Applied(rules)[call.queue][item] = Applied(rules)[Left(call.queue)][item]
      BY <1>2, <1>3, <2>1, <3>1, OneRule
    <3>3. Owes(s, item, rules)
      BY <1>2, <1>3, <2>1, <3>2, NextRule
    <3> QED BY <2>3, <3>3
  <2>4. CASE ~over
    <3>1. call.rule.when = NULL \/ item[call.rule.when[1]] = call.rule.when[2]
      BY <2>2, <2>4 DEF Changing!Matches
    <3>2. act.due = Beyond(rules, act, act.n, Applied(rules)[act.queue][item])
      BY <1>4, <2>1, SameAsked
    <3>3. Owes(act, item, rules)
      BY <1>4, <2>1, <3>1, <3>2 DEF Owes, InRule, WithRule
    <3> QED BY <2>4, <3>3
  <2> QED BY <2>3, <2>4
<1> HIDE DEF c
<1> QED BY <1>1, <1>6, <1>7, DueGoesOn

LEMMA ActionOwes ==
  ASSUME TrailInv, DueInv, NEW r \in Requests, Changing!_execute_action(r)
  PROVE  DueInv'
<1> DEFINE call == work[r]
           rule == call.rule
           writes == rule.does = "update" /\ (call.row = NULL \/ call.row[rule.field] # rule.value)
           past == Changing!Expired(call)
           c == [past EXCEPT !.at = "executed", !.rule = rule]
<1>1. /\ call.at = "act" /\ work' = [work EXCEPT ![r] = c] /\ UNCHANGED rules
      /\ item' = IF writes THEN [item EXCEPT ![rule.field] = rule.value] ELSE item
  BY DEF Changing!_execute_action, Changing!Updates
<1>2. /\ CallShaped(call) /\ CallType(call) /\ item \in Rows
      /\ call.alone => Fresh(call, item)
  BY <1>1, CallIs
<1>3. rule \in Shapes /\ call.queue # {} /\ call.queue \in SUBSET RuleIds
  BY <1>1, <1>2 DEF CallShaped, CallType, InRule, WithRule
<1>4. /\ CallType(past) /\ past.op = call.op /\ past.before = call.before /\ past.body = call.body
      /\ past.n = call.n /\ past.queue = call.queue /\ past.alone = call.alone /\ past.listed = NULL
      /\ past.due = call.due
  BY <1>2, ExpiredIs
<1> HIDE DEF past
<1>5. /\ c.op = call.op /\ c.at = "executed" /\ c.before = call.before /\ c.body = call.body
      /\ c.n = call.n /\ c.queue = call.queue /\ c.rule = rule /\ c.listed = NULL
      /\ c.alone = call.alone /\ c.due = call.due
  BY <1>4 DEF CallType
<1> HIDE DEF c
<1>6. ASSUME call.alone, Owes(call, item, rules) PROVE Owes(c, item', rules)
  <2>1. /\ call.due = Beyond(rules, call, call.n, Applied(rules)[call.queue][item])
        /\ rule = rules[Newest(call.queue)]
        /\ rule.when = NULL \/ item[rule.when[1]] = rule.when[2]
    BY <1>1, <1>6 DEF Owes, InRule, WithRule
  <2>2. item' = After(rule, item)
    <3>1. CASE writes
      BY <1>1, <2>1, <3>1 DEF After
    <3>2. CASE rule.does = "update" /\ ~writes
      <4>1. rule.field \in Fields /\ item[rule.field] = rule.value
        BY <1>2, <1>3, <1>6, <3>2, RuleAssumption DEF Fresh, Fields
      <4>2. [item EXCEPT ![rule.field] = rule.value] = item
        BY <1>2, <4>1 DEF Rows
      <4>3. After(rule, item) = [item EXCEPT ![rule.field] = rule.value]
        BY <2>1, <3>2 DEF After
      <4> QED BY <1>1, <3>2, <4>2, <4>3
    <3>3. CASE rule.does # "update"
      BY <1>1, <3>3 DEF After
    <3> QED BY <3>1, <3>2, <3>3
  <2>3. Applied(rules)[call.queue][item] = Applied(rules)[Left(call.queue)][item']
    BY <1>2, <1>3, <2>1, <2>2, OneRule
  <2> HIDE DEF rule
  <2>4. c.due = Beyond(rules, c, c.n, Applied(rules)[Left(c.queue)][item'])
    BY <1>5, <2>1, <2>3, SameAsked
  <2> QED BY <1>5, <2>1, <2>4 DEF Owes, InRule, WithRule
<1> HIDE DEF rule
<1> QED BY <1>1, <1>5, <1>6, DueGoesOn

LEMMA RecordOwes ==
  ASSUME TrailInv, DueInv, NEW r \in Requests, Changing!_record_execution_audit(r)
  PROVE  DueInv'
<1> DEFINE call == work[r]
           past == Changing!Expired(call)
           c == Changing!Skip(past, r)
           gone == rules[Changing!First(call.queue)] = NULL
<1>1. /\ call.at = "executed" /\ UNCHANGED <<item, rules>>
      /\ IF gone THEN Changing!Broken(r) ELSE work' = [work EXCEPT ![r] = c]
  BY DEF Changing!_record_execution_audit
<1> HIDE DEF gone
<1>2. CASE gone
  BY <1>1, <1>2, DueEnds DEF Changing!Broken
<1>3. CASE ~gone
  <2>1. CallShaped(call) /\ CallType(call) /\ item \in Rows
    BY <1>1, CallIs
  <2>2. /\ CallType(past) /\ past.op = call.op /\ past.before = call.before /\ past.body = call.body
        /\ past.n = call.n /\ past.queue = call.queue /\ past.alone = call.alone /\ past.listed = NULL
        /\ past.due = call.due
    BY <2>1, ExpiredIs
  <2> HIDE DEF past
  <2>3. Running(past)
    BY <1>1, <2>1, <2>2 DEF CallShaped, Running
  <2>4. c.alone = call.alone /\ c.due = call.due
    BY <2>2, <2>3, SkipIs
  <2>5. ASSUME Owes(call, item, rules) PROVE Owes(c, item, rules)
    <3>1. call.due = Beyond(rules, call, call.n, Applied(rules)[Left(call.queue)][item])
      BY <1>1, <2>5 DEF Owes
    <3>2. past.due = Beyond(rules, past, past.n, Applied(rules)[Left(past.queue)][item])
      BY <2>2, <3>1, SameAsked
    <3> QED BY <2>1, <2>2, <2>3, <3>2, NextRule
  <2> HIDE DEF c
  <2> QED BY <1>1, <1>3, <2>4, <2>5, DueGoesOn
<1> QED BY <1>2, <1>3

\* A call that begins owes what Due computes; beside others it owes nothing.
LEMMA DueBegins ==
  ASSUME TrailInv, DueInv, NEW r \in Requests, NEW call, CallType(call), Changing!Start(r, call),
         \A c : /\ c.op = call.op /\ c.at = call.at /\ c.body = call.body /\ c.n = call.n
                /\ c.queue = call.queue /\ c.listed = call.listed /\ c.rule = call.rule
                /\ c.before = item /\ c.due = Changing!Due(call, item)
                => Owes(c, item, rules)
  PROVE  DueInv'
<1> DEFINE others == Changing!AtWork \ {r}
           alone == others = {}
           due == Changing!Due(call, item)
           new == [call EXCEPT !.before = item, !.row = item, !.alone = alone, !.due = due]
           beside(q) == [work[q] EXCEPT !.alone = (q \notin others)]
<1>1. /\ UNCHANGED <<item, rules>>
      /\ work' = [q \in Requests |-> IF q = r THEN new ELSE beside(q)]
  BY DEF Changing!Start
<1>2. \A q \in Requests \ {r} : CallType(work[q]) /\ (q \notin others => work[q].at = "idle")
  BY IdleShaped DEF TrailInv, TrailType, CallShaped, Changing!AtWork
<1> HIDE DEF due
<1>3. /\ new.op = call.op /\ new.at = call.at /\ new.body = call.body /\ new.n = call.n
      /\ new.queue = call.queue /\ new.listed = call.listed /\ new.rule = call.rule
      /\ new.before = item /\ new.due = due
  <2> HIDE DEF alone
  <2> QED BY DEF CallType
<1> HIDE DEF new
<1>4. Pays(new, item, rules)
  BY <1>3 DEF Pays, due
<1>5. ASSUME NEW q \in Requests \ {r} PROVE Pays(beside(q), item, rules)
  <2>1. CASE q \in others
    <3>1. (q \notin others) = FALSE
      BY <2>1
    <3>2. beside(q) = [work[q] EXCEPT !.alone = FALSE]
      BY <3>1
    <3>3. ~beside(q).alone
      BY <1>2, <3>2 DEF CallType
    <3> QED BY <3>3 DEF Pays
  <2>2. CASE q \notin others
    <3>1. beside(q).at = work[q].at
      <4> HIDE DEF others
      <4> QED BY <1>2 DEF CallType
    <3> QED BY <1>2, <2>2, <3>1 DEF Pays
  <2> QED BY <2>1, <2>2
<1>6. \A q \in Requests : work'[q] = IF q = r THEN new ELSE beside(q)
  BY <1>1
<1> HIDE DEF beside
<1> QED BY <1>1, <1>4, <1>5, <1>6 DEF DueInv

LEMMA CreateOwes ==
  ASSUME TrailInv, DueInv, NEW r \in Requests, NEW row \in Rows, Changing!Create(r, row)
  PROVE  DueInv'
<1> DEFINE call == [Changing!Idle EXCEPT !.op = "create", !.at = "write", !.body = row]
<1>1. Changing!Start(r, call)
  BY DEF Changing!Create
<1>2. call.op = "create" /\ call.at = "write" /\ call.body = row /\ CallType(call)
  BY DEF CallType, Changing!Idle
<1> HIDE DEF call
<1>3. Changing!Due(call, item) = Chain(rules, "created", row)
  BY <1>2, ChainIs DEF Changing!Due
<1>4. ASSUME NEW c, c.op = call.op, c.at = call.at, c.body = call.body, c.due = Changing!Due(call, item)
      PROVE  Owes(c, item, rules)
  <2>1. Coming(rules, c, 1, Written(c, item)) = Chain(rules, "created", row)
    BY <1>2, <1>4 DEF Coming, Beyond, Happens, Event, Written
  <2> QED BY <1>2, <1>3, <1>4, <2>1 DEF Owes, InRule, WithRule
<1> QED BY <1>1, <1>2, <1>4, DueBegins

LEMMA PatchOwes ==
  ASSUME TrailInv, DueInv, NEW r \in Requests, NEW body \in Changing!Bodies, Changing!Update(r, body)
  PROVE  DueInv'
<1> DEFINE call == [Changing!Idle EXCEPT !.op = "update", !.at = "write", !.body = body]
           wrote == [f \in Fields |-> IF f \in DOMAIN body THEN body[f] ELSE item[f]]
           new_in(f, row) == f \in DOMAIN body /\ row[f] # item[f]
           first == IF new_in("status", wrote) THEN Chain(rules, "status", wrote) ELSE wrote
<1>1. Changing!Start(r, call)
  BY DEF Changing!Update
<1>2. call.op = "update" /\ call.at = "write" /\ call.body = body /\ CallType(call)
  BY DEF CallType, Changing!Idle
<1> HIDE DEF call
<1>3. Changing!Due(call, item) = IF new_in("priority", first) THEN Chain(rules, "priority", first) ELSE first
  BY <1>2, ChainIs, FieldsAre DEF Changing!Due
<1>4. ASSUME NEW c, c.op = call.op, c.at = call.at, c.body = call.body, c.before = item,
             c.due = Changing!Due(call, item)
      PROVE  Owes(c, item, rules)
  <2>1. Written(c, item) = wrote
    BY <1>2, <1>4 DEF Written
  <2>2. \A f, row : Moved(c, f, row) <=> new_in(f, row)
    BY <1>2, <1>4 DEF Moved
  <2> HIDE DEF new_in, wrote
  <2>3. (IF Happens(c, 1, wrote) THEN Chain(rules, Event(c, 1), wrote) ELSE wrote) = first
    <3>1. Event(c, 1) = "status"
      BY <1>2, <1>4 DEF Event
    <3> QED BY <1>2, <1>4, <2>2, <3>1 DEF Happens
  <2> HIDE DEF first
  <2>4. Coming(rules, c, 1, wrote) = Beyond(rules, c, 1, first)
    BY <2>3 DEF Coming
  <2>5. Beyond(rules, c, 1, first) = IF new_in("priority", first) THEN Chain(rules, "priority", first) ELSE first
    BY <1>2, <1>4, <2>2 DEF Beyond
  <2> QED BY <1>2, <1>3, <1>4, <2>1, <2>4, <2>5 DEF Owes, InRule, WithRule
<1> QED BY <1>1, <1>2, <1>4, DueBegins

LEMMA CommentOwes ==
  ASSUME TrailInv, DueInv, NEW r \in Requests, Changing!Comment(r)
  PROVE  DueInv'
<1> DEFINE call == [Changing!Idle EXCEPT !.op = "comment", !.at = "notify"]
<1>1. Changing!Start(r, call)
  BY DEF Changing!Comment
<1>2. call.op = "comment" /\ call.at = "notify" /\ CallType(call)
  BY DEF CallType, Changing!Idle
<1> HIDE DEF call
<1>3. Changing!Due(call, item) = Chain(rules, "comment", item)
  BY <1>2, ChainIs DEF Changing!Due
<1>4. ASSUME NEW c, c.op = call.op, c.at = call.at, c.due = Changing!Due(call, item)
      PROVE  Owes(c, item, rules)
  <2>1. Coming(rules, c, 1, item) = Chain(rules, "comment", item)
    BY <1>2, <1>4 DEF Coming, Beyond, Happens, Event
  <2> QED BY <1>2, <1>3, <1>4, <2>1 DEF Owes, InRule, WithRule
<1> QED BY <1>1, <1>2, <1>4, DueBegins

LEMMA TestOwes ==
  ASSUME TrailInv, DueInv, NEW r \in Requests, NEW n \in RuleIds, Changing!test_rule(r, n)
  PROVE  DueInv'
<1> DEFINE call == [Changing!Idle EXCEPT !.op = "test", !.at = "match", !.queue = {n}, !.rule = rules[n]]
<1>1. item # NULL /\ rules[n] # NULL /\ Changing!Start(r, call)
  BY DEF Changing!test_rule
<1>2. rules[n] \in Shapes /\ item \in Rows
  BY <1>1 DEF TrailInv, TrailType, Rules
<1>3. /\ call.op = "test" /\ call.at = "match" /\ call.queue = {n} /\ call.rule = rules[n]
      /\ call.listed = NULL /\ CallType(call)
  BY <1>2 DEF CallType, Changing!Idle, InRule
<1> HIDE DEF call
<1>4. Changing!Due(call, item) = After(rules[n], item)
  BY <1>3, ChainIs DEF Changing!Due
<1>5. Newest({n}) = n /\ Left({n}) = {}
  <2>1. Newest({n}) \in {n}
    <3>1. \E x \in {n} : \A y \in {n} : x >= y
      BY DEF RuleIds
    <3> QED BY <3>1 DEF Newest
  <2> QED BY <2>1 DEF Left
<1>6. Applied(rules)[{n}][item] = After(rules[n], item)
  <2> DEFINE row == After(rules[n], item)
  <2>1. row \in Rows
    BY <1>2, AfterIs
  <2> HIDE DEF row
  <2>2. \A none \in SUBSET RuleIds : none = {} => Applied(rules)[none][row] = row
    BY <2>1, AppliedIs
  <2>3. Applied(rules)[{n}][item] = Applied(rules)[Left({n})][row]
    BY <1>2, <1>5, OneRule DEF row
  <2> QED BY <1>5, <2>2, <2>3 DEF row
<1>7. ASSUME NEW c, c.op = call.op, c.at = call.at, c.queue = call.queue, c.listed = call.listed,
             c.rule = call.rule, c.due = Changing!Due(call, item)
      PROVE  Owes(c, item, rules)
  <2>1. Beyond(rules, c, c.n, Applied(rules)[c.queue][item]) = Changing!Due(call, item)
    BY <1>3, <1>4, <1>6, <1>7 DEF Beyond
  <2>2. c.rule = rules[Newest(c.queue)]
    BY <1>3, <1>5, <1>7
  <2> QED BY <1>3, <1>7, <2>1, <2>2 DEF Owes, InRule, WithRule
<1> QED BY <1>1, <1>3, <1>7, DueBegins

\* Changed rules make every call's debt void.
LEMMA AdministerOwes ==
  ASSUME TrailInv, DueInv, NEW n \in RuleIds, NEW rule \in Shapes \cup {NULL}, Changing!Administer(n, rule)
  PROVE  DueInv'
<1>1. work' = [q \in Requests |-> [work[q] EXCEPT !.due = NULL]]
  BY DEF Changing!Administer
<1>2. \A q \in Requests : CallType(work[q])
  BY DEF TrailInv, TrailType, CallShaped
<1>3. ASSUME NEW q \in Requests PROVE work'[q].due = NULL
  <2>1. [work[q] EXCEPT !.due = NULL].due = NULL
    BY <1>2 DEF CallType
  <2> QED BY <1>1, <2>1
<1> QED BY <1>3 DEF DueInv, Pays

LEMMA DueNext ==
  ASSUME TrailInv, DueInv, Changing!Next \/ UNCHANGED <<s1, s2, s3, s4, s5>>
  PROVE  DueInv'
<1>1. CASE Changing!Next
  <2>1. ASSUME NEW r \in Requests, NEW row \in [Changing!Fields -> Values], Changing!Create(r, row)
        PROVE  DueInv'
    BY <2>1, FieldsAre, CreateOwes DEF Rows
  <2>2. ASSUME NEW r \in Requests, NEW body \in Changing!Bodies, Changing!Update(r, body)
        PROVE  DueInv'
    BY <2>2, PatchOwes
  <2>3. ASSUME NEW r \in Requests, NEW n \in Changing!RuleIds, Changing!test_rule(r, n)
        PROVE  DueInv'
    BY <2>3, TestOwes DEF RuleIds, Changing!RuleIds
  <2>4. ASSUME NEW r \in Requests,
               \/ Changing!Comment(r) \/ Changing!Write(r) \/ Changing!Load(r) \/ Changing!Notify(r)
               \/ Changing!Audit(r) \/ Changing!execute_for_event(r) \/ Changing!Fetch(r)
        PROVE  DueInv'
    BY <2>4, CommentOwes, WriteOwes, LoadOwes, TellsOwes, EventOwes, FetchOwes
  <2>5. ASSUME NEW r \in Requests,
               \/ Changing!_conditions_match(r) \/ Changing!_execute_action(r)
               \/ Changing!_record_execution_audit(r)
        PROVE  DueInv'
    BY <2>5, MatchOwes, ActionOwes, RecordOwes
  <2>6. ASSUME NEW r \in Requests, Changing!Return(r) \/ Changing!Fail(r)
        PROVE  DueInv'
    BY <2>6, DueEnds DEF Changing!Return, Changing!Fail, Changing!Broken
  <2>7. ASSUME NEW n \in Changing!RuleIds, NEW rule \in Shapes \cup {NULL}, Changing!Administer(n, rule)
        PROVE  DueInv'
    BY <2>7, AdministerOwes DEF RuleIds, Changing!RuleIds
  <2> QED BY <1>1, <2>1, <2>2, <2>3, <2>4, <2>5, <2>6, <2>7 DEF Changing!Next
<1>2. CASE UNCHANGED <<s1, s2, s3, s4, s5>>
  BY <1>2 DEF DueInv
<1> QED BY <1>1, <1>2

\* A call nothing overlapped leaves the item as the rules say: each decides on what the
\* newer ones before it wrote, those of the status before those of the priority.
THEOREM RulesInOrderHolds == Spec => []RulesInOrder
<1>1. Init => (part = "changing" => DueInv)
  <2>1. Changing!Init => DueInv
    BY IdleShaped DEF Changing!Init, DueInv, Pays
  <2> QED BY <2>1 DEF Init
<1>2. /\ part = "changing" => TrailInv
      /\ part = "changing" => DueInv
      /\ [Next]_vars
      => (part = "changing" => DueInv)'
  BY ChangingStep, DueNext
<1>3. (part = "changing" => DueInv) => RulesInOrder
  BY DEF RulesInOrder, Changing!RulesInOrder, DueInv, Pays, Owes
<1> QED BY <1>1, <1>2, <1>3, TrailHolds, PTL DEF Spec
=============================================================================
