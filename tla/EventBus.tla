------------------------------ MODULE EventBus ------------------------------
(***************************************************************************)
(* The event bus: event-service's EventService and SubscriptionService     *)
(* (services/event-service/app) with its three tables, and the EventClient *)
(* (packages/shared-events) through which every service publishes.         *)
(*                                                                         *)
(* A request runs in a thread of its own with a session of its own, so     *)
(* every query and every commit below is a step that other requests        *)
(* interleave with.  A commit expires the session's objects: an attribute  *)
(* read after it goes back to the table (rows[r][s] = NoRow).              *)
(***************************************************************************)
EXTENDS Integers, Sequences, SequencesExt

CONSTANTS
  Requests,      \* POST /api/v1/events calls
  Editors,       \* concurrent PATCH / DELETE /subscriptions calls
  EventIds,      \* event_id values, chosen by the caller
  Bodies,        \* records [event_name, workspace_id] a caller may post
  MaxSub,        \* bound on the subscription row ids
  NewSubs,       \* subscription rows POST /subscriptions may create
  Changes,       \* PATCH bodies: [event_pattern, is_active], Unset if absent
  NULL, NoRow, Unset

SubIds == 1..MaxSub
Patterns == {s.event_pattern : s \in NewSubs} \cup {c.event_pattern : c \in Changes}
SubRows == [workspace_id : {s.workspace_id : s \in NewSubs},
            event_pattern : Patterns \ {Unset}, is_active : BOOLEAN]

ASSUME ConstantsAssumption ==
  /\ MaxSub \in Nat
  /\ NewSubs \subseteq SubRows
  /\ \A c \in Changes : c.is_active \in BOOLEAN \cup {Unset}
  /\ NoRow \notin SubRows /\ NoRow \notin Bodies /\ NULL \notin SubIds
  /\ Unset \notin BOOLEAN

VARIABLES
  events,        \* event_records: EventIds -> body, or NoRow
  subs,          \* event_subscriptions: SubIds -> row, or NoRow
  logs,          \* event_delivery_logs in row id order; rows are never deleted
  pc,            \* where the thread of a publish request stands
  event_id, body,\* what the request posted
  queue,         \* listed subscriptions the loop has not yet handled
  rows,          \* their loaded attributes, NoRow once expired
  current,       \* the matched subscription whose log is being written
  result,        \* what the EventClient call reported to its producer
  edit,          \* a PATCH or DELETE between its read and its commit
  touched,       \* history: ids written since the request listed subscriptions
  deleted        \* history: subscription ids that were deleted once

vars == <<events, subs, logs, pc, event_id, body, queue, rows, current, result,
          edit, touched, deleted>>
request == <<event_id, body>>
history == <<touched, deleted>>

Running == {"insert", "list", "match", "log"}
Final   == {"ok", "rejected", "error"}
Idle    == [op |-> "idle"]
NoRows  == [s \in SubIds |-> NoRow]

Init ==
  /\ events = [e \in EventIds |-> NoRow]
  /\ subs = NoRows
  /\ logs = <<>>
  /\ pc = [r \in Requests |-> "idle"]
  /\ event_id \in [Requests -> EventIds]
  /\ body \in [Requests -> Bodies]
  /\ queue = [r \in Requests |-> {}]
  /\ rows = [r \in Requests |-> NoRows]
  /\ current = [r \in Requests |-> NULL]
  /\ result = [r \in Requests |-> "waiting"]
  /\ edit = [a \in Editors |-> Idle]
  /\ touched = [r \in Requests |-> {}]
  /\ deleted = {}

-----------------------------------------------------------------------------
(* Operators                                                               *)

\* Names are sequences of segments; a pattern is "*", "<segs>.*" or a name.
event_matches_pattern(event_name, pattern) ==
  \/ pattern.kind = "all"
  \/ pattern.kind = "prefix" /\ IsStrictPrefix(pattern.segs, event_name)
  \/ pattern.kind = "exact" /\ event_name = pattern.segs

Active(row) == row # NoRow /\ row.is_active

\* Mutants of Selects: the workspace clause dropped, and global rows and events
\* without a workspace left out.
SelectsEverywhere(row, workspace_id) == Active(row)
SelectsOwnOnly(row, workspace_id) == Active(row) /\ row.workspace_id = workspace_id

\* The filter of list_active_for_workspace: no workspace selects every row.
Selects(row, workspace_id) ==
  /\ Active(row)
  /\ workspace_id = NULL \/ row.workspace_id \in {workspace_id, NULL}

Logged(e, s) ==
  \E i \in DOMAIN logs : logs[i].event_record = e /\ logs[i].subscription_id = s

\* Requests that listed a subscription before one of its columns changed.
WriteSub(s, row) ==
  /\ subs' = [subs EXCEPT ![s] = row]
  /\ touched' = [r \in Requests |-> touched[r] \cup {s}]

\* The response is made and get_db closes the session with what it had loaded.
End(r, outcome) ==
  /\ pc' = [pc EXCEPT ![r] = outcome]
  /\ queue' = [queue EXCEPT ![r] = {}]
  /\ rows' = [rows EXCEPT ![r] = NoRows]
  /\ current' = [current EXCEPT ![r] = NULL]

-----------------------------------------------------------------------------
(* EventService.publish                                                    *)

\* The request arrives; get_by_event_id refuses an event_id already stored.
PublishBegin(r) ==
  /\ pc[r] = "idle"
  /\ pc' = [pc EXCEPT ![r] = IF events[event_id[r]] # NoRow THEN "rejected" ELSE "insert"]
  /\ UNCHANGED <<events, subs, logs, request, queue, rows, current, result, edit, history>>

\* Mutant of EventInsert: the table has no unique constraint on event_id.
EventInsertTwice(r) ==
  /\ pc[r] = "insert"
  /\ events' = [events EXCEPT ![event_id[r]] = body[r]]
  /\ pc' = [pc EXCEPT ![r] = "list"]
  /\ UNCHANGED <<subs, logs, request, queue, rows, current, result, edit, history>>

\* EventRepository.create: uq_event_records_event_id fails the later of two.
EventInsert(r) ==
  /\ pc[r] = "insert"
  /\ IF events[event_id[r]] = NoRow
     THEN /\ events' = [events EXCEPT ![event_id[r]] = body[r]]
          /\ pc' = [pc EXCEPT ![r] = "list"]
     ELSE /\ pc' = [pc EXCEPT ![r] = "error"]
          /\ UNCHANGED events
  /\ UNCHANGED <<subs, logs, request, queue, rows, current, result, edit, history>>

list_active_for_workspace(r) ==
  /\ pc[r] = "list"
  /\ LET found == {s \in SubIds : Selects(subs[s], body[r].workspace_id)}
     IN /\ queue' = [queue EXCEPT ![r] = found]
        /\ rows' = [rows EXCEPT ![r] = [s \in SubIds |-> IF s \in found THEN subs[s] ELSE NoRow]]
  /\ touched' = [touched EXCEPT ![r] = {}]
  /\ pc' = [pc EXCEPT ![r] = "match"]
  /\ UNCHANGED <<events, subs, logs, request, current, result, edit, deleted>>

\* One turn of the loop up to the commit.  The row is the listed one until the
\* first commit, and is read again after it: a deleted row ends the request
\* (ObjectDeletedError), and only the pattern is looked at, not is_active.
MatchNext(r, s) ==
  LET row == IF rows[r][s] # NoRow THEN rows[r][s] ELSE subs[s]
  IN /\ pc[r] = "match" /\ s \in queue[r]
     /\ \/ /\ row = NoRow
           /\ End(r, "error")
        \/ /\ row # NoRow
           /\ event_matches_pattern(body[r].event_name, row.event_pattern)
           /\ pc' = [pc EXCEPT ![r] = "log"]
           /\ queue' = [queue EXCEPT ![r] = @ \ {s}]
           /\ current' = [current EXCEPT ![r] = s]
           /\ UNCHANGED rows
        \/ /\ row # NoRow
           /\ ~event_matches_pattern(body[r].event_name, row.event_pattern)
           /\ queue' = [queue EXCEPT ![r] = @ \ {s}]
           /\ UNCHANGED <<pc, current, rows>>
     /\ UNCHANGED <<events, subs, logs, request, result, edit, history>>

\* Mutant of LogInsert: the loop is left after the first match.
LogInsertAndReturn(r) ==
  /\ pc[r] = "log"
  /\ logs' = Append(logs, [event_record |-> event_id[r], subscription_id |-> current[r]])
  /\ End(r, "ok")
  /\ UNCHANGED <<events, subs, request, result, edit, history>>

\* DeliveryLogRepository.create, its commit expiring what the loop has loaded.
\* Foreign keys are not enforced: the subscription may be gone by now.
LogInsert(r) ==
  /\ pc[r] = "log"
  /\ logs' = Append(logs, [event_record |-> event_id[r], subscription_id |-> current[r]])
  /\ rows' = [rows EXCEPT ![r] = NoRows]
  /\ current' = [current EXCEPT ![r] = NULL]
  /\ pc' = [pc EXCEPT ![r] = "match"]
  /\ UNCHANGED <<events, subs, request, queue, result, edit, history>>

\* Mutant of PublishReturn: answer only if no subscription changed meanwhile.
PublishReturnUntouched(r) ==
  /\ pc[r] = "match" /\ queue[r] = {} /\ touched[r] = {}
  /\ End(r, "ok")
  /\ UNCHANGED <<events, subs, logs, request, result, edit, history>>

PublishReturn(r) ==
  /\ pc[r] = "match" /\ queue[r] = {}
  /\ End(r, "ok")
  /\ UNCHANGED <<events, subs, logs, request, result, edit, history>>

\* The process stops, or SQLite answers "database is locked": what was
\* committed stays, the rest of the request never happens.
PublishFail(r) ==
  /\ pc[r] \in Running
  /\ End(r, "error")
  /\ UNCHANGED <<events, subs, logs, request, result, edit, history>>

-----------------------------------------------------------------------------
(* EventClient.publish_event, seen from the producer                       *)

\* Mutant of ClientReply: any answer counts as published.
ClientReplyAnyStatus(r) ==
  /\ result[r] = "waiting" /\ pc[r] \in Final
  /\ result' = [result EXCEPT ![r] = "published"]
  /\ UNCHANGED <<events, subs, logs, pc, request, queue, rows, current, edit, history>>

ClientReply(r) ==
  /\ result[r] = "waiting" /\ pc[r] \in Final
  /\ result' = [result EXCEPT ![r] = IF pc[r] = "ok" THEN "published" ELSE "failed"]
  /\ UNCHANGED <<events, subs, logs, pc, request, queue, rows, current, edit, history>>

\* Ten seconds passed or the connection broke; the service does not notice.
ClientTimeout(r) ==
  /\ result[r] = "waiting"
  /\ result' = [result EXCEPT ![r] = "failed"]
  /\ UNCHANGED <<events, subs, logs, pc, request, queue, rows, current, edit, history>>

-----------------------------------------------------------------------------
(* SubscriptionService                                                     *)

\* SQLite gives the row the id after the largest one in the table.
IsNextRowId(s) ==
  \A t \in SubIds : (t = s - 1 => subs[t] # NoRow) /\ (t >= s => subs[t] = NoRow)

SubCreate(row) ==
  \E s \in SubIds :
    /\ IsNextRowId(s)
    /\ WriteSub(s, row)
    /\ UNCHANGED <<events, logs, pc, request, queue, rows, current, result, edit, deleted>>

SubUpdateLoad(a, s, data) ==
  /\ edit[a] = Idle /\ subs[s] # NoRow
  /\ edit' = [edit EXCEPT ![a] = [op |-> "update", id |-> s, row |-> subs[s], data |-> data]]
  /\ UNCHANGED <<events, subs, logs, pc, request, queue, rows, current, result, history>>

\* Mutant of Column: model_dump() without exclude_unset.
ColumnUnset(stored, loaded, new) == new

\* The UPDATE names only the columns whose new value differs from the loaded one.
Column(stored, loaded, new) == IF new \in {Unset, loaded} THEN stored ELSE new

\* A row deleted meanwhile makes the flush fail (StaleDataError).
SubUpdateCommit(a) ==
  /\ edit[a].op = "update"
  /\ LET s == edit[a].id
         loaded == edit[a].row
         data == edit[a].data
     IN IF subs[s] = NoRow THEN UNCHANGED <<subs, touched>>
        ELSE WriteSub(s,
               [workspace_id |-> subs[s].workspace_id,
                event_pattern |-> Column(subs[s].event_pattern, loaded.event_pattern, data.event_pattern),
                is_active |-> Column(subs[s].is_active, loaded.is_active, data.is_active)])
  /\ edit' = [edit EXCEPT ![a] = Idle]
  /\ UNCHANGED <<events, logs, pc, request, queue, rows, current, result, deleted>>

\* db.delete loads the subscription's delivery logs before it writes.
SubDeleteLoad(a, s) ==
  /\ edit[a] = Idle /\ subs[s] # NoRow
  /\ edit' = [edit EXCEPT ![a] = [op |-> "delete", id |-> s,
                logs |-> {i \in DOMAIN logs : logs[i].subscription_id = s}]]
  /\ UNCHANGED <<events, subs, logs, pc, request, queue, rows, current, result, history>>

\* The loaded logs lose their subscription and the row goes, in one commit.
SubDeleteCommit(a) ==
  /\ edit[a].op = "delete"
  /\ WriteSub(edit[a].id, NoRow)
  /\ logs' = [i \in DOMAIN logs |-> IF i \in edit[a].logs
                                    THEN [logs[i] EXCEPT !.subscription_id = NULL]
                                    ELSE logs[i]]
  /\ deleted' = deleted \cup {edit[a].id}
  /\ edit' = [edit EXCEPT ![a] = Idle]
  /\ UNCHANGED <<events, pc, request, queue, rows, current, result>>

\* An edit that fails before its single commit leaves nothing behind.
EditFail(a) ==
  /\ edit[a] # Idle
  /\ edit' = [edit EXCEPT ![a] = Idle]
  /\ UNCHANGED <<events, subs, logs, pc, request, queue, rows, current, result, history>>

-----------------------------------------------------------------------------
Publish(r) ==
  \/ PublishBegin(r) \/ EventInsert(r) \/ list_active_for_workspace(r)
  \/ (\E s \in SubIds : MatchNext(r, s)) \/ LogInsert(r) \/ PublishReturn(r)

Client(r) == ClientReply(r) \/ ClientTimeout(r)

Edit(a) ==
  \/ \E s \in SubIds : SubDeleteLoad(a, s) \/ \E data \in Changes : SubUpdateLoad(a, s, data)
  \/ SubUpdateCommit(a) \/ SubDeleteCommit(a) \/ EditFail(a)

ReliableNext ==
  \/ \E r \in Requests : Publish(r) \/ Client(r)
  \/ \E row \in NewSubs : SubCreate(row)
  \/ \E a \in Editors : Edit(a)

Next == ReliableNext \/ \E r \in Requests : PublishFail(r)

Spec == Init /\ [][Next]_vars

\* The executions in which no process stops and no database call fails.
ReliableSpec == Init /\ [][ReliableNext]_vars

\* A server thread that can run does run.  Nothing makes a request arrive or
\* anyone edit subscriptions, and no reply has to reach its client.
FairSpec == Spec /\ \A r \in Requests : WF_vars(pc[r] # "idle" /\ Publish(r))

-----------------------------------------------------------------------------
(* Properties                                                              *)

\* Every variable stays in its type.
LogRows == [event_record : EventIds, subscription_id : SubIds \cup {NULL}]
Edits ==
  {Idle} \cup [op : {"update"}, id : SubIds, row : SubRows, data : Changes]
         \cup [op : {"delete"}, id : SubIds, logs : SUBSET Nat]
TypeOK ==
  /\ events \in [EventIds -> Bodies \cup {NoRow}]
  /\ subs \in [SubIds -> SubRows \cup {NoRow}]
  /\ logs \in Seq(LogRows)
  /\ pc \in [Requests -> {"idle"} \cup Running \cup Final]
  /\ event_id \in [Requests -> EventIds]
  /\ body \in [Requests -> Bodies]
  /\ queue \in [Requests -> SUBSET SubIds]
  /\ rows \in [Requests -> [SubIds -> SubRows \cup {NoRow}]]
  /\ current \in [Requests -> SubIds \cup {NULL}]
  /\ result \in [Requests -> {"waiting", "published", "failed"}]
  /\ edit \in [Editors -> Edits]
  /\ touched \in [Requests -> SUBSET SubIds]
  /\ deleted \subseteq SubIds

\* An event is put in a subscription's delivery log at most once, however many
\* callers post the same event_id and whatever happens to subscriptions while
\* the fan-out runs: get_by_event_id alone (check-then-act) would not give
\* this, the unique constraint and the single pass over the list do.
AtMostOneLog ==
  \A i, j \in DOMAIN logs :
    /\ i # j
    /\ logs[i].event_record = logs[j].event_record
    /\ logs[i].subscription_id = logs[j].subscription_id
    => logs[i].subscription_id = NULL

\* A matching active subscription of the event's workspace or of all of them.
Concerned(s, r) ==
  /\ subs[s] # NoRow /\ subs[s].is_active
  /\ body[r].workspace_id # NULL => subs[s].workspace_id \in {body[r].workspace_id, NULL}
  /\ event_matches_pattern(body[r].event_name, subs[s].event_pattern)

\* A publish that answers 200 has logged the event for every subscription that
\* selects and matches it and was not written since the list was read, in spite
\* of the other subscriptions edited and deleted meanwhile.
FanOutComplete ==
  \A r \in Requests : pc[r] = "ok" =>
    \A s \in SubIds \ touched[r] : Concerned(s, r) => Logged(event_id[r], s)

\* The stored event is the one the caller was told is published: of the callers
\* that post one event_id with different bodies only the stored one hears so.
PublishedIsStored ==
  \A r \in Requests : result[r] = "published" => events[event_id[r]] = body[r]

\* An event of a workspace is not logged for a subscription of another one.
\* SQLite reuses the id of a deleted last row, and a fan-out under way or a
\* log row left behind then names the new owner: ids that were deleted are left out.
WorkspaceIsolation ==
  \A i \in DOMAIN logs :
    LET s == logs[i].subscription_id
        w == events[logs[i].event_record].workspace_id
    IN s # NULL /\ s \notin deleted /\ w # NULL => subs[s].workspace_id \in {w, NULL}

\* Every accepted publish ends: a subscription being edited, created or deleted
\* cannot keep the fan-out loop running.
EveryPublishEnds == \A r \in Requests : pc[r] = "insert" ~> pc[r] \in Final

\* docs/event-bus.md: the service "Creates placeholder `pending` delivery logs
\* for matching active subscriptions."  Once nobody is working on a stored event
\* each subscription that has matched it all along has its log.
StoredEventsAreLogged ==
  \A r \in Requests :
    events[event_id[r]] = body[r] /\ (\A q \in Requests : pc[q] \in {"idle"} \cup Final)
    => \A s \in SubIds \ touched[r] : Concerned(s, r) => Logged(event_id[r], s)

\* The bus implements Delivery: every step of a request, an editor or a failure is
\* one step of the abstract bus or none, whoever else is in the middle of what.
Abstract == INSTANCE Delivery WITH accepted <- events, log <- logs, outcome <- result
ImplementsDelivery == Abstract!Spec
=============================================================================
