--------------------------- MODULE EventBusProofs ---------------------------
(* Theorems about EventBus for every number of requests, editors, events,  *)
(* subscriptions and bodies, with their proofs.                            *)
EXTENDS EventBus, SequenceTheorems, TLAPS

-----------------------------------------------------------------------------
(* The rewrite of the log rows by a subscription's deletion                *)

DetachedLogs(rs) ==
  [i \in DOMAIN logs |-> IF i \in rs THEN [logs[i] EXCEPT !.subscription_id = NULL] ELSE logs[i]]

\* The deletion of a subscription keeps the delivery log a sequence of the same
\* length with the same events: it only takes subscription ids away.
LEMMA DetachedLogsType ==
  ASSUME NEW rs, logs \in Seq(LogRows)
  PROVE  /\ DetachedLogs(rs) \in Seq(LogRows)
         /\ DOMAIN DetachedLogs(rs) = DOMAIN logs
         /\ \A i \in DOMAIN logs :
              /\ DetachedLogs(rs)[i].event_record = logs[i].event_record
              /\ DetachedLogs(rs)[i].subscription_id \in {NULL, logs[i].subscription_id}
              /\ i \notin rs => DetachedLogs(rs)[i] = logs[i]
<1>1. DOMAIN logs = 1..Len(logs) /\ Len(logs) \in Nat /\ \A i \in DOMAIN logs : logs[i] \in LogRows
  OBVIOUS
<1>2. \A i \in DOMAIN logs : DetachedLogs(rs)[i] \in LogRows
  BY <1>1 DEF DetachedLogs, LogRows
<1>3. DetachedLogs(rs) \in Seq(LogRows)
  BY <1>1, <1>2, IsASeq DEF DetachedLogs
<1> QED
  BY <1>1, <1>3 DEF DetachedLogs, LogRows

-----------------------------------------------------------------------------
(* Type correctness                                                        *)

\* The initial state is of the right type.
LEMMA TypeInit == Init => TypeOK
BY ConstantsAssumption DEF Init, TypeOK, NoRows, Edits, Idle

\* Nothing loaded is of the right type.
LEMMA NoRowsType == NoRows \in [SubIds -> SubRows \cup {NoRow}]
BY DEF NoRows

\* The row a PATCH commits: the stored one with the changed columns replaced.
UpdatedRow(a) ==
  LET stored == subs[edit[a].id] IN
    [workspace_id |-> stored.workspace_id,
     event_pattern |-> Column(stored.event_pattern, edit[a].row.event_pattern, edit[a].data.event_pattern),
     is_active |-> Column(stored.is_active, edit[a].row.is_active, edit[a].data.is_active)]

\* It is a subscription row again.
LEMMA UpdatedRowType ==
  ASSUME TypeOK, NEW a \in Editors, edit[a].op = "update", subs[edit[a].id] # NoRow
  PROVE  UpdatedRow(a) \in SubRows
<1>1. edit[a] \in [op : {"update"}, id : SubIds, row : SubRows, data : Changes]
  BY DEF TypeOK, Edits, Idle
<1>2. subs[edit[a].id] \in SubRows
  BY <1>1 DEF TypeOK
<1>3. UpdatedRow(a).event_pattern \in Patterns \ {Unset}
  BY <1>1, <1>2 DEF UpdatedRow, Column, SubRows, Patterns
<1>4. UpdatedRow(a).is_active \in BOOLEAN
  BY <1>1, <1>2, ConstantsAssumption DEF UpdatedRow, Column, SubRows
<1> QED BY <1>2, <1>3, <1>4 DEF UpdatedRow, SubRows

\* Every step keeps the type.
LEMMA TypeNext == TypeOK /\ [Next]_vars => TypeOK'
<1> SUFFICES ASSUME TypeOK, [Next]_vars PROVE TypeOK'
  OBVIOUS
<1> USE DEF TypeOK, request, history, Running, Final
<1>1. ASSUME NEW r \in Requests, PublishBegin(r) PROVE TypeOK'
  BY <1>1 DEF PublishBegin
<1>2. ASSUME NEW r \in Requests, EventInsert(r) PROVE TypeOK'
  <2>1. events' \in [EventIds -> Bodies \cup {NoRow}]
    BY <1>2 DEF EventInsert
  <2>2. pc' \in [Requests -> {"idle"} \cup Running \cup Final]
    BY <1>2 DEF EventInsert
  <2> QED
    BY <1>2, <2>1, <2>2 DEF EventInsert
<1>3. ASSUME NEW r \in Requests, list_active_for_workspace(r) PROVE TypeOK'
  BY <1>3 DEF list_active_for_workspace, Selects, Active
<1>4. ASSUME NEW r \in Requests, NEW s \in SubIds, MatchNext(r, s) PROVE TypeOK'
  <2>1. /\ pc' \in [Requests -> {"idle"} \cup Running \cup Final]
        /\ queue' \in [Requests -> SUBSET SubIds]
    BY <1>4 DEF MatchNext, End
  <2>2. rows' = rows \/ rows' = [rows EXCEPT ![r] = NoRows]
    BY <1>4 DEF MatchNext, End
  <2>3. rows' \in [Requests -> [SubIds -> SubRows \cup {NoRow}]]
    BY <2>2, NoRowsType
  <2>4. current' \in [Requests -> SubIds \cup {NULL}]
    BY <1>4 DEF MatchNext, End
  <2> QED
    BY <1>4, <2>1, <2>3, <2>4 DEF MatchNext
<1>5. ASSUME NEW r \in Requests, LogInsert(r) PROVE TypeOK'
  BY <1>5 DEF LogInsert, LogRows, NoRows
<1>6. ASSUME NEW r \in Requests, PublishReturn(r) PROVE TypeOK'
  BY <1>6 DEF PublishReturn, End, NoRows
<1>7. ASSUME NEW r \in Requests, PublishFail(r) PROVE TypeOK'
  BY <1>7 DEF PublishFail, End, NoRows
<1>8. ASSUME NEW r \in Requests, Client(r) PROVE TypeOK'
  BY <1>8 DEF Client, ClientReply, ClientTimeout
<1>9. ASSUME NEW row \in NewSubs, SubCreate(row) PROVE TypeOK'
  BY <1>9, ConstantsAssumption DEF SubCreate, WriteSub
<1>10. ASSUME NEW a \in Editors, NEW s \in SubIds, NEW data \in Changes, SubUpdateLoad(a, s, data) PROVE TypeOK'
  BY <1>10 DEF SubUpdateLoad, Edits
<1>11. ASSUME NEW a \in Editors, SubUpdateCommit(a) PROVE TypeOK'
  <2>1. edit[a].id \in SubIds /\ edit' \in [Editors -> Edits]
    BY <1>11 DEF SubUpdateCommit, Edits, Idle
  <2>2. subs' \in [SubIds -> SubRows \cup {NoRow}] /\ touched' \in [Requests -> SUBSET SubIds]
    <3>1. CASE subs[edit[a].id] = NoRow
      BY <1>11, <3>1 DEF SubUpdateCommit
    <3>2. CASE subs[edit[a].id] # NoRow
      <4>1. UpdatedRow(a) \in SubRows
        BY <1>11, <3>2, UpdatedRowType DEF SubUpdateCommit
      <4>2. WriteSub(edit[a].id, UpdatedRow(a))
        BY <1>11, <3>2 DEF SubUpdateCommit, UpdatedRow
      <4> QED BY <4>1, <4>2, <2>1 DEF WriteSub
    <3> QED BY <3>1, <3>2
  <2> QED
    BY <1>11, <2>1, <2>2 DEF SubUpdateCommit
<1>12. ASSUME NEW a \in Editors, NEW s \in SubIds, SubDeleteLoad(a, s) PROVE TypeOK'
  BY <1>12 DEF SubDeleteLoad, Edits
<1>13. ASSUME NEW a \in Editors, SubDeleteCommit(a) PROVE TypeOK'
  <2>1. logs' = DetachedLogs(edit[a].logs)
    BY <1>13 DEF SubDeleteCommit, DetachedLogs
  <2>2. logs' \in Seq(LogRows)
    BY <2>1, DetachedLogsType
  <2> QED
    BY <1>13, <2>2 DEF SubDeleteCommit, WriteSub, Edits, Idle
<1>14. ASSUME NEW a \in Editors, EditFail(a) PROVE TypeOK'
  BY <1>14 DEF EditFail, Edits
<1>15. CASE UNCHANGED vars
  BY <1>15 DEF vars
<1> QED
  BY <1>1, <1>2, <1>3, <1>4, <1>5, <1>6, <1>7, <1>8, <1>9, <1>10, <1>11, <1>12, <1>13, <1>14, <1>15
     DEF Next, ReliableNext, Publish, Edit

\* Every reachable state of the bus is in its type: no request, edit or failure
\* leaves a row, a queue or a session in a shape the code does not have.
THEOREM TypeCorrect == Spec => []TypeOK
BY TypeInit, TypeNext, PTL DEF Spec

-----------------------------------------------------------------------------
(* The inductive invariant behind AtMostOneLog, PublishedIsStored,         *)
(* FanOutComplete and WorkspaceIsolation                                   *)

Fanning(r) == pc[r] \in {"match", "log"}
Owner(r)   == pc[r] \in {"list", "match", "log"}

\* The unique constraint made r the only request that writes logs of its event.
OneOwner ==
  /\ \A r \in Requests : Owner(r) \/ pc[r] = "ok" => events[event_id[r]] = body[r]
  /\ \A r, q \in Requests : Owner(r) /\ Owner(q) /\ event_id[r] = event_id[q] => r = q
  /\ \A r \in Requests : result[r] = "published" => pc[r] = "ok"

\* What the loop has still to handle has not been logged.
QueueUnlogged ==
  /\ \A i \in DOMAIN logs : events[logs[i].event_record] # NoRow
  /\ \A r \in Requests : \A i \in DOMAIN logs :
       logs[i].event_record = event_id[r] =>
         /\ pc[r] # "list"
         /\ Fanning(r) => logs[i].subscription_id \notin queue[r]
         /\ pc[r] = "log" => logs[i].subscription_id # current[r]
  /\ \A r \in Requests : pc[r] = "log" => current[r] \in SubIds \ queue[r]

OnceInv == OneOwner /\ QueueUnlogged /\ AtMostOneLog

Wants(r, s) ==
  /\ Selects(subs[s], body[r].workspace_id)
  /\ event_matches_pattern(body[r].event_name, subs[s].event_pattern)

\* A wanted subscription nobody wrote to is logged or still to be handled.
FanOutProgress ==
  \A r \in Requests : Fanning(r) \/ pc[r] = "ok" =>
    \A s \in SubIds \ touched[r] : Wants(r, s) =>
      \/ Logged(event_id[r], s)
      \/ Fanning(r) /\ s \in queue[r]
      \/ pc[r] = "log" /\ s = current[r]

\* A row loaded and not expired is the stored one while nobody wrote to it.
LoadedRows ==
  \A r \in Requests : Fanning(r) =>
    \A s \in SubIds \ touched[r] : rows[r][s] \in {NoRow, subs[s]}

\* A pending deletion holds log rows of its own subscription only.
DeletionLogs ==
  \A a \in Editors : edit[a].op = "delete" =>
    \A i \in edit[a].logs : /\ i \in DOMAIN logs
                             /\ logs[i].subscription_id \in {edit[a].id, NULL}

FanOutInv == FanOutProgress /\ LoadedRows /\ DeletionLogs

\* Until its id is deleted a listed or logged subscription keeps the workspace
\* for which it was selected.
InWorkspace(s, w) == subs[s] # NoRow /\ (w = NULL \/ subs[s].workspace_id \in {w, NULL})
Scoped ==
  /\ \A r \in Requests : Fanning(r) =>
       /\ \A s \in queue[r] \ deleted : InWorkspace(s, body[r].workspace_id)
       /\ pc[r] = "log" /\ current[r] \notin deleted => InWorkspace(current[r], body[r].workspace_id)
  /\ \A i \in DOMAIN logs :
       logs[i].subscription_id \notin deleted \cup {NULL} =>
         InWorkspace(logs[i].subscription_id, events[logs[i].event_record].workspace_id)

-----------------------------------------------------------------------------
(* At most one log, and only the stored body is reported as published      *)

\* Nothing is logged initially.
LEMMA OnceInit == Init => OnceInv
BY DEF Init, OnceInv, OneOwner, QueueUnlogged, AtMostOneLog, Owner, Fanning

\* What SubscriptionService does to the subscriptions table is not seen by
\* OnceInv: it reads the publish requests, the events and the logs.
onceVars == <<events, logs, pc, event_id, body, queue, current, result>>

\* The three ways a turn of the loop goes, for the invariants that do not look at
\* the subscription row.
Matched(r, s) ==
  /\ pc' = [pc EXCEPT ![r] = "log"]
  /\ queue' = [queue EXCEPT ![r] = queue[r] \ {s}]
  /\ current' = [current EXCEPT ![r] = s]
  /\ UNCHANGED rows
Skipped(r, s) ==
  /\ queue' = [queue EXCEPT ![r] = queue[r] \ {s}]
  /\ UNCHANGED <<pc, current, rows>>

\* What a turn of the loop does to the request: it ends, logs or goes on.
LEMMA MatchCases ==
  ASSUME NEW r \in Requests, NEW s \in SubIds, MatchNext(r, s)
  PROVE  /\ pc[r] = "match" /\ s \in queue[r]
         /\ UNCHANGED <<events, subs, logs, event_id, body, result, edit, touched, deleted>>
         /\ End(r, "error") \/ Matched(r, s) \/ Skipped(r, s)
BY DEF MatchNext, Matched, Skipped, request, history

\* Every step keeps OnceInv: only the request that stored an event logs it.
LEMMA OnceNext == TypeOK /\ OnceInv /\ [Next]_vars => OnceInv'
<1> SUFFICES ASSUME TypeOK, OnceInv, [Next]_vars PROVE OnceInv'
  OBVIOUS
<1> USE DEF OnceInv, Owner, Fanning, request, history
<1>a. DOMAIN logs = 1..Len(logs) /\ Len(logs) \in Nat /\ \A i \in DOMAIN logs : logs[i] \in LogRows
  BY DEF TypeOK
<1>1. ASSUME NEW r \in Requests, PublishBegin(r) PROVE OnceInv'
  <2>1. OneOwner'
    BY <1>1 DEF PublishBegin, OneOwner, TypeOK
  <2>2. QueueUnlogged' /\ AtMostOneLog'
    BY <1>1 DEF PublishBegin, QueueUnlogged, AtMostOneLog, TypeOK
  <2> QED BY <2>1, <2>2
<1>2. ASSUME NEW r \in Requests, EventInsert(r) PROVE OnceInv'
  <2>1. CASE events[event_id[r]] = NoRow
    <3>1. /\ events' = [events EXCEPT ![event_id[r]] = body[r]]
          /\ pc' = [pc EXCEPT ![r] = "list"]
          /\ UNCHANGED <<logs, request, queue, current, result>>
      BY <1>2, <2>1 DEF EventInsert
    <3>2. body[r] # NoRow
      BY ConstantsAssumption DEF TypeOK
    <3>3. \A q \in Requests : Owner(q) \/ pc[q] = "ok" => event_id[q] # event_id[r]
      BY <2>1, ConstantsAssumption DEF OneOwner, TypeOK
    <3>4. OneOwner'
      BY <1>2, <3>1, <3>3 DEF OneOwner, TypeOK, EventInsert
    <3>5. \A i \in DOMAIN logs : logs[i].event_record # event_id[r]
      BY <2>1 DEF QueueUnlogged
    <3>6. QueueUnlogged'
      BY <3>1, <3>2, <3>5, <1>a DEF QueueUnlogged, TypeOK, LogRows
    <3>7. AtMostOneLog'
      BY <3>1 DEF AtMostOneLog
    <3> QED BY <3>4, <3>6, <3>7
  <2>2. CASE events[event_id[r]] # NoRow
    <3>1. /\ pc' = [pc EXCEPT ![r] = "error"] /\ pc[r] = "insert"
          /\ UNCHANGED <<events, logs, request, queue, current, result>>
      BY <1>2, <2>2 DEF EventInsert
    <3> QED BY <3>1 DEF OneOwner, QueueUnlogged, AtMostOneLog, TypeOK
  <2> QED BY <2>1, <2>2
<1>3. ASSUME NEW r \in Requests, list_active_for_workspace(r) PROVE OnceInv'
  <2>1. OneOwner'
    BY <1>3 DEF list_active_for_workspace, OneOwner, TypeOK
  <2>2. QueueUnlogged' /\ AtMostOneLog'
    BY <1>3 DEF list_active_for_workspace, QueueUnlogged, AtMostOneLog, TypeOK
  <2> QED BY <2>1, <2>2
<1>4. ASSUME NEW r \in Requests, NEW s \in SubIds, MatchNext(r, s) PROVE OnceInv'
  <2>0. /\ pc[r] = "match" /\ s \in queue[r]
        /\ UNCHANGED <<events, logs, event_id, body, result>>
        /\ End(r, "error") \/ Matched(r, s) \/ Skipped(r, s)
    BY <1>4, MatchCases
  <2>1. CASE End(r, "error")
    <3>1. OneOwner'
      BY <2>0, <2>1 DEF End, OneOwner, TypeOK
    <3>2. QueueUnlogged'
      BY <2>0, <2>1 DEF End, QueueUnlogged, TypeOK
    <3> QED BY <2>0, <3>1, <3>2 DEF AtMostOneLog
  <2>2. CASE Matched(r, s)
    <3>1. OneOwner'
      BY <2>0, <2>2 DEF Matched, OneOwner, TypeOK
    <3>2. QueueUnlogged'
      <4>1. \A q \in Requests : pc'[q] = "log" => current'[q] \in SubIds \ queue'[q]
        BY <2>0, <2>2 DEF Matched, QueueUnlogged, TypeOK
      <4> QED BY <2>0, <2>2, <4>1 DEF Matched, QueueUnlogged, TypeOK
    <3> QED BY <2>0, <3>1, <3>2 DEF AtMostOneLog
  <2>3. CASE Skipped(r, s)
    <3>1. OneOwner'
      BY <2>0, <2>3 DEF Skipped, OneOwner, TypeOK
    <3>2. QueueUnlogged'
      BY <2>0, <2>3 DEF Skipped, QueueUnlogged, TypeOK
    <3> QED BY <2>0, <3>1, <3>2 DEF AtMostOneLog
  <2> QED BY <2>0, <2>1, <2>2, <2>3
<1>5. ASSUME NEW r \in Requests, LogInsert(r) PROVE OnceInv'
  <2> DEFINE new == [event_record |-> event_id[r], subscription_id |-> current[r]]
  <2>1. /\ logs' = Append(logs, new) /\ pc[r] = "log" /\ pc' = [pc EXCEPT ![r] = "match"]
        /\ current' = [current EXCEPT ![r] = NULL]
        /\ UNCHANGED <<events, request, queue, result>>
    BY <1>5 DEF LogInsert
  <2>2. /\ DOMAIN logs' = 1..(Len(logs) + 1)
        /\ \A i \in DOMAIN logs : logs'[i] = logs[i]
        /\ logs'[Len(logs) + 1] = new
    BY <2>1, <1>a
  <2>3. OneOwner'
    BY <2>1 DEF OneOwner, TypeOK
  <2>4. events[event_id[r]] # NoRow
    BY <2>1, ConstantsAssumption DEF OneOwner, TypeOK
  <2>5. \A i \in DOMAIN logs : logs[i].event_record = event_id[r] => logs[i].subscription_id # current[r]
    BY <2>1 DEF QueueUnlogged
  <2>6. \A i \in DOMAIN logs' : i \in DOMAIN logs \/ i = Len(logs) + 1
    BY <2>2, <1>a
  <2>7. QueueUnlogged'
    <3>1. \A i \in DOMAIN logs' : events'[logs'[i].event_record] # NoRow
      BY <2>1, <2>2, <2>4, <2>6 DEF QueueUnlogged
    <3>2. ASSUME NEW q \in Requests, NEW i \in DOMAIN logs', logs'[i].event_record = event_id'[q]
          PROVE  /\ pc'[q] # "list"
                 /\ Fanning(q)' => logs'[i].subscription_id \notin queue'[q]
                 /\ pc'[q] = "log" => logs'[i].subscription_id # current'[q]
      <4>1. CASE i \in DOMAIN logs
        BY <4>1, <3>2, <2>1, <2>2 DEF QueueUnlogged, TypeOK
      <4>2. CASE i = Len(logs) + 1 /\ q = r
        BY <4>2, <2>1, <2>2 DEF QueueUnlogged, TypeOK
      <4>3. CASE i = Len(logs) + 1 /\ q # r
        BY <4>3, <3>2, <2>1, <2>2 DEF OneOwner, TypeOK
      <4> QED BY <4>1, <4>2, <4>3, <2>6
    <3>3. \A q \in Requests : pc'[q] = "log" => current'[q] \in SubIds \ queue'[q]
      BY <2>1 DEF QueueUnlogged, TypeOK
    <3> QED BY <3>1, <3>2, <3>3 DEF QueueUnlogged
  <2>8. AtMostOneLog'
    BY <2>2, <2>5, <2>6 DEF AtMostOneLog
  <2> QED BY <2>3, <2>7, <2>8
<1>6. ASSUME NEW r \in Requests, PublishReturn(r) PROVE OnceInv'
  BY <1>6 DEF PublishReturn, End, OneOwner, QueueUnlogged, AtMostOneLog, TypeOK
<1>7. ASSUME NEW r \in Requests, PublishFail(r) PROVE OnceInv'
  BY <1>7 DEF PublishFail, End, Running, OneOwner, QueueUnlogged, AtMostOneLog, TypeOK
<1>8. ASSUME NEW r \in Requests, Client(r) PROVE OnceInv'
  <2>1. OneOwner'
    BY <1>8 DEF Client, ClientReply, ClientTimeout, OneOwner, TypeOK
  <2>2. QueueUnlogged' /\ AtMostOneLog'
    BY <1>8 DEF Client, ClientReply, ClientTimeout, QueueUnlogged, AtMostOneLog
  <2> QED BY <2>1, <2>2
<1>9. ASSUME NEW a \in Editors, SubDeleteCommit(a) PROVE OnceInv'
  <2>1. logs' = DetachedLogs(edit[a].logs) /\ UNCHANGED <<events, pc, request, queue, current, result>>
    BY <1>9 DEF SubDeleteCommit, DetachedLogs
  <2>2. /\ DOMAIN logs' = DOMAIN logs
        /\ \A i \in DOMAIN logs : /\ logs'[i].event_record = logs[i].event_record
                                  /\ logs'[i].subscription_id \in {NULL, logs[i].subscription_id}
    BY <2>1, DetachedLogsType DEF TypeOK
  <2>3. OneOwner'
    BY <2>1 DEF OneOwner
  <2>4. \A q \in Requests : NULL \notin queue[q] /\ (pc[q] = "log" => current[q] # NULL)
    <3>1. NULL \notin SubIds
      BY ConstantsAssumption
    <3> QED BY <3>1 DEF TypeOK, QueueUnlogged
  <2>5. QueueUnlogged'
    <3>1. \A i \in DOMAIN logs' : events'[logs'[i].event_record] # NoRow
      BY <2>1, <2>2 DEF QueueUnlogged
    <3>2. ASSUME NEW q \in Requests, NEW i \in DOMAIN logs', logs'[i].event_record = event_id'[q]
          PROVE  /\ pc'[q] # "list"
                 /\ Fanning(q)' => logs'[i].subscription_id \notin queue'[q]
                 /\ pc'[q] = "log" => logs'[i].subscription_id # current'[q]
      BY <3>2, <2>1, <2>2, <2>4 DEF QueueUnlogged
    <3>3. \A q \in Requests : pc'[q] = "log" => current'[q] \in SubIds \ queue'[q]
      BY <2>1 DEF QueueUnlogged
    <3> QED BY <3>1, <3>2, <3>3 DEF QueueUnlogged
  <2>6. AtMostOneLog'
    BY <2>2 DEF AtMostOneLog
  <2> QED BY <2>3, <2>5, <2>6
<1>10. CASE UNCHANGED onceVars
  BY <1>10 DEF onceVars, OneOwner, QueueUnlogged, AtMostOneLog
<1>11. ASSUME NEW a \in Editors, Edit(a), ~SubDeleteCommit(a) PROVE UNCHANGED onceVars
  BY <1>11 DEF Edit, SubUpdateLoad, SubUpdateCommit, SubDeleteLoad, EditFail, onceVars
<1>12. ASSUME NEW row \in NewSubs, SubCreate(row) PROVE UNCHANGED onceVars
  BY <1>12 DEF SubCreate, onceVars
<1> QED
  BY <1>1, <1>2, <1>3, <1>4, <1>5, <1>6, <1>7, <1>8, <1>9, <1>10, <1>11, <1>12
     DEF Next, ReliableNext, Publish, vars, onceVars

\* Hence it holds in every behaviour.
LEMMA OnceAlways == Spec => [](TypeOK /\ OnceInv)
BY TypeInit, TypeNext, OnceInit, OnceNext, PTL DEF Spec

\* No event reaches a subscription's delivery log twice, for any number of
\* concurrent callers, events, subscriptions and editors.
THEOREM AtMostOneLogHolds == Spec => []AtMostOneLog
<1>1. TypeOK /\ OnceInv => AtMostOneLog
  BY DEF OnceInv
<1> QED BY <1>1, OnceAlways, PTL

\* A caller told "published" has its own body stored under its event_id.
THEOREM PublishedIsStoredHolds == Spec => []PublishedIsStored
<1>1. TypeOK /\ OnceInv => PublishedIsStored
  BY DEF OnceInv, OneOwner, PublishedIsStored
<1> QED BY <1>1, OnceAlways, PTL

-----------------------------------------------------------------------------
(* The fan-out leaves out no subscription that stayed as it was            *)

\* No request has listed subscriptions initially.
LEMMA FanOutInit == Init => FanOutInv
BY DEF Init, FanOutInv, FanOutProgress, LoadedRows, DeletionLogs, Fanning, Idle

\* A turn of the loop that writes no log has looked at the stored pattern, or at
\* one that was stored until somebody wrote to the subscription.
LEMMA SkippedUnwanted ==
  ASSUME TypeOK, LoadedRows, NEW r \in Requests, NEW s \in SubIds, MatchNext(r, s)
  PROVE  \/ End(r, "error")
         \/ Matched(r, s)
         \/ Skipped(r, s) /\ (s \notin touched[r] => ~Wants(r, s))
<1> DEFINE row == IF rows[r][s] # NoRow THEN rows[r][s] ELSE subs[s]
<1>1. s \notin touched[r] => row = subs[s]
  BY DEF LoadedRows, Fanning, MatchNext
<1>2. \/ End(r, "error")
      \/ Matched(r, s)
      \/ Skipped(r, s) /\ ~event_matches_pattern(body[r].event_name, row.event_pattern)
  BY DEF MatchNext, Matched, Skipped
<1> QED BY <1>1, <1>2 DEF Wants

\* FanOutInv reads of a step: which ids it writes, and that no other
\* subscription loses its log.
LEMMA WriteKeepsFanOut ==
  ASSUME TypeOK, FanOutInv, NEW s \in SubIds, NEW row, WriteSub(s, row),
         UNCHANGED <<pc, event_id, body, queue, rows, current>>,
         \A e \in EventIds, t \in SubIds \ {s} : Logged(e, t) => Logged(e, t)'
  PROVE  FanOutProgress' /\ LoadedRows'
<1>1. \A r \in Requests : touched'[r] = touched[r] \cup {s}
  BY DEF WriteSub
<1>2. \A t \in SubIds \ {s} : subs'[t] = subs[t]
  BY DEF WriteSub, TypeOK
<1>3. ASSUME NEW r \in Requests, NEW t \in SubIds \ touched'[r]
      PROVE  /\ t \in SubIds \ touched[r] /\ t # s
             /\ Wants(r, t)' => Wants(r, t)
             /\ Logged(event_id[r], t) => Logged(event_id[r], t)'
  BY <1>1, <1>2 DEF Wants, Selects, Active, TypeOK
<1>4. FanOutProgress'
  BY <1>3 DEF FanOutInv, FanOutProgress, Fanning
<1>5. LoadedRows'
  BY <1>3, <1>2 DEF FanOutInv, LoadedRows, Fanning
<1> QED BY <1>4, <1>5

\* Every step keeps FanOutInv.
LEMMA FanOutNext == TypeOK /\ FanOutInv /\ [Next]_vars => FanOutInv'
<1> SUFFICES ASSUME TypeOK, FanOutInv, [Next]_vars PROVE FanOutInv'
  OBVIOUS
<1> USE DEF FanOutInv, Fanning, request, history
<1>a. DOMAIN logs = 1..Len(logs) /\ Len(logs) \in Nat /\ \A i \in DOMAIN logs : logs[i] \in LogRows
  BY DEF TypeOK
<1>b. ASSUME NEW r \in Requests, UNCHANGED <<events, subs, logs, event_id, body, edit, touched>>,
             End(r, "error")
      PROVE  FanOutInv'
  <2>1. FanOutProgress'
    BY <1>b DEF End, FanOutProgress, Wants, Logged, TypeOK
  <2>2. LoadedRows' /\ DeletionLogs'
    BY <1>b DEF End, LoadedRows, DeletionLogs, TypeOK, NoRows
  <2> QED BY <2>1, <2>2
<1>1. ASSUME NEW r \in Requests, PublishBegin(r) \/ EventInsert(r) PROVE FanOutInv'
  <2>1. /\ \/ pc' = [pc EXCEPT ![r] = "rejected"] \/ pc' = [pc EXCEPT ![r] = "insert"]
           \/ pc' = [pc EXCEPT ![r] = "list"] \/ pc' = [pc EXCEPT ![r] = "error"]
        /\ UNCHANGED <<subs, logs, event_id, body, queue, rows, current, edit, touched>>
    BY <1>1 DEF PublishBegin, EventInsert
  <2>a. \A q \in Requests : (Fanning(q) \/ pc[q] = "ok")' => pc'[q] = pc[q]
    BY <2>1 DEF TypeOK
  <2>2. FanOutProgress'
    BY <2>1, <2>a DEF FanOutProgress, Wants, Logged
  <2>3. LoadedRows' /\ DeletionLogs'
    BY <2>1, <2>a DEF LoadedRows, DeletionLogs
  <2> QED BY <2>2, <2>3
<1>2. ASSUME NEW r \in Requests, list_active_for_workspace(r) PROVE FanOutInv'
  <2> DEFINE found == {s \in SubIds : Selects(subs[s], body[r].workspace_id)}
  <2>1. /\ queue' = [queue EXCEPT ![r] = found] /\ pc' = [pc EXCEPT ![r] = "match"]
        /\ rows' = [rows EXCEPT ![r] = [s \in SubIds |-> IF s \in found THEN subs[s] ELSE NoRow]]
        /\ touched' = [touched EXCEPT ![r] = {}]
        /\ UNCHANGED <<subs, logs, event_id, body, current, edit>>
    BY <1>2 DEF list_active_for_workspace
  <2>2. FanOutProgress'
    <3> SUFFICES ASSUME NEW q \in Requests, (Fanning(q) \/ pc[q] = "ok")',
                        NEW s \in SubIds \ touched'[q], Wants(q, s)'
                 PROVE  Logged(event_id[q], s)' \/ (Fanning(q) /\ s \in queue[q])'
                        \/ (pc[q] = "log" /\ s = current[q])'
      BY DEF FanOutProgress
    <3>1. CASE q = r
      BY <3>1, <2>1 DEF Wants, TypeOK
    <3>2. CASE q # r
      BY <3>2, <2>1 DEF FanOutProgress, Wants, Logged, TypeOK
    <3> QED BY <3>1, <3>2
  <2>3. LoadedRows'
    BY <2>1 DEF LoadedRows, TypeOK
  <2>4. DeletionLogs'
    BY <2>1 DEF DeletionLogs
  <2> QED BY <2>2, <2>3, <2>4
<1>3. ASSUME NEW r \in Requests, NEW s \in SubIds, MatchNext(r, s) PROVE FanOutInv'
  <2>0. /\ pc[r] = "match" /\ s \in queue[r]
        /\ UNCHANGED <<events, subs, logs, event_id, body, edit, touched>>
    BY <1>3, MatchCases
  <2>1. \/ End(r, "error") \/ Matched(r, s)
        \/ Skipped(r, s) /\ (s \notin touched[r] => ~Wants(r, s))
    BY <1>3, SkippedUnwanted
  <2>2. CASE Matched(r, s)
    <3>1. FanOutProgress'
      BY <2>0, <2>2 DEF Matched, FanOutProgress, Wants, Logged, TypeOK
    <3>2. LoadedRows' /\ DeletionLogs'
      BY <2>0, <2>2 DEF Matched, LoadedRows, DeletionLogs, TypeOK
    <3> QED BY <3>1, <3>2
  <2>3. CASE Skipped(r, s) /\ (s \notin touched[r] => ~Wants(r, s))
    <3>1. FanOutProgress'
      BY <2>0, <2>3 DEF Skipped, FanOutProgress, Wants, Logged, TypeOK
    <3>2. LoadedRows' /\ DeletionLogs'
      BY <2>0, <2>3 DEF Skipped, LoadedRows, DeletionLogs, TypeOK
    <3> QED BY <3>1, <3>2
  <2> QED BY <2>0, <2>1, <2>2, <2>3, <1>b
<1>4. ASSUME NEW r \in Requests, LogInsert(r) PROVE FanOutInv'
  <2> DEFINE new == [event_record |-> event_id[r], subscription_id |-> current[r]]
  <2>1. /\ logs' = Append(logs, new) /\ pc[r] = "log" /\ pc' = [pc EXCEPT ![r] = "match"]
        /\ current' = [current EXCEPT ![r] = NULL] /\ rows' = [rows EXCEPT ![r] = NoRows]
        /\ UNCHANGED <<events, subs, event_id, body, queue, edit, touched>>
    BY <1>4 DEF LogInsert
  <2>2. /\ DOMAIN logs' = 1..(Len(logs) + 1)
        /\ \A i \in DOMAIN logs : i \in DOMAIN logs' /\ logs'[i] = logs[i]
        /\ logs'[Len(logs) + 1] = new
    BY <2>1, <1>a
  <2>3. /\ \A e, t : Logged(e, t) => Logged(e, t)'
        /\ \A e, t : e = event_id[r] /\ t = current[r] => Logged(e, t)'
    <3>1. Len(logs) + 1 \in DOMAIN logs'
      BY <2>2, <1>a
    <3>2. \A e, t : Logged(e, t) => Logged(e, t)'
      BY <2>2 DEF Logged
    <3>3. \A e, t : e = event_id[r] /\ t = current[r] => Logged(e, t)'
      BY <3>1, <2>1, <2>2 DEF Logged
    <3> QED BY <3>2, <3>3
  <2>4. FanOutProgress'
    <3> SUFFICES ASSUME NEW q \in Requests, (Fanning(q) \/ pc[q] = "ok")',
                        NEW t \in SubIds \ touched'[q], Wants(q, t)'
                 PROVE  Logged(event_id[q], t)' \/ (Fanning(q) /\ t \in queue[q])'
                        \/ (pc[q] = "log" /\ t = current[q])'
      BY DEF FanOutProgress
    <3>1. Wants(q, t) /\ t \notin touched[q] /\ event_id'[q] = event_id[q]
      BY <2>1 DEF Wants
    <3>2. Fanning(q) \/ pc[q] = "ok"
      BY <2>1 DEF TypeOK
    <3>3. Logged(event_id[q], t) \/ (Fanning(q) /\ t \in queue[q]) \/ (pc[q] = "log" /\ t = current[q])
      BY <3>1, <3>2 DEF FanOutProgress
    <3>4. CASE q = r
      <4>1. pc'[r] = "match" /\ pc[r] = "log" /\ queue'[r] = queue[r]
        BY <2>1 DEF TypeOK
      <4>2. Logged(event_id[q], t)' \/ t \in queue[r]
        BY <3>1, <3>3, <3>4, <2>3
      <4> QED BY <4>1, <4>2, <3>4
    <3>5. CASE q # r
      BY <3>1, <3>3, <3>5, <2>1, <2>3 DEF TypeOK
    <3> QED BY <3>4, <3>5
  <2>5. LoadedRows'
    BY <2>1 DEF LoadedRows, TypeOK, NoRows
  <2>6. DeletionLogs'
    BY <2>1, <2>2 DEF DeletionLogs
  <2> QED BY <2>4, <2>5, <2>6
<1>5. ASSUME NEW r \in Requests, PublishReturn(r) PROVE FanOutInv'
  <2>1. /\ End(r, "ok") /\ pc[r] = "match" /\ queue[r] = {}
        /\ UNCHANGED <<subs, logs, event_id, body, edit, touched>>
    BY <1>5 DEF PublishReturn
  <2>2. FanOutProgress'
    BY <2>1 DEF End, FanOutProgress, Wants, Logged, TypeOK
  <2>3. LoadedRows' /\ DeletionLogs'
    BY <2>1 DEF End, LoadedRows, DeletionLogs, TypeOK, NoRows
  <2> QED BY <2>2, <2>3
<1>6. ASSUME NEW r \in Requests, PublishFail(r) PROVE FanOutInv'
  BY <1>6, <1>b DEF PublishFail
<1>7. ASSUME NEW row \in NewSubs, SubCreate(row) PROVE FanOutInv'
  <2>1. PICK s \in SubIds : WriteSub(s, row)
    BY <1>7 DEF SubCreate
  <2>2. UNCHANGED <<logs, pc, event_id, body, queue, rows, current, edit>>
    BY <1>7 DEF SubCreate
  <2>3. FanOutProgress' /\ LoadedRows'
    BY <2>1, <2>2, WriteKeepsFanOut DEF Logged
  <2> QED BY <2>2, <2>3 DEF DeletionLogs
<1>8. ASSUME NEW a \in Editors, NEW s \in SubIds, NEW data \in Changes, SubUpdateLoad(a, s, data)
      PROVE  FanOutInv'
  <2>1. UNCHANGED <<subs, logs, pc, event_id, body, queue, rows, current, touched>>
    BY <1>8 DEF SubUpdateLoad
  <2>2. DeletionLogs'
    BY <1>8, <2>1 DEF SubUpdateLoad, DeletionLogs, TypeOK
  <2> QED BY <2>1, <2>2 DEF FanOutProgress, LoadedRows, Wants, Logged
<1>9. ASSUME NEW a \in Editors, SubUpdateCommit(a) PROVE FanOutInv'
  <2>1. edit[a] \in [op : {"update"}, id : SubIds, row : SubRows, data : Changes]
    BY <1>9 DEF SubUpdateCommit, TypeOK, Edits, Idle
  <2>2. /\ UNCHANGED <<logs, pc, event_id, body, queue, rows, current>>
        /\ edit' = [edit EXCEPT ![a] = Idle]
        /\ UNCHANGED <<subs, touched>> \/ \E row : WriteSub(edit[a].id, row)
    BY <1>9 DEF SubUpdateCommit
  <2>3. DeletionLogs'
    BY <2>2 DEF DeletionLogs, TypeOK, Idle
  <2>4. FanOutProgress' /\ LoadedRows'
    <3>1. CASE UNCHANGED <<subs, touched>>
      BY <2>2, <3>1 DEF FanOutProgress, LoadedRows, Wants, Logged
    <3>2. ASSUME NEW row, WriteSub(edit[a].id, row) PROVE FanOutProgress' /\ LoadedRows'
      BY <2>1, <2>2, <3>2, WriteKeepsFanOut DEF Logged
    <3> QED BY <2>2, <3>1, <3>2
  <2> QED BY <2>3, <2>4
<1>10. ASSUME NEW a \in Editors, NEW s \in SubIds, SubDeleteLoad(a, s) PROVE FanOutInv'
  <2>1. UNCHANGED <<subs, logs, pc, event_id, body, queue, rows, current, touched>>
    BY <1>10 DEF SubDeleteLoad
  <2>2. DeletionLogs'
    BY <1>10, <2>1 DEF SubDeleteLoad, DeletionLogs, TypeOK
  <2> QED BY <2>1, <2>2 DEF FanOutProgress, LoadedRows, Wants, Logged
<1>11. ASSUME NEW a \in Editors, SubDeleteCommit(a) PROVE FanOutInv'
  <2>1. edit[a] \in [op : {"delete"}, id : SubIds, logs : SUBSET Nat]
    BY <1>11 DEF SubDeleteCommit, TypeOK, Edits, Idle
  <2>2. /\ logs' = DetachedLogs(edit[a].logs) /\ WriteSub(edit[a].id, NoRow)
        /\ edit' = [edit EXCEPT ![a] = Idle]
        /\ UNCHANGED <<pc, event_id, body, queue, rows, current>>
    BY <1>11 DEF SubDeleteCommit, DetachedLogs
  <2>3. /\ DOMAIN logs' = DOMAIN logs
        /\ \A i \in DOMAIN logs :
             /\ logs'[i].subscription_id \in {NULL, logs[i].subscription_id}
             /\ i \notin edit[a].logs => logs'[i] = logs[i]
    BY <2>2, DetachedLogsType DEF TypeOK
  <2>4. \A i \in edit[a].logs : logs[i].subscription_id \in {edit[a].id, NULL}
    BY <2>1 DEF DeletionLogs
  <2>5. \A e \in EventIds, t \in SubIds \ {edit[a].id} : Logged(e, t) => Logged(e, t)'
    <3>1. NULL \notin SubIds
      BY ConstantsAssumption
    <3> QED BY <2>3, <2>4, <3>1 DEF Logged
  <2>6. FanOutProgress' /\ LoadedRows'
    BY <2>1, <2>2, <2>5, WriteKeepsFanOut
  <2>7. DeletionLogs'
    BY <2>2, <2>3 DEF DeletionLogs, TypeOK, Idle
  <2> QED BY <2>6, <2>7
<1>12. CASE UNCHANGED vars
  BY <1>12 DEF vars, FanOutProgress, LoadedRows, DeletionLogs, Wants, Logged
<1>13. ASSUME NEW r \in Requests, Client(r) PROVE FanOutInv'
  BY <1>13 DEF Client, ClientReply, ClientTimeout, FanOutProgress, LoadedRows, DeletionLogs, Wants, Logged
<1>14. ASSUME NEW a \in Editors, EditFail(a) PROVE FanOutInv'
  <2>1. UNCHANGED <<subs, logs, pc, event_id, body, queue, rows, current, touched>>
    BY <1>14 DEF EditFail
  <2>2. DeletionLogs'
    BY <1>14, <2>1 DEF EditFail, DeletionLogs, TypeOK, Idle
  <2> QED BY <2>1, <2>2 DEF FanOutProgress, LoadedRows, Wants, Logged
<1> QED
  BY <1>1, <1>2, <1>3, <1>4, <1>5, <1>6, <1>7, <1>8, <1>9, <1>10, <1>11, <1>12, <1>13, <1>14
     DEF Next, ReliableNext, Publish, Edit

\* A publish that answers has logged its event for every matching subscription
\* that was left alone, however many others are edited or deleted meanwhile.
THEOREM FanOutCompleteHolds == Spec => []FanOutComplete
<1>1. TypeOK /\ FanOutInv => FanOutComplete
  BY DEF FanOutInv, FanOutProgress, FanOutComplete, Fanning, Wants, Concerned, Selects, Active
<1> QED BY <1>1, TypeInit, TypeNext, FanOutInit, FanOutNext, PTL DEF Spec

-----------------------------------------------------------------------------
(* Workspaces are kept apart                                               *)

\* Nothing is listed or logged initially.
LEMMA ScopedInit == Init => Scoped
BY DEF Init, Scoped, Fanning

\* A write to the subscriptions that moves no subscription to another workspace
\* keeps the listed and logged ones where they were.
LEMMA KeepsScoped ==
  ASSUME TypeOK, OnceInv, Scoped, UNCHANGED <<events, pc, body, queue, current>>,
         deleted \subseteq deleted',
         DOMAIN logs' = DOMAIN logs,
         \A i \in DOMAIN logs : /\ logs'[i].event_record = logs[i].event_record
                               /\ logs'[i].subscription_id \in {NULL, logs[i].subscription_id},
         \A s \in SubIds \ deleted' : \A w : InWorkspace(s, w) => InWorkspace(s, w)'
  PROVE  Scoped'
<1>1. ASSUME NEW r \in Requests, Fanning(r)
      PROVE  /\ \A s \in (queue[r] \ deleted)' : InWorkspace(s, body[r].workspace_id)'
             /\ (pc[r] = "log" /\ current[r] \notin deleted)' => InWorkspace(current[r], body[r].workspace_id)'
  <2>1. queue[r] \subseteq SubIds /\ (pc[r] = "log" => current[r] \in SubIds)
    BY DEF TypeOK, OnceInv, QueueUnlogged
  <2> QED BY <1>1, <2>1 DEF Scoped, InWorkspace
<1>2. ASSUME NEW i \in DOMAIN logs, logs'[i].subscription_id \notin deleted' \cup {NULL}
      PROVE  InWorkspace(logs[i].subscription_id, events[logs[i].event_record].workspace_id)'
  <2>1. logs[i] \in LogRows
    BY DEF TypeOK
  <2>2. logs'[i].subscription_id = logs[i].subscription_id /\ logs[i].subscription_id \in SubIds
    BY <1>2, <2>1 DEF LogRows
  <2>3. InWorkspace(logs[i].subscription_id, events[logs[i].event_record].workspace_id)
    BY <1>2, <2>2 DEF Scoped
  <2> QED BY <1>2, <2>2, <2>3 DEF InWorkspace
<1> QED BY <1>1, <1>2 DEF Scoped, Fanning

\* Every step keeps Scoped.
LEMMA ScopedNext == TypeOK /\ OnceInv /\ Scoped /\ [Next]_vars => Scoped'
<1> SUFFICES ASSUME TypeOK, OnceInv, Scoped, [Next]_vars PROVE Scoped'
  OBVIOUS
<1> USE DEF Fanning, request, history
<1>a. DOMAIN logs = 1..Len(logs) /\ Len(logs) \in Nat /\ \A i \in DOMAIN logs : logs[i] \in LogRows
  BY DEF TypeOK
<1>b. \A r \in Requests : pc[r] = "log" => current[r] \in SubIds
  BY DEF OnceInv, QueueUnlogged
<1>c. ASSUME NEW r \in Requests, UNCHANGED <<events, subs, logs, body, deleted>>,
             \E outcome \in Final : End(r, outcome)
      PROVE  Scoped'
  BY <1>c DEF End, Scoped, InWorkspace, TypeOK, Final
<1>1. ASSUME NEW r \in Requests, PublishBegin(r) PROVE Scoped'
  BY <1>1 DEF PublishBegin, Scoped, InWorkspace, TypeOK
<1>2. ASSUME NEW r \in Requests, EventInsert(r) PROVE Scoped'
  <2>1. /\ pc' = [pc EXCEPT ![r] = "list"] \/ pc' = [pc EXCEPT ![r] = "error"]
        /\ UNCHANGED <<subs, logs, body, queue, current, deleted>>
    BY <1>2 DEF EventInsert
  <2>2. \A i \in DOMAIN logs : events'[logs[i].event_record] = events[logs[i].event_record]
    BY <1>2, <1>a DEF EventInsert, OnceInv, QueueUnlogged, TypeOK, LogRows
  <2>3. \A q \in Requests : pc'[q] \in {"match", "log"} => pc'[q] = pc[q]
    BY <2>1 DEF TypeOK
  <2> QED BY <2>1, <2>2, <2>3 DEF Scoped, InWorkspace
<1>3. ASSUME NEW r \in Requests, list_active_for_workspace(r) PROVE Scoped'
  <2> DEFINE found == {s \in SubIds : Selects(subs[s], body[r].workspace_id)}
  <2>1. /\ queue' = [queue EXCEPT ![r] = found] /\ pc' = [pc EXCEPT ![r] = "match"]
        /\ UNCHANGED <<events, subs, logs, body, current, deleted>>
    BY <1>3 DEF list_active_for_workspace
  <2>2. \A s \in found : InWorkspace(s, body[r].workspace_id)
    BY DEF Selects, Active, InWorkspace
  <2>3. pc'[r] = "match" /\ queue'[r] = found
    BY <2>1 DEF TypeOK
  <2>4. \A q \in Requests \ {r} : pc'[q] = pc[q] /\ queue'[q] = queue[q]
    BY <2>1 DEF TypeOK
  <2>5. ASSUME NEW q \in Requests, Fanning(q)'
        PROVE  /\ \A s \in (queue[q] \ deleted)' : InWorkspace(s, body[q].workspace_id)'
               /\ (pc[q] = "log" /\ current[q] \notin deleted)' => InWorkspace(current[q], body[q].workspace_id)'
    <3>1. CASE q = r
      BY <3>1, <2>1, <2>2, <2>3 DEF InWorkspace
    <3>2. CASE q # r
      BY <3>2, <2>1, <2>4, <2>5 DEF Scoped, InWorkspace
    <3> QED BY <3>1, <3>2
  <2>6. \A i \in DOMAIN logs : logs[i].subscription_id \notin deleted \cup {NULL} =>
          InWorkspace(logs[i].subscription_id, events[logs[i].event_record].workspace_id)
    BY DEF Scoped
  <2> QED BY <2>1, <2>5, <2>6 DEF Scoped, InWorkspace
<1>4. ASSUME NEW r \in Requests, NEW s \in SubIds, MatchNext(r, s) PROVE Scoped'
  <2>0. /\ pc[r] = "match" /\ s \in queue[r]
        /\ UNCHANGED <<events, subs, logs, body, deleted>>
        /\ End(r, "error") \/ Matched(r, s) \/ Skipped(r, s)
    BY <1>4, MatchCases
  <2>1. CASE Matched(r, s)
    BY <2>0, <2>1 DEF Matched, Scoped, InWorkspace, TypeOK
  <2>2. CASE Skipped(r, s)
    BY <2>0, <2>2 DEF Skipped, Scoped, InWorkspace, TypeOK
  <2> QED BY <2>0, <2>1, <2>2, <1>c DEF Final
<1>5. ASSUME NEW r \in Requests, LogInsert(r) PROVE Scoped'
  <2> DEFINE new == [event_record |-> event_id[r], subscription_id |-> current[r]]
  <2>1. /\ logs' = Append(logs, new) /\ pc[r] = "log" /\ pc' = [pc EXCEPT ![r] = "match"]
        /\ current' = [current EXCEPT ![r] = NULL]
        /\ UNCHANGED <<events, subs, body, queue, deleted>>
    BY <1>5 DEF LogInsert
  <2>2. /\ DOMAIN logs' = 1..(Len(logs) + 1)
        /\ \A i \in DOMAIN logs : logs'[i] = logs[i]
        /\ logs'[Len(logs) + 1] = new
    BY <2>1, <1>a
  <2>3. current[r] \notin deleted => InWorkspace(current[r], events[event_id[r]].workspace_id)
    BY <2>1 DEF Scoped, OnceInv, OneOwner, Owner
  <2>4. \A i \in DOMAIN logs' : logs'[i].subscription_id \notin deleted \cup {NULL} =>
          InWorkspace(logs'[i].subscription_id, events[logs'[i].event_record].workspace_id)
    <3>1. \A i \in DOMAIN logs' : i \in DOMAIN logs \/ i = Len(logs) + 1
      BY <2>2, <1>a
    <3> QED BY <3>1, <2>2, <2>3 DEF Scoped
  <2>5. \A q \in Requests : /\ Fanning(q)' => Fanning(q) /\ queue'[q] = queue[q]
                           /\ pc'[q] = "log" => pc[q] = "log" /\ current'[q] = current[q]
    BY <2>1 DEF TypeOK
  <2> QED BY <2>1, <2>4, <2>5 DEF Scoped, InWorkspace
<1>6. ASSUME NEW r \in Requests, PublishReturn(r) \/ PublishFail(r) PROVE Scoped'
  BY <1>6, <1>c DEF PublishReturn, PublishFail, Final
<1>7. ASSUME NEW row \in NewSubs, SubCreate(row) PROVE Scoped'
  <2>1. PICK s \in SubIds : IsNextRowId(s) /\ WriteSub(s, row)
    BY <1>7 DEF SubCreate
  <2>2. subs[s] = NoRow
    BY <2>1 DEF IsNextRowId, SubIds
  <2>3. \A t \in SubIds : \A w : InWorkspace(t, w) => InWorkspace(t, w)'
    BY <2>1, <2>2 DEF WriteSub, InWorkspace, TypeOK
  <2>4. UNCHANGED <<events, pc, body, queue, current, logs, deleted>>
    BY <1>7 DEF SubCreate
  <2> QED BY <2>3, <2>4, KeepsScoped
<1>8. ASSUME NEW a \in Editors, SubUpdateCommit(a) PROVE Scoped'
  <2>1. edit[a].id \in SubIds
    BY <1>8 DEF SubUpdateCommit, TypeOK, Edits, Idle
  <2>2. UNCHANGED <<events, pc, body, queue, current, logs, deleted>>
    BY <1>8 DEF SubUpdateCommit
  <2>3. \A t \in SubIds : \A w : InWorkspace(t, w) => InWorkspace(t, w)'
    <3>1. CASE subs' = subs
      BY <3>1 DEF InWorkspace
    <3>2. CASE subs[edit[a].id] # NoRow
      <4>1. subs' = [subs EXCEPT ![edit[a].id] = UpdatedRow(a)]
        BY <1>8, <3>2 DEF SubUpdateCommit, WriteSub, UpdatedRow
      <4>2. UpdatedRow(a) # NoRow
        BY <1>8, <3>2, UpdatedRowType, ConstantsAssumption DEF SubUpdateCommit
      <4>3. UpdatedRow(a).workspace_id = subs[edit[a].id].workspace_id
        BY DEF UpdatedRow
      <4> QED BY <4>1, <4>2, <4>3, <2>1 DEF InWorkspace, TypeOK
    <3> QED BY <1>8, <3>1, <3>2 DEF SubUpdateCommit
  <2> QED BY <2>2, <2>3, KeepsScoped
<1>9. ASSUME NEW a \in Editors, SubDeleteCommit(a) PROVE Scoped'
  <2>1. /\ logs' = DetachedLogs(edit[a].logs) /\ WriteSub(edit[a].id, NoRow)
        /\ deleted' = deleted \cup {edit[a].id}
        /\ UNCHANGED <<events, pc, body, queue, current>>
    BY <1>9 DEF SubDeleteCommit, DetachedLogs
  <2>2. /\ DOMAIN logs' = DOMAIN logs
        /\ \A i \in DOMAIN logs : /\ logs'[i].event_record = logs[i].event_record
                                  /\ logs'[i].subscription_id \in {NULL, logs[i].subscription_id}
    BY <2>1, DetachedLogsType DEF TypeOK
  <2>3. \A t \in SubIds \ deleted' : \A w : InWorkspace(t, w) => InWorkspace(t, w)'
    BY <2>1 DEF WriteSub, InWorkspace, TypeOK
  <2> QED BY <2>1, <2>2, <2>3, KeepsScoped
<1>10. CASE UNCHANGED <<events, subs, logs, pc, body, queue, current, deleted>>
  BY <1>10 DEF Scoped, InWorkspace
<1>11. ASSUME NEW r \in Requests, Client(r) PROVE Scoped'
  BY <1>10, <1>11 DEF Client, ClientReply, ClientTimeout
<1>12. ASSUME NEW a \in Editors, Edit(a), ~SubUpdateCommit(a), ~SubDeleteCommit(a) PROVE Scoped'
  BY <1>10, <1>12 DEF Edit, SubUpdateLoad, SubDeleteLoad, EditFail
<1> QED
  BY <1>1, <1>2, <1>3, <1>4, <1>5, <1>6, <1>7, <1>8, <1>9, <1>10, <1>11, <1>12
     DEF Next, ReliableNext, Publish, vars

\* No event crosses workspaces into a delivery log, as long as the id of the
\* subscription was never freed and given to a new one.
THEOREM WorkspaceIsolationHolds == Spec => []WorkspaceIsolation
<1>1. TypeOK /\ OnceInv /\ Scoped => WorkspaceIsolation
  BY DEF Scoped, WorkspaceIsolation, InWorkspace
<1> QED BY <1>1, TypeInit, TypeNext, OnceInit, OnceNext, ScopedInit, ScopedNext, PTL DEF Spec

-----------------------------------------------------------------------------
(* The bus implements Delivery                                             *)

\* A pending deletion names log rows of its own subscription, in every state.
LEMMA ImplementationAlways == Spec => [](TypeOK /\ OnceInv /\ FanOutInv)
BY TypeInit, TypeNext, OnceInit, OnceNext, FanOutInit, FanOutNext, PTL DEF Spec

\* The bus starts where the abstract one does.
LEMMA AbstractInit == Init => Abstract!Init
BY DEF Init, Abstract!Init

\* A step of the bus is a step of the abstract one, or does not show.
LEMMA AbstractNext ==
  TypeOK /\ OnceInv /\ FanOutInv /\ [Next]_vars => [Abstract!Next]_(Abstract!delivery)
<1> SUFFICES ASSUME TypeOK, OnceInv, FanOutInv, [Next]_vars
             PROVE  Abstract!Next \/ UNCHANGED Abstract!delivery
  OBVIOUS
<1> DEFINE Hidden == UNCHANGED <<events, logs, event_id, body, result>>
<1>1. ASSUME NEW r \in Requests, EventInsert(r) PROVE Abstract!Accept(r) \/ Hidden
  BY <1>1 DEF EventInsert, Abstract!Accept, request
<1>2. ASSUME NEW r \in Requests, LogInsert(r) PROVE Abstract!Tell(event_id[r], current[r])
  <2>1. pc[r] = "log"
    BY <1>2 DEF LogInsert
  <2>2. events[event_id[r]] # NoRow
    BY <2>1, ConstantsAssumption DEF OnceInv, OneOwner, Owner, TypeOK
  <2>3. ~Abstract!Told(event_id[r], current[r])
    BY <2>1 DEF OnceInv, QueueUnlogged, Abstract!Told
  <2> QED BY <1>2, <2>2, <2>3 DEF LogInsert, Abstract!Tell, request
<1>3. ASSUME NEW r \in Requests, LogInsert(r) PROVE event_id[r] \in EventIds /\ current[r] \in SubIds
  BY <1>3 DEF LogInsert, TypeOK, OnceInv, QueueUnlogged
<1>4. ASSUME NEW r \in Requests, Client(r) PROVE Abstract!Confirm(r) \/ Abstract!GiveUp(r)
  <2>1. pc[r] = "ok" => events[event_id[r]] = body[r]
    BY DEF OnceInv, OneOwner
  <2> QED
    BY <1>4, <2>1 DEF Client, ClientReply, ClientTimeout, Abstract!Confirm, Abstract!GiveUp, request
<1>5. ASSUME NEW a \in Editors, SubDeleteCommit(a) PROVE Abstract!Forget(edit[a].id)
  <2> DEFINE lines == {i \in edit[a].logs : logs[i].subscription_id = edit[a].id}
  <2>1. lines \in SUBSET {i \in DOMAIN logs : logs[i].subscription_id = edit[a].id}
    BY <1>5 DEF SubDeleteCommit, FanOutInv, DeletionLogs
  <2>2. \A i \in DOMAIN logs : i \in edit[a].logs \ lines => logs[i].subscription_id = NULL
    BY <1>5 DEF SubDeleteCommit, FanOutInv, DeletionLogs
  <2>3. \A i \in DOMAIN logs : logs[i] \in LogRows
    BY DEF TypeOK
  <2>4. \A i \in DOMAIN logs : i \in edit[a].logs \ lines =>
          [logs[i] EXCEPT !.subscription_id = NULL] = logs[i]
    BY <2>2, <2>3 DEF LogRows
  <2>5. logs' = [i \in DOMAIN logs |-> IF i \in lines THEN [logs[i] EXCEPT !.subscription_id = NULL]
                                                      ELSE logs[i]]
    BY <1>5, <2>4 DEF SubDeleteCommit
  <2> QED BY <1>5, <2>1, <2>5 DEF SubDeleteCommit, Abstract!Forget, request
<1>6. ASSUME NEW a \in Editors, SubDeleteCommit(a) PROVE edit[a].id \in SubIds
  BY <1>6 DEF SubDeleteCommit, TypeOK, Edits, Idle
<1>7. ASSUME NEW r \in Requests,
             \/ PublishBegin(r) \/ list_active_for_workspace(r) \/ PublishReturn(r) \/ PublishFail(r)
             \/ \E s \in SubIds : MatchNext(r, s)
      PROVE  Hidden
  BY <1>7 DEF PublishBegin, list_active_for_workspace, PublishReturn, PublishFail, MatchNext, request
<1>8. ASSUME NEW row \in NewSubs, SubCreate(row) PROVE Hidden
  BY <1>8 DEF SubCreate, request
<1>9. ASSUME NEW a \in Editors,
             \/ SubUpdateCommit(a) \/ EditFail(a)
             \/ \E s \in SubIds : SubDeleteLoad(a, s) \/ \E data \in Changes : SubUpdateLoad(a, s, data)
      PROVE  Hidden
  BY <1>9 DEF SubUpdateCommit, EditFail, SubDeleteLoad, SubUpdateLoad, request
<1>10. CASE UNCHANGED vars
  BY <1>10 DEF vars, Abstract!delivery
<1>11. Hidden => UNCHANGED Abstract!delivery
  BY DEF Abstract!delivery
<1> QED
  BY <1>1, <1>2, <1>3, <1>4, <1>5, <1>6, <1>7, <1>8, <1>9, <1>10, <1>11
     DEF Next, ReliableNext, Publish, Edit, Abstract!Next

\* Whatever requests, editors and failures do, producers and subscribers see the
\* abstract bus: events accepted once, told at most once, confirmed truthfully.
THEOREM ImplementsDeliveryHolds == Spec => ImplementsDelivery
BY AbstractInit, AbstractNext, ImplementationAlways, PTL DEF Spec, ImplementsDelivery, Abstract!Spec
=============================================================================
