------------------------- MODULE WorkflowExecution -------------------------
(***************************************************************************)
(* Executing a workflow in automation-service                              *)
(* (services/automation-service/app): WorkflowExecutor records the run, its *)
(* outcome and an audit trail, each in a commit of its own, and any of them *)
(* can fail or be the last before the process stops.  SQLite gives the id  *)
(* of a deleted last row again.  Conditions and actions are placeholders   *)
(* that only read.                                                         *)
(***************************************************************************)
EXTENDS Integers, FiniteSetsExt

CONSTANTS
  Requests,       \* concurrent HTTP calls
  MaxWorkflow,    \* bound on workflow ids
  MaxExecution,   \* bound on execution ids
  NULL

WorkflowIds == 1..MaxWorkflow
ExecutionIds == 1..MaxExecution

VARIABLES
  workflows,      \* ids of the workflows
  executions,     \* workflow_executions: ExecutionIds -> [workflow_id, status], or NULL
  audit,          \* automation_audit_logs: rows [workflow_id, execution_id, status]
  run,            \* what each call is doing
  uprooted        \* history: executing calls whose workflow or execution was deleted, or
                  \* whose execution got the id another call still writes

executionVars == <<workflows, executions, audit, run, uprooted>>

NoRun == [at |-> "idle", workflow |-> NULL, execution |-> NULL, loaded |-> {}]

Init ==
  /\ workflows = {} /\ audit = {} /\ uprooted = {}
  /\ executions = [e \in ExecutionIds |-> NULL]
  /\ run = [r \in Requests |-> NoRun]

-----------------------------------------------------------------------------
Goes(r, at) == run' = [run EXCEPT ![r].at = at]
Ends(r) == run' = [run EXCEPT ![r] = NoRun]
Here(r) == executions[run[r].execution] # NULL
Own(r) == run[r].workflow \in workflows
Log(r, status) ==
  audit' = audit \cup {[workflow_id |-> run[r].workflow, execution_id |-> run[r].execution, status |-> status]}
Write(r, status) == executions' = [executions EXCEPT ![run[r].execution].status = status]

-----------------------------------------------------------------------------
(* WorkflowExecutor.execute                                                *)

get(r, w) ==
  /\ run[r] = NoRun /\ w \in workflows
  /\ run' = [run EXCEPT ![r] = [NoRun EXCEPT !.at = "create", !.workflow = w]]
  /\ uprooted' = uprooted \ {r}
  /\ UNCHANGED <<workflows, executions, audit>>

create(r) ==
  LET e == 1 + Max({f \in ExecutionIds : executions[f] # NULL} \cup {0})
  IN /\ run[r].at = "create" /\ e \in ExecutionIds
     /\ executions' = [executions EXCEPT ![e] = [workflow_id |-> run[r].workflow, status |-> "running"]]
     /\ run' = [run EXCEPT ![r].at = "started", ![r].execution = e]
     /\ uprooted' = IF \E q \in Requests : run[q].execution = e THEN uprooted \cup {r} ELSE uprooted
     /\ UNCHANGED <<workflows, audit>>

\* The commit before has expired the workflow: it is read again, and that fails
\* when it is gone.
log_started(r) ==
  /\ run[r].at = "started"
  /\ IF Own(r) THEN Log(r, "running") /\ Goes(r, "work") ELSE Ends(r) /\ UNCHANGED audit
  /\ UNCHANGED <<workflows, executions, uprooted>>

\* Inside the try: a failed read leads to the handler.
work(r) ==
  /\ run[r].at = "work"
  /\ \/ Own(r) /\ Goes(r, "succeed")
     \/ Goes(r, "fail")
  /\ UNCHANGED <<workflows, executions, audit, uprooted>>

\* A failed flush leaves a session that the handler cannot commit with: Stop.
commit_success(r) ==
  /\ run[r].at = "succeed" /\ Here(r)
  /\ Write(r, "success") /\ Goes(r, "refresh")
  /\ UNCHANGED <<workflows, audit, uprooted>>

refresh(r) ==
  /\ run[r].at = "refresh"
  /\ \/ Here(r) /\ Goes(r, "completed")
     \/ Goes(r, "fail")
  /\ UNCHANGED <<workflows, executions, audit, uprooted>>

\* The audit row is committed, then read again: that can fail too, and leads to the
\* handler.
log_completed(r) ==
  /\ run[r].at = "completed"
  /\ \/ Own(r) /\ Log(r, "success") /\ (Goes(r, "success") \/ Goes(r, "fail"))
     \/ Goes(r, "fail") /\ UNCHANGED audit
  /\ UNCHANGED <<workflows, executions, uprooted>>

\* Mutant of commit_failed: the handler only audits.
audit_only(r) ==
  /\ run[r].at = "fail" /\ Here(r)
  /\ Goes(r, "failed")
  /\ UNCHANGED <<workflows, executions, audit, uprooted>>

\* The handler, after success was committed and even audited as well.
commit_failed(r) ==
  /\ run[r].at = "fail" /\ Here(r)
  /\ Write(r, "failed") /\ Goes(r, "failed")
  /\ UNCHANGED <<workflows, audit, uprooted>>

log_failed(r) ==
  /\ run[r].at = "failed" /\ Here(r) /\ Own(r)
  /\ Log(r, "failed") /\ Goes(r, "failure")
  /\ UNCHANGED <<workflows, executions, uprooted>>

\* The execution is returned to the client; or the call breaks off where it is: the
\* process stops, a row it needs is gone, or a write fails that no handler can undo.
Stop(r) ==
  /\ run[r] # NoRun /\ Ends(r)
  /\ UNCHANGED <<workflows, executions, audit, uprooted>>

-----------------------------------------------------------------------------
(* WorkflowService.create and delete                                       *)

create_workflow ==
  LET w == 1 + Max(workflows \cup {0})
  IN /\ w \in WorkflowIds /\ workflows' = workflows \cup {w}
     /\ UNCHANGED <<executions, audit, run, uprooted>>

\* The executions are read for the cascade, then all goes; audit rows are cut off.
delete(r, w) ==
  /\ run[r] = NoRun /\ w \in workflows
  /\ run' = [run EXCEPT ![r] = [NoRun EXCEPT !.at = "delete", !.workflow = w, !.loaded =
               {e \in ExecutionIds : executions[e] # NULL /\ executions[e].workflow_id = w}]]
  /\ UNCHANGED <<workflows, executions, audit, uprooted>>

commit_delete(r) ==
  LET w == run[r].workflow
      gone == run[r].loaded
  IN /\ run[r].at = "delete" /\ Own(r) /\ \A e \in gone : executions[e] # NULL
     /\ workflows' = workflows \ {w}
     /\ executions' = [e \in ExecutionIds |-> IF e \in gone THEN NULL ELSE executions[e]]
     /\ audit' = {[row EXCEPT !.workflow_id = IF @ = w THEN NULL ELSE @,
                              !.execution_id = IF @ \in gone THEN NULL ELSE @] : row \in audit}
     /\ uprooted' = uprooted \cup {q \in Requests \ {r} : run[q].workflow = w \/ run[q].execution \in gone}
     /\ Ends(r)

Next ==
  \/ create_workflow
  \/ \E r \in Requests :
       \/ \E w \in WorkflowIds : get(r, w) \/ delete(r, w)
       \/ create(r) \/ log_started(r) \/ work(r) \/ commit_success(r) \/ refresh(r) \/ log_completed(r)
       \/ commit_failed(r) \/ log_failed(r) \/ commit_delete(r) \/ Stop(r)

Spec == Init /\ [][Next]_executionVars

-----------------------------------------------------------------------------
(* Properties                                                              *)

Answer(r) == [success |-> "success", failure |-> "failed"][run[r].at]

\* The outcome a call is about to answer with is the status of its execution and is
\* audited, whichever commits and reads failed on the way and also when it was first
\* recorded as a success, unless the workflow was deleted meanwhile or a call for a
\* deleted one still writes the execution that had the id before.
AnsweredIsRecorded ==
  \A r \in Requests \ uprooted : run[r].at \in {"success", "failure"} =>
    /\ Here(r) /\ executions[run[r].execution].status = Answer(r)
    /\ [workflow_id |-> run[r].workflow, execution_id |-> run[r].execution, status |-> Answer(r)] \in audit
=============================================================================
