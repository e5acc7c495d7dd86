-------------------------- MODULE ExecutionProofs --------------------------
(* What TLAPS proves of WorkflowExecution and AssistantChat: what a call is  *)
(* about to answer with, for any number of rows, chats and calls.            *)
EXTENDS Services, FiniteSetTheorems, WellFoundedInduction, TLAPS

-----------------------------------------------------------------------------
(* Ids                                                                     *)

\* A set of ids has a largest one.
LEMMA HasMax ==
  ASSUME NEW n \in Nat, NEW S, S \subseteq 0..n, S # {}
  PROVE  \E x \in S : \A y \in S : x >= y
<1> DEFINE T == {n - x : x \in S}
<1>1. T \subseteq Nat
  OBVIOUS
<1> HIDE DEF T
<1>0. T # {}
  <2>1. PICK x \in S : TRUE
    OBVIOUS
  <2>2. n - x \in T
    BY DEF T
  <2> QED BY <2>2
<1>2. \E t \in T : \A u \in T : ~ (<<u, t>> \in OpToRel(<, Nat))
  BY <1>0, <1>1, NatLessThanWellFounded, WFMin
<1>3. PICK t \in T : \A u \in T : ~ (u < t)
  BY <1>1, <1>2 DEF OpToRel
<1>4. PICK x \in S : t = n - x
  BY <1>3 DEF T
<1>5. ASSUME NEW y \in S PROVE x >= y
  <2>1. ~ (n - y < t)
    BY <1>3 DEF T
  <2> QED BY <2>1, <1>4
<1> QED BY <1>4, <1>5

-----------------------------------------------------------------------------
(* Executing a workflow                                                    *)

executions == s2
audit == s3
run == s4
uprooted == s5
USE DEF executions, audit, run, uprooted

ExecutionIds == 1..MaxExecution
DefinitionIds == 1..MaxDefinition
ExecutionRows == [workflow_id : DefinitionIds, status : {"running", "success", "failed"}]
Recorded == {"refresh", "completed", "success"}
Running == {"started", "work", "succeed", "fail", "failed", "failure"} \cup Recorded
Runs == [at : Running \cup {"idle", "create", "delete"}, workflow : DefinitionIds \cup {NULL},
         execution : ExecutionIds \cup {NULL}, loaded : SUBSET ExecutionIds]

ExecutionType ==
  /\ executions \in [ExecutionIds -> ExecutionRows \cup {NULL}]
  /\ run \in [Requests -> Runs]
  /\ \A r \in Requests : /\ run[r].at \in Running <=> run[r].execution \in ExecutionIds
                         /\ run[r].at # "idle" => run[r].workflow \in DefinitionIds

\* A call that is not uprooted has an execution to itself, with the status and the
\* audit row of where the call is.
Rooted(r) ==
  LET e == run[r].execution
      told(status) == [workflow_id |-> run[r].workflow, execution_id |-> e, status |-> status]
  IN /\ executions[e] # NULL
     /\ \A q \in Requests \ {r} : run[q].execution # e
     /\ run[r].at \in Recorded => executions[e].status = "success"
     /\ run[r].at \in {"failed", "failure"} => executions[e].status = "failed"
     /\ run[r].at = "success" => told("success") \in audit
     /\ run[r].at = "failure" => told("failed") \in audit

ExecutionInv ==
  /\ ExecutionType
  /\ \A r \in Requests \ uprooted : run[r].at \in Running => Rooted(r)

LEMMA AutomationStep ==
  ASSUME [Next]_vars, part' = "automation"
  PROVE  /\ part = "automation"
         /\ Automation!Next \/ UNCHANGED <<s1, s2, s3, s4, s5>>
BY DEF Next, vars

LEMMA ExecutionInit == Automation!Init => ExecutionInv
<1> SUFFICES ASSUME Automation!Init PROVE ExecutionInv
  OBVIOUS
<1>1. Automation!NoRun \in Runs /\ Automation!NoRun.at = "idle" /\ Automation!NoRun.execution \notin ExecutionIds
  BY NullAssumption, BoundAssumption DEF Automation!NoRun, Runs, ExecutionIds
<1>2. run = [r \in Requests |-> Automation!NoRun] /\ executions = [e \in ExecutionIds |-> NULL]
  BY DEF Automation!Init, Automation!ExecutionIds, ExecutionIds
<1> QED BY <1>1, <1>2 DEF ExecutionInv, ExecutionType, Running, Recorded

\* What a call is doing next, of its type.
Coherent(c) ==
  /\ c \in Runs
  /\ c.at \in Running <=> c.execution \in ExecutionIds
  /\ c.at # "idle" => c.workflow \in DefinitionIds

LEMMA NoRunCoherent == Coherent(Automation!NoRun) /\ Automation!NoRun.at = "idle"
BY NullAssumption DEF Coherent, Automation!NoRun, Runs, Running, Recorded, ExecutionIds

LEMMA ExecutionTypeStep ==
  ASSUME ExecutionType, NEW r \in Requests, NEW c, Coherent(c), run' = [run EXCEPT ![r] = c],
         executions' \in [ExecutionIds -> ExecutionRows \cup {NULL}]
  PROVE  ExecutionType'
BY DEF ExecutionType, Coherent

\* A step of one call leaves what the others rely on when it keeps to its own execution.
LEMMA OthersStay ==
  ASSUME ExecutionInv, NEW r \in Requests, NEW c, Coherent(c), run' = [run EXCEPT ![r] = c],
         c.execution \in {run[r].execution, NULL},
         executions' \in [ExecutionIds -> ExecutionRows \cup {NULL}],
         \A e \in ExecutionIds : e # run[r].execution => executions'[e] = executions[e],
         audit \subseteq audit',
         NEW q \in Requests \ uprooted, q # r, run'[q].at \in Running
  PROVE  Rooted(q)'
<1>1. run'[q] = run[q] /\ run[q].execution \in ExecutionIds /\ Rooted(q)
  BY DEF ExecutionInv, ExecutionType
<1>2. run'[r] = c
  BY DEF ExecutionInv, ExecutionType
<1>3. \A p \in Requests \ {q} : run'[p].execution # run[q].execution
  BY <1>1, <1>2, NullAssumption DEF Rooted, ExecutionInv, ExecutionType, ExecutionIds
<1>4. executions'[run[q].execution] = executions[run[q].execution]
  BY <1>1 DEF Rooted
<1> QED BY <1>1, <1>3, <1>4 DEF Rooted

\* A call that goes on, to one of the places where it has its execution already.
LEMMA GoesOn ==
  ASSUME ExecutionInv, NEW r \in Requests, NEW at \in Running, run[r].at \in Running,
         Automation!Goes(r, at),
         executions' \in [ExecutionIds -> ExecutionRows \cup {NULL}],
         \A e \in ExecutionIds : e # run[r].execution => executions'[e] = executions[e],
         audit \subseteq audit', uprooted' = uprooted,
         LET e == run[r].execution
             told(status) == [workflow_id |-> run[r].workflow, execution_id |-> e, status |-> status]
         IN r \notin uprooted =>
              /\ executions'[e] # NULL
              /\ at \in Recorded => executions'[e].status = "success"
              /\ at \in {"failed", "failure"} => executions'[e].status = "failed"
              /\ at = "success" => told("success") \in audit'
              /\ at = "failure" => told("failed") \in audit'
  PROVE  ExecutionInv'
<1> DEFINE c == [run[r] EXCEPT !.at = at]
<1>1. run[r] \in Runs /\ run' = [run EXCEPT ![r] = c]
  BY DEF Automation!Goes, ExecutionInv, ExecutionType
<1>2. Coherent(c) /\ c.execution = run[r].execution /\ c.workflow = run[r].workflow /\ c.at = at
  BY <1>1 DEF Coherent, Runs, ExecutionInv, ExecutionType, Running, Recorded
<1> HIDE DEF c
<1>3. ExecutionType'
  BY <1>1, <1>2, ExecutionTypeStep DEF ExecutionInv
<1>4. ASSUME NEW q \in Requests \ uprooted', run'[q].at \in Running PROVE Rooted(q)'
  <2>1. CASE q # r
    BY <1>1, <1>2, <1>4, <2>1, OthersStay
  <2>2. CASE q = r
    <3>1. run'[r] = c /\ Rooted(r) /\ \A p \in Requests \ {r} : run'[p] = run[p]
      BY <1>1, <1>4, <2>2 DEF ExecutionInv, ExecutionType
    <3> QED BY <1>2, <1>4, <2>2, <3>1 DEF Rooted
  <2> QED BY <2>1, <2>2
<1> QED BY <1>3, <1>4 DEF ExecutionInv

\* A call that comes to a place, or back to one, where it has no execution.
LEMMA GoesWithout ==
  ASSUME ExecutionInv, NEW r \in Requests, NEW c, Coherent(c), run' = [run EXCEPT ![r] = c],
         c.execution = NULL, c.at \notin Running,
         executions' = executions, audit' = audit, uprooted \ {r} \subseteq uprooted'
  PROVE  ExecutionInv'
<1>1. ExecutionType'
  BY ExecutionTypeStep DEF ExecutionInv, ExecutionType
<1>2. ASSUME NEW q \in Requests \ uprooted', run'[q].at \in Running PROVE Rooted(q)'
  <2>1. q # r
    BY <1>2 DEF ExecutionInv, ExecutionType
  <2> QED BY <1>2, <2>1, OthersStay DEF ExecutionInv, ExecutionType
<1> QED BY <1>1, <1>2 DEF ExecutionInv

\* The row a call writes stays a row.
LEMMA WrittenRow ==
  ASSUME ExecutionInv, NEW r \in Requests, run[r].at \in Running, Automation!Here(r),
         NEW status \in {"success", "failed"}, Automation!Write(r, status)
  PROVE  /\ executions' \in [ExecutionIds -> ExecutionRows \cup {NULL}]
         /\ \A e \in ExecutionIds : e # run[r].execution => executions'[e] = executions[e]
         /\ executions'[run[r].execution] # NULL
         /\ executions'[run[r].execution].status = status
<1>1. run[r].execution \in ExecutionIds /\ executions[run[r].execution] \in ExecutionRows
  BY DEF Automation!Here, ExecutionInv, ExecutionType
<1>2. [executions[run[r].execution] EXCEPT !.status = status] \in ExecutionRows
  BY <1>1 DEF ExecutionRows
<1>3. [executions[run[r].execution] EXCEPT !.status = status] # NULL
  BY <1>2, NullAssumption DEF ExecutionRows, DefinitionIds
<1> QED BY <1>1, <1>2, <1>3 DEF Automation!Write, ExecutionInv, ExecutionType, ExecutionRows

\* Every step of the executor keeps the invariant.
LEMMA ExecutionNext == ExecutionInv /\ Automation!Next => ExecutionInv'
<1> SUFFICES ASSUME ExecutionInv, Automation!Next PROVE ExecutionInv'
  OBVIOUS
<1> USE DEF Automation!ExecutionIds, ExecutionIds
<1>1. CASE Automation!create_workflow
  BY <1>1 DEF Automation!create_workflow, ExecutionInv, ExecutionType, Rooted
<1>2. ASSUME NEW r \in Requests, NEW w \in Automation!WorkflowIds,
             Automation!get(r, w) \/ Automation!delete(r, w)
      PROVE  ExecutionInv'
  <2>1. PICK c : /\ c.at \in {"create", "delete"} /\ c.workflow = w /\ c.execution = NULL /\ c \in Runs
                 /\ run' = [run EXCEPT ![r] = c]
    <3>1. CASE Automation!get(r, w)
      BY <3>1 DEF Automation!get, Automation!NoRun, Automation!WorkflowIds, DefinitionIds, Runs
    <3>2. CASE Automation!delete(r, w)
      BY <3>2 DEF Automation!delete, Automation!NoRun, Automation!WorkflowIds, DefinitionIds, Runs
    <3> QED BY <1>2, <3>1, <3>2
  <2>2. executions' = executions /\ audit' = audit /\ uprooted \ {r} \subseteq uprooted'
    BY <1>2 DEF Automation!get, Automation!delete
  <2>3. Coherent(c) /\ c.at \notin Running
    BY <2>1, NullAssumption DEF Coherent, Running, Recorded, DefinitionIds, Automation!WorkflowIds
  <2> QED BY <2>1, <2>2, <2>3, GoesWithout
<1>3. ASSUME NEW r \in Requests, Automation!Stop(r)
      PROVE  ExecutionInv'
  <2>1. run' = [run EXCEPT ![r] = Automation!NoRun] /\ Automation!NoRun.execution = NULL
    BY <1>3 DEF Automation!Stop, Automation!Ends, Automation!NoRun
  <2> QED BY <1>3, <2>1, NoRunCoherent, GoesWithout DEF Automation!Stop, Running, Recorded
<1>4. ASSUME NEW r \in Requests, Automation!create(r)
      PROVE  ExecutionInv'
  <2> DEFINE taken == {f \in ExecutionIds : executions[f] # NULL} \cup {0}
             e == 1 + Automation!Max(taken)
  <2>1. e \in ExecutionIds /\ executions[e] = NULL
    <3>0. taken \subseteq 0..MaxExecution /\ taken # {}
      BY BoundAssumption
    <3>1. \E x \in taken : \A y \in taken : x >= y
      BY <3>0, HasMax, BoundAssumption
    <3>2. Automation!Max(taken) \in taken /\ \A y \in taken : Automation!Max(taken) >= y
      BY <3>1 DEF Automation!Max
    <3>3. e \in ExecutionIds
      BY <1>4 DEF Automation!create
    <3>4. e \notin taken
      BY <3>2, <3>3, BoundAssumption
    <3> QED BY <3>3, <3>4
  <2> HIDE DEF e
  <2>2. run' = [run EXCEPT ![r].at = "started", ![r].execution = e]
        /\ executions' = [executions EXCEPT ![e] = [workflow_id |-> run[r].workflow, status |-> "running"]]
        /\ run[r].at = "create"
        /\ uprooted' = (IF \E q \in Requests : run[q].execution = e THEN uprooted \cup {r} ELSE uprooted)
        /\ audit' = audit
    BY <1>4 DEF Automation!create, e
  <2>3. run[r] \in Runs /\ run[r].workflow \in DefinitionIds /\ run[r].execution \notin ExecutionIds
    BY <2>2 DEF ExecutionInv, ExecutionType, Running, Recorded
  <2>4. [workflow_id |-> run[r].workflow, status |-> "running"] \in ExecutionRows
    BY <2>3 DEF ExecutionRows
  <2>5. ExecutionType'
    BY <2>1, <2>2, <2>3, <2>4 DEF ExecutionInv, ExecutionType, Runs, Running, Recorded
  <2>6. ASSUME NEW q \in Requests \ uprooted', run'[q].at \in Running PROVE Rooted(q)'
    <3>1. CASE q = r
      <4>1. \A p \in Requests : run[p].execution # e
        BY <2>2, <2>6, <3>1
      <4>2. [workflow_id |-> run[r].workflow, status |-> "running"] # NULL
        BY <2>4, NullAssumption DEF ExecutionRows, DefinitionIds
      <4> QED BY <2>1, <2>2, <2>3, <3>1, <4>1, <4>2 DEF ExecutionInv, ExecutionType, Rooted, Recorded, Runs
    <3>2. CASE q # r
      <4>1. run[q].at \in Running /\ Rooted(q) /\ run'[q] = run[q] /\ run[q].execution \in ExecutionIds
        BY <2>2, <2>6, <3>2 DEF ExecutionInv, ExecutionType
      <4>2. run[q].execution # e
        BY <2>1, <4>1 DEF Rooted
      <4> QED BY <2>1, <2>2, <2>3, <3>2, <4>1, <4>2 DEF ExecutionInv, ExecutionType, Rooted, Runs
    <3> QED BY <3>1, <3>2
  <2> QED BY <2>5, <2>6 DEF ExecutionInv
<1>5. ASSUME NEW r \in Requests, Automation!log_started(r)
      PROVE  ExecutionInv'
  <2>1. CASE Automation!Own(r)
    BY <1>5, <2>1, GoesOn DEF Automation!log_started, Automation!Log, ExecutionInv, ExecutionType, Rooted, Running, Recorded
  <2>2. CASE ~ Automation!Own(r)
    <3>1. run' = [run EXCEPT ![r] = Automation!NoRun] /\ Automation!NoRun.execution = NULL
      BY <1>5, <2>2 DEF Automation!log_started, Automation!Ends, Automation!NoRun
    <3> QED BY <1>5, <2>2, <3>1, NoRunCoherent, GoesWithout DEF Automation!log_started, Running, Recorded
  <2> QED BY <2>1, <2>2
<1>6. ASSUME NEW r \in Requests, Automation!work(r)
      PROVE  ExecutionInv'
  BY <1>6, GoesOn DEF Automation!work, ExecutionInv, ExecutionType, Rooted, Running, Recorded
<1>7. ASSUME NEW r \in Requests, Automation!commit_success(r)
      PROVE  ExecutionInv'
  BY <1>7, WrittenRow, GoesOn DEF Automation!commit_success, Rooted, ExecutionInv, Running, Recorded
<1>8. ASSUME NEW r \in Requests, Automation!refresh(r)
      PROVE  ExecutionInv'
  BY <1>8, GoesOn DEF Automation!refresh, ExecutionInv, ExecutionType, Rooted, Running, Recorded
<1>9. ASSUME NEW r \in Requests, Automation!log_completed(r)
      PROVE  ExecutionInv'
  BY <1>9, GoesOn DEF Automation!log_completed, Automation!Log, ExecutionInv, ExecutionType, Rooted, Running, Recorded
<1>10. ASSUME NEW r \in Requests, Automation!commit_failed(r)
       PROVE  ExecutionInv'
  BY <1>10, WrittenRow, GoesOn DEF Automation!commit_failed, Rooted, ExecutionInv, Running, Recorded
<1>11. ASSUME NEW r \in Requests, Automation!log_failed(r)
       PROVE  ExecutionInv'
  BY <1>11, GoesOn DEF Automation!log_failed, Automation!Log, ExecutionInv, ExecutionType, Rooted, Running, Recorded
<1>12. ASSUME NEW r \in Requests, Automation!commit_delete(r)
       PROVE  ExecutionInv'
  <2> DEFINE w == run[r].workflow
             gone == run[r].loaded
             cut(row) == [row EXCEPT !.workflow_id = IF @ = w THEN NULL ELSE @,
                                     !.execution_id = IF @ \in gone THEN NULL ELSE @]
  <2>1. run' = [run EXCEPT ![r] = Automation!NoRun] /\ run[r].at = "delete"
    BY <1>12 DEF Automation!commit_delete, Automation!Ends
  <2>2. executions' = [e \in ExecutionIds |-> IF e \in gone THEN NULL ELSE executions[e]]
        /\ audit' = {cut(row) : row \in audit}
        /\ uprooted' = uprooted \cup {q \in Requests \ {r} : run[q].workflow = w \/ run[q].execution \in gone}
    BY <1>12 DEF Automation!commit_delete
  <2>3. ExecutionType'
    BY <2>1, <2>2, NoRunCoherent, ExecutionTypeStep DEF ExecutionInv, ExecutionType
  <2>4. ASSUME NEW q \in Requests \ uprooted', run'[q].at \in Running PROVE Rooted(q)'
    <3>1. q # r
      BY <2>1, <2>4, NoRunCoherent DEF ExecutionInv, ExecutionType, Running, Recorded
    <3>2. run'[q] = run[q] /\ run[q].workflow # w /\ run[q].execution \in ExecutionIds \ gone /\ Rooted(q)
      BY <2>1, <2>2, <2>4, <3>1 DEF ExecutionInv, ExecutionType
    <3>3. \A p \in Requests \ {q} : run'[p].execution # run[q].execution
      BY <2>1, <3>2, NullAssumption DEF Rooted, ExecutionInv, ExecutionType, Automation!NoRun
    <3>4. executions'[run[q].execution] = executions[run[q].execution]
      BY <2>2, <3>2
    <3>5. ASSUME NEW status, [workflow_id |-> run[q].workflow, execution_id |-> run[q].execution, status |-> status] \in audit
          PROVE  [workflow_id |-> run[q].workflow, execution_id |-> run[q].execution, status |-> status] \in audit'
      <4> DEFINE row == [workflow_id |-> run[q].workflow, execution_id |-> run[q].execution, status |-> status]
      <4>1. cut(row) = row
        BY <3>2
      <4> QED BY <2>2, <3>5, <4>1
    <3> QED BY <3>2, <3>3, <3>4, <3>5 DEF Rooted
  <2> QED BY <2>3, <2>4 DEF ExecutionInv
<1> QED
  BY <1>1, <1>2, <1>3, <1>4, <1>5, <1>6, <1>7, <1>8, <1>9, <1>10, <1>11, <1>12 DEF Automation!Next

\* What a call is about to answer with is recorded, by the invariant.
LEMMA ExecutionAnswers == ExecutionInv => Automation!AnsweredIsRecorded
<1> SUFFICES ASSUME ExecutionInv, NEW r \in Requests \ uprooted, run[r].at \in {"success", "failure"}
             PROVE  /\ Automation!Here(r) /\ executions[run[r].execution].status = Automation!Answer(r)
                    /\ [workflow_id |-> run[r].workflow, execution_id |-> run[r].execution,
                        status |-> Automation!Answer(r)] \in audit
  BY DEF Automation!AnsweredIsRecorded
<1>1. Rooted(r)
  BY DEF ExecutionInv, Running, Recorded
<1>2. Automation!Answer(r) = IF run[r].at = "success" THEN "success" ELSE "failed"
  BY DEF Automation!Answer
<1> QED BY <1>1, <1>2 DEF Rooted, Recorded, Automation!Here

\* WorkflowExecutor.execute: whatever commits and reads failed on the way, the
\* outcome a call answers with is the status of its execution and is audited.
THEOREM AnsweredIsRecordedHolds == Spec => []AnsweredIsRecorded
<1> DEFINE Inv == part = "automation" => ExecutionInv
<1>1. Init => Inv
  BY ExecutionInit DEF Init
<1>2. Inv /\ [Next]_vars => Inv'
  <2> SUFFICES ASSUME Inv, [Next]_vars, part' = "automation" PROVE ExecutionInv'
    OBVIOUS
  <2>1. part = "automation" /\ (Automation!Next \/ UNCHANGED <<s1, s2, s3, s4, s5>>)
    BY AutomationStep
  <2>2. CASE UNCHANGED <<s1, s2, s3, s4, s5>>
    BY <2>1, <2>2 DEF ExecutionInv, ExecutionType, Rooted
  <2> QED BY <2>1, <2>2, ExecutionNext
<1>3. Inv => AnsweredIsRecorded
  BY ExecutionAnswers DEF AnsweredIsRecorded
<1> QED BY <1>1, <1>2, <1>3, PTL DEF Spec

-----------------------------------------------------------------------------
(* Chats of the assistant                                                  *)

sessions == s1
messages == s2
table == s3
logs == s4
providers == s5
talk == s6
begun == s7
broken == s8
torn == s9
USE DEF sessions, messages, table, logs, providers, talk, begun, broken, torn

MessageIds == 1..MaxMessage
ResponseIds == 1..MaxChat
Outcomes == {"success", "failure"}
Messages == [session_id : Nat, role : {"user", "assistant"}, chat : Nat]
Responses == [session_id : Nat, message_id : Nat, chat : Nat]
Tables == [ResponseIds -> Responses \cup {NULL}]
\* The rows, whatever their ids.
responses == {table[n] : n \in {m \in ResponseIds : table[m] # NULL}}
Logs == [chat : Nat, status : Outcomes]
Unanswered == {"question", "asked", "context", "history", "register", "model", "log"}
Answered == {"answered", "response", "done"}
Talks == [at : {"idle", "delete", "answer", "store"} \cup Unanswered \cup Answered,
          chat : Nat, session : Nat, message : Nat, outcome : Outcomes \cup {NULL},
          loaded : SUBSET MessageIds, answers : SUBSET ResponseIds]

\* What a call does next, of its type.
Sensible(k) ==
  /\ k \in Talks
  /\ k.at \in {"idle", "delete"} => k.chat = 0
  /\ k.at = "log" => k.outcome \in Outcomes

ChatType ==
  /\ sessions \subseteq Nat /\ begun \in Nat
  /\ messages \in [MessageIds -> Messages \cup {NULL}]
  /\ table \in Tables /\ logs \subseteq Logs
  /\ talk \in [Requests -> Talks]
  /\ \A r \in Requests : Sensible(talk[r])

LEMMA ChattingStep ==
  ASSUME [Next]_vars, part' = "chatting"
  PROVE  /\ part = "chatting"
         /\ Chatting!Next \/ UNCHANGED <<s1, s2, s3, s4, s5, s6, s7, s8, s9>>
BY DEF Next, vars

LEMMA SilentSensible == Sensible(Chatting!Silent)
BY DEF Chatting!Silent, Sensible, Talks, Answered

LEMMA ChatTypeStep ==
  ASSUME ChatType, NEW r \in Requests, NEW k, Sensible(k), talk' = [talk EXCEPT ![r] = k],
         sessions' \subseteq Nat, begun' \in Nat, messages' \in [MessageIds -> Messages \cup {NULL}],
         table' \in Tables, logs' \subseteq Logs
  PROVE  ChatType'
BY DEF ChatType, Sensible

\* Steps in which a call takes another place only.
LEMMA SpeakSensible ==
  ASSUME ChatType, NEW r \in Requests, talk[r].at \notin {"idle", "delete"},
         NEW at \in {"answer", "asked", "context", "history", "register", "model", "store", "response", "done"}
  PROVE  Sensible([talk[r] EXCEPT !.at = at])
<1>1. talk[r] \in Talks /\ Sensible(talk[r])
  BY DEF ChatType
<1> QED BY <1>1 DEF Sensible, Talks, Unanswered, Answered

\* The rows are those of the table.
LEMMA RowIs ==
  ASSUME NEW n \in ResponseIds, table[n] # NULL
  PROVE  table[n] \in responses
BY DEF responses

LEMMA RowsKept == ASSUME UNCHANGED table PROVE UNCHANGED responses
BY DEF responses

-----------------------------------------------------------------------------
(* What is stored of a session                                             *)

Writes(k) == k.at \notin {"idle", "delete"}

\* A session that is gone for good: nobody writes to it and nothing is stored of it.
Empty(s) ==
  /\ \A r \in Requests : Writes(talk[r]) => talk[r].session # s
  /\ \A n \in MessageIds : messages[n] # NULL => messages[n].session_id # s
  /\ \A row \in responses : row.session_id # s

SessionInv == \A s \in Nat : s \notin sessions \cup torn => Empty(s)

\* A call writes to the session it found, and a session is only added.
LEMMA SessionStep ==
  ASSUME ChatType, SessionInv, NEW r \in Requests, NEW k, talk' = [talk EXCEPT ![r] = k],
         sessions \subseteq sessions', torn' = torn,
         Writes(k) => k.session \in sessions' \/ (Writes(talk[r]) /\ k.session = talk[r].session),
         \A n \in MessageIds : messages'[n] \notin {NULL, messages[n]} =>
           Writes(talk[r]) /\ messages'[n].session_id = talk[r].session,
         UNCHANGED table \/ \A row \in responses' \ responses : Writes(talk[r]) /\ row.session_id = talk[r].session
  PROVE  SessionInv'
<1> SUFFICES ASSUME NEW s \in Nat, s \notin sessions' \cup torn' PROVE Empty(s)'
  BY DEF SessionInv
<1>1. Empty(s)
  BY DEF SessionInv
<1>2. Writes(talk[r]) => talk[r].session # s
  BY <1>1 DEF Empty
<1>3. \A q \in Requests : talk'[q] = IF q = r THEN k ELSE talk[q]
  BY DEF ChatType
<1>4. \A q \in Requests : Writes(talk'[q]) => talk'[q].session # s
  BY <1>1, <1>2, <1>3 DEF Empty
<1>5. \A n \in MessageIds : messages'[n] # NULL => messages'[n].session_id # s
  BY <1>1, <1>2 DEF Empty
<1>6. \A row \in responses' : row.session_id # s
  BY <1>1, <1>2, RowsKept DEF Empty
<1> QED BY <1>4, <1>5, <1>6 DEF Empty

-----------------------------------------------------------------------------
(* What is told of a chat                                                  *)

Of(ms, n, c) == ms[n] # NULL /\ ms[n].chat = c
LoggedAs(ls, c, outcome) ==
  /\ [chat |-> c, status |-> outcome] \in ls
  /\ \A l \in ls : l.chat = c => l.status = outcome
AnsweredBy(rs, c, s, n) ==
  /\ [session_id |-> s, message_id |-> n, chat |-> c] \in rs
  /\ \A row \in rs : row.chat = c => row = [session_id |-> s, message_id |-> n, chat |-> c]

\* Nothing is stored of a chat that has not begun.
Untold(c, ms, ls, rs) ==
  /\ \A n \in MessageIds : ~ Of(ms, n, c)
  /\ \A l \in ls : l.chat # c
  /\ \A row \in rs : row.chat # c

\* What is stored of the chat of a call that does k.
Story(k, ms, ls, rs) ==
  /\ k.at = "question" => \A n \in MessageIds : ~ Of(ms, n, k.chat)
  /\ k.at # "question" => \E n \in MessageIds :
       /\ Of(ms, n, k.chat) /\ ms[n].role = "user"
       /\ \A m \in MessageIds : Of(ms, m, k.chat) =>
            /\ ms[m].session_id = k.session
            /\ m = n \/ (k.at \in Answered /\ m = k.message)
       /\ k.at \in Answered => n < k.message
  /\ k.at \in Answered => /\ k.message \in MessageIds /\ Of(ms, k.message, k.chat)
                          /\ ms[k.message].role = "assistant"
  /\ IF k.at \in Unanswered THEN \A l \in ls : l.chat # k.chat ELSE LoggedAs(ls, k.chat, "success")
  /\ IF k.at = "done" THEN AnsweredBy(rs, k.chat, k.session, k.message)
     ELSE \A row \in rs : row.chat # k.chat

\* What is stored of a chat that is over.
Told(c, ms, ls, rs) ==
  \E outcome \in Outcomes :
    /\ LoggedAs(ls, c, outcome)
    /\ \A m, n \in MessageIds : Of(ms, m, c) /\ Of(ms, n, c) /\ ms[m].role = "user" /\ ms[n].role = "user" => m = n
    /\ (\E n \in MessageIds : Of(ms, n, c) /\ ms[n].role = "assistant") => outcome = "success"
    /\ outcome = "success" =>
         \A m \in MessageIds : Of(ms, m, c) /\ ms[m].role = "user" =>
           \E n \in MessageIds :
             /\ Of(ms, n, c) /\ ms[n].role = "assistant" /\ m < n
             /\ ms[m].session_id = ms[n].session_id
             /\ AnsweredBy(rs, c, ms[n].session_id, n)

\* Two states store the same of a chat.
Same(c, ms, ls, rs, ms2, ls2, rs2) ==
  /\ \A n \in MessageIds : Of(ms, n, c) \/ Of(ms2, n, c) => ms2[n] = ms[n]
  /\ \A l \in ls \cup ls2 : l.chat = c => l \in ls /\ l \in ls2
  /\ \A row \in rs \cup rs2 : row.chat = c => row \in rs /\ row \in rs2

LEMMA SameUntold ==
  ASSUME NEW c, NEW ms, NEW ls, NEW rs, NEW ms2, NEW ls2, NEW rs2,
         Same(c, ms, ls, rs, ms2, ls2, rs2), Untold(c, ms, ls, rs)
  PROVE  Untold(c, ms2, ls2, rs2)
BY DEF Same, Untold, Of

LEMMA SameLogged ==
  ASSUME NEW c, NEW ms, NEW ls, NEW rs, NEW ms2, NEW ls2, NEW rs2,
         Same(c, ms, ls, rs, ms2, ls2, rs2), NEW outcome, LoggedAs(ls, c, outcome)
  PROVE  LoggedAs(ls2, c, outcome)
BY DEF Same, LoggedAs

LEMMA SameAnswered ==
  ASSUME NEW c, NEW ms, NEW ls, NEW rs, NEW ms2, NEW ls2, NEW rs2,
         Same(c, ms, ls, rs, ms2, ls2, rs2), NEW s, NEW n, AnsweredBy(rs, c, s, n)
  PROVE  AnsweredBy(rs2, c, s, n)
BY DEF Same, AnsweredBy

LEMMA SameStory ==
  ASSUME NEW k, NEW ms, NEW ls, NEW rs, NEW ms2, NEW ls2, NEW rs2,
         Same(k.chat, ms, ls, rs, ms2, ls2, rs2), Story(k, ms, ls, rs)
  PROVE  Story(k, ms2, ls2, rs2)
<1>1. \A n \in MessageIds : Of(ms, n, k.chat) <=> Of(ms2, n, k.chat)
  BY DEF Same, Of
<1>2. \A n \in MessageIds : Of(ms, n, k.chat) => ms2[n] = ms[n]
  BY DEF Same
<1>3. LoggedAs(ls, k.chat, "success") => LoggedAs(ls2, k.chat, "success")
  BY SameLogged
<1>4. AnsweredBy(rs, k.chat, k.session, k.message) => AnsweredBy(rs2, k.chat, k.session, k.message)
  BY SameAnswered
<1>5. (\A l \in ls : l.chat # k.chat) => \A l \in ls2 : l.chat # k.chat
  BY DEF Same
<1>6. (\A row \in rs : row.chat # k.chat) => \A row \in rs2 : row.chat # k.chat
  BY DEF Same
<1> QED BY <1>1, <1>2, <1>3, <1>4, <1>5, <1>6 DEF Story

LEMMA SameTold ==
  ASSUME NEW c, NEW ms, NEW ls, NEW rs, NEW ms2, NEW ls2, NEW rs2,
         Same(c, ms, ls, rs, ms2, ls2, rs2), Told(c, ms, ls, rs)
  PROVE  Told(c, ms2, ls2, rs2)
<1>1. \A n \in MessageIds : Of(ms, n, c) <=> Of(ms2, n, c)
  BY DEF Same, Of
<1>2. \A n \in MessageIds : Of(ms, n, c) => ms2[n] = ms[n]
  BY DEF Same
<1>3. \A outcome : LoggedAs(ls, c, outcome) => LoggedAs(ls2, c, outcome)
  BY SameLogged
<1>4. \A s, n : AnsweredBy(rs, c, s, n) => AnsweredBy(rs2, c, s, n)
  BY SameAnswered
<1> QED BY <1>1, <1>2, <1>3, <1>4 DEF Told

ChatInv ==
  /\ ChatType
  /\ SessionInv
  /\ \A r \in Requests : talk[r].chat <= begun
  /\ \A r, q \in Requests : r # q /\ talk[r].chat # 0 => talk[q].chat # talk[r].chat
  /\ \A r \in Requests : talk[r].chat \notin broken \cup {0} => Story(talk[r], messages, logs, responses)
  /\ \A c \in Nat : c > begun => Untold(c, messages, logs, responses)
  /\ \A c \in 1..begun : c \notin broken /\ (\A r \in Requests : talk[r].chat # c) =>
       Told(c, messages, logs, responses)

\* What a step leaves as it was of a chat.
Kept(c) == Same(c, messages, logs, responses, messages', logs', responses')

\* A call tells the next part of its chat, or ends it, and keeps to its own.
LEMMA ChatStep ==
  ASSUME ChatInv, ChatType', SessionInv',
         NEW r \in Requests, NEW k, Sensible(k), talk' = [talk EXCEPT ![r] = k],
         begun' = begun, broken \subseteq broken',
         \A c \in Nat \ {0, talk[r].chat} : c > begun \/ c \notin broken' => Kept(c),
         \/ /\ k.chat = talk[r].chat
            /\ k.chat \notin broken' \cup {0} => Story(k, messages', logs', responses')
         \/ /\ k.chat = 0
            /\ talk[r].chat \notin broken' \cup {0} => Told(talk[r].chat, messages', logs', responses')
  PROVE  ChatInv'
<1>0. \A q \in Requests : talk[q].chat \in Nat /\ talk'[q] = IF q = r THEN k ELSE talk[q]
  BY DEF ChatInv, ChatType, Talks
<1>1. \A q \in Requests : talk'[q].chat \in {0, talk[q].chat}
  BY <1>0
<1>2. \A q \in Requests : talk'[q].chat <= begun'
  BY <1>0, <1>1 DEF ChatInv, ChatType
<1>3. \A p, q \in Requests : p # q /\ talk'[p].chat # 0 => talk'[q].chat # talk'[p].chat
  BY <1>1 DEF ChatInv
<1>4. ASSUME NEW q \in Requests, talk'[q].chat \notin broken' \cup {0}
      PROVE  Story(talk'[q], messages', logs', responses')
  <2>1. CASE q = r
    BY <1>0, <1>4, <2>1
  <2>2. CASE q # r
    <3>1. talk'[q] = talk[q] /\ talk[q].chat \in Nat \ {0} /\ talk[q].chat # talk[r].chat
      BY <1>0, <1>4, <2>2 DEF ChatInv
    <3>2. Kept(talk[q].chat) /\ Story(talk[q], messages, logs, responses)
      BY <1>4, <3>1 DEF ChatInv
    <3> QED BY <3>1, <3>2, SameStory DEF Kept
  <2> QED BY <2>1, <2>2
<1>5. ASSUME NEW c \in Nat, c > begun' PROVE Untold(c, messages', logs', responses')
  <2>1. begun \in Nat /\ talk[r].chat <= begun /\ talk[r].chat \in Nat
    BY <1>0 DEF ChatInv, ChatType
  <2>2. Kept(c) /\ Untold(c, messages, logs, responses)
    BY <1>5, <2>1 DEF ChatInv
  <2> QED BY <2>2, SameUntold DEF Kept
<1>6. ASSUME NEW c \in 1..begun', c \notin broken', \A q \in Requests : talk'[q].chat # c
      PROVE  Told(c, messages', logs', responses')
  <2>0. c \in Nat \ {0}
    BY DEF ChatType, ChatInv
  <2>1. CASE c = talk[r].chat
    BY <1>0, <1>6, <2>0, <2>1
  <2>2. CASE c # talk[r].chat
    <3>1. \A q \in Requests : talk[q].chat # c
      BY <1>0, <1>6, <2>2
    <3>2. Kept(c) /\ Told(c, messages, logs, responses)
      BY <1>6, <2>0, <2>2, <3>1 DEF ChatInv
    <3> QED BY <3>2, SameTold DEF Kept
  <2> QED BY <2>1, <2>2
<1> QED BY <1>2, <1>3, <1>4, <1>5, <1>6 DEF ChatInv

\* A step that stores nothing keeps everything.
LEMMA AllKept ==
  ASSUME UNCHANGED <<messages, logs, table>>
  PROVE  \A c : Kept(c)
BY RowsKept DEF Kept, Same

\* A chat is broken off.
LEMMA BreakOffStep ==
  ASSUME ChatInv, NEW r \in Requests, Chatting!BreakOff(r),
         UNCHANGED <<sessions, messages, table, logs, begun, torn>>
  PROVE  ChatInv'
<1>1. talk' = [talk EXCEPT ![r] = Chatting!Silent] /\ Chatting!Silent.chat = 0 /\ Chatting!Silent.at = "idle"
  BY DEF Chatting!BreakOff, Chatting!Silent
<1>2. broken \subseteq broken' /\ talk[r].chat \in broken' \cup {0}
  BY DEF Chatting!BreakOff
<1>3. ChatType' /\ SessionInv'
  BY <1>1, SilentSensible, ChatTypeStep, SessionStep DEF ChatInv, ChatType, Writes
<1> QED BY <1>1, <1>2, <1>3, SilentSensible, AllKept, ChatStep

\* A call goes on to a place where as much is told.
LEMMA SpeakStep ==
  ASSUME ChatInv, NEW r \in Requests, NEW at, Chatting!Speak(r, at), Writes(talk[r]),
         \/ talk[r].at \in Unanswered \ {"question"} /\ at \in {"context", "history", "register", "model"}
         \/ talk[r].at = "asked" /\ at = "done" /\ talk[r].chat = 0
         \/ talk[r].at = "answer" /\ at = "store"
         \/ talk[r].at = "answered" /\ at = "response",
         UNCHANGED <<sessions, messages, table, logs, begun, broken, torn>>
  PROVE  ChatInv'
<1> DEFINE k == [talk[r] EXCEPT !.at = at]
<1>1. talk[r] \in Talks /\ talk' = [talk EXCEPT ![r] = k]
  BY DEF Chatting!Speak, ChatInv, ChatType
<1>2. Sensible(k)
  BY SpeakSensible DEF ChatInv, Writes
<1>3. k.chat = talk[r].chat /\ k.session = talk[r].session /\ k.message = talk[r].message /\ k.at = at
  BY <1>1 DEF Talks
<1> HIDE DEF k
<1>4. ChatType' /\ SessionInv'
  BY <1>1, <1>2, <1>3, ChatTypeStep, SessionStep DEF ChatInv, ChatType
<1>5. ASSUME k.chat \notin broken' \cup {0} PROVE Story(k, messages', logs', responses')
  <2>1. Story(talk[r], messages, logs, responses)
    BY <1>3, <1>5 DEF ChatInv
  <2> QED BY <1>3, <1>5, <2>1, RowsKept DEF Story, Unanswered, Answered
<1> QED BY <1>1, <1>2, <1>3, <1>4, <1>5, AllKept, ChatStep

\* The next id is above all that are stored.
LEMMA NextMessage ==
  ASSUME ChatType, NEW n, n = Chatting!NextOf(Chatting!Stored), n \in MessageIds
  PROVE  messages[n] = NULL /\ \A m \in MessageIds : messages[m] # NULL => m < n
<1> DEFINE taken == Chatting!Stored \cup {0}
<1>1. Chatting!Stored = {m \in MessageIds : messages[m] # NULL}
  BY DEF Chatting!Stored, Chatting!MessageIds, MessageIds
<1>2. taken \subseteq 0..MaxMessage /\ taken # {}
  BY <1>1, BoundAssumption DEF MessageIds
<1>3. \E x \in taken : \A y \in taken : x >= y
  BY <1>2, HasMax, BoundAssumption
<1>4. Chatting!Max(taken) \in taken /\ \A y \in taken : Chatting!Max(taken) >= y
  BY <1>3 DEF Chatting!Max
<1>5. n = 1 + Chatting!Max(taken)
  BY DEF Chatting!NextOf
<1>6. \A m \in taken : m < n
  BY <1>2, <1>4, <1>5, BoundAssumption
<1> QED BY <1>1, <1>6 DEF MessageIds

\* A message is added, to the session of its call.
LEMMA InsertStep ==
  ASSUME ChatType, NEW r \in Requests, NEW role \in {"user", "assistant"}, Chatting!Insert(r, role)
  PROVE  LET n == Chatting!NextOf(Chatting!Stored)
             row == [session_id |-> talk[r].session, role |-> role, chat |-> talk[r].chat]
         IN /\ n \in MessageIds /\ messages[n] = NULL /\ row \in Messages /\ row # NULL
            /\ messages' = [messages EXCEPT ![n] = row]
            /\ messages' \in [MessageIds -> Messages \cup {NULL}]
            /\ \A m \in MessageIds : messages[m] # NULL => m < n
<1> DEFINE n == Chatting!NextOf(Chatting!Stored)
           row == [session_id |-> talk[r].session, role |-> role, chat |-> talk[r].chat]
<1>1. n \in MessageIds /\ messages' = [messages EXCEPT ![n] = row]
  BY DEF Chatting!Insert, Chatting!MessageIds, MessageIds
<1>2. row \in Messages /\ row # NULL
  BY NullAssumption DEF ChatType, Talks, Messages
<1> HIDE DEF n, row
<1>3. messages[n] = NULL /\ \A m \in MessageIds : messages[m] # NULL => m < n
  BY <1>1, NextMessage DEF n
<1>4. messages' \in [MessageIds -> Messages \cup {NULL}]
  BY <1>1, <1>2 DEF ChatType
<1> QED BY <1>1, <1>2, <1>3, <1>4 DEF n, row

\* The next chat.
LEMMA BeginStep ==
  ASSUME ChatInv, NEW r \in Requests, NEW s \in Nat, Chatting!Chat(r, s), s \in sessions',
         sessions \subseteq sessions', sessions' \subseteq Nat,
         UNCHANGED <<messages, table, logs, broken, torn>>
  PROVE  ChatInv'
<1> DEFINE k == [Chatting!Silent EXCEPT !.at = "question", !.chat = begun + 1, !.session = s]
<1>1. talk' = [talk EXCEPT ![r] = k] /\ begun' = begun + 1 /\ talk[r] = Chatting!Silent /\ begun \in Nat
  BY DEF Chatting!Chat, ChatInv, ChatType
<1>2. k.at = "question" /\ k.chat = begun + 1 /\ k.session = s
  BY DEF Chatting!Silent
<1>3. Sensible(k)
  <2>1. Chatting!Silent \in Talks /\ begun + 1 \in Nat
    BY <1>1, SilentSensible DEF Sensible
  <2>2. k \in Talks
    BY <2>1 DEF Talks, Unanswered
  <2> HIDE DEF k
  <2> QED BY <1>2, <2>2 DEF Sensible
<1> HIDE DEF k
<1>4. ChatType'
  <2>1. ChatType /\ begun' \in Nat
    BY <1>1 DEF ChatInv
  <2>2. messages' \in [MessageIds -> Messages \cup {NULL}] /\ table' \in Tables /\ logs' \subseteq Logs
    BY <2>1 DEF ChatType
  <2> QED BY <1>1, <1>3, <2>1, <2>2, ChatTypeStep
<1>5. SessionInv'
  BY <1>1, <1>2, SessionStep DEF ChatInv
<1>6. \A q \in Requests : talk[q].chat \in Nat /\ talk[q].chat <= begun /\ talk'[q] = IF q = r THEN k ELSE talk[q]
  BY <1>1 DEF ChatInv, ChatType, Talks
<1>7. Untold(begun + 1, messages, logs, responses)
  BY <1>1 DEF ChatInv
<1>8. Story(k, messages, logs, responses)
  BY <1>2, <1>7 DEF Story, Untold, Unanswered, Answered
<1>9. \A c \in 1..begun' : c \notin broken' /\ (\A q \in Requests : talk'[q].chat # c) =>
        Told(c, messages', logs', responses')
  <2> SUFFICES ASSUME NEW c \in 1..begun', c \notin broken', \A q \in Requests : talk'[q].chat # c
               PROVE  Told(c, messages, logs, responses)
    BY RowsKept
  <2>1. c # begun + 1 /\ talk[r].chat = 0 /\ c \in 1..begun
    BY <1>1, <1>2, <1>6 DEF Chatting!Silent
  <2>2. \A q \in Requests : talk[q].chat # c
    BY <1>6, <2>1
  <2> QED BY <2>1, <2>2 DEF ChatInv
<1>10. \A q \in Requests : talk'[q].chat <= begun'
  BY <1>1, <1>2, <1>6
<1>11. \A p, q \in Requests : p # q /\ talk'[p].chat # 0 => talk'[q].chat # talk'[p].chat
  <2> SUFFICES ASSUME NEW p \in Requests, NEW q \in Requests, p # q, talk'[p].chat # 0
               PROVE  talk'[q].chat # talk'[p].chat
    OBVIOUS
  <2>1. CASE p = r
    BY <1>1, <1>2, <1>6, <2>1
  <2>2. CASE q = r
    BY <1>1, <1>2, <1>6, <2>2
  <2>3. CASE p # r /\ q # r
    BY <1>6, <2>3 DEF ChatInv
  <2> QED BY <2>1, <2>2, <2>3
<1>12. \A q \in Requests : talk'[q].chat \notin broken' \cup {0} => Story(talk'[q], messages', logs', responses')
  BY <1>6, <1>8, RowsKept DEF ChatInv
<1>13. \A c \in Nat : c > begun' => Untold(c, messages', logs', responses')
  BY <1>1, RowsKept DEF ChatInv
<1> QED BY <1>4, <1>5, <1>9, <1>10, <1>11, <1>12, <1>13 DEF ChatInv

\* A message says nothing of other chats than its own.
LEMMA InsertKept ==
  ASSUME messages \in [MessageIds -> Messages \cup {NULL}], NEW n \in MessageIds, messages[n] = NULL, NEW row,
         messages' = [messages EXCEPT ![n] = row], UNCHANGED <<table, logs>>,
         NEW c, row.chat # c
  PROVE  Kept(c)
<1>1. \A m \in MessageIds : messages'[m] = IF m = n THEN row ELSE messages[m]
  OBVIOUS
<1>2. \A m \in MessageIds : Of(messages, m, c) \/ Of(messages', m, c) => messages'[m] = messages[m]
  BY <1>1 DEF Of
<1> QED BY <1>2, RowsKept DEF Kept, Same

\* A call begins that is not a chat.
LEMMA OtherCallStep ==
  ASSUME ChatInv, NEW r \in Requests, talk[r] = Chatting!Silent, NEW k, Sensible(k), k.chat = 0,
         talk' = [talk EXCEPT ![r] = k], Writes(k) => k.session \in sessions,
         UNCHANGED <<sessions, messages, table, logs, begun, broken, torn>>
  PROVE  ChatInv'
<1>1. talk[r].chat = 0
  BY DEF Chatting!Silent
<1>2. ChatType' /\ SessionInv'
  BY ChatTypeStep, SessionStep DEF ChatInv, ChatType
<1> QED BY <1>1, <1>2, AllKept, ChatStep

\* The question is stored.
LEMMA AskStep ==
  ASSUME ChatInv, NEW r \in Requests, Chatting!AskQuestion(r)
  PROVE  ChatInv'
<1> DEFINE n == Chatting!NextOf(Chatting!Stored)
           row == [session_id |-> talk[r].session, role |-> "user", chat |-> talk[r].chat]
           k == [talk[r] EXCEPT !.at = "asked"]
<1>1. n \in MessageIds /\ messages[n] = NULL /\ row \in Messages /\ row # NULL
      /\ messages' = [messages EXCEPT ![n] = row] /\ messages' \in [MessageIds -> Messages \cup {NULL}]
  BY InsertStep DEF ChatInv, Chatting!AskQuestion
<1>2. talk' = [talk EXCEPT ![r] = k] /\ talk[r].at = "question" /\ talk[r] \in Talks
  BY DEF Chatting!AskQuestion, Chatting!Speak, ChatInv, ChatType
<1>3. UNCHANGED <<sessions, table, logs, begun, broken, torn>>
  BY DEF Chatting!AskQuestion
<1>4. Sensible(k)
  BY <1>2, SpeakSensible DEF ChatInv
<1>5. k.at = "asked" /\ k.chat = talk[r].chat /\ k.session = talk[r].session
  BY <1>2 DEF Talks
<1>6. row.session_id = talk[r].session /\ row.chat = talk[r].chat /\ row.role = "user"
  OBVIOUS
<1> HIDE DEF n, row, k
<1>7. \A m \in MessageIds : messages'[m] = IF m = n THEN row ELSE messages[m]
  BY <1>1 DEF ChatInv, ChatType
<1>8. ChatType'
  BY <1>1, <1>2, <1>3, <1>4, ChatTypeStep DEF ChatInv, ChatType
<1>9. SessionInv'
  <2>1. Writes(talk[r]) /\ \A m \in MessageIds : messages'[m] # messages[m] => messages'[m].session_id = talk[r].session
    BY <1>2, <1>6, <1>7 DEF Writes
  <2>2. ChatType /\ SessionInv
    BY DEF ChatInv
  <2> QED BY <1>2, <1>3, <1>5, <2>1, <2>2, SessionStep
<1>10. \A c \in Nat \ {0, talk[r].chat} : Kept(c)
  BY <1>1, <1>3, <1>6, InsertKept DEF ChatInv, ChatType
<1>11. ASSUME k.chat \notin broken' \cup {0} PROVE Story(k, messages', logs', responses')
  <2>1. Story(talk[r], messages, logs, responses)
    BY <1>3, <1>5, <1>11 DEF ChatInv
  <2>2. \A m \in MessageIds : ~ Of(messages, m, k.chat)
    BY <1>2, <1>5, <2>1 DEF Story
  <2>3. Of(messages', n, k.chat) /\ \A m \in MessageIds : Of(messages', m, k.chat) => m = n
    BY <1>1, <1>5, <1>6, <1>7, <2>2 DEF Of
  <2> QED BY <1>1, <1>2, <1>3, <1>5, <1>6, <1>7, <2>1, <2>3, RowsKept DEF Story, Unanswered, Answered
<1> QED BY <1>2, <1>3, <1>4, <1>5, <1>8, <1>9, <1>10, <1>11, ChatStep

\* The model answers or not.
LEMMA CompleteStep ==
  ASSUME ChatInv, NEW r \in Requests, Chatting!Complete(r)
  PROVE  ChatInv'
<1>1. PICK outcome \in Outcomes : talk' = [talk EXCEPT ![r].at = "log", ![r].outcome = outcome]
  BY DEF Chatting!Complete, Chatting!Outcomes, Outcomes
<1> DEFINE k == [talk[r] EXCEPT !.at = "log", !.outcome = outcome]
<1>2. talk[r].at = "model" /\ UNCHANGED <<sessions, messages, table, logs, begun, broken, torn>>
  BY DEF Chatting!Complete, Chatting!rows
<1>3. talk[r] \in Talks /\ Sensible(talk[r]) /\ talk' = [talk EXCEPT ![r] = k]
  BY <1>1 DEF ChatInv, ChatType
<1>4. k \in Talks /\ k.at = "log" /\ k.outcome = outcome /\ k.chat = talk[r].chat /\ k.session = talk[r].session
  BY <1>3 DEF Talks, Unanswered
<1> HIDE DEF k
<1>5. Sensible(k)
  BY <1>3, <1>4 DEF Sensible
<1>6. ChatType' /\ SessionInv'
  BY <1>2, <1>3, <1>4, <1>5, ChatTypeStep, SessionStep DEF ChatInv, ChatType, Writes
<1>7. ASSUME k.chat \notin broken' \cup {0} PROVE Story(k, messages', logs', responses')
  <2>1. Story(talk[r], messages, logs, responses)
    BY <1>2, <1>4, <1>7 DEF ChatInv
  <2> QED BY <1>2, <1>4, <2>1, RowsKept DEF Story, Unanswered, Answered
<1> QED BY <1>2, <1>3, <1>4, <1>5, <1>6, <1>7, AllKept, ChatStep

\* The outcome is logged, and ends the chat when it is no answer.
LEMMA LogStep ==
  ASSUME ChatInv, NEW r \in Requests, Chatting!_log_request(r)
  PROVE  ChatInv'
<1> DEFINE c == talk[r].chat
           row == [chat |-> c, status |-> talk[r].outcome]
           k == IF talk[r].outcome = "success" THEN [talk[r] EXCEPT !.at = "answer"] ELSE Chatting!Silent
<1>1. talk[r].at = "log" /\ logs' = logs \cup {row} /\ UNCHANGED <<sessions, messages, table, begun, broken, torn>>
  BY DEF Chatting!_log_request
<1>2. talk[r] \in Talks /\ Sensible(talk[r]) /\ talk' = [talk EXCEPT ![r] = k]
  BY DEF Chatting!_log_request, Chatting!Speak, ChatInv, ChatType
<1>3. talk[r].outcome \in Outcomes /\ row \in Logs /\ row.chat = c /\ row.status = talk[r].outcome
  BY <1>1, <1>2 DEF Sensible, Talks, Logs
<1>4. IF talk[r].outcome = "success"
      THEN k.at = "answer" /\ k.chat = c /\ k.session = talk[r].session /\ Sensible(k)
      ELSE k = Chatting!Silent /\ k.at = "idle" /\ k.chat = 0 /\ Sensible(k)
  <2>1. CASE talk[r].outcome = "success"
    <3>1. Sensible([talk[r] EXCEPT !.at = "answer"])
      BY <1>1, SpeakSensible DEF ChatInv
    <3> QED BY <1>2, <2>1, <3>1 DEF Talks
  <2>2. CASE talk[r].outcome # "success"
    BY <2>2, SilentSensible DEF Chatting!Silent
  <2> QED BY <2>1, <2>2
<1> HIDE DEF k, row
<1>5. ChatType'
  BY <1>1, <1>2, <1>3, <1>4, ChatTypeStep DEF ChatInv, ChatType
<1>6. SessionInv'
  <2>1. ChatType /\ SessionInv /\ (Writes(k) => Writes(talk[r]) /\ k.session = talk[r].session)
    BY <1>1, <1>4 DEF ChatInv, Writes
  <2> QED BY <1>1, <1>2, <2>1, SessionStep
<1>7. \A d \in Nat \ {0, c} : Kept(d)
  BY <1>1, <1>3, RowsKept DEF Kept, Same
<1>8. ASSUME c \notin broken \cup {0}
      PROVE  /\ Story(talk[r], messages, logs, responses)
             /\ LoggedAs(logs', c, talk[r].outcome)
  <2>1. Story(talk[r], messages, logs, responses)
    BY <1>8 DEF ChatInv
  <2>2. \A l \in logs : l.chat # c
    BY <1>1, <2>1 DEF Story, Unanswered
  <2>3. row = [chat |-> c, status |-> talk[r].outcome]
    BY DEF row
  <2> QED BY <1>1, <1>3, <2>1, <2>2, <2>3 DEF LoggedAs
<1>9. CASE talk[r].outcome = "success"
  <2>1. ASSUME k.chat \notin broken' \cup {0} PROVE Story(k, messages', logs', responses')
    BY <1>1, <1>4, <1>8, <1>9, <2>1, RowsKept DEF Story, Unanswered, Answered
  <2> QED BY <1>1, <1>2, <1>4, <1>5, <1>6, <1>7, <1>9, <2>1, ChatStep
<1>10. CASE talk[r].outcome # "success"
  <2>1. ASSUME c \notin broken' \cup {0} PROVE Told(c, messages', logs', responses')
    <3>1. Story(talk[r], messages, logs, responses) /\ LoggedAs(logs', c, talk[r].outcome)
      BY <1>1, <1>8, <2>1
    <3>2. PICK n \in MessageIds : Of(messages, n, c) /\ messages[n].role = "user" /\
             \A m \in MessageIds : Of(messages, m, c) => m = n
      BY <1>1, <3>1 DEF Story, Answered
    <3> QED BY <1>1, <1>3, <1>10, <3>1, <3>2, RowsKept DEF Told
  <2> QED BY <1>1, <1>2, <1>4, <1>5, <1>6, <1>7, <1>10, <2>1, ChatStep
<1> QED BY <1>9, <1>10

\* The answer is stored.
LEMMA AnswerStep ==
  ASSUME ChatInv, NEW r \in Requests, Chatting!StoreAnswer(r)
  PROVE  ChatInv'
<1> DEFINE n == Chatting!NextOf(Chatting!Stored)
           row == [session_id |-> talk[r].session, role |-> "assistant", chat |-> talk[r].chat]
           k == [talk[r] EXCEPT !.at = "answered", !.message = n]
<1>1. n \in MessageIds /\ messages[n] = NULL /\ row \in Messages /\ row # NULL
      /\ messages' = [messages EXCEPT ![n] = row] /\ messages' \in [MessageIds -> Messages \cup {NULL}]
      /\ \A m \in MessageIds : messages[m] # NULL => m < n
  BY InsertStep DEF ChatInv, Chatting!StoreAnswer
<1>2. talk' = [talk EXCEPT ![r] = k] /\ talk[r].at = "store" /\ talk[r] \in Talks /\ Sensible(talk[r])
  BY DEF Chatting!StoreAnswer, ChatInv, ChatType
<1>3. UNCHANGED <<sessions, table, logs, begun, broken, torn>>
  BY DEF Chatting!StoreAnswer
<1> HIDE DEF n
<1>4. k \in Talks /\ k.at = "answered" /\ k.message = n /\ k.chat = talk[r].chat /\ k.session = talk[r].session
  <2>1. n \in Nat
    BY <1>1 DEF MessageIds
  <2> QED BY <1>2, <2>1 DEF Talks, Answered
<1>6. row.session_id = talk[r].session /\ row.chat = talk[r].chat /\ row.role = "assistant"
  OBVIOUS
<1> HIDE DEF row, k
<1>5. Sensible(k)
  BY <1>2, <1>4 DEF Sensible
<1>7. \A m \in MessageIds : messages'[m] = IF m = n THEN row ELSE messages[m]
  BY <1>1 DEF ChatInv, ChatType
<1>8. ChatType'
  BY <1>1, <1>2, <1>3, <1>5, ChatTypeStep DEF ChatInv, ChatType
<1>9. SessionInv'
  <2>1. Writes(talk[r]) /\ \A m \in MessageIds : messages'[m] # messages[m] => messages'[m].session_id = talk[r].session
    BY <1>2, <1>6, <1>7 DEF Writes
  <2>2. ChatType /\ SessionInv
    BY DEF ChatInv
  <2> QED BY <1>2, <1>3, <1>4, <2>1, <2>2, SessionStep
<1>10. \A c \in Nat \ {0, talk[r].chat} : Kept(c)
  BY <1>1, <1>3, <1>6, InsertKept DEF ChatInv, ChatType
<1>11. ASSUME k.chat \notin broken' \cup {0} PROVE Story(k, messages', logs', responses')
  <2>1. Story(talk[r], messages, logs, responses)
    BY <1>3, <1>4, <1>11 DEF ChatInv
  <2>2. PICK q \in MessageIds :
          /\ Of(messages, q, k.chat) /\ messages[q].role = "user"
          /\ \A m \in MessageIds : Of(messages, m, k.chat) => messages[m].session_id = k.session /\ m = q
    BY <1>2, <1>4, <2>1 DEF Story, Answered
  <2>3. q < n /\ q # n /\ messages'[q] = messages[q] /\ messages'[n] = row
    BY <1>1, <1>7, <2>2 DEF Of, MessageIds
  <2>4. Of(messages', q, k.chat) /\ Of(messages', n, k.chat)
        /\ \A m \in MessageIds : Of(messages', m, k.chat) => messages'[m].session_id = k.session /\ (m = q \/ m = n)
    BY <1>1, <1>4, <1>6, <1>7, <2>2, <2>3 DEF Of
  <2> QED BY <1>1, <1>2, <1>3, <1>4, <1>6, <2>1, <2>2, <2>3, <2>4, RowsKept DEF Story, Unanswered, Answered
<1> QED BY <1>2, <1>3, <1>4, <1>5, <1>8, <1>9, <1>10, <1>11, ChatStep

\* The response is stored.
LEMMA NextResponse ==
  ASSUME ChatType, NEW n, n = Chatting!NextOf(Chatting!StoredResponses), n \in ResponseIds
  PROVE  table[n] = NULL
<1> DEFINE taken == Chatting!StoredResponses \cup {0}
<1>1. Chatting!StoredResponses = {m \in ResponseIds : table[m] # NULL}
  BY DEF Chatting!StoredResponses, Chatting!ResponseIds, ResponseIds
<1>2. taken \subseteq 0..MaxChat /\ taken # {}
  BY <1>1, BoundAssumption DEF ResponseIds
<1>3. \E x \in taken : \A y \in taken : x >= y
  BY <1>2, HasMax, BoundAssumption
<1>4. Chatting!Max(taken) \in taken /\ \A y \in taken : Chatting!Max(taken) >= y
  BY <1>3 DEF Chatting!Max
<1>5. n = 1 + Chatting!Max(taken)
  BY DEF Chatting!NextOf
<1>6. \A m \in taken : m < n
  BY <1>2, <1>4, <1>5, BoundAssumption
<1> QED BY <1>1, <1>6 DEF ResponseIds

LEMMA RespondStep ==
  ASSUME ChatType, NEW r \in Requests, Chatting!create_response(r)
  PROVE  LET row == [session_id |-> talk[r].session, message_id |-> talk[r].message, chat |-> talk[r].chat]
         IN responses' = responses \cup {row} /\ table' \in Tables
<1> DEFINE n == Chatting!NextOf(Chatting!StoredResponses)
           row == [session_id |-> talk[r].session, message_id |-> talk[r].message, chat |-> talk[r].chat]
<1>1. n \in ResponseIds /\ table' = [table EXCEPT ![n] = row]
  BY DEF Chatting!create_response, Chatting!ResponseIds, ResponseIds
<1>2. row \in Responses /\ row # NULL
  BY NullAssumption DEF ChatType, Talks, Responses
<1>3. table[n] = NULL
  BY <1>1, NextResponse
<1> HIDE DEF n, row
<1>4. \A m \in ResponseIds : table'[m] = IF m = n THEN row ELSE table[m]
  BY <1>1 DEF ChatType, Tables
<1>5. responses' = responses \cup {row}
  BY <1>1, <1>2, <1>3, <1>4 DEF responses
<1>6. table' \in Tables
  BY <1>1, <1>2 DEF ChatType, Tables
<1> QED BY <1>5, <1>6 DEF row

LEMMA ResponseStep ==
  ASSUME ChatInv, NEW r \in Requests, Chatting!create_response(r)
  PROVE  ChatInv'
<1> DEFINE c == talk[r].chat
           row == [session_id |-> talk[r].session, message_id |-> talk[r].message, chat |-> c]
           k == [talk[r] EXCEPT !.at = "done"]
<1>1. talk[r].at = "response" /\ responses' = responses \cup {row} /\ table' \in Tables
      /\ UNCHANGED <<sessions, messages, logs, begun, broken, torn>>
  BY RespondStep DEF Chatting!create_response, ChatInv
<1>2. talk[r] \in Talks /\ talk' = [talk EXCEPT ![r] = k]
  BY DEF Chatting!create_response, Chatting!Speak, ChatInv, ChatType
<1>3. row \in Responses /\ row.chat = c /\ row.session_id = talk[r].session
  BY <1>2 DEF Talks, Responses
<1>4. Sensible(k) /\ k.at = "done" /\ k.chat = c /\ k.session = talk[r].session /\ k.message = talk[r].message
  BY <1>1, <1>2, SpeakSensible DEF ChatInv, Talks
<1>5. row = [session_id |-> k.session, message_id |-> k.message, chat |-> k.chat]
  BY <1>4
<1> HIDE DEF k, row
<1>6. ChatType'
  BY <1>1, <1>2, <1>3, <1>4, ChatTypeStep DEF ChatInv, ChatType
<1>7. SessionInv'
  <2>1. ChatType /\ SessionInv /\ Writes(talk[r])
    BY <1>1 DEF ChatInv, Writes
  <2> QED BY <1>1, <1>2, <1>3, <1>4, <2>1, SessionStep
<1>8. \A d \in Nat \ {0, c} : Kept(d)
  BY <1>1, <1>3 DEF Kept, Same
<1>9. ASSUME k.chat \notin broken' \cup {0} PROVE Story(k, messages', logs', responses')
  <2>1. Story(talk[r], messages, logs, responses)
    BY <1>1, <1>4, <1>9 DEF ChatInv
  <2>2. \A other \in responses : other.chat # c
    BY <1>1, <2>1 DEF Story
  <2>3. AnsweredBy(responses', k.chat, k.session, k.message)
    BY <1>1, <1>4, <1>5, <2>2 DEF AnsweredBy
  <2> QED BY <1>1, <1>4, <2>1, <2>3 DEF Story, Unanswered, Answered
<1> QED BY <1>1, <1>2, <1>4, <1>6, <1>7, <1>8, <1>9, ChatStep

\* The answer is returned.
LEMMA ReturnStep ==
  ASSUME ChatInv, NEW r \in Requests, talk[r].at = "done", talk' = [talk EXCEPT ![r] = Chatting!Silent],
         UNCHANGED <<sessions, messages, table, logs, begun, broken, torn>>
  PROVE  ChatInv'
<1> DEFINE c == talk[r].chat
<1>1. Chatting!Silent.chat = 0 /\ Chatting!Silent.at = "idle"
  BY DEF Chatting!Silent
<1>2. ChatType' /\ SessionInv'
  BY <1>1, SilentSensible, ChatTypeStep, SessionStep DEF ChatInv, ChatType, Writes
<1>3. ASSUME c \notin broken \cup {0} PROVE Told(c, messages, logs, responses)
  <2>1. Story(talk[r], messages, logs, responses)
    BY <1>3 DEF ChatInv
  <2> DEFINE a == talk[r].message
  <2>2. LoggedAs(logs, c, "success") /\ AnsweredBy(responses, c, talk[r].session, a)
        /\ a \in MessageIds /\ Of(messages, a, c) /\ messages[a].role = "assistant"
    BY <2>1 DEF Story, Unanswered, Answered
  <2>3. PICK q \in MessageIds :
          /\ Of(messages, q, c) /\ messages[q].role = "user" /\ q < a
          /\ \A m \in MessageIds : Of(messages, m, c) => messages[m].session_id = talk[r].session /\ (m = q \/ m = a)
    BY <2>1 DEF Story, Answered
  <2> QED BY <2>2, <2>3 DEF Told, Outcomes
<1> QED BY <1>1, <1>2, <1>3, SilentSensible, RowsKept, AllKept, ChatStep

\* A session is deleted, with the rows of it that were loaded.
LEMMA DeleteStep ==
  ASSUME ChatInv, NEW r \in Requests, Chatting!DeleteCommit(r)
  PROVE  ChatInv'
<1> DEFINE s == talk[r].session
           loaded == talk[r].loaded
           answers == talk[r].answers
           late == Chatting!Torn(r)
           mistaken == Chatting!Mistaken(r)
<1>1. talk[r].at = "delete" /\ talk[r].chat = 0 /\ talk[r] \in Talks /\ loaded \subseteq MessageIds
  BY DEF Chatting!DeleteCommit, ChatInv, ChatType, Sensible, Talks
<1>2. /\ sessions' = sessions \ {s}
      /\ messages' = [n \in MessageIds |-> IF n \in loaded THEN NULL ELSE messages[n]]
      /\ table' = [n \in ResponseIds |-> IF n \in answers THEN NULL ELSE table[n]]
      /\ torn' = IF late = {} THEN torn ELSE torn \cup {s}
      /\ broken' = broken \cup ((late \cup mistaken) \ {0})
      /\ talk' = [talk EXCEPT ![r] = Chatting!Silent]
      /\ logs' = logs /\ begun' = begun
  BY DEF Chatting!DeleteCommit, Chatting!MessageIds, MessageIds, Chatting!ResponseIds, ResponseIds
<1>3. Chatting!Silent.chat = 0 /\ Chatting!Silent.at = "idle"
  BY DEF Chatting!Silent
<1>4. \A q \in Requests : Writes(talk[q]) /\ talk[q].session = s => talk[q].chat \in late
  BY DEF Chatting!Torn, Chatting!Writing, Writes
<1>5. \A n \in MessageIds : messages[n] # NULL /\ messages[n].session_id = s /\ n \notin loaded => messages[n].chat \in late
  BY DEF Chatting!Torn, Chatting!MessagesOf, Chatting!Stored, Chatting!MessageIds, MessageIds
<1>6a. \A n \in ResponseIds : table[n] # NULL /\ table[n].session_id = s /\ n \notin answers => table[n].chat \in late
  BY DEF Chatting!Torn, Chatting!ResponsesOf, Chatting!StoredResponses, Chatting!ResponseIds, ResponseIds
<1>6b. \A n \in ResponseIds : table[n] # NULL /\ table[n].session_id # s /\ n \in answers => table[n].chat \in mistaken
  BY DEF Chatting!Mistaken, Chatting!ResponsesOf, Chatting!StoredResponses, Chatting!ResponseIds, ResponseIds
<1>7. \A n \in MessageIds : messages[n] # NULL /\ messages[n].session_id # s /\ n \in loaded => messages[n].chat \in mistaken
  BY DEF Chatting!Mistaken, Chatting!MessagesOf, Chatting!Stored, Chatting!MessageIds, MessageIds
<1> HIDE DEF late, mistaken
<1>6. /\ \A row \in responses' : row \in responses /\ (row.session_id = s => row.chat \in late)
      /\ \A row \in responses : row \in responses' \/ row.session_id = s \/ row.chat \in mistaken
  <2>1. \A n \in ResponseIds : table'[n] = IF n \in answers THEN NULL ELSE table[n]
    BY <1>2
  <2>2. ASSUME NEW row \in responses' PROVE row \in responses /\ (row.session_id = s => row.chat \in late)
    <3>1. PICK n \in ResponseIds : table'[n] # NULL /\ row = table'[n]
      BY <2>2 DEF responses
    <3>2. n \notin answers /\ table[n] # NULL /\ row = table[n]
      BY <2>1, <3>1
    <3> QED BY <1>6a, <3>2, RowIs
  <2>3. ASSUME NEW row \in responses PROVE row \in responses' \/ row.session_id = s \/ row.chat \in mistaken
    <3>1. PICK n \in ResponseIds : table[n] # NULL /\ row = table[n]
      BY <2>3 DEF responses
    <3>2. CASE n \in answers
      BY <1>6b, <3>1, <3>2
    <3>3. CASE n \notin answers
      <4>1. table'[n] # NULL /\ row = table'[n]
        BY <2>1, <3>1, <3>3
      <4> QED BY <4>1 DEF responses
    <3> QED BY <3>2, <3>3
  <2> QED BY <2>2, <2>3
<1>8. ChatType'
  <2>1. messages' \in [MessageIds -> Messages \cup {NULL}]
    BY <1>2 DEF ChatInv, ChatType
  <2>2. sessions' \subseteq Nat /\ begun' \in Nat /\ table' \in Tables /\ logs' \subseteq Logs
    BY <1>2 DEF ChatInv, ChatType, Tables
  <2> QED BY <1>2, <2>1, <2>2, SilentSensible, ChatTypeStep DEF ChatInv
<1>9. \A q \in Requests : talk'[q] = IF q = r THEN Chatting!Silent ELSE talk[q]
  BY <1>2 DEF ChatInv, ChatType
<1>10. \A n \in MessageIds : messages'[n] = IF n \in loaded THEN NULL ELSE messages[n]
  BY <1>2
<1>11. SessionInv'
  <2> SUFFICES ASSUME NEW t \in Nat, t \notin sessions' \cup torn' PROVE Empty(t)'
    BY DEF SessionInv
  <2>1. CASE t # s
    <3>1. Empty(t)
      BY <1>2, <2>1 DEF ChatInv, SessionInv
    <3>2. \A q \in Requests : Writes(talk'[q]) => talk'[q].session # t
      BY <1>3, <1>9, <3>1 DEF Empty, Writes
    <3>3. \A n \in MessageIds : messages'[n] # NULL => messages'[n].session_id # t
      BY <1>10, <3>1 DEF Empty
    <3>4. \A row \in responses' : row.session_id # t
      BY <1>6, <3>1 DEF Empty
    <3> QED BY <3>2, <3>3, <3>4 DEF Empty
  <2>2. CASE t = s
    <3>1. late = {}
      BY <1>2, <2>2
    <3>2. \A q \in Requests : Writes(talk'[q]) => talk'[q].session # t
      BY <1>3, <1>4, <1>9, <2>2, <3>1 DEF Writes
    <3>3. \A n \in MessageIds : messages'[n] # NULL => messages'[n].session_id # t
      BY <1>5, <1>10, <2>2, <3>1
    <3>4. \A row \in responses' : row.session_id # t
      BY <1>2, <1>6, <2>2, <3>1
    <3> QED BY <3>2, <3>3, <3>4 DEF Empty
  <2> QED BY <2>1, <2>2
<1>12. \A q \in Requests : talk[q].chat \in Nat /\ talk'[q].chat \in {0, talk[q].chat}
  BY <1>3, <1>9 DEF ChatInv, ChatType, Talks
<1>13. \A c \in Nat \ {0} : c \notin broken' => c \notin broken \cup late \cup mistaken
  BY <1>2
<1>14. ASSUME NEW q \in Requests, talk'[q].chat \notin broken' \cup {0}
       PROVE  Story(talk'[q], messages', logs', responses')
  <2> DEFINE c == talk[q].chat
  <2>1. q # r /\ talk'[q] = talk[q] /\ c \in Nat \ {0} /\ c \notin broken \cup late \cup mistaken
    BY <1>3, <1>9, <1>12, <1>13, <1>14
  <2>2. Writes(talk[q]) /\ talk[q].session # s
    BY <1>4, <2>1 DEF ChatInv, ChatType, Sensible, Writes
  <2>3. Story(talk[q], messages, logs, responses)
    BY <2>1 DEF ChatInv
  <2>4. \A n \in MessageIds : Of(messages, n, c) => messages[n].session_id # s
    BY <2>2, <2>3 DEF Story
  <2>5. \A n \in MessageIds : Of(messages, n, c) \/ Of(messages', n, c) => messages'[n] = messages[n]
    BY <1>7, <1>10, <2>1, <2>4 DEF Of
  <2>6. \A row \in responses : row.chat = c => row \in responses'
    BY <1>6, <2>1, <2>2, <2>3 DEF Story, AnsweredBy
  <2>7. Kept(c)
    BY <1>2, <1>6, <2>5, <2>6 DEF Kept, Same
  <2> QED BY <2>1, <2>3, <2>7, SameStory DEF Kept
<1>15. ASSUME NEW c \in Nat, c > begun' PROVE Untold(c, messages', logs', responses')
  <2>1. Untold(c, messages, logs, responses)
    BY <1>2, <1>15 DEF ChatInv
  <2> QED BY <1>2, <1>6, <1>10, <2>1 DEF Untold, Of
<1>16. ASSUME NEW c \in 1..begun', c \notin broken', \A q \in Requests : talk'[q].chat # c
       PROVE  Told(c, messages', logs', responses')
  <2>0. c \in Nat \ {0} /\ c \in 1..begun
    BY <1>2 DEF ChatInv, ChatType
  <2>1. c \notin broken \cup late \cup mistaken /\ \A q \in Requests : talk[q].chat # c
    BY <1>1, <1>9, <1>13, <1>16, <2>0
  <2>2. PICK outcome \in Outcomes :
          /\ LoggedAs(logs, c, outcome)
          /\ \A m, n \in MessageIds : Of(messages, m, c) /\ Of(messages, n, c) /\ messages[m].role = "user"
                                        /\ messages[n].role = "user" => m = n
          /\ (\E n \in MessageIds : Of(messages, n, c) /\ messages[n].role = "assistant") => outcome = "success"
          /\ outcome = "success" =>
               \A m \in MessageIds : Of(messages, m, c) /\ messages[m].role = "user" =>
                 \E n \in MessageIds :
                   /\ Of(messages, n, c) /\ messages[n].role = "assistant" /\ m < n
                   /\ messages[m].session_id = messages[n].session_id
                   /\ AnsweredBy(responses, c, messages[n].session_id, n)
    BY <2>0, <2>1 DEF ChatInv, Told
  <2>3. \A n \in MessageIds : Of(messages', n, c) => n \notin loaded /\ Of(messages, n, c) /\ messages'[n] = messages[n]
    BY <1>10 DEF Of
  <2>4. ASSUME outcome = "success", NEW m \in MessageIds, Of(messages', m, c), messages'[m].role = "user"
        PROVE  \E n \in MessageIds :
                 /\ Of(messages', n, c) /\ messages'[n].role = "assistant" /\ m < n
                 /\ messages'[m].session_id = messages'[n].session_id
                 /\ AnsweredBy(responses', c, messages'[n].session_id, n)
    <3>1. PICK n \in MessageIds :
            /\ Of(messages, n, c) /\ messages[n].role = "assistant" /\ m < n
            /\ messages[m].session_id = messages[n].session_id
            /\ AnsweredBy(responses, c, messages[n].session_id, n)
      BY <2>2, <2>3, <2>4
    <3>2. messages[m].session_id # s
      BY <1>5, <2>1, <2>3, <2>4 DEF Of
    <3>3. n \notin loaded
      BY <1>7, <2>1, <3>1, <3>2 DEF Of
    <3>4. Of(messages', n, c) /\ messages'[n] = messages[n]
      BY <1>10, <3>1, <3>3 DEF Of
    <3>5. AnsweredBy(responses', c, messages[n].session_id, n)
      BY <1>6, <2>1, <3>1, <3>2 DEF AnsweredBy
    <3> QED BY <2>3, <2>4, <3>1, <3>4, <3>5
  <2> QED BY <1>2, <2>2, <2>3, <2>4 DEF Told
<1>17. \A q \in Requests : talk'[q].chat <= begun'
  BY <1>2, <1>12 DEF ChatInv, ChatType
<1>18. \A p, q \in Requests : p # q /\ talk'[p].chat # 0 => talk'[q].chat # talk'[p].chat
  BY <1>12 DEF ChatInv
<1> QED BY <1>8, <1>11, <1>14, <1>15, <1>16, <1>17, <1>18 DEF ChatInv

LEMMA ChatInit == Chatting!Init => ChatInv
<1> SUFFICES ASSUME Chatting!Init PROVE ChatInv
  OBVIOUS
<1>1. /\ sessions = {} /\ table = [n \in ResponseIds |-> NULL] /\ logs = {} /\ begun = 0 /\ broken = {} /\ torn = {}
      /\ messages = [n \in MessageIds |-> NULL] /\ talk = [r \in Requests |-> Chatting!Silent]
  BY DEF Chatting!Init, Chatting!MessageIds, MessageIds, Chatting!ResponseIds, ResponseIds
<1>2. Chatting!Silent.at = "idle" /\ Chatting!Silent.chat = 0
  BY DEF Chatting!Silent
<1>3. ChatType
  BY <1>1, SilentSensible DEF ChatType, Sensible, Tables
<1>6. responses = {}
  BY <1>1 DEF responses
<1>4. SessionInv
  BY <1>1, <1>2, <1>6 DEF SessionInv, Empty, Writes
<1>5. \A c \in Nat : Untold(c, messages, logs, responses)
  BY <1>1, <1>6 DEF Untold, Of
<1> QED BY <1>1, <1>2, <1>3, <1>4, <1>5 DEF ChatInv

\* IfOpen: the call goes on or is broken off.
LEMMA ChatNext == ChatInv /\ Chatting!Next => ChatInv'
<1> SUFFICES ASSUME ChatInv, Chatting!Next PROVE ChatInv'
  OBVIOUS
<1> USE DEF Chatting!rows, Writes
<1>1. CASE Chatting!create_session
  <2>0. PICK s \in 1..MaxSession : sessions' = sessions \cup {s}
    BY <1>1 DEF Chatting!create_session, Chatting!SessionIds
  <2>1. sessions \subseteq sessions' /\ sessions' \subseteq Nat
    BY <2>0 DEF ChatInv, ChatType
  <2>4. UNCHANGED <<messages, table, logs, talk, begun, broken, torn>>
    BY <1>1 DEF Chatting!create_session
  <2>2. ChatType'
    BY <2>1, <2>4 DEF ChatInv, ChatType
  <2>3. SessionInv'
    BY <2>1, <2>4, RowsKept DEF ChatInv, SessionInv, Empty
  <2> QED BY <2>2, <2>3, <2>4, RowsKept DEF ChatInv
<1>2. ASSUME NEW r \in Requests, NEW s \in Chatting!SessionIds, Chatting!ChatIn(r, s)
      PROVE  ChatInv'
  BY <1>2, BeginStep DEF Chatting!ChatIn, Chatting!SessionIds, ChatInv, ChatType
<1>3. ASSUME NEW r \in Requests, Chatting!ChatNew(r)
      PROVE  ChatInv'
  <2>1. PICK s \in 1..MaxSession : sessions' = sessions \cup {s} /\ Chatting!Chat(r, s)
    BY <1>3 DEF Chatting!ChatNew, Chatting!SessionIds
  <2>2. s \in Nat /\ s \in sessions' /\ sessions \subseteq sessions' /\ sessions' \subseteq Nat
    BY <2>1 DEF ChatInv, ChatType
  <2>3. UNCHANGED <<messages, table, logs, broken, torn>>
    BY <1>3 DEF Chatting!ChatNew
  <2> QED BY <2>1, <2>2, <2>3, BeginStep
<1>4. ASSUME NEW r \in Requests, NEW s \in Chatting!SessionIds, Chatting!PostMessage(r, s)
      PROVE  ChatInv'
  <2> DEFINE k == [Chatting!Silent EXCEPT !.at = "question", !.session = s]
  <2>1. k.at = "question" /\ k.chat = 0 /\ k.session = s
    BY DEF Chatting!Silent
  <2>2. k \in Talks
    <3>1. Chatting!Silent \in Talks /\ s \in Nat
      BY SilentSensible DEF Sensible, Chatting!SessionIds
    <3> QED BY <3>1 DEF Talks, Unanswered
  <2>3. talk' = [talk EXCEPT ![r] = k]
    BY <1>4 DEF Chatting!PostMessage
  <2> HIDE DEF k
  <2>4. Sensible(k)
    BY <2>1, <2>2 DEF Sensible
  <2> QED BY <1>4, <2>1, <2>3, <2>4, OtherCallStep DEF Chatting!PostMessage
<1>5. ASSUME NEW r \in Requests, NEW s \in Chatting!SessionIds, Chatting!DeleteLoad(r, s)
      PROVE  ChatInv'
  <2> DEFINE k == [Chatting!Silent EXCEPT !.at = "delete", !.session = s, !.loaded = Chatting!MessagesOf(s),
                                    !.answers = Chatting!ResponsesOf(s)]
  <2>1. Chatting!MessagesOf(s) \subseteq MessageIds
        /\ Chatting!ResponsesOf(s) \subseteq ResponseIds
    BY DEF Chatting!MessagesOf, Chatting!Stored, Chatting!ResponsesOf, Chatting!StoredResponses,
           Chatting!MessageIds, MessageIds, Chatting!ResponseIds, ResponseIds
  <2>2. k.at = "delete" /\ k.chat = 0 /\ k.session = s
    BY DEF Chatting!Silent
  <2>3. k \in Talks
    <3>1. Chatting!Silent \in Talks /\ s \in Nat
      BY SilentSensible DEF Sensible, Chatting!SessionIds
    <3> QED BY <2>1, <3>1 DEF Talks
  <2>4. talk' = [talk EXCEPT ![r] = k]
    BY <1>5 DEF Chatting!DeleteLoad
  <2> HIDE DEF k
  <2>5. Sensible(k)
    BY <2>1, <2>2, <2>3 DEF Sensible
  <2> QED BY <1>5, <2>2, <2>4, <2>5, OtherCallStep DEF Chatting!DeleteLoad
<1>6. ASSUME NEW r \in Requests, Chatting!AnnounceQuestion(r)
      PROVE  ChatInv'
  BY <1>6, BreakOffStep, SpeakStep DEF Chatting!AnnounceQuestion, Chatting!IfOpen, Unanswered
<1>7. ASSUME NEW r \in Requests, Chatting!Retrieve(r)
      PROVE  ChatInv'
  BY <1>7, BreakOffStep, SpeakStep DEF Chatting!Retrieve, Chatting!IfOpen, Unanswered
<1>8. ASSUME NEW r \in Requests, Chatting!ReadHistory(r)
      PROVE  ChatInv'
  BY <1>8, BreakOffStep, SpeakStep DEF Chatting!ReadHistory, Chatting!IfOpen, Unanswered
<1>9. ASSUME NEW r \in Requests, Chatting!Register(r)
      PROVE  ChatInv'
  BY <1>9, SpeakStep DEF Chatting!Register, Unanswered
<1>10. ASSUME NEW r \in Requests, Chatting!ReadSession(r)
       PROVE  ChatInv'
  BY <1>10, BreakOffStep, SpeakStep DEF Chatting!ReadSession, Chatting!IfOpen
<1>11. ASSUME NEW r \in Requests, Chatting!AnnounceAnswer(r)
       PROVE  ChatInv'
  BY <1>11, BreakOffStep, SpeakStep DEF Chatting!AnnounceAnswer, Chatting!IfOpen
<1>12. ASSUME NEW r \in Requests, Chatting!Return(r)
       PROVE  ChatInv'
  BY <1>12, BreakOffStep, ReturnStep DEF Chatting!Return
<1>13. ASSUME NEW r \in Requests, Chatting!Fail(r)
       PROVE  ChatInv'
  BY <1>13, BreakOffStep DEF Chatting!Fail
<1> QED
  BY <1>1, <1>2, <1>3, <1>4, <1>5, <1>6, <1>7, <1>8, <1>9, <1>10, <1>11, <1>12, <1>13,
     AskStep, CompleteStep, LogStep, AnswerStep, ResponseStep, DeleteStep DEF Chatting!Next

\* Nobody writes to a session that is gone, so nothing of it is left.
LEMMA SessionsLeaveNothing == ChatInv => Chatting!NothingOutlivesItsSession
BY DEF ChatInv, SessionInv, Empty, Chatting!NothingOutlivesItsSession, Chatting!SessionIds,
       Chatting!MessagesOf, Chatting!ResponsesOf, Chatting!Stored, Chatting!MessageIds, MessageIds,
       Chatting!StoredResponses, Chatting!ResponseIds, ResponseIds, responses

\* The component's Cardinality is the library's.
LEMMA SameCardinality == \A S : Chatting!Cardinality(S) = Cardinality(S)
BY DEF Chatting!Cardinality, Cardinality

LEMMA ChatsTell == ChatInv => Chatting!ChatsAreTold
<1> DEFINE Said(c, role) == {n \in Chatting!Stored : messages[n].chat = c /\ messages[n].role = role}
           Response(c) == {table[n] : n \in {m \in Chatting!StoredResponses : table[m].chat = c}}
           Told1(c) == Cardinality(Chatting!Logged(c)) = 1
           Told2(c) == Said(c, "assistant") # {} => Chatting!Logged(c) = {"success"}
           Told3(c) == Chatting!Logged(c) = {"success"} /\ Said(c, "user") # {} =>
                         \E q \in Said(c, "user"), a \in Said(c, "assistant") :
                           /\ q < a /\ messages[q].session_id = messages[a].session_id
                           /\ Response(c) = {[session_id |-> messages[a].session_id, message_id |-> a, chat |-> c]}
<1>0. (\A c \in Chatting!Chats \ broken : Chatting!Finished(c) => Told1(c) /\ Told2(c) /\ Told3(c)) =>
        Chatting!ChatsAreTold
  BY SameCardinality DEF Chatting!ChatsAreTold
<1> SUFFICES ASSUME ChatInv, NEW c \in Chatting!Chats \ broken, Chatting!Finished(c)
             PROVE  Told1(c) /\ Told2(c) /\ Told3(c)
  BY <1>0
<1> DEFINE said(role) == Said(c, role)
           told == Response(c)
<1>1. Told(c, messages, logs, responses)
  BY DEF ChatInv, ChatType, Chatting!Finished, Chatting!Chats
<1>2. PICK outcome \in Outcomes :
        /\ LoggedAs(logs, c, outcome)
        /\ (\E n \in MessageIds : Of(messages, n, c) /\ messages[n].role = "assistant") => outcome = "success"
        /\ outcome = "success" =>
             \A m \in MessageIds : Of(messages, m, c) /\ messages[m].role = "user" =>
               \E n \in MessageIds :
                 /\ Of(messages, n, c) /\ messages[n].role = "assistant" /\ m < n
                 /\ messages[m].session_id = messages[n].session_id
                 /\ AnsweredBy(responses, c, messages[n].session_id, n)
  BY <1>1 DEF Told
<1>3. Chatting!Logged(c) = {outcome}
  BY <1>2 DEF Chatting!Logged, LoggedAs
<1>4. Cardinality(Chatting!Logged(c)) = 1
  BY <1>3, FS_Singleton
<1>5. \A role : said(role) = {n \in MessageIds : Of(messages, n, c) /\ messages[n].role = role}
  BY DEF Chatting!Stored, Chatting!MessageIds, MessageIds, Of
<1>6a. told = {row \in responses : row.chat = c}
  BY DEF Chatting!StoredResponses, Chatting!ResponseIds, ResponseIds, responses
<1> HIDE DEF told
<1>6. \A s, n : AnsweredBy(responses, c, s, n) => told = {[session_id |-> s, message_id |-> n, chat |-> c]}
  BY <1>6a DEF AnsweredBy
<1> HIDE DEF said, told
<1>7. said("assistant") # {} => Chatting!Logged(c) = {"success"}
  BY <1>2, <1>3, <1>5
<1>8. ASSUME Chatting!Logged(c) = {"success"}, said("user") # {}
      PROVE  \E q \in said("user"), a \in said("assistant") :
               /\ q < a /\ messages[q].session_id = messages[a].session_id
               /\ told = {[session_id |-> messages[a].session_id, message_id |-> a, chat |-> c]}
  <2>1. outcome = "success"
    BY <1>3, <1>8
  <2>2. PICK q \in MessageIds : Of(messages, q, c) /\ messages[q].role = "user" /\ q \in said("user")
    BY <1>5, <1>8
  <2>3. PICK a \in MessageIds :
          /\ Of(messages, a, c) /\ messages[a].role = "assistant" /\ q < a
          /\ messages[q].session_id = messages[a].session_id
          /\ AnsweredBy(responses, c, messages[a].session_id, a)
    BY <1>2, <2>1, <2>2
  <2>4. a \in said("assistant")
    BY <1>5, <2>3
  <2> QED BY <1>6, <2>2, <2>3, <2>4
<1> QED BY <1>4, <1>7, <1>8 DEF said, told

LEMMA ChatInvariant == Spec => [](part = "chatting" => ChatInv)
<1> DEFINE Inv == part = "chatting" => ChatInv
<1>1. Init => Inv
  BY ChatInit DEF Init
<1>2. Inv /\ [Next]_vars => Inv'
  <2> SUFFICES ASSUME Inv, [Next]_vars, part' = "chatting" PROVE ChatInv'
    OBVIOUS
  <2>1. part = "chatting" /\ (Chatting!Next \/ UNCHANGED <<s1, s2, s3, s4, s5, s6, s7, s8, s9>>)
    BY ChattingStep
  <2>2. CASE UNCHANGED <<s1, s2, s3, s4, s5, s6, s7, s8, s9>>
    BY <2>1, <2>2, RowsKept DEF ChatInv, ChatType, SessionInv, Empty
  <2> QED BY <2>1, <2>2, ChatNext
<1> QED BY <1>1, <1>2, PTL DEF Spec

\* Sessions.delete: what is stored of a session goes with it, unless a call wrote to it
\* at the time, for any number of sessions, messages and calls.
THEOREM NothingOutlivesItsSessionHolds == Spec => []NothingOutlivesItsSession
<1>1. (part = "chatting" => ChatInv) => NothingOutlivesItsSession
  BY SessionsLeaveNothing DEF NothingOutlivesItsSession
<1> QED BY <1>1, ChatInvariant, PTL

\* AssistantService.chat: a chat that is over, and was not broken off, is logged once
\* and, exactly when the model answered, has its answer and its response, for any number
\* of chats in any number of sessions.
THEOREM ChatsAreToldHolds == Spec => []ChatsAreTold
<1>1. (part = "chatting" => ChatInv) => ChatsAreTold
  BY ChatsTell DEF ChatsAreTold
<1> QED BY <1>1, ChatInvariant, PTL
=============================================================================
