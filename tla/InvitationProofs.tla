-------------------------- MODULE InvitationProofs --------------------------
(* What TLAPS proves of Invitations: its type invariant, and the properties  *)
(* its run checks, for any number of requests, addresses and workspaces.     *)
EXTENDS Invitations, SequenceTheorems, TLAPS

-----------------------------------------------------------------------------
(* Type correctness                                                        *)

\* Nothing has happened to a new organization.
LEMMA TypeInit == Init => TypeOK
<1> SUFFICES ASSUME Init PROVE TypeOK
  OBVIOUS
<1>1. invitations \in Seq(Rows)
  BY DEF Init
<1>2. \A r \in Requests : JobOK(r)
  BY DEF Init, JobOK, NoJob
<1> QED BY <1>1, <1>2 DEF Init, TypeOK

\* A write to one column of one row leaves a table of the same rows.
LEMMA WrittenRows ==
  ASSUME invitations \in Seq(Rows), NEW i \in DOMAIN invitations
  PROVE  /\ \A status \in Statuses :
              LET table == [invitations EXCEPT ![i].status = status]
              IN table \in Seq(Rows) /\ DOMAIN table = DOMAIN invitations
         /\ \A lapsed \in BOOLEAN :
              LET table == [invitations EXCEPT ![i].lapsed = lapsed]
              IN table \in Seq(Rows) /\ DOMAIN table = DOMAIN invitations
<1>1. invitations[i] \in Rows
  BY ElementOfSeq
<1>2. \A row \in Rows : LET table == [invitations EXCEPT ![i] = row]
                        IN table \in Seq(Rows) /\ DOMAIN table = DOMAIN invitations
  BY ExceptSeq
<1>3. \A status \in Statuses : [invitations[i] EXCEPT !.status = status] \in Rows
  BY <1>1 DEF Rows
<1>4. \A lapsed \in BOOLEAN : [invitations[i] EXCEPT !.lapsed = lapsed] \in Rows
  BY <1>1 DEF Rows
<1> QED BY <1>2, <1>3, <1>4

\* A request that touches no table and no other request, and ends or goes on to
\* a step that knows what it needs, keeps the type.
LEMMA StepType ==
  ASSUME TypeOK, NEW r \in Requests, NEW label, NEW known,
         pc' = [pc EXCEPT ![r] = label], job' = [job EXCEPT ![r] = known],
         JobOK(r)', overtaken' \subseteq overtaken, r \in overtaken' => label \in OnRow,
         invitations' = invitations, registered' = registered, joined' = joined,
         left' = left, accepted' = accepted
  PROVE  TypeOK'
<1>1. ASSUME NEW q \in Requests, q # r PROVE JobOK(q)'
  BY <1>1 DEF TypeOK, JobOK
<1>2. overtaken' \subseteq {q \in Requests : pc'[q] \in OnRow}
  BY DEF TypeOK
<1> QED BY <1>1, <1>2 DEF TypeOK

\* The commit that decides an invitation, whether it fails or not.
LEMMA DecideType ==
  ASSUME TypeOK, NEW r \in Requests, pc[r] \in OnRow, NEW status \in Statuses,
         NEW fails \in BOOLEAN, Decide(r, status, fails)
  PROVE  /\ invitations' \in Seq(Rows) /\ DOMAIN invitations' = DOMAIN invitations
         /\ DOMAIN pc' = Requests /\ DOMAIN job' = Requests
         /\ \A q \in Requests : JobOK(q)'
         /\ overtaken' \subseteq {q \in Requests : pc'[q] \in OnRow}
<1>1. job[r].id \in DOMAIN invitations
  BY DEF TypeOK, JobOK, OnRow, Joining
<1>2. invitations' \in Seq(Rows) /\ DOMAIN invitations' = DOMAIN invitations
  BY <1>1, WrittenRows DEF Decide, TypeOK
<1>3. /\ pc' = [pc EXCEPT ![r] = "idle"] /\ job' = [job EXCEPT ![r] = NoJob]
      /\ DOMAIN pc = Requests /\ DOMAIN job = Requests
  BY DEF Decide, End, Goto, TypeOK
<1>4. JobOK(r)'
  BY <1>3 DEF JobOK
<1>5. ASSUME NEW q \in Requests, q # r PROVE JobOK(q)'
  BY <1>2, <1>3, <1>5 DEF TypeOK, JobOK
<1>6. overtaken' \subseteq {q \in Requests : pc'[q] \in OnRow}
  BY <1>3 DEF Decide, TypeOK
<1> QED BY <1>2, <1>3, <1>4, <1>5, <1>6

\* Every step of a request, of the users and of time stays in the type.
LEMMA TypeNext == TypeOK /\ [Next]_vars => TypeOK'
<1> SUFFICES ASSUME TypeOK, [Next]_vars PROVE TypeOK'
  OBVIOUS
<1> USE DEF Goto, history
<1>a. ASSUME NEW r \in Requests, End(r) PROVE JobOK(r)' /\ r \notin {q \in Requests : pc'[q] \in OnRow}
  BY <1>a DEF End, JobOK, TypeOK, OnRow, Joining
<1>1. ASSUME NEW r \in Requests, NEW email \in Emails, NEW workspace \in Scopes,
             CreateCheck(r, email, workspace)
      PROVE  TypeOK'
  <2>1. JobOK(r)' /\ r \notin overtaken
    BY <1>1 DEF CreateCheck, JobOK, TypeOK, OnRow, Joining
  <2> QED BY <1>1, <2>1, StepType DEF CreateCheck
<1>2. ASSUME NEW r \in Requests, CreateLookup(r) PROVE TypeOK'
  <2>1. job[r] \in [id : {0}, email : Emails, workspace : Scopes] /\ r \notin overtaken
    BY <1>2 DEF CreateLookup, TypeOK, JobOK, OnRow, Joining
  <2>2. CASE End(r)
    BY <1>2, <1>a, <2>1, <2>2, StepType DEF CreateLookup, End
  <2>3. CASE ~End(r)
    <3>1. /\ \E label \in {"insert", "insert user"} : pc' = [pc EXCEPT ![r] = label]
          /\ job' = job
      BY <1>2, <2>3 DEF CreateLookup
    <3>2. pc'[r] \in {"insert", "insert user"} /\ job'[r] = job[r]
      BY <3>1 DEF TypeOK
    <3>3. JobOK(r)'
      BY <2>1, <3>2 DEF JobOK
    <3>4. ASSUME NEW q \in Requests, q # r PROVE JobOK(q)'
      BY <1>2, <3>1, <3>4 DEF CreateLookup, TypeOK, JobOK
    <3> QED BY <1>2, <2>1, <3>1, <3>3, <3>4 DEF CreateLookup, TypeOK
  <2> QED BY <2>2, <2>3
<1>3. ASSUME NEW r \in Requests, CreateInsert(r) PROVE TypeOK'
  <2>1. job[r] \in [id : {0}, email : Emails, workspace : Scopes] /\ r \notin overtaken
    BY <1>3 DEF CreateInsert, TypeOK, JobOK, OnRow, Joining
  <2>2. CASE Taken(0, job[r].email, job[r].workspace, "pending")
    BY <1>3, <1>a, <2>1, <2>2, StepType DEF CreateInsert, End
  <2>3. CASE ~Taken(0, job[r].email, job[r].workspace, "pending")
    <3> DEFINE row == [email |-> job[r].email, workspace |-> job[r].workspace,
                       status |-> "pending", lapsed |-> FALSE]
    <3>1. row \in Rows /\ invitations' = Append(invitations, row)
      BY <1>3, <2>1, <2>3 DEF CreateInsert, Rows, Statuses
    <3>2. /\ invitations' \in Seq(Rows)
          /\ DOMAIN invitations' = 1..Len(invitations) + 1
          /\ DOMAIN invitations = 1..Len(invitations)
          /\ Len(invitations) \in Nat
      BY <3>1 DEF TypeOK
    <3>3. DOMAIN invitations \subseteq DOMAIN invitations' /\ Len(invitations) + 1 \in DOMAIN invitations'
      BY <3>2
    <3>4. JobOK(r)'
      <4>1. CASE pc[r] = "insert"
        BY <1>3, <2>3, <4>1, <1>a DEF CreateInsert
      <4>2. CASE pc[r] = "insert user"
        <5>1. pc'[r] = "organization" /\ job'[r] = [id |-> Len(invitations) + 1, missing |-> {}]
          BY <1>3, <2>3, <4>2 DEF CreateInsert, TypeOK
        <5> QED BY <5>1, <3>3 DEF JobOK, OnRow, Joining
      <4> QED BY <1>3, <4>1, <4>2 DEF CreateInsert
    <3>5. \A q \in Requests \ {r} : pc'[q] = pc[q] /\ job'[q] = job[q]
      BY <1>3, <2>3 DEF CreateInsert, End, TypeOK
    <3>6. ASSUME NEW q \in Requests, q # r PROVE JobOK(q)'
      BY <3>3, <3>5, <3>6 DEF TypeOK, JobOK
    <3>7. overtaken' \subseteq {q \in Requests : pc'[q] \in OnRow}
      BY <1>3, <2>1, <3>5 DEF CreateInsert, TypeOK
    <3>8. DOMAIN pc' = Requests /\ DOMAIN job' = Requests
      BY <1>3, <2>3 DEF CreateInsert, End, TypeOK
    <3> QED BY <1>3, <3>2, <3>3, <3>4, <3>6, <3>7, <3>8 DEF CreateInsert, TypeOK
  <2> QED BY <2>2, <2>3
<1>4. ASSUME NEW r \in Requests, NEW i \in DOMAIN invitations,
             AcceptLoad(r, i) \/ RevokeLoad(r, i) \/ ResendLoad(r, i)
      PROVE  TypeOK'
  <2>1. /\ \E label \in OnRow : pc' = [pc EXCEPT ![r] = label]
        /\ job' = [job EXCEPT ![r] = [id |-> i, missing |-> {}]]
        /\ UNCHANGED <<invitations, registered, joined, overtaken, left, accepted>>
    BY <1>4 DEF AcceptLoad, RevokeLoad, ResendLoad, OnRow, Joining
  <2>2. JobOK(r)'
    BY <2>1 DEF JobOK, TypeOK
  <2> QED BY <2>1, <2>2, StepType
<1>5. ASSUME NEW r \in Requests, ReadOrganization(r) \/ ReadWorkspace(r) PROVE TypeOK'
  <2>1. job[r] \in [id : DOMAIN invitations, missing : SUBSET Scopes]
    BY <1>5 DEF ReadOrganization, ReadWorkspace, TypeOK, JobOK
  <2>2. invitations[job[r].id] \in Rows
    BY <2>1, ElementOfSeq DEF TypeOK
  <2>3. PICK missing \in SUBSET Scopes : job' = [job EXCEPT ![r].missing = missing]
    <3>1. CASE ReadOrganization(r)
      BY <3>1 DEF ReadOrganization, Scopes
    <3>2. CASE ReadWorkspace(r)
      <4>1. {s \in {invitations[job[r].id].workspace} : invitations[job[r].id].email \notin joined[s]}
              \subseteq Scopes
        BY <2>2 DEF Rows
      <4> QED BY <3>2, <2>1, <4>1 DEF ReadWorkspace
    <3> QED BY <1>5, <3>1, <3>2
  <2>4. [job[r] EXCEPT !.missing = missing] \in [id : DOMAIN invitations, missing : SUBSET Scopes]
    BY <2>1
  <2>5. /\ \E label \in OnRow : pc' = [pc EXCEPT ![r] = label]
        /\ UNCHANGED <<invitations, registered, joined, overtaken, left, accepted>>
    BY <1>5 DEF ReadOrganization, ReadWorkspace, OnRow, Joining
  <2>6. JobOK(r)'
    BY <2>3, <2>4, <2>5 DEF JobOK, TypeOK
  <2> QED BY <2>3, <2>5, <2>6, StepType
<1>6. ASSUME NEW r \in Requests, Join(r) PROVE TypeOK'
  <2> DEFINE fails == TakenBy(r, "accepted") \/
                        \E s \in job[r].missing : invitations[job[r].id].email \in joined[s]
  <2>1. job[r].id \in DOMAIN invitations
    BY <1>6 DEF Join, TypeOK, JobOK
  <2>2. invitations[job[r].id] \in Rows
    BY <2>1, ElementOfSeq DEF TypeOK
  <2>3. Decide(r, "accepted", fails) /\ pc[r] \in OnRow /\ fails \in BOOLEAN
    BY <1>6 DEF Join, OnRow, Joining
  <2>4. joined' \in [Scopes -> SUBSET Emails]
    BY <1>6, <2>2 DEF Join, TypeOK, Rows
  <2>5. accepted' \subseteq DOMAIN invitations /\ UNCHANGED <<registered, left>>
    BY <1>6, <2>1 DEF Join, TypeOK
  <2>6. "accepted" \in Statuses
    BY DEF Statuses
  <2> HIDE DEF fails
  <2>7. /\ invitations' \in Seq(Rows) /\ DOMAIN invitations' = DOMAIN invitations
        /\ DOMAIN pc' = Requests /\ DOMAIN job' = Requests
        /\ \A q \in Requests : JobOK(q)'
        /\ overtaken' \subseteq {q \in Requests : pc'[q] \in OnRow}
    BY <2>3, <2>6, DecideType
  <2> QED BY <2>4, <2>5, <2>7 DEF TypeOK
<1>7. ASSUME NEW r \in Requests, ExpireCommit(r) \/ RevokeCommit(r) PROVE TypeOK'
  <2>1. pc[r] \in OnRow
    BY <1>7 DEF ExpireCommit, RevokeCommit, OnRow
  <2>2. PICK status \in Statuses, fails \in BOOLEAN : Decide(r, status, fails)
    BY <1>7 DEF ExpireCommit, RevokeCommit, Statuses, TakenBy, Taken
  <2>3. UNCHANGED <<registered, joined, left, accepted>>
    BY <1>7 DEF ExpireCommit, RevokeCommit
  <2>4. /\ invitations' \in Seq(Rows) /\ DOMAIN invitations' = DOMAIN invitations
        /\ DOMAIN pc' = Requests /\ DOMAIN job' = Requests
        /\ \A q \in Requests : JobOK(q)'
        /\ overtaken' \subseteq {q \in Requests : pc'[q] \in OnRow}
    BY <2>1, <2>2, DecideType
  <2> QED BY <2>3, <2>4 DEF TypeOK
<1>8. ASSUME NEW r \in Requests, ResendCommit(r) PROVE TypeOK'
  <2>1. job[r].id \in DOMAIN invitations
    BY <1>8 DEF ResendCommit, TypeOK, JobOK, OnRow
  <2>2. invitations' \in Seq(Rows) /\ DOMAIN invitations' = DOMAIN invitations
    BY <1>8, <2>1, WrittenRows DEF ResendCommit, TypeOK
  <2>3. ASSUME NEW q \in Requests PROVE JobOK(q)'
    <3>1. CASE q = r
      BY <3>1, <1>8, <1>a DEF ResendCommit
    <3>2. CASE q # r
      BY <3>2, <1>8, <2>2 DEF ResendCommit, End, TypeOK, JobOK
    <3> QED BY <3>1, <3>2
  <2>4. overtaken' \subseteq {q \in Requests : pc'[q] \in OnRow}
    BY <1>8 DEF ResendCommit, End, TypeOK
  <2> QED BY <1>8, <2>2, <2>3, <2>4 DEF ResendCommit, End, TypeOK
<1>9. ASSUME NEW r \in Requests, Fail(r) PROVE TypeOK'
  BY <1>9, <1>a, StepType DEF Fail, End
<1>10. ASSUME NEW email \in Emails, Register(email) PROVE TypeOK'
  BY <1>10 DEF Register, TypeOK, JobOK
<1>11. ASSUME NEW email \in Emails, NEW s \in Scopes, Remove(s, email) PROVE TypeOK'
  BY <1>11 DEF Remove, TypeOK, JobOK
<1>12. ASSUME NEW i \in DOMAIN invitations, Lapse(i) PROVE TypeOK'
  <2>1. invitations' \in Seq(Rows) /\ DOMAIN invitations' = DOMAIN invitations
    BY <1>12, WrittenRows DEF Lapse, TypeOK
  <2> QED BY <1>12, <2>1 DEF Lapse, TypeOK, JobOK
<1>13. CASE UNCHANGED vars
  BY <1>13 DEF vars, TypeOK, JobOK
<1> QED BY <1>1, <1>2, <1>3, <1>4, <1>5, <1>6, <1>7, <1>8, <1>9, <1>10, <1>11, <1>12, <1>13
        DEF Next, Request

\* Every reachable invitation, membership and request is in its type.
THEOREM TypeCorrect == Spec => []TypeOK
BY TypeInit, TypeNext, PTL DEF Spec

-----------------------------------------------------------------------------
(* What a step does to the table                                           *)

\* The rows stay the ones they were, but for the time they have left.
SameRows ==
  /\ DOMAIN invitations' = DOMAIN invitations
  /\ \A i \in DOMAIN invitations :
       /\ invitations'[i].email = invitations[i].email
       /\ invitations'[i].workspace = invitations[i].workspace
       /\ invitations'[i].status = invitations[i].status

\* One more row, pending, which the constraint lets in.
NewRow(r) ==
  /\ DOMAIN invitations' = DOMAIN invitations \cup {Len(invitations) + 1}
  /\ Len(invitations) + 1 \notin DOMAIN invitations
  /\ \A i \in DOMAIN invitations : invitations'[i] = invitations[i]
  /\ invitations'[Len(invitations) + 1] =
       [email |-> job[r].email, workspace |-> job[r].workspace, status |-> "pending", lapsed |-> FALSE]
  /\ ~Taken(0, job[r].email, job[r].workspace, "pending")

\* The row of a request is decided.
DecidedRow(r) ==
  /\ job[r].id \in DOMAIN invitations
  /\ DOMAIN invitations' = DOMAIN invitations
  /\ \A i \in DOMAIN invitations :
       /\ invitations'[i].email = invitations[i].email
       /\ invitations'[i].workspace = invitations[i].workspace
       /\ i # job[r].id => invitations'[i].status = invitations[i].status
  /\ invitations'[job[r].id].status \in Statuses \ {"pending"}
  /\ overtaken' = (overtaken \cup {q \in Requests : pc[q] \in OnRow /\ job[q].id = job[r].id}) \ {r}

\* A deciding commit either fails and leaves the rows, or decides its row.
LEMMA DecideCases ==
  ASSUME TypeOK, NEW r \in Requests, pc[r] \in OnRow, NEW status \in Statuses \ {"pending"},
         NEW fails \in BOOLEAN, Decide(r, status, fails)
  PROVE  /\ fails => SameRows /\ overtaken' = overtaken \ {r}
         /\ ~fails => DecidedRow(r) /\ invitations'[job[r].id].status = status
         /\ pc' = [pc EXCEPT ![r] = "idle"] /\ job' = [job EXCEPT ![r] = NoJob]
<1>1. job[r].id \in DOMAIN invitations
  BY DEF TypeOK, JobOK, OnRow, Joining
<1>2. \A i \in DOMAIN invitations : invitations[i] \in Rows
  BY ElementOfSeq DEF TypeOK
<1>3. CASE fails
  BY <1>3 DEF Decide, SameRows, End, Goto
<1>4. CASE ~fails
  <2>1. invitations' = [invitations EXCEPT ![job[r].id].status = status]
    BY <1>4 DEF Decide
  <2>2. invitations = [i \in DOMAIN invitations |-> invitations[i]]
    BY DEF TypeOK
  <2>3. DOMAIN invitations' = DOMAIN invitations
    BY <2>1, <2>2
  <2>4. \A i \in DOMAIN invitations : i # job[r].id => invitations'[i] = invitations[i]
    BY <2>1, <2>2
  <2>5. invitations'[job[r].id] = [invitations[job[r].id] EXCEPT !.status = status]
    BY <2>1, <2>2, <1>1
  <2>6. /\ invitations'[job[r].id].email = invitations[job[r].id].email
        /\ invitations'[job[r].id].workspace = invitations[job[r].id].workspace
        /\ invitations'[job[r].id].status = status
    BY <2>5, <1>1, <1>2 DEF Rows
  <2> QED BY <1>1, <1>4, <2>3, <2>4, <2>6 DEF Decide, DecidedRow, End, Goto
<1> QED BY <1>3, <1>4

\* A creating commit that the constraint does not refuse adds its row.
LEMMA InsertCases ==
  ASSUME TypeOK, NEW r \in Requests, CreateInsert(r)
  PROVE  \/ SameRows /\ pc'[r] = "idle"
         \/ /\ NewRow(r)
            /\ \/ pc'[r] = "idle"
               \/ pc'[r] = "organization" /\ job'[r].id = Len(invitations) + 1
<1>1. CASE Taken(0, job[r].email, job[r].workspace, "pending")
  BY <1>1 DEF CreateInsert, SameRows, End, Goto, TypeOK
<1>2. CASE ~Taken(0, job[r].email, job[r].workspace, "pending")
  <2> DEFINE row == [email |-> job[r].email, workspace |-> job[r].workspace,
                     status |-> "pending", lapsed |-> FALSE]
  <2>1. invitations' = Append(invitations, row)
    BY <1>2 DEF CreateInsert
  <2>2. /\ DOMAIN invitations = 1..Len(invitations) /\ Len(invitations) \in Nat
        /\ DOMAIN invitations' = 1..Len(invitations) + 1
        /\ \A i \in DOMAIN invitations : invitations'[i] = invitations[i]
        /\ invitations'[Len(invitations) + 1] = row
    BY <2>1 DEF TypeOK
  <2>3. NewRow(r)
    BY <2>2, <1>2 DEF NewRow
  <2>4. pc'[r] = "idle" \/ (pc'[r] = "organization" /\ job'[r].id = Len(invitations) + 1)
    <3>1. DOMAIN pc = Requests /\ DOMAIN job = Requests
      BY DEF TypeOK
    <3>2. CASE pc[r] = "insert"
      BY <1>2, <3>1, <3>2 DEF CreateInsert, End, Goto
    <3>3. CASE pc[r] # "insert"
      <4>1. /\ pc' = [pc EXCEPT ![r] = "organization"]
            /\ job' = [job EXCEPT ![r] = [id |-> Len(invitations) + 1, missing |-> {}]]
        BY <1>2, <3>3 DEF CreateInsert, Goto
      <4>2. pc'[r] = "organization" /\ job'[r] = [id |-> Len(invitations) + 1, missing |-> {}]
        BY <3>1, <4>1
      <4> QED BY <4>2
    <3> QED BY <3>2, <3>3
  <2> QED BY <2>3, <2>4
<1> QED BY <1>1, <1>2

\* Another seven days, or seven days gone by, change nothing else of a row.
LEMMA TimeKeepsRows ==
  ASSUME TypeOK, NEW i \in DOMAIN invitations, NEW b \in BOOLEAN,
         invitations' = [invitations EXCEPT ![i].lapsed = b]
  PROVE  SameRows
<1>1. \A k \in DOMAIN invitations : invitations[k] \in Rows
  BY ElementOfSeq DEF TypeOK
<1>2. invitations = [k \in DOMAIN invitations |-> invitations[k]]
  BY DEF TypeOK
<1>3. DOMAIN invitations' = DOMAIN invitations
  BY <1>2
<1>4. \A k \in DOMAIN invitations : k # i => invitations'[k] = invitations[k]
  BY <1>2
<1>5. invitations'[i] = [invitations[i] EXCEPT !.lapsed = b]
  BY <1>2
<1>6. /\ invitations'[i].email = invitations[i].email
      /\ invitations'[i].workspace = invitations[i].workspace
      /\ invitations'[i].status = invitations[i].status
  BY <1>1, <1>5 DEF Rows
<1> QED BY <1>3, <1>4, <1>6 DEF SameRows

\* The requests' steps that write no invitation, and everybody else's.
Quiet ==
  /\ SameRows
  /\ overtaken' \subseteq overtaken
  /\ \A q \in Requests : pc'[q] \in OnRow /\ q \notin overtaken' =>
       \/ pc[q] \in OnRow /\ job'[q].id = job[q].id /\ q \notin overtaken
       \/ job'[q].id \in DOMAIN invitations /\ invitations[job'[q].id].status = "pending"

\* A step is quiet, or adds a row, or decides one.
LEMMA StepCases ==
  ASSUME TypeOK, [Next]_vars
  PROVE  \/ Quiet
         \/ \E r \in Requests : CreateInsert(r) /\ NewRow(r)
         \/ \E r \in Requests : /\ pc[r] \in OnRow /\ DecidedRow(r)
                                /\ pc' = [pc EXCEPT ![r] = "idle"] /\ job' = [job EXCEPT ![r] = NoJob]
<1> USE DEF Goto, history
<1>1. ASSUME NEW r \in Requests, NEW email \in Emails, NEW workspace \in Scopes,
             CreateCheck(r, email, workspace)
      PROVE  Quiet
  BY <1>1 DEF CreateCheck, Quiet, SameRows, TypeOK, OnRow, Joining
<1>2. ASSUME NEW r \in Requests, CreateLookup(r) PROVE Quiet
  BY <1>2 DEF CreateLookup, End, Quiet, SameRows, TypeOK, OnRow, Joining
<1>3. ASSUME NEW r \in Requests, CreateInsert(r) PROVE NewRow(r) \/ Quiet
  <2>1. CASE SameRows /\ pc'[r] = "idle"
    <3>1. ASSUME NEW q \in Requests, pc'[q] \in OnRow
          PROVE  pc[q] \in OnRow /\ job'[q].id = job[q].id
      <4>1. q # r
        BY <2>1, <3>1 DEF OnRow, Joining
      <4> QED BY <1>3, <3>1, <4>1 DEF CreateInsert, End, TypeOK
    <3> QED BY <1>3, <2>1, <3>1 DEF CreateInsert, Quiet
  <2> QED BY <1>3, <2>1, InsertCases
<1>4. ASSUME NEW r \in Requests, NEW i \in DOMAIN invitations,
             AcceptLoad(r, i) \/ RevokeLoad(r, i) \/ ResendLoad(r, i)
      PROVE  Quiet
  <2>1. /\ DOMAIN pc = Requests /\ DOMAIN job = Requests
        /\ job' = [job EXCEPT ![r] = [id |-> i, missing |-> {}]]
        /\ \E label \in OnRow : pc' = [pc EXCEPT ![r] = label]
        /\ UNCHANGED <<invitations, overtaken>> /\ invitations[i].status = "pending"
    BY <1>4 DEF AcceptLoad, RevokeLoad, ResendLoad, TypeOK, OnRow, Joining
  <2>2. ASSUME NEW q \in Requests, q # r PROVE pc'[q] = pc[q] /\ job'[q] = job[q]
    BY <2>1, <2>2
  <2>3. job'[r].id = i
    BY <2>1
  <2> QED BY <2>1, <2>2, <2>3 DEF Quiet, SameRows
<1>5. ASSUME NEW r \in Requests, ReadOrganization(r) \/ ReadWorkspace(r) PROVE Quiet
  <2>1. job[r] \in [id : DOMAIN invitations, missing : SUBSET Scopes] /\ pc[r] \in OnRow
    BY <1>5 DEF ReadOrganization, ReadWorkspace, TypeOK, JobOK, OnRow, Joining
  <2>2. \E m : job' = [job EXCEPT ![r].missing = m]
    BY <1>5 DEF ReadOrganization, ReadWorkspace
  <2>3. job'[r].id = job[r].id /\ \A q \in Requests \ {r} : pc'[q] = pc[q] /\ job'[q] = job[q]
    BY <1>5, <2>1, <2>2 DEF ReadOrganization, ReadWorkspace, TypeOK
  <2> QED BY <1>5, <2>1, <2>3 DEF ReadOrganization, ReadWorkspace, Quiet, SameRows
<1>6. ASSUME NEW r \in Requests, Join(r) \/ ExpireCommit(r) \/ RevokeCommit(r)
      PROVE  Quiet \/ (/\ pc[r] \in OnRow /\ DecidedRow(r)
                       /\ pc' = [pc EXCEPT ![r] = "idle"] /\ job' = [job EXCEPT ![r] = NoJob])
  <2>1. PICK status \in Statuses \ {"pending"}, fails \in BOOLEAN : Decide(r, status, fails)
    BY <1>6 DEF Join, ExpireCommit, RevokeCommit, Statuses, TakenBy, Taken
  <2>2. pc[r] \in OnRow
    BY <1>6 DEF Join, ExpireCommit, RevokeCommit, OnRow, Joining
  <2>3. /\ fails => SameRows /\ overtaken' = overtaken \ {r}
        /\ ~fails => DecidedRow(r)
        /\ pc' = [pc EXCEPT ![r] = "idle"] /\ job' = [job EXCEPT ![r] = NoJob]
    BY <2>1, <2>2, DecideCases
  <2>4. CASE fails
    <3>1. \A q \in Requests : pc'[q] \in OnRow => q # r /\ pc[q] \in OnRow /\ job'[q] = job[q]
      BY <2>3 DEF TypeOK, OnRow, Joining
    <3> QED BY <2>3, <2>4, <3>1 DEF Quiet
  <2> QED BY <2>2, <2>3, <2>4
<1>7. ASSUME NEW r \in Requests, ResendCommit(r) PROVE Quiet
  <2>1. job[r].id \in DOMAIN invitations
    BY <1>7 DEF ResendCommit, TypeOK, JobOK, OnRow
  <2>2. SameRows
    BY <1>7, <2>1, TimeKeepsRows DEF ResendCommit
  <2>3. \A q \in Requests : pc'[q] \in OnRow => q # r /\ pc[q] \in OnRow /\ job'[q] = job[q]
    BY <1>7 DEF ResendCommit, End, TypeOK, OnRow, Joining
  <2> QED BY <1>7, <2>2, <2>3 DEF ResendCommit, Quiet
<1>8. ASSUME NEW r \in Requests, Fail(r) PROVE Quiet
  <2>1. \A q \in Requests : pc'[q] \in OnRow => q # r /\ pc[q] \in OnRow /\ job'[q] = job[q]
    BY <1>8 DEF Fail, End, TypeOK, OnRow, Joining
  <2> QED BY <1>8, <2>1 DEF Fail, Quiet, SameRows
<1>9. ASSUME NEW email \in Emails, NEW s \in Scopes, Register(email) \/ Remove(s, email) PROVE Quiet
  BY <1>9 DEF Register, Remove, Quiet, SameRows
<1>10. ASSUME NEW email \in Emails, Register(email) PROVE Quiet
  BY <1>10 DEF Register, Quiet, SameRows
<1>11. ASSUME NEW i \in DOMAIN invitations, Lapse(i) PROVE Quiet
  <2>1. SameRows
    BY <1>11, TimeKeepsRows DEF Lapse
  <2> QED BY <1>11, <2>1 DEF Lapse, Quiet
<1>12. CASE UNCHANGED vars
  BY <1>12 DEF vars, Quiet, SameRows
<1> QED BY <1>1, <1>2, <1>3, <1>4, <1>5, <1>6, <1>7, <1>8, <1>9, <1>10, <1>11, <1>12
        DEF Next, Request

-----------------------------------------------------------------------------
(* One pending invitation to a workspace, decided once                     *)

\* What a request relies on that nobody has overtaken.
StillPending ==
  \A r \in Requests : pc[r] \in OnRow /\ r \notin overtaken => ~Decided(job[r].id)

\* A step that decides a row overtakes whoever else works on it.
LEMMA PendingNext == TypeOK /\ StillPending /\ [Next]_vars => StillPending'
<1> SUFFICES ASSUME TypeOK, StillPending, [Next]_vars,
                    NEW q \in Requests, pc'[q] \in OnRow, q \notin overtaken'
             PROVE  ~Decided(job[q].id)'
  BY DEF StillPending
<1>a. pc[q] \in OnRow => job[q].id \in DOMAIN invitations
  BY DEF TypeOK, JobOK, OnRow, Joining
<1>1. CASE Quiet
  <2>1. CASE pc[q] \in OnRow /\ job'[q].id = job[q].id /\ q \notin overtaken
    BY <1>1, <1>a, <2>1 DEF Quiet, SameRows, StillPending, Decided
  <2>2. CASE job'[q].id \in DOMAIN invitations /\ invitations[job'[q].id].status = "pending"
    BY <1>1, <2>2 DEF Quiet, SameRows, Decided
  <2> QED BY <1>1, <2>1, <2>2 DEF Quiet
<1>2. ASSUME NEW r \in Requests, CreateInsert(r), NewRow(r) PROVE ~Decided(job[q].id)'
  <2>1. CASE q = r
    <3>1. pc'[r] = "organization" /\ job'[r].id = Len(invitations) + 1
      <4>1. "idle" \notin OnRow /\ Len(invitations) + 1 \notin DOMAIN invitations
        BY <1>2 DEF OnRow, Joining, NewRow
      <4>2. Len(invitations) + 1 \in DOMAIN invitations'
        BY <1>2 DEF NewRow
      <4> QED BY <1>2, <2>1, <4>1, <4>2, InsertCases DEF SameRows
    <3> QED BY <1>2, <2>1, <3>1 DEF NewRow, Decided
  <2>2. CASE q # r
    <3>1. pc'[q] = pc[q] /\ job'[q] = job[q] /\ overtaken' = overtaken
      BY <1>2, <2>2 DEF CreateInsert, End, Goto, TypeOK, history
    <3> QED BY <1>2, <1>a, <3>1 DEF NewRow, StillPending, Decided
  <2> QED BY <2>1, <2>2
<1>3. ASSUME NEW r \in Requests, pc[r] \in OnRow, DecidedRow(r),
             pc' = [pc EXCEPT ![r] = "idle"], job' = [job EXCEPT ![r] = NoJob]
      PROVE  ~Decided(job[q].id)'
  <2>1. q # r /\ pc[q] \in OnRow /\ job'[q] = job[q]
    BY <1>3 DEF TypeOK, OnRow, Joining
  <2>2. q \notin overtaken /\ job[q].id # job[r].id
    BY <1>3, <2>1 DEF DecidedRow
  <2> QED BY <1>3, <1>a, <2>1, <2>2 DEF DecidedRow, StillPending, Decided
<1> QED BY <1>1, <1>2, <1>3, StepCases

\* Two pending rows for one address in one workspace would have needed an insert
\* that the constraint refuses.
LEMMA OneNext == TypeOK /\ OneWorkspacePending /\ [Next]_vars => OneWorkspacePending'
<1> SUFFICES ASSUME TypeOK, OneWorkspacePending, [Next]_vars PROVE OneWorkspacePending'
  OBVIOUS
<1>1. CASE Quiet
  BY <1>1 DEF Quiet, SameRows, OneWorkspacePending
<1>2. ASSUME NEW r \in Requests, NewRow(r) PROVE OneWorkspacePending'
  <2> DEFINE k == Len(invitations) + 1
  <2>1. ASSUME NEW i \in DOMAIN invitations, invitations[i].workspace # NULL,
               invitations[i].status = "pending"
        PROVE  <<invitations[i].email, invitations[i].workspace>> # <<job[r].email, job[r].workspace>>
    BY <1>2, <2>1 DEF NewRow, Taken
  <2>2. /\ invitations'[k].email = job[r].email /\ invitations'[k].workspace = job[r].workspace
        /\ invitations'[k].status = "pending"
        /\ DOMAIN invitations' = DOMAIN invitations \cup {k}
        /\ \A i \in DOMAIN invitations : invitations'[i] = invitations[i]
    BY <1>2 DEF NewRow
  <2> HIDE DEF k
  <2> QED BY <2>1, <2>2 DEF OneWorkspacePending
<1>3. ASSUME NEW r \in Requests, DecidedRow(r) PROVE OneWorkspacePending'
  BY <1>3 DEF DecidedRow, OneWorkspacePending
<1> QED BY <1>1, <1>2, <1>3, StepCases

\* However many callers invite one address to a workspace at one time, one
\* pending invitation is stored.
THEOREM OneWorkspacePendingHolds == Spec => []OneWorkspacePending
<1>1. Init => OneWorkspacePending
  BY DEF Init, OneWorkspacePending
<1> QED BY <1>1, OneNext, TypeCorrect, PTL DEF Spec

\* A decided invitation is only decided again by a request that was overtaken.
LEMMA DecidedOnceStep ==
  ASSUME TypeOK, StillPending, [Next]_vars, NEW i \in DOMAIN invitations, Decided(i)
  PROVE  \/ invitations'[i].status = invitations[i].status
         \/ \E r \in overtaken : job[r].id = i /\ pc'[r] = "idle"
<1>1. CASE Quiet
  BY <1>1 DEF Quiet, SameRows
<1>2. ASSUME NEW r \in Requests, NewRow(r) PROVE invitations'[i].status = invitations[i].status
  BY <1>2 DEF NewRow
<1>3. ASSUME NEW r \in Requests, pc[r] \in OnRow, DecidedRow(r), pc' = [pc EXCEPT ![r] = "idle"],
             job[r].id = i
      PROVE  r \in overtaken /\ pc'[r] = "idle"
  BY <1>3 DEF StillPending, TypeOK
<1>4. ASSUME NEW r \in Requests, DecidedRow(r), job[r].id # i
      PROVE  invitations'[i].status = invitations[i].status
  BY <1>4 DEF DecidedRow
<1> QED BY <1>1, <1>2, <1>3, <1>4, StepCases

\* An invitation that was accepted, cancelled or expired stays so, unless two
\* requests had both found it pending.
THEOREM DecidedOnceHolds == Spec => DecidedOnce
<1>1. Init => StillPending
  BY DEF Init, StillPending, OnRow, Joining
<1>2. TypeOK /\ StillPending /\ [Next]_vars =>
        [\A i \in DOMAIN invitations : Decided(i) =>
           \/ invitations'[i].status = invitations[i].status
           \/ \E r \in overtaken : job[r].id = i /\ pc'[r] = "idle"]_vars
  BY DecidedOnceStep
<1> QED BY <1>1, <1>2, PendingNext, TypeCorrect, PTL DEF Spec, DecidedOnce

-----------------------------------------------------------------------------
(* Who has accepted is a member                                            *)

\* What a joining request has read of a scope is still so, or somebody left.
Read(r, s) ==
  s \in job[r].missing \/ invitations[job[r].id].email \in joined[s] \cup left[s]

ReadSoFar ==
  \A r \in Requests :
    /\ pc[r] \in {"workspace", "join"} => Read(r, NULL)
    /\ pc[r] = "join" => \A s \in ScopesOf(invitations[job[r].id]) : Read(r, s)

\* Nobody leaves a scope but by being removed.
LEMMA NobodyForgotten ==
  ASSUME TypeOK, [Next]_vars, NEW s \in Scopes
  PROVE  joined[s] \cup left[s] \subseteq joined'[s] \cup left'[s]
<1>1. ASSUME NEW r \in Requests, Join(r) PROVE joined[s] \subseteq joined'[s] /\ left' = left
  BY <1>1 DEF Join
<1>2. ASSUME NEW x \in Scopes, NEW email \in Emails, Remove(x, email)
      PROVE  joined[s] \cup left[s] \subseteq joined'[s] \cup left'[s]
  BY <1>2 DEF Remove, TypeOK
<1>3. CASE joined' = joined /\ left' = left
  BY <1>3
<1> QED BY <1>1, <1>2, <1>3 DEF Next, Request, CreateCheck, CreateLookup, CreateInsert, AcceptLoad,
        RevokeLoad, ResendLoad, ReadOrganization, ReadWorkspace, ExpireCommit, RevokeCommit,
        ResendCommit, Fail, Register, Lapse, history, vars

\* The address and the scope of a row never change.
LEMMA RowsKeepPlace ==
  ASSUME TypeOK, [Next]_vars, NEW i \in DOMAIN invitations
  PROVE  /\ i \in DOMAIN invitations'
         /\ invitations'[i].email = invitations[i].email
         /\ invitations'[i].workspace = invitations[i].workspace
<1>1. CASE Quiet
  BY <1>1 DEF Quiet, SameRows
<1>2. ASSUME NEW r \in Requests, NewRow(r) PROVE i \in DOMAIN invitations' /\ invitations'[i] = invitations[i]
  BY <1>2 DEF NewRow
<1>3. ASSUME NEW r \in Requests, DecidedRow(r)
      PROVE  /\ i \in DOMAIN invitations'
             /\ invitations'[i].email = invitations[i].email
             /\ invitations'[i].workspace = invitations[i].workspace
  BY <1>3 DEF DecidedRow
<1> QED BY <1>1, <1>2, <1>3, StepCases

\* A request reads the organization's membership, then the workspace's.
LEMMA ReadNext == TypeOK /\ ReadSoFar /\ [Next]_vars => ReadSoFar'
<1> SUFFICES ASSUME TypeOK, ReadSoFar, [Next]_vars, NEW q \in Requests,
                    pc'[q] \in {"workspace", "join"}
             PROVE  /\ Read(q, NULL)'
                    /\ pc'[q] = "join" => \A s \in ScopesOf(invitations'[job'[q].id]) : Read(q, s)'
  BY DEF ReadSoFar
<1>1. ASSUME pc[q] = pc'[q], job'[q] = job[q]
      PROVE  /\ Read(q, NULL)'
             /\ pc'[q] = "join" => \A s \in ScopesOf(invitations'[job'[q].id]) : Read(q, s)'
  <2>1. job[q].id \in DOMAIN invitations
    BY <1>1 DEF TypeOK, JobOK, OnRow, Joining
  <2>2. /\ invitations'[job[q].id].email = invitations[job[q].id].email
        /\ invitations'[job[q].id].workspace = invitations[job[q].id].workspace
    BY <2>1, RowsKeepPlace
  <2>3. invitations[job[q].id] \in Rows
    BY <2>1, ElementOfSeq DEF TypeOK
  <2>4. ScopesOf(invitations'[job'[q].id]) = ScopesOf(invitations[job[q].id])
    BY <1>1, <2>2 DEF ScopesOf
  <2>5. ScopesOf(invitations[job[q].id]) \subseteq Scopes /\ NULL \in Scopes
    BY <2>3 DEF ScopesOf, Rows, Scopes
  <2>6. \A s \in Scopes : Read(q, s) => Read(q, s)'
    BY <1>1, <2>2, NobodyForgotten DEF Read
  <2> QED BY <1>1, <2>4, <2>5, <2>6 DEF ReadSoFar
<1>2. ASSUME ReadOrganization(q)
      PROVE  /\ Read(q, NULL)'
             /\ pc'[q] = "join" => \A s \in ScopesOf(invitations'[job'[q].id]) : Read(q, s)'
  <2>1. job[q] \in [id : DOMAIN invitations, missing : SUBSET Scopes]
    BY <1>2 DEF ReadOrganization, TypeOK, JobOK
  <2>2. /\ job'[q].id = job[q].id
        /\ job'[q].missing = {s \in {NULL} : invitations[job[q].id].email \notin joined[s]}
        /\ UNCHANGED <<invitations, joined, left>>
    BY <1>2, <2>1 DEF ReadOrganization, history, TypeOK
  <2>3. Read(q, NULL)'
    BY <2>2 DEF Read
  <2>4. pc'[q] = "join" => invitations[job[q].id].workspace = NULL
    BY <1>2 DEF ReadOrganization, Goto, TypeOK
  <2> QED BY <2>2, <2>3, <2>4 DEF ScopesOf
<1>3. ASSUME ReadWorkspace(q)
      PROVE  /\ Read(q, NULL)'
             /\ pc'[q] = "join" => \A s \in ScopesOf(invitations'[job'[q].id]) : Read(q, s)'
  <2>1. job[q] \in [id : DOMAIN invitations, missing : SUBSET Scopes] /\ Read(q, NULL)
    BY <1>3 DEF ReadWorkspace, TypeOK, JobOK, ReadSoFar
  <2>2. /\ job'[q].id = job[q].id
        /\ job'[q].missing = job[q].missing \cup
             {s \in {invitations[job[q].id].workspace} : invitations[job[q].id].email \notin joined[s]}
        /\ UNCHANGED <<invitations, joined, left>>
    BY <1>3, <2>1 DEF ReadWorkspace, history, TypeOK
  <2> QED BY <2>1, <2>2 DEF Read, ScopesOf
<1>4. (pc[q] = pc'[q] /\ job'[q] = job[q]) \/ ReadOrganization(q) \/ ReadWorkspace(q)
  <2>1. ASSUME NEW r \in Requests, Request(r), r # q PROVE pc[q] = pc'[q] /\ job'[q] = job[q]
    BY <2>1 DEF Request, CreateCheck, CreateLookup, CreateInsert, AcceptLoad, RevokeLoad, ResendLoad,
       ReadOrganization, ReadWorkspace, Join, ExpireCommit, RevokeCommit, ResendCommit, Fail, Decide,
       End, Goto, TypeOK
  <2>2. ASSUME Request(q) PROVE ReadOrganization(q) \/ ReadWorkspace(q)
    BY <2>2 DEF Request, CreateCheck, CreateLookup, CreateInsert, AcceptLoad, RevokeLoad, ResendLoad,
       Join, ExpireCommit, RevokeCommit, ResendCommit, Fail, Decide, End, Goto, TypeOK
  <2> QED BY <2>1, <2>2 DEF Next, Register, Remove, Lapse, vars
<1> QED BY <1>1, <1>2, <1>3, <1>4

\* A commit that accepts has inserted every membership that was missing.
LEMMA AcceptedNext == TypeOK /\ ReadSoFar /\ AcceptedIsMember /\ [Next]_vars => AcceptedIsMember'
<1> SUFFICES ASSUME TypeOK, ReadSoFar, AcceptedIsMember, [Next]_vars,
                    NEW i \in DOMAIN invitations', invitations'[i].status = "accepted",
                    NEW s \in ScopesOf(invitations'[i])
             PROVE  invitations'[i].email \in joined'[s] \cup left'[s]
  BY DEF AcceptedIsMember
<1>1. ASSUME i \in DOMAIN invitations, invitations[i].status = "accepted"
      PROVE  invitations'[i].email \in joined'[s] \cup left'[s]
  <2>1. invitations[i] \in Rows
    BY <1>1, ElementOfSeq DEF TypeOK
  <2>2. s \in ScopesOf(invitations[i]) /\ s \in Scopes
    BY <1>1, <2>1, RowsKeepPlace DEF ScopesOf, Rows, Scopes
  <2> QED BY <1>1, <2>2, RowsKeepPlace, NobodyForgotten DEF AcceptedIsMember
<1>2. ASSUME NEW r \in Requests, Join(r), i = job[r].id
      PROVE  invitations'[i].email \in joined'[s] \cup left'[s]
  <2> DEFINE fails == TakenBy(r, "accepted") \/
                        \E x \in job[r].missing : invitations[job[r].id].email \in joined[x]
  <2>1. i \in DOMAIN invitations
    BY <1>2 DEF Join, TypeOK, JobOK, OnRow, Joining
  <2>2. s \in ScopesOf(invitations[i]) /\ invitations'[i].email = invitations[i].email
    BY <2>1, RowsKeepPlace DEF ScopesOf
  <2>3. CASE fails
    <3>1. invitations' = invitations
      BY <1>2, <2>3 DEF Join, Decide
    <3> QED BY <1>1, <2>1, <3>1
  <2>4. invitations[i] \in Rows
    BY <2>1, ElementOfSeq DEF TypeOK
  <2>5. s \in Scopes
    BY <2>2, <2>4 DEF ScopesOf, Rows, Scopes
  <2>6. CASE ~fails /\ s \in job[r].missing
    BY <1>2, <2>2, <2>5, <2>6 DEF Join
  <2>7. CASE s \notin job[r].missing
    <3>1. invitations[i].email \in joined[s] \cup left[s]
      BY <1>2, <2>2, <2>7 DEF ReadSoFar, Read, Join
    <3> QED BY <2>2, <2>5, <3>1, NobodyForgotten
  <2> QED BY <2>3, <2>6, <2>7
<1>3. \/ i \in DOMAIN invitations /\ invitations[i].status = "accepted"
      \/ \E r \in Requests : Join(r) /\ i = job[r].id
  <2>1. ASSUME NEW r \in Requests, Join(r), i # job[r].id
        PROVE  i \in DOMAIN invitations /\ invitations[i].status = "accepted"
    BY <2>1 DEF Join, Decide, TypeOK
  <2>2. ASSUME NEW r \in Requests, CreateInsert(r), NewRow(r)
        PROVE  i \in DOMAIN invitations /\ invitations[i].status = "accepted"
    BY <2>2 DEF NewRow
  <2>3. CASE SameRows
    BY <2>3 DEF SameRows
  <2>4. ASSUME NEW r \in Requests, ExpireCommit(r) \/ RevokeCommit(r)
        PROVE  i \in DOMAIN invitations /\ invitations[i].status = "accepted"
    <3>1. PICK status \in {"expired", "cancelled"}, fails \in BOOLEAN : Decide(r, status, fails)
      BY <2>4 DEF ExpireCommit, RevokeCommit, TakenBy, Taken
    <3>2. pc[r] \in OnRow /\ status \in Statuses \ {"pending"}
      BY <2>4 DEF ExpireCommit, RevokeCommit, OnRow, Statuses
    <3>3. /\ fails => SameRows
          /\ ~fails => DecidedRow(r) /\ invitations'[job[r].id].status = status
      BY <3>1, <3>2, DecideCases
    <3>4. fails \/ i # job[r].id
      BY <3>3
    <3>5. CASE fails
      <4>1. SameRows
        BY <3>3, <3>5
      <4> QED BY <4>1 DEF SameRows
    <3>6. CASE ~fails
      <4>1. DecidedRow(r) /\ i # job[r].id
        BY <3>3, <3>4, <3>6
      <4> QED BY <4>1 DEF DecidedRow
    <3> QED BY <3>5, <3>6
  <2>5. ASSUME NEW r \in Requests, CreateInsert(r)
        PROVE  SameRows \/ NewRow(r)
    BY <2>5, InsertCases
  <2>6. ASSUME NEW r \in Requests, ResendCommit(r) PROVE SameRows
    <3>1. job[r].id \in DOMAIN invitations
      BY <2>6 DEF ResendCommit, TypeOK, JobOK, OnRow
    <3> QED BY <2>6, <3>1, TimeKeepsRows DEF ResendCommit
  <2>7. ASSUME NEW k \in DOMAIN invitations, Lapse(k) PROVE SameRows
    BY <2>7, TimeKeepsRows DEF Lapse
  <2>8. CASE invitations' = invitations
    BY <2>8 DEF SameRows
  <2> QED BY <2>1, <2>2, <2>3, <2>4, <2>5, <2>6, <2>7, <2>8 DEF Next, Request, CreateCheck,
          CreateLookup, AcceptLoad, RevokeLoad, ResendLoad, ReadOrganization, ReadWorkspace, Fail,
          Register, Remove, vars
<1> QED BY <1>1, <1>2, <1>3

\* Whoever has accepted an invitation is a member of its scopes unless they were
\* removed, though what the request had read of them may be long out of date.
THEOREM AcceptedIsMemberHolds == Spec => []AcceptedIsMember
<1>1. Init => ReadSoFar /\ AcceptedIsMember
  BY DEF Init, ReadSoFar, AcceptedIsMember
<1> QED BY <1>1, ReadNext, AcceptedNext, TypeCorrect, PTL DEF Spec
=============================================================================
