-------------------------- MODULE MembershipProofs --------------------------
(* What TLAPS proves of Membership: its type invariant, and that an owner    *)
(* remains for any number of users, roles and concurrent requests.           *)
EXTENDS Membership, FiniteSetTheorems, TLAPS

-----------------------------------------------------------------------------
(* Type correctness                                                        *)

\* A scope is created within its type, with its creator as the owner.
LEMMA TypeInit == Init => TypeOK
<1> SUFFICES ASSUME Init PROVE TypeOK
  OBVIOUS
<1>1. PICK u \in Users : members = [i \in Ids |->
        IF i = 1 THEN [user_id |-> u, member_role |-> "owner", role_id |-> NULL] ELSE NoRow]
  BY DEF Init
<1>2. [user_id |-> u, member_role |-> "owner", role_id |-> NULL] \in MemberRows
  BY DEF MemberRows, Keys, OwnerKeys
<1>3. members \in [Ids -> MemberRows \cup {NoRow}]
  BY <1>1, <1>2
<1> QED BY <1>3, ConstantsAssumption DEF Init, TypeOK

\* What a request makes of a row is a row.
LEMMA WrittenType ==
  ASSUME TypeOK, NEW r \in Requests, pc[r] = "commit"
  PROVE  Written(r) \in MemberRows \cup {NoRow}
<1>1. job[r] \in Jobs
  BY DEF TypeOK
<1>2. members[job[r].id] \in MemberRows \cup {NoRow} /\ job[r].row \in MemberRows
  BY <1>1 DEF TypeOK, Jobs
<1>3. CASE members[job[r].id] = NoRow \/ job[r].op = "remove"
  BY <1>3 DEF Written
<1>4. CASE ~(members[job[r].id] = NoRow \/ job[r].op = "remove")
  <2>1. members[job[r].id] \in MemberRows
    BY <1>2, <1>4
  <2>2. job[r].member_role \in Keys /\ job[r].role_id \in Roles \cup {NULL}
    BY <1>1, <1>4 DEF Jobs
  <2>3. Column(members[job[r].id].member_role, job[r].row.member_role, job[r].member_role) \in Keys
    BY <2>1, <2>2 DEF Column, MemberRows
  <2>4. Column(members[job[r].id].role_id, job[r].row.role_id, job[r].role_id) \in Roles \cup {NULL}
    BY <2>1, <2>2 DEF Column, MemberRows
  <2> QED BY <1>4, <2>1, <2>3, <2>4 DEF Written, MemberRows
<1> QED BY <1>3, <1>4

\* Every step of a request, and of those who write beside it, stays in the type.
LEMMA TypeNext == TypeOK /\ [Next]_vars => TypeOK'
<1> SUFFICES ASSUME TypeOK, [Next]_vars PROVE TypeOK'
  OBVIOUS
<1> USE ConstantsAssumption
<1>1. ASSUME NEW r \in Requests, NEW i \in Ids, RemoveLoad(r, i) PROVE TypeOK'
  <2>1. members[i] \in MemberRows
    BY <1>1 DEF RemoveLoad, TypeOK
  <2>2. [op |-> "remove", id |-> i, row |-> members[i]] \in Jobs
    BY <2>1 DEF Jobs
  <2> QED BY <1>1, <2>2 DEF RemoveLoad, TypeOK, history
<1>2. ASSUME NEW r \in Requests, NEW i \in Ids, NEW data \in Updates, UpdateLoad(r, i, data)
      PROVE  TypeOK'
  <2>1. members[i] \in MemberRows
    BY <1>2 DEF UpdateLoad, TypeOK
  <2>2. data \in [member_role : Keys \cup {NULL}, role_id : Roles \cup {NULL}]
    OBVIOUS
  <2>3. _member_role_from_update(data, members[i].member_role) \in Keys
    BY <2>1, <2>2 DEF _member_role_from_update, MemberRows, TypeOK
  <2>4. [op |-> "update", id |-> i, row |-> members[i],
         member_role |-> _member_role_from_update(data, members[i].member_role),
         role_id |-> data.role_id] \in Jobs
    BY <2>1, <2>2, <2>3 DEF Jobs
  <2> QED BY <1>2, <2>4 DEF UpdateLoad, TypeOK, history
<1>3. ASSUME NEW r \in Requests, _ensure_not_last_owner(r) PROVE TypeOK'
  BY <1>3 DEF _ensure_not_last_owner, TypeOK
<1>4. ASSUME NEW r \in Requests, Commit(r) PROVE TypeOK'
  <2>1. Written(r) \in MemberRows \cup {NoRow}
    BY <1>4, WrittenType DEF Commit
  <2> QED BY <1>4, <2>1 DEF Commit, TypeOK, Overtakes
<1>5. ASSUME NEW r \in Requests, Fail(r) PROVE TypeOK'
  BY <1>5 DEF Fail, TypeOK
<1>6. ASSUME NEW u \in Users, NEW role_id \in Roles \cup {NULL}, AddMember(u, role_id)
      PROVE  TypeOK'
  <2>1. [user_id |-> u, member_role |-> "member", role_id |-> role_id] \in MemberRows
    BY DEF MemberRows, Keys
  <2> QED BY <1>6, <2>1 DEF AddMember, TypeOK, history
<1>7. ASSUME NEW role \in Roles, NEW row \in RoleRows, RoleUpdate(role, row) PROVE TypeOK'
  BY <1>7 DEF RoleUpdate, TypeOK
<1>8. CASE UNCHANGED vars
  BY <1>8 DEF vars, history, TypeOK
<1> QED BY <1>1, <1>2, <1>3, <1>4, <1>5, <1>6, <1>7, <1>8 DEF Next, Request

\* Every reachable membership table, role table and request is in its type.
THEOREM TypeCorrect == Spec => []TypeOK
BY TypeInit, TypeNext, PTL DEF Spec

-----------------------------------------------------------------------------
(* An owner remains                                                        *)

\* The owners beside the member a request is about.
Others(r) == Owners(members, roles) \ {job[r].id}

\* The commit of r makes, or leaves, its member an owner by title.
Promotes(r) ==
  /\ job[r].op = "update" /\ job[r].member_role = "owner"
  /\ members[job[r].id] # NoRow
  /\ job[r].row.member_role = "owner" => members[job[r].id].member_role = "owner"

\* What a request that is not overtaken may rely on.
Harmless(r) ==
  /\ pc[r] = "check" /\ ~_is_owner(job[r].row, roles) => Others(r) # {}
  /\ pc[r] = "commit" => Others(r) # {} \/ Promotes(r)

OwnerInv ==
  \/ excused
  \/ /\ Owners(members, roles) # {}
     /\ \A r \in Requests : pc[r] # "idle" /\ r \notin overtaken => Harmless(r)

\* A new scope has its creator as an owner and nothing under way.
LEMMA OwnerInit == Init => OwnerInv
<1> SUFFICES ASSUME Init PROVE OwnerInv
  OBVIOUS
<1>1. PICK u \in Users : members = [i \in Ids |->
        IF i = 1 THEN [user_id |-> u, member_role |-> "owner", role_id |-> NULL] ELSE NoRow]
  BY DEF Init
<1>2. 1 \in Ids
  BY ConstantsAssumption DEF Ids
<1>3. members[1] # NoRow /\ members[1].member_role = "owner"
  <2>1. [user_id |-> u, member_role |-> "owner", role_id |-> NULL] \in MemberRows
    BY ConstantsAssumption DEF MemberRows, Keys, OwnerKeys
  <2> QED BY <1>1, <1>2, <2>1, ConstantsAssumption
<1>4. 1 \in Owners(members, roles)
  BY <1>2, <1>3 DEF Owners, _is_owner, OwnerKeys
<1> QED BY <1>4 DEF OwnerInv, Init

\* More than one owner listed leaves one beside the loaded member.
LEMMA AnotherOwner ==
  ASSUME NEW r \in Requests, Cardinality(Owners(Listed(r), roles)) > 1
  PROVE  Others(r) # {}
<1> DEFINE S == Owners(Listed(r), roles)
<1>1. IsFiniteSet(S)
  <2>1. IsFiniteSet(Ids)
    BY FS_Interval, ConstantsAssumption DEF Ids
  <2> QED BY <2>1, FS_Subset DEF Owners
<1>2. ~(S \subseteq {job[r].id})
  <2> SUFFICES ASSUME S \subseteq {job[r].id} PROVE FALSE
    OBVIOUS
  <2>1. IsFiniteSet({job[r].id}) /\ Cardinality({job[r].id}) = 1
    BY FS_Singleton
  <2>2. Cardinality(S) <= 1
    BY <2>1, FS_Subset
  <2>3. Cardinality(S) \in Nat
    BY <1>1, FS_CardinalityType
  <2> QED BY <2>2, <2>3
<1>3. PICK j \in S : j # job[r].id
  BY <1>2
<1>4. j \in Owners(members, roles)
  BY <1>3 DEF Owners, Listed
<1> QED BY <1>3, <1>4 DEF Others

\* A step that takes no ownership and leaves the jobs and the rows they are
\* about as they were keeps the invariant.
LEMMA NobodyLoses ==
  ASSUME OwnerInv, ~excused, overtaken' = overtaken, pc' = pc, job' = job,
         Owners(members, roles) \subseteq Owners(members', roles'),
         \A i \in Ids : members[i] # NoRow => members'[i] = members[i],
         \A row \in MemberRows : _is_owner(row, roles) => _is_owner(row, roles'),
         TypeOK
  PROVE  OwnerInv'
<1>1. Owners(members', roles') # {}
  BY DEF OwnerInv
<1>2. ASSUME NEW r \in Requests, pc'[r] # "idle", r \notin overtaken' PROVE Harmless(r)'
  <2>1. Harmless(r) /\ job[r] \in Jobs
    BY <1>2 DEF OwnerInv, TypeOK
  <2>2. job[r].id \in Ids /\ job[r].row \in MemberRows
    BY <2>1 DEF Jobs
  <2>3. Others(r) \subseteq Others(r)'
    BY DEF Others
  <2>4. Promotes(r) => Promotes(r)'
    BY <2>2 DEF Promotes
  <2> QED BY <2>1, <2>2, <2>3, <2>4 DEF Harmless
<1> QED BY <1>1, <1>2 DEF OwnerInv

\* A commit that was not overtaken leaves an owner, and harms no other request
\* that it does not overtake.
LEMMA CommitOwner ==
  ASSUME TypeOK, OwnerInv, ~excused, NEW q \in Requests, Commit(q), q \notin overtaken
  PROVE  OwnerInv'
<1> DEFINE i == job[q].id
           Own == Owners(members, roles)
<1>1. job[q] \in Jobs /\ i \in Ids /\ roles' = roles /\ pc[q] = "commit"
  BY DEF TypeOK, Jobs, Commit
<1>2. members' = [members EXCEPT ![i] = Written(q)] /\ members \in [Ids -> MemberRows \cup {NoRow}]
  BY DEF Commit, TypeOK
<1>3. Own \ {i} = Owners(members', roles') \ {i}
  BY <1>1, <1>2 DEF Owners
<1>4. Own \ {i} # {} \/ Promotes(q)
  BY <1>1 DEF OwnerInv, Harmless, Others
<1>5. Promotes(q) => members'[i] # NoRow /\ members'[i].member_role = "owner"
  <2> SUFFICES ASSUME Promotes(q) PROVE members'[i] # NoRow /\ members'[i].member_role = "owner"
    OBVIOUS
  <2>1. members[i] # NoRow /\ job[q].op = "update" /\ job[q].member_role = "owner"
    BY DEF Promotes
  <2>2. members'[i] = Written(q) /\ Written(q) \in MemberRows \cup {NoRow}
    BY <1>1, <1>2, WrittenType
  <2>3. Written(q) =
          [user_id |-> members[i].user_id,
           member_role |-> Column(members[i].member_role, job[q].row.member_role, "owner"),
           role_id |-> Column(members[i].role_id, job[q].row.role_id, job[q].role_id)]
    BY <2>1 DEF Written
  <2>4. Column(members[i].member_role, job[q].row.member_role, "owner") = "owner"
    BY DEF Column, Promotes
  <2>5. Written(q).member_role = "owner"
    BY <2>3, <2>4
  <2>6. Written(q) # NoRow
    BY <2>3, <2>1, <1>1, <1>2, ConstantsAssumption, <2>4 DEF MemberRows, Keys, OwnerKeys, Column, Jobs
  <2> QED BY <2>2, <2>5, <2>6
<1>6. Owners(members', roles') # {}
  <2>1. CASE Own \ {i} # {}
    BY <2>1, <1>3
  <2>2. CASE Promotes(q)
    BY <2>2, <1>1, <1>5 DEF Owners, _is_owner, OwnerKeys
  <2> QED BY <2>1, <2>2, <1>4
<1>7. ASSUME NEW r \in Requests, pc'[r] # "idle", r \notin overtaken' PROVE Harmless(r)'
  <2>1. pc'[r] = pc[r] /\ job'[r] = job[r] /\ r # q
    BY <1>7 DEF Commit, TypeOK
  <2>2. r \notin overtaken /\ Own \ (Owners(members', roles') \cup {job[r].id}) = {}
    BY <1>7, <2>1, <1>1 DEF Commit, Overtakes
  <2>3. Harmless(r) /\ job[r] \in Jobs
    BY <2>1, <2>2, <1>7 DEF OwnerInv, TypeOK
  <2>4. job[r].id \in Ids
    BY <2>3 DEF Jobs
  <2>5. Others(r) \subseteq Others(r)'
    <3> SUFFICES ASSUME NEW j \in Own, j # job[r].id PROVE j \in Owners(members', roles')
      BY <2>1 DEF Others
    <3> QED BY <2>2
  <2>6. CASE job[r].id # i
    <3>1. members'[job[r].id] = members[job[r].id]
      BY <2>4, <2>6, <1>2
    <3> QED BY <2>1, <2>3, <2>5, <3>1, <1>1 DEF Harmless, Promotes
  <2>7. CASE job[r].id = i /\ Own \ {i} # {}
    <3>1. Others(r)' # {}
      BY <2>5, <2>7 DEF Others
    <3> QED BY <3>1 DEF Harmless
  <2>8. CASE job[r].id = i /\ Own \ {i} = {}
    <3>1. Promotes(q) /\ Others(r) = {}
      BY <1>4, <2>8 DEF Others
    <3>2. Promotes(r) => Promotes(r)'
      BY <3>1, <1>5, <2>8, <2>1 DEF Promotes
    <3> QED BY <2>1, <2>3, <3>1, <3>2, <1>1 DEF Harmless
  <2> QED BY <2>6, <2>7, <2>8
<1> QED BY <1>6, <1>7 DEF OwnerInv

\* No step, whoever makes it, breaks the invariant.
LEMMA OwnerNext == TypeOK /\ OwnerInv /\ [Next]_vars => OwnerInv'
<1> SUFFICES ASSUME TypeOK, OwnerInv, [Next]_vars PROVE OwnerInv'
  OBVIOUS
<1>0. CASE excused
  BY <1>0 DEF Next, Request, OwnerInv, vars, history, RemoveLoad, UpdateLoad,
     _ensure_not_last_owner, Commit, Fail, AddMember, RoleUpdate
<1> SUFFICES ASSUME ~excused PROVE OwnerInv'
  BY <1>0
<1>a. Owners(members, roles) # {} /\ overtaken \subseteq {r \in Requests : pc[r] # "idle"}
  BY DEF OwnerInv, TypeOK
<1>1. ASSUME NEW r \in Requests, NEW i \in Ids, RemoveLoad(r, i) PROVE OwnerInv'
  <2>1. pc[r] = "idle" /\ pc'[r] = "check" /\ job'[r].row = members[i] /\ job'[r].id = i
    BY <1>1 DEF RemoveLoad, TypeOK
  <2>2. members' = members /\ roles' = roles /\ overtaken' = overtaken
    BY <1>1 DEF RemoveLoad, history
  <2>3. ~_is_owner(members[i], roles) => Owners(members, roles) \ {i} # {}
    BY <1>a DEF Owners
  <2>4. Harmless(r)'
    BY <2>1, <2>2, <2>3 DEF Harmless, Others
  <2>5. ASSUME NEW q \in Requests \ {r}, pc'[q] # "idle", q \notin overtaken' PROVE Harmless(q)'
    <3>1. pc'[q] = pc[q] /\ job'[q] = job[q] /\ Harmless(q)
      BY <2>5, <2>2, <1>1 DEF RemoveLoad, TypeOK, OwnerInv
    <3> QED BY <3>1, <2>2 DEF Harmless, Others, Promotes
  <2> QED BY <2>2, <2>4, <2>5, <1>a DEF OwnerInv
<1>2. ASSUME NEW r \in Requests, NEW i \in Ids, NEW data \in Updates, UpdateLoad(r, i, data)
      PROVE  OwnerInv'
  <2> DEFINE next == _member_role_from_update(data, members[i].member_role)
  <2>1. /\ pc[r] = "idle" /\ members[i] # NoRow
        /\ job'[r] = [op |-> "update", id |-> i, row |-> members[i],
                      member_role |-> next, role_id |-> data.role_id]
        /\ pc'[r] = IF _is_owner(members[i], roles) /\ next # "owner" THEN "check" ELSE "commit"
    BY <1>2 DEF UpdateLoad, TypeOK
  <2>2. members' = members /\ roles' = roles /\ overtaken' = overtaken
    BY <1>2 DEF UpdateLoad, history
  <2>3. ~_is_owner(members[i], roles) => Owners(members, roles) \ {i} # {}
    BY <1>a DEF Owners
  <2>4. pc'[r] = "commit" => Others(r)' # {} \/ Promotes(r)'
    BY <2>1, <2>2, <2>3 DEF Others, Promotes
  <2>5. pc'[r] = "check" /\ ~_is_owner(job'[r].row, roles') => Others(r)' # {}
    BY <2>1, <2>2, <2>3 DEF Others
  <2>6. Harmless(r)'
    BY <2>4, <2>5 DEF Harmless
  <2>7. ASSUME NEW q \in Requests \ {r}, pc'[q] # "idle", q \notin overtaken' PROVE Harmless(q)'
    <3>1. pc'[q] = pc[q] /\ job'[q] = job[q] /\ Harmless(q)
      BY <2>7, <2>2, <1>2 DEF UpdateLoad, TypeOK, OwnerInv
    <3> QED BY <3>1, <2>2 DEF Harmless, Others, Promotes
  <2> QED BY <2>2, <2>6, <2>7, <1>a DEF OwnerInv
<1>3. ASSUME NEW r \in Requests, _ensure_not_last_owner(r) PROVE OwnerInv'
  <2>1. members' = members /\ roles' = roles /\ pc[r] = "check"
    BY <1>3 DEF _ensure_not_last_owner
  <2>2. ASSUME NEW q \in Requests, pc'[q] # "idle", q \notin overtaken' PROVE Harmless(q)'
    <3>1. job'[q] = job[q] /\ q \notin overtaken /\ pc[q] # "idle"
      BY <2>2, <1>3 DEF _ensure_not_last_owner, TypeOK
    <3>2. Harmless(q)
      BY <3>1 DEF OwnerInv
    <3>3. CASE q # r
      <4>1. pc'[q] = pc[q]
        BY <3>3, <1>3 DEF _ensure_not_last_owner, TypeOK
      <4> QED BY <4>1, <3>1, <3>2, <2>1 DEF Harmless, Others, Promotes
    <3>4. CASE q = r
      <4>1. /\ pc'[q] = "commit"
            /\ Cardinality(Owners(Listed(q), roles)) > 1 \/ ~_is_owner(job[q].row, roles)
        BY <3>4, <2>2, <1>3 DEF _ensure_not_last_owner, TypeOK
      <4>2. Others(q) # {}
        BY <4>1, <3>2, <3>4, <2>1, AnotherOwner DEF Harmless
      <4> QED BY <4>1, <4>2, <3>1, <2>1 DEF Harmless, Others
    <3> QED BY <3>3, <3>4
  <2> QED BY <2>1, <2>2, <1>a DEF OwnerInv
<1>4. ASSUME NEW r \in Requests, Commit(r) PROVE OwnerInv'
  <2>1. CASE r \in overtaken
    BY <2>1, <1>4 DEF Commit, OwnerInv
  <2>2. CASE r \notin overtaken
    BY <2>2, <1>4, CommitOwner
  <2> QED BY <2>1, <2>2
<1>5. ASSUME NEW r \in Requests, Fail(r) PROVE OwnerInv'
  <2>1. members' = members /\ roles' = roles
    BY <1>5 DEF Fail
  <2>2. ASSUME NEW q \in Requests, pc'[q] # "idle", q \notin overtaken' PROVE Harmless(q)'
    <3>1. pc'[q] = pc[q] /\ job'[q] = job[q] /\ q \notin overtaken
      BY <2>2, <1>5 DEF Fail, TypeOK
    <3> QED BY <3>1, <2>1, <2>2 DEF OwnerInv, Harmless, Others, Promotes
  <2> QED BY <2>1, <2>2, <1>a DEF OwnerInv
<1>6. ASSUME NEW u \in Users, NEW role_id \in Roles \cup {NULL}, AddMember(u, role_id)
      PROVE  OwnerInv'
  <2>1. PICK k \in Ids :
          /\ members[k] = NoRow
          /\ members' = [members EXCEPT ![k] =
                           [user_id |-> u, member_role |-> "member", role_id |-> role_id]]
    <3>1. PICK k \in Ids :
            /\ \A j \in Ids : members[j] # NoRow => j < k
            /\ members' = [members EXCEPT ![k] =
                             [user_id |-> u, member_role |-> "member", role_id |-> role_id]]
      BY <1>6 DEF AddMember
    <3>2. ~(k < k)
      BY ConstantsAssumption DEF Ids
    <3> QED BY <3>1, <3>2
  <2>2. \A i \in Ids : members[i] # NoRow => members'[i] = members[i]
    BY <2>1 DEF TypeOK
  <2>3. roles' = roles /\ pc' = pc /\ job' = job /\ overtaken' = overtaken
    BY <1>6 DEF AddMember, history
  <2>4. Owners(members, roles) \subseteq Owners(members', roles')
    BY <2>2, <2>3 DEF Owners
  <2> QED BY <2>2, <2>3, <2>4, NobodyLoses
<1>7. ASSUME NEW role \in Roles, NEW row \in RoleRows, RoleUpdate(role, row) PROVE OwnerInv'
  <2>1. CASE excused'
    BY <2>1 DEF OwnerInv
  <2>2. CASE ~excused'
    <3>1. OwnerRole(role, roles) => OwnerRole(role, roles')
      BY <2>2, <1>7 DEF RoleUpdate
    <3>2. \A r \in Roles : OwnerRole(r, roles) => OwnerRole(r, roles')
      BY <3>1, <1>7 DEF RoleUpdate, OwnerRole, TypeOK
    <3>3. \A m \in MemberRows : _is_owner(m, roles) => _is_owner(m, roles')
      BY <3>2 DEF _is_owner, MemberRows
    <3>4. members' = members /\ pc' = pc /\ job' = job /\ overtaken' = overtaken
      BY <1>7 DEF RoleUpdate
    <3>5. Owners(members, roles) \subseteq Owners(members', roles')
      BY <3>3, <3>4 DEF Owners, TypeOK
    <3> QED BY <3>3, <3>4, <3>5, NobodyLoses
  <2> QED BY <2>1, <2>2
<1>8. CASE UNCHANGED vars
  BY <1>8 DEF vars, OwnerInv, Harmless, Others, Promotes
<1> QED BY <1>1, <1>2, <1>3, <1>4, <1>5, <1>6, <1>7, <1>8 DEF Next, Request

\* However many requests run, on whatever members and in whatever order, an
\* owner is left, unless a request commits after another member lost ownership
\* behind its back or a role of owners is taken away.
THEOREM OwnerRemainsHolds == Spec => []OwnerRemains
<1>1. OwnerInv => OwnerRemains
  BY DEF OwnerInv, OwnerRemains
<1> QED BY <1>1, TypeInit, TypeNext, OwnerInit, OwnerNext, PTL DEF Spec
=============================================================================
