---------------------------- MODULE AccessProofs ----------------------------
(***************************************************************************)
(* What holds of a user's roles, in the two parts of Services that are     *)
(* about AccessControl, for all scopes, roles, calls and ids.              *)
(***************************************************************************)
EXTENDS Services, FiniteSetTheorems, WellFoundedInduction, TLAPS

\* A set of ids has a largest one.
LEMMA HasMax ==
  ASSUME NEW n \in Nat, NEW S, S \subseteq 0..n, S # {}
  PROVE  \E x \in S : \A y \in S : x >= y
<1> DEFINE T == {n - x : x \in S}
<1>1. T \subseteq Nat
  OBVIOUS
<1> HIDE DEF T
<1>0. T # {}
  <2>1. PICK x \in S : TRUE
    OBVIOUS
  <2>2. n - x \in T
    BY DEF T
  <2> QED BY <2>2
<1>2. \E t \in T : \A u \in T : ~ (<<u, t>> \in OpToRel(<, Nat))
  BY <1>0, <1>1, NatLessThanWellFounded, WFMin
<1>3. PICK t \in T : \A u \in T : ~ (u < t)
  BY <1>1, <1>2 DEF OpToRel
<1>4. PICK x \in S : t = n - x
  BY <1>3 DEF T
<1>5. ASSUME NEW y \in S PROVE x >= y
  <2>1. ~ (n - y < t)
    BY <1>3 DEF T
  <2> QED BY <2>1, <1>4
<1> QED BY <1>4, <1>5

-----------------------------------------------------------------------------
(* The scopes above a scope: at most two and the platform, so the recursion *)
(* is unfolded                                                             *)

Platforms == {t \in Scopes : Kind[t] = "platform"}
AboveOf == [t \in Scopes |->
  CASE Kind[t] = "platform" -> Platforms
    [] Kind[t] = "organization" -> {t} \cup Platforms
    [] Kind[t] = "workspace" -> {t, Parent[t]} \cup Platforms
    [] OTHER -> {t, Parent[t], Parent[Parent[t]]} \cup Platforms]
Climbs(f) == f = [t \in Scopes |->
  IF Kind[t] = "platform" THEN {u \in Scopes : Kind[u] = "platform"} ELSE {t} \cup f[Parent[t]]]

LEMMA ParentIs ==
  ASSUME NEW t \in Scopes, Kind[t] # "platform"
  PROVE  /\ Parent[t] \in Scopes
         /\ Kind[t] = "organization" => Kind[Parent[t]] = "platform"
         /\ Kind[t] = "workspace" => Kind[Parent[t]] = "organization"
         /\ Kind[t] \in {"project", "team"} => Kind[Parent[t]] = "workspace"
BY ScopeAssumption

LEMMA AboveIs ==
  ASSUME NEW f, Climbs(f), NEW s \in Scopes
  PROVE  f[s] = AboveOf[s]
<1>1. \A t \in Scopes : f[t] = IF Kind[t] = "platform" THEN Platforms ELSE {t} \cup f[Parent[t]]
  BY DEF Climbs, Platforms
<1> HIDE DEF Platforms
<1>2. ASSUME NEW t \in Scopes, Kind[t] = "organization" PROVE f[t] = {t} \cup Platforms
  BY <1>1, <1>2, ParentIs
<1>3. ASSUME NEW t \in Scopes, Kind[t] = "workspace" PROVE f[t] = {t, Parent[t]} \cup Platforms
  <2>1. Parent[t] \in Scopes /\ Kind[Parent[t]] = "organization"
    BY <1>3, ParentIs
  <2>2. f[Parent[t]] = {Parent[t]} \cup Platforms
    BY <1>2, <2>1
  <2> QED BY <1>1, <1>3, <2>2
<1>4. ASSUME NEW t \in Scopes, Kind[t] \in {"project", "team"}
      PROVE  f[t] = {t, Parent[t], Parent[Parent[t]]} \cup Platforms
  <2>1. Parent[t] \in Scopes /\ Kind[Parent[t]] = "workspace"
    BY <1>4, ParentIs
  <2>2. f[Parent[t]] = {Parent[t], Parent[Parent[t]]} \cup Platforms
    BY <1>3, <2>1
  <2> QED BY <1>1, <1>4, <2>2
<1> QED BY <1>1, <1>2, <1>3, <1>4, ScopeAssumption DEF AboveOf

LEMMA AboveClimbs == Climbs(AboveOf)
<1>1. ASSUME NEW t \in Scopes
      PROVE  AboveOf[t] = IF Kind[t] = "platform" THEN Platforms ELSE {t} \cup AboveOf[Parent[t]]
  <2>1. CASE Kind[t] = "platform"
    BY <2>1 DEF AboveOf
  <2>2. CASE Kind[t] = "organization"
    <3>1. AboveOf[Parent[t]] = Platforms
      BY <2>2, ParentIs DEF AboveOf
    <3> QED BY <2>2, <3>1 DEF AboveOf
  <2>3. CASE Kind[t] = "workspace"
    <3>1. AboveOf[Parent[t]] = {Parent[t]} \cup Platforms
      BY <2>3, ParentIs DEF AboveOf
    <3> QED BY <2>3, <3>1 DEF AboveOf
  <2>4. CASE Kind[t] \in {"project", "team"}
    <3>1. AboveOf[Parent[t]] = {Parent[t], Parent[Parent[t]]} \cup Platforms
      BY <2>4, ParentIs DEF AboveOf
    <3>2. AboveOf[t] = {t, Parent[t], Parent[Parent[t]]} \cup Platforms
      BY <2>4 DEF AboveOf
    <3> QED BY <2>4, <3>1, <3>2
  <2> QED BY <2>1, <2>2, <2>3, <2>4, ScopeAssumption
<1>2. AboveOf = [t \in Scopes |-> AboveOf[t]]
  BY DEF AboveOf
<1> QED BY <1>1, <1>2 DEF Climbs, Platforms

LEMMA GrantingAbove ==
  ASSUME NEW s \in Scopes
  PROVE  Granting!Above[s] = AboveOf[s]
<1>1. Granting!Above = CHOOSE f : Climbs(f)
  BY DEF Granting!Above, Climbs
<1>2. Climbs(Granting!Above)
  BY <1>1, AboveClimbs
<1> QED BY <1>2, AboveIs

LEMMA AssigningAbove ==
  ASSUME NEW s \in Scopes
  PROVE  Assigning!Above[s] = AboveOf[s]
<1>1. Assigning!Above = CHOOSE f : Climbs(f)
  BY DEF Assigning!Above, Climbs
<1>2. Climbs(Assigning!Above)
  BY <1>1, AboveClimbs
<1> QED BY <1>2, AboveIs
-----------------------------------------------------------------------------
(* Assignments                                                             *)

active == s1
closed == s2
user_roles == s3
assignments == s4
members == s5
asking == s6
revoked == s7
doubled == s8
USE DEF active, closed, user_roles, assignments, members, asking, revoked, doubled

Statuses == {"active", "revoked"}
Rows(Rl) == [role : Rl, scope : Scopes, status : Statuses]
Calls(Rl, Ids) ==
  [at : {"idle", "write"}, role : Rl \cup {NULL}, scope : Scopes \cup {NULL},
   status : Statuses \cup {NULL}, existing : Ids \cup {0}]
Free == [at |-> "idle", role |-> NULL, scope |-> NULL, status |-> NULL, existing |-> 0]

\* A row, and a call, about a role in a scope.
Is(row, role, s) == row # NULL /\ row.role = role /\ row.scope = s
Asks(call, role, s) == call.at = "write" /\ call.role = role /\ call.scope = s

\* A user's row in a scope: none on the platform; what counts of it is its role, or a
\* text for the role in an organization or a workspace.
MemberOf(row, s) ==
  row # NULL => /\ Kind[s] # "platform"
                /\ Kind[s] \in {"organization", "workspace"} => row.status = "active"
                /\ Kind[s] \in {"project", "team"} => row.legacy = NULL

AccessType(Req, Rl, Ids) ==
  /\ active \subseteq Rl
  /\ assignments \in [Ids -> Rows(Rl) \cup {NULL}]
  /\ members = [s \in Scopes |-> members[s]] /\ \A s \in Scopes : MemberOf(members[s], s)
  /\ asking \in [Req -> Calls(Rl, Ids)] /\ revoked \subseteq Rl \X Scopes
  /\ \A r \in Req : asking[r].at = "write" =>
       /\ asking[r].role \in Rl /\ asking[r].scope \in Scopes /\ asking[r].status \in Statuses
       /\ asking[r].existing # 0 => assignments[asking[r].existing] # NULL
  /\ \A r \in Req : asking[r].at = "idle" => asking[r].existing = 0

\* One row for a role in a scope.
Once(Rl, Ids, as, dbl) ==
  \A role \in Rl, s \in Scopes : s # "platform" \/ <<role, s>> \notin dbl =>
    \A a, b \in Ids : Is(as[a], role, s) /\ Is(as[b], role, s) => a = b

\* One call that will write of it, and none that will create it beside a row.
Waiting(Req, Rl, Ids, as, ask, dbl) ==
  \A role \in Rl, s \in Scopes : <<role, s>> \notin dbl =>
    /\ \A q, r \in Req : Asks(ask[q], role, s) /\ Asks(ask[r], role, s) => q = r
    /\ \A r \in Req : Asks(ask[r], role, s) /\ ask[r].existing = 0 => \A a \in Ids : ~Is(as[a], role, s)

\* What was revoked is not active, and no call will make it so.
Gone(Req, Rl, Ids, as, ask, rvk, dbl) ==
  \A role \in Rl, s \in Scopes : <<role, s>> \in rvk /\ <<role, s>> \notin dbl =>
    /\ \A a \in Ids : Is(as[a], role, s) =>
         as[a].status # "active" /\ \A r \in Req : ask[r].existing # a
    /\ \A r \in Req : ~Asks(ask[r], role, s)

AccessInv(Req, Rl, Ids) ==
  /\ AccessType(Req, Rl, Ids)
  /\ Once(Rl, Ids, assignments, doubled)
  /\ Waiting(Req, Rl, Ids, assignments, asking, doubled)
  /\ Gone(Req, Rl, Ids, assignments, asking, revoked, doubled)

\* create_role_assignment, up to its lookup.
LEMMA Begins ==
  ASSUME NEW Req, NEW Rl, NEW Ids, 0 \notin Ids, AccessInv(Req, Rl, Ids),
         NEW r \in Req, NEW role \in Rl, NEW s \in Scopes, NEW status \in Statuses, NEW existing \in Ids \cup {0},
         IF existing = 0 THEN \A a \in Ids : ~Is(assignments[a], role, s)
         ELSE Is(assignments[existing], role, s),
         asking' = [asking EXCEPT ![r] = [at |-> "write", role |-> role, scope |-> s, status |-> status,
                                          existing |-> existing]],
         revoked' = revoked \ {<<role, s>>},
         IF \A q \in Req : ~Asks(asking[q], role, s) THEN doubled' = doubled
         ELSE doubled' = doubled \cup {<<role, s>>},
         UNCHANGED <<active, members, assignments>>
  PROVE  AccessInv(Req, Rl, Ids)'
<1> DEFINE c == [at |-> "write", role |-> role, scope |-> s, status |-> status, existing |-> existing]
<1>1. /\ c \in Calls(Rl, Ids) /\ c.at = "write" /\ c.role = role /\ c.scope = s /\ c.status = status
      /\ c.existing = existing
  BY DEF Calls
<1>2. asking' = [asking EXCEPT ![r] = c]
  OBVIOUS
<1> HIDE DEF c
<1>3. asking' \in [Req -> Calls(Rl, Ids)] /\ \A q \in Req : asking'[q] = IF q = r THEN c ELSE asking[q]
  BY <1>1, <1>2 DEF AccessInv, AccessType
<1>4. existing # 0 => assignments[existing] # NULL
  BY DEF Is
<1>5. AccessType(Req, Rl, Ids)'
  BY <1>1, <1>3, <1>4 DEF AccessInv, AccessType
<1>6. doubled \subseteq doubled' /\ (<<role, s>> \notin doubled' => \A q \in Req : ~Asks(asking[q], role, s))
  OBVIOUS
<1>7. Once(Rl, Ids, assignments, doubled')
  BY <1>6 DEF AccessInv, Once
<1>8. Waiting(Req, Rl, Ids, assignments, asking', doubled')
  <2> SUFFICES ASSUME NEW rl \in Rl, NEW t \in Scopes, <<rl, t>> \notin doubled'
               PROVE  /\ \A q, p \in Req : Asks(asking'[q], rl, t) /\ Asks(asking'[p], rl, t) => q = p
                      /\ \A q \in Req : Asks(asking'[q], rl, t) /\ asking'[q].existing = 0
                           => \A a \in Ids : ~Is(assignments[a], rl, t)
    BY DEF Waiting
  <2>1. CASE rl = role /\ t = s
    BY <1>1, <1>3, <1>6, <2>1 DEF Asks
  <2>2. CASE ~(rl = role /\ t = s)
    <3>1. ~Asks(asking'[r], rl, t)
      BY <1>1, <1>3, <2>2 DEF Asks
    <3> QED BY <1>3, <1>6, <3>1 DEF AccessInv, Waiting
  <2> QED BY <2>1, <2>2
<1>9. Gone(Req, Rl, Ids, assignments, asking', revoked', doubled')
  <2> SUFFICES ASSUME NEW rl \in Rl, NEW t \in Scopes,
                      <<rl, t>> \in revoked', <<rl, t>> \notin doubled'
               PROVE  /\ \A a \in Ids : Is(assignments[a], rl, t) =>
                           assignments[a].status # "active" /\ \A q \in Req : asking'[q].existing # a
                      /\ \A q \in Req : ~Asks(asking'[q], rl, t)
    BY DEF Gone
  <2>1. ~(rl = role /\ t = s) /\ <<rl, t>> \in revoked /\ <<rl, t>> \notin doubled
    BY <1>6
  <2>2. /\ \A a \in Ids : Is(assignments[a], rl, t) =>
             assignments[a].status # "active" /\ \A q \in Req : asking[q].existing # a
        /\ \A q \in Req : ~Asks(asking[q], rl, t)
    BY <2>1 DEF AccessInv, Gone
  <2>3. ~Asks(asking'[r], rl, t)
    BY <1>1, <1>3, <2>1 DEF Asks
  <2>4. \A a \in Ids : Is(assignments[a], rl, t) => existing # a
    BY <2>1 DEF Is
  <2> QED BY <1>1, <1>3, <2>2, <2>3, <2>4
<1> QED BY <1>5, <1>7, <1>8, <1>9 DEF AccessInv

\* WriteAssignment: the row that was there becomes active, or a row is created.
LEMMA Writes ==
  ASSUME NEW Req, NEW Rl, NEW Ids, 0 \notin Ids, NULL \notin Rows(Rl), AccessInv(Req, Rl, Ids),
         NEW r \in Req, asking[r].at = "write", NEW a \in Ids,
         asking[r].existing # 0 => a = asking[r].existing,
         assignments' = IF asking[r].existing # 0 THEN [assignments EXCEPT ![a].status = "active"]
                        ELSE IF asking[r].scope # "platform" /\
                                \E b \in Ids : Is(assignments[b], asking[r].role, asking[r].scope)
                        THEN assignments
                        ELSE [assignments EXCEPT ![a] = [role |-> asking[r].role, scope |-> asking[r].scope,
                                                         status |-> asking[r].status]],
         asking' = [asking EXCEPT ![r] = Free],
         UNCHANGED <<active, members, revoked, doubled>>
  PROVE  AccessInv(Req, Rl, Ids)'
<1> DEFINE call == asking[r]
           taken == call.scope # "platform" /\ \E b \in Ids : Is(assignments[b], call.role, call.scope)
           made == [role |-> call.role, scope |-> call.scope, status |-> call.status]
           old == assignments[a]
           raised == [role |-> old.role, scope |-> old.scope, status |-> "active"]
<1>1. /\ call.role \in Rl /\ call.scope \in Scopes /\ call.status \in Statuses /\ call \in Calls(Rl, Ids)
      /\ call.existing # 0 => old # NULL /\ old \in Rows(Rl)
  BY DEF AccessInv, AccessType
<1>2. Free \in Calls(Rl, Ids) /\ Free.at = "idle" /\ Free.existing = 0
  BY DEF Free, Calls
<1>3. asking' \in [Req -> Calls(Rl, Ids)] /\ \A q \in Req : asking'[q] = IF q = r THEN Free ELSE asking[q]
  BY <1>2 DEF AccessInv, AccessType
<1>4. \A q \in Req : \A role, s : Asks(asking'[q], role, s) => q # r /\ Asks(asking[q], role, s)
  BY <1>2, <1>3 DEF Asks
<1>5. assignments \in [Ids -> Rows(Rl) \cup {NULL}]
  BY DEF AccessInv, AccessType
<1>6. CASE call.existing = 0 /\ taken
  <2>1. assignments' = assignments
    BY <1>6
  <2> HIDE DEF taken
  <2>2. AccessType(Req, Rl, Ids)'
    BY <1>2, <1>3, <2>1 DEF AccessInv, AccessType
  <2>3. Waiting(Req, Rl, Ids, assignments, asking', doubled)
    BY <1>3, <1>4 DEF AccessInv, Waiting
  <2>4. Gone(Req, Rl, Ids, assignments, asking', revoked, doubled)
    BY <1>2, <1>3, <1>4 DEF AccessInv, Gone
  <2> QED BY <2>1, <2>2, <2>3, <2>4 DEF AccessInv
<1>7. CASE ~(call.existing = 0 /\ taken)
  <2> DEFINE new == IF call.existing # 0 THEN raised ELSE made
  <2>1. /\ new \in Rows(Rl)
        /\ new.role = IF call.existing # 0 THEN old.role ELSE call.role
        /\ new.scope = IF call.existing # 0 THEN old.scope ELSE call.scope
    BY <1>1 DEF Rows, Statuses
  <2>2. assignments' = [assignments EXCEPT ![a] = new]
    <3>1. CASE call.existing # 0
      <4>1. raised = [old EXCEPT !.status = "active"]
        BY <1>1, <3>1 DEF Rows
      <4>2. assignments' = [assignments EXCEPT ![a] = [old EXCEPT !.status = "active"]]
        BY <1>5, <3>1
      <4> HIDE DEF raised
      <4> QED BY <3>1, <4>1, <4>2
    <3>2. CASE call.existing = 0
      BY <1>7, <3>2
    <3> QED BY <3>1, <3>2
  <2> HIDE DEF new
  <2>3. /\ assignments' \in [Ids -> Rows(Rl) \cup {NULL}]
        /\ \A b \in Ids : assignments'[b] = IF b = a THEN new ELSE assignments[b]
    BY <1>5, <2>1, <2>2
  <2>4. new # NULL
    BY <2>1
  <2>5. AccessType(Req, Rl, Ids)'
    BY <1>2, <1>3, <2>3, <2>4 DEF AccessInv, AccessType
  <2>6. ASSUME NEW role, NEW s, Is(new, role, s)
        PROVE  \/ call.existing = a /\ Is(old, role, s)
               \/ call.existing = 0 /\ ~taken /\ Asks(call, role, s)
    BY <1>1, <1>7, <2>1, <2>6 DEF Is, Asks
  <2> HIDE DEF taken
  <2>7. ASSUME NEW role \in Rl, NEW s \in Scopes, s # "platform" \/ <<role, s>> \notin doubled,
               NEW b \in Ids, b # a, Is(assignments[b], role, s), Is(new, role, s)
        PROVE  FALSE
    <3>1. CASE Is(old, role, s)
      BY <2>7, <3>1 DEF AccessInv, Once
    <3>2. CASE call.existing = 0 /\ ~taken /\ Asks(call, role, s)
      <4>1. s = "platform"
        BY <2>7, <3>2 DEF taken, Asks
      <4> QED BY <2>7, <3>2, <4>1 DEF AccessInv, Waiting
    <3> QED BY <2>6, <2>7, <3>1, <3>2
  <2>8. Once(Rl, Ids, assignments', doubled)
    BY <2>3, <2>7 DEF AccessInv, Once
  <2>9. Waiting(Req, Rl, Ids, assignments', asking', doubled)
    <3> SUFFICES ASSUME NEW role \in Rl, NEW s \in Scopes, <<role, s>> \notin doubled
                 PROVE  /\ \A q, p \in Req : Asks(asking'[q], role, s) /\ Asks(asking'[p], role, s) => q = p
                        /\ \A q \in Req : Asks(asking'[q], role, s) /\ asking'[q].existing = 0
                             => \A b \in Ids : ~Is(assignments'[b], role, s)
      BY DEF Waiting
    <3>1. /\ \A q, p \in Req : Asks(asking[q], role, s) /\ Asks(asking[p], role, s) => q = p
          /\ \A q \in Req : Asks(asking[q], role, s) /\ asking[q].existing = 0
               => \A b \in Ids : ~Is(assignments[b], role, s)
      BY DEF AccessInv, Waiting
    <3>2. ASSUME NEW q \in Req, Asks(asking'[q], role, s), asking'[q].existing = 0, NEW b \in Ids
          PROVE  ~Is(assignments'[b], role, s)
      <4>1. q # r /\ Asks(asking[q], role, s) /\ asking[q].existing = 0
        BY <1>3, <1>4, <3>2
      <4>2. ~Is(new, role, s)
        BY <2>6, <3>1, <4>1
      <4> QED BY <2>3, <3>1, <4>1, <4>2
    <3> QED BY <1>4, <3>1, <3>2
  <2>10. Gone(Req, Rl, Ids, assignments', asking', revoked, doubled)
    <3> SUFFICES ASSUME NEW role \in Rl, NEW s \in Scopes, <<role, s>> \in revoked, <<role, s>> \notin doubled
                 PROVE  /\ \A b \in Ids : Is(assignments'[b], role, s) =>
                             assignments'[b].status # "active" /\ \A q \in Req : asking'[q].existing # b
                        /\ \A q \in Req : ~Asks(asking'[q], role, s)
      BY DEF Gone
    <3>1. /\ \A b \in Ids : Is(assignments[b], role, s) =>
               assignments[b].status # "active" /\ \A q \in Req : asking[q].existing # b
          /\ \A q \in Req : ~Asks(asking[q], role, s)
      BY DEF AccessInv, Gone
    <3>2. ~Is(new, role, s)
      BY <2>6, <3>1
    <3> QED BY <1>2, <1>3, <1>4, <2>3, <3>1, <3>2
  <2> QED BY <2>5, <2>8, <2>9, <2>10 DEF AccessInv
<1> QED BY <1>6, <1>7

\* update_role_assignment and delete_role_assignment.
LEMMA Patches ==
  ASSUME NEW Req, NEW Rl, NEW Ids, 0 \notin Ids, NULL \notin Rows(Rl), AccessInv(Req, Rl, Ids),
         NEW a \in Ids, assignments[a] # NULL, NEW role \in Rl, NEW status \in Statuses,
         NEW s, s = assignments[a].scope,
         role # assignments[a].role =>
           s = "platform" \/ \A b \in Ids : ~Is(assignments[b], role, s),
         assignments' = [assignments EXCEPT ![a].role = role, ![a].status = status],
         IF /\ role = assignments[a].role /\ status = "revoked"
            /\ \A r \in Req : ~Asks(asking[r], role, s) /\ asking[r].existing # a
         THEN revoked' = revoked \cup {<<role, s>>} ELSE revoked' = revoked \ {<<role, s>>},
         IF role = assignments[a].role THEN doubled' = doubled ELSE doubled' = doubled \cup {<<role, s>>},
         UNCHANGED <<active, members, asking>>
  PROVE  AccessInv(Req, Rl, Ids)'
<1> DEFINE old == assignments[a]
           new == [role |-> role, scope |-> s, status |-> status]
<1>1. assignments \in [Ids -> Rows(Rl) \cup {NULL}] /\ old \in Rows(Rl)
  BY DEF AccessInv, AccessType
<1>2. s \in Scopes /\ new \in Rows(Rl) /\ new # NULL /\ new.role = role /\ new.scope = s /\ new.status = status
  BY <1>1 DEF Rows
<1>3. assignments' = [assignments EXCEPT ![a] = new]
  <2>1. new = [old EXCEPT !.role = role, !.status = status]
    <3> DEFINE mid == [role |-> role, scope |-> s, status |-> old.status]
    <3>1. mid = [old EXCEPT !.role = role]
      BY <1>1 DEF Rows
    <3>2. new = [mid EXCEPT !.status = status]
      OBVIOUS
    <3> HIDE DEF mid, new, old
    <3> QED BY <3>1, <3>2
  <2>2. assignments = [b \in Ids |-> assignments[b]]
    BY <1>1
  <2>3. assignments' = [assignments EXCEPT ![a] = [old EXCEPT !.role = role, !.status = status]]
    BY <2>2
  <2> HIDE DEF new
  <2> QED BY <2>1, <2>3
<1> HIDE DEF new
<1>4. /\ assignments' \in [Ids -> Rows(Rl) \cup {NULL}]
      /\ \A b \in Ids : assignments'[b] = IF b = a THEN new ELSE assignments[b]
  BY <1>1, <1>2, <1>3
<1>5. revoked' \subseteq Rl \X Scopes
  BY <1>2 DEF AccessInv, AccessType
<1>6. AccessType(Req, Rl, Ids)'
  <2>1. \A r \in Req : asking[r].at = "write" /\ asking[r].existing # 0 => assignments'[asking[r].existing] # NULL
    <3>1. \A r \in Req : asking[r].existing \in Ids \cup {0}
      BY DEF AccessInv, AccessType, Calls
    <3> QED BY <1>2, <1>4, <3>1 DEF AccessInv, AccessType
  <2> QED BY <1>4, <1>5, <2>1 DEF AccessInv, AccessType
<1>7. doubled \subseteq doubled' /\ (<<role, s>> \notin doubled' => role = old.role)
  OBVIOUS
<1>8. \A rl, t : Is(new, rl, t) <=> rl = role /\ t = s
  BY <1>2 DEF Is
<1>9. role = old.role => Is(old, role, s)
  BY DEF Is
<1>10. Once(Rl, Ids, assignments', doubled')
  <2> SUFFICES ASSUME NEW rl \in Rl, NEW t \in Scopes, t # "platform" \/ <<rl, t>> \notin doubled',
                      NEW b \in Ids, NEW c \in Ids, Is(assignments'[b], rl, t), Is(assignments'[c], rl, t)
               PROVE  b = c
    BY DEF Once
  <2>1. \A d, e \in Ids : Is(assignments[d], rl, t) /\ Is(assignments[e], rl, t) => d = e
    BY <1>7 DEF AccessInv, Once
  <2>2. CASE rl = role /\ t = s
    <3>1. CASE role = old.role
      BY <1>4, <1>9, <2>1, <2>2, <3>1
    <3>2. CASE role # old.role
      <4>1. \A d \in Ids : ~Is(assignments[d], role, s)
        BY <1>7, <2>2, <3>2
      <4> QED BY <1>4, <2>2, <4>1
    <3> QED BY <3>1, <3>2
  <2>3. CASE ~(rl = role /\ t = s)
    BY <1>4, <1>8, <2>1, <2>3
  <2> QED BY <2>2, <2>3
<1>11. Waiting(Req, Rl, Ids, assignments', asking, doubled')
  <2> SUFFICES ASSUME NEW rl \in Rl, NEW t \in Scopes, <<rl, t>> \notin doubled'
               PROVE  /\ \A q, p \in Req : Asks(asking[q], rl, t) /\ Asks(asking[p], rl, t) => q = p
                      /\ \A q \in Req : Asks(asking[q], rl, t) /\ asking[q].existing = 0
                           => \A b \in Ids : ~Is(assignments'[b], rl, t)
    BY DEF Waiting
  <2>1. /\ \A q, p \in Req : Asks(asking[q], rl, t) /\ Asks(asking[p], rl, t) => q = p
        /\ \A q \in Req : Asks(asking[q], rl, t) /\ asking[q].existing = 0
             => \A b \in Ids : ~Is(assignments[b], rl, t)
    BY <1>7 DEF AccessInv, Waiting
  <2>2. Is(new, rl, t) => Is(old, rl, t)
    BY <1>7, <1>8, <1>9
  <2> QED BY <1>4, <2>1, <2>2
<1>12. Gone(Req, Rl, Ids, assignments', asking, revoked', doubled')
  <2> SUFFICES ASSUME NEW rl \in Rl, NEW t \in Scopes, <<rl, t>> \in revoked', <<rl, t>> \notin doubled'
               PROVE  /\ \A b \in Ids : Is(assignments'[b], rl, t) =>
                           assignments'[b].status # "active" /\ \A q \in Req : asking[q].existing # b
                      /\ \A q \in Req : ~Asks(asking[q], rl, t)
    BY DEF Gone
  <2>1. CASE rl = role /\ t = s
    <3>1. /\ role = old.role /\ status = "revoked"
          /\ \A r \in Req : ~Asks(asking[r], role, s) /\ asking[r].existing # a
      BY <2>1
    <3>2. \A b \in Ids : Is(assignments[b], role, s) => b = a
      BY <1>7, <1>9, <2>1, <3>1 DEF AccessInv, Once
    <3> QED BY <1>2, <1>4, <2>1, <3>1, <3>2
  <2>2. CASE ~(rl = role /\ t = s)
    <3>1. <<rl, t>> \in revoked /\ <<rl, t>> \notin doubled
      BY <1>7, <2>2
    <3>2. /\ \A b \in Ids : Is(assignments[b], rl, t) =>
               assignments[b].status # "active" /\ \A q \in Req : asking[q].existing # b
          /\ \A q \in Req : ~Asks(asking[q], rl, t)
      BY <3>1 DEF AccessInv, Gone
    <3> QED BY <1>4, <1>8, <2>2, <3>2
  <2> QED BY <2>1, <2>2
<1> QED BY <1>6, <1>10, <1>11, <1>12 DEF AccessInv

\* The other rows change.
LEMMA Others ==
  ASSUME NEW Req, NEW Rl, NEW Ids, AccessInv(Req, Rl, Ids), active' \subseteq active,
         UNCHANGED <<assignments, asking, revoked, doubled>>,
         \/ members' = members
         \/ \E s \in Scopes : \E row : MemberOf(row, s) /\ members' = [members EXCEPT ![s] = row]
  PROVE  AccessInv(Req, Rl, Ids)'
<1>1. members' = [s \in Scopes |-> members'[s]] /\ \A s \in Scopes : MemberOf(members'[s], s)
  BY DEF AccessInv, AccessType
<1>2. AccessType(Req, Rl, Ids)'
  BY <1>1 DEF AccessInv, AccessType
<1> QED BY <1>2 DEF AccessInv
-----------------------------------------------------------------------------
(* The part "granting"                                                     *)

GrantingInv == AccessInv(Admins, Offices, 1..MaxGrant)

LEMMA GrantingIds == 0 \notin 1..MaxGrant /\ NULL \notin Rows(Offices) /\ Granting!AssignmentIds = 1..MaxGrant
<1>1. Rows(Offices) \subseteq Rows(Roles \cup Offices)
  BY DEF Rows
<1>2. NULL \notin Rows(Roles \cup Offices)
  BY NullAssumption DEF Rows, Statuses
<1> QED BY <1>1, <1>2, BoundAssumption DEF Granting!AssignmentIds

LEMMA GrantingInit == Granting!Init => GrantingInv
<1> SUFFICES ASSUME Granting!Init PROVE GrantingInv
  OBVIOUS
<1>1. Free \in Calls(Offices, 1..MaxGrant) /\ Free.at = "idle" /\ Free.existing = 0
  BY DEF Free, Calls
<1>2. /\ active = Offices /\ assignments = [a \in 1..MaxGrant |-> NULL] /\ members = [s \in Scopes |-> NULL]
      /\ asking = [r \in Admins |-> Free] /\ revoked = {} /\ doubled = {}
  BY GrantingIds DEF Granting!Init, Granting!Free, Free
<1>3. AccessType(Admins, Offices, 1..MaxGrant)
  BY <1>1, <1>2 DEF AccessType, MemberOf
<1> QED BY <1>1, <1>2, <1>3 DEF GrantingInv, AccessInv, Once, Waiting, Gone, Is, Asks

LEMMA GrantingBegins ==
  ASSUME GrantingInv, NEW r \in Admins, NEW role \in Offices, NEW s \in Scopes, NEW status \in Statuses,
         Granting!create_role_assignment(r, role, s, status)
  PROVE  GrantingInv'
<1>1. s \in Scopes
  BY ScopeAssumption
<1>2. Granting!RowsOf(role, s) = {a \in 1..MaxGrant : Is(assignments[a], role, s)}
  BY GrantingIds DEF Granting!RowsOf, Is
<1>3. Granting!About(role, s) = {q \in Admins : Asks(asking[q], role, s)}
  BY DEF Granting!About, Asks
<1>4. PICK existing \in IF Granting!RowsOf(role, s) = {} THEN {0} ELSE Granting!RowsOf(role, s) :
        asking' = [asking EXCEPT ![r] = [at |-> "write", role |-> role, scope |-> s, status |-> status,
                                         existing |-> existing]]
  BY DEF Granting!create_role_assignment
<1>5. /\ existing \in 1..MaxGrant \cup {0}
      /\ IF existing = 0 THEN \A a \in 1..MaxGrant : ~Is(assignments[a], role, s)
         ELSE Is(assignments[existing], role, s)
  BY <1>2, GrantingIds
<1>6. /\ revoked' = revoked \ {<<role, s>>} /\ UNCHANGED <<active, members, assignments>>
      /\ doubled' = IF Granting!About(role, s) = {} THEN doubled ELSE doubled \cup {<<role, s>>}
  BY DEF Granting!create_role_assignment, Granting!elsewhere
<1>7. IF \A q \in Admins : ~Asks(asking[q], role, s) THEN doubled' = doubled
      ELSE doubled' = doubled \cup {<<role, s>>}
  BY <1>3, <1>6
<1> QED BY <1>1, <1>4, <1>5, <1>6, <1>7, GrantingIds, Begins DEF GrantingInv

LEMMA GrantingWrites ==
  ASSUME GrantingInv, NEW r \in Admins, Granting!WriteAssignment(r)
  PROVE  GrantingInv'
<1> DEFINE a == IF asking[r].existing = 0 THEN Granting!NextAssignment ELSE asking[r].existing
           call == asking[r]
           taken == call.scope # "platform" /\ \E b \in 1..MaxGrant : Is(assignments[b], call.role, call.scope)
<1>1. Granting!Taken(call.role, call.scope) <=> taken
  BY GrantingIds DEF Granting!Taken, Granting!RowsOf, Is
<1>2. /\ call.at = "write" /\ a \in 1..MaxGrant /\ (call.existing # 0 => a = call.existing)
      /\ asking' = [asking EXCEPT ![r] = Free] /\ UNCHANGED <<active, members, revoked, doubled>>
  BY GrantingIds DEF Granting!WriteAssignment, Granting!elsewhere, Granting!Free, Free
<1>3. assignments' = IF call.existing # 0 THEN [assignments EXCEPT ![a].status = "active"]
                     ELSE IF Granting!Taken(call.role, call.scope) THEN assignments
                     ELSE [assignments EXCEPT ![a] = [role |-> call.role, scope |-> call.scope,
                                                      status |-> call.status]]
  BY DEF Granting!WriteAssignment
<1> HIDE DEF a
<1>4. assignments' = IF call.existing # 0 THEN [assignments EXCEPT ![a].status = "active"]
                     ELSE IF taken THEN assignments
                     ELSE [assignments EXCEPT ![a] = [role |-> call.role, scope |-> call.scope,
                                                      status |-> call.status]]
  BY <1>1, <1>3
<1> QED BY <1>2, <1>4, GrantingIds, Writes DEF GrantingInv

LEMMA GrantingPatches ==
  ASSUME GrantingInv, NEW a \in 1..MaxGrant, NEW role \in Offices, NEW status \in Statuses,
         Granting!update_role_assignment(a, role, status)
  PROVE  GrantingInv'
<1> DEFINE row == assignments[a]
           s == row.scope
           new == <<role, s>>
           asked(g) == {r \in Admins : asking[r].at = "write" /\ asking[r].role = g[1] /\ asking[r].scope = g[2]}
           held == {r \in Admins : asking[r].existing = a}
           revoking == role = row.role /\ status = "revoked" /\ asked(new) = {} /\ held = {}
<1>1. /\ row # NULL /\ (role # row.role => ~Granting!Taken(role, s))
      /\ assignments' = [assignments EXCEPT ![a].role = role, ![a].status = status]
      /\ revoked' = IF revoking THEN revoked \cup {new} ELSE revoked \ {new}
      /\ doubled' = IF role = row.role THEN doubled ELSE doubled \cup {new}
      /\ UNCHANGED <<active, members, asking>>
  BY DEF Granting!update_role_assignment, Granting!elsewhere
<1>2. ~Granting!Taken(role, s) => s = "platform" \/ \A b \in 1..MaxGrant : ~Is(assignments[b], role, s)
  BY GrantingIds DEF Granting!Taken, Granting!RowsOf, Is
<1>3. revoking <=> /\ role = row.role /\ status = "revoked"
                   /\ \A r \in Admins : ~Asks(asking[r], role, s) /\ asking[r].existing # a
  BY DEF Asks
<1> HIDE DEF revoking
<1>4. IF /\ role = row.role /\ status = "revoked"
         /\ \A r \in Admins : ~Asks(asking[r], role, s) /\ asking[r].existing # a
      THEN revoked' = revoked \cup {<<role, s>>} ELSE revoked' = revoked \ {<<role, s>>}
  BY <1>1, <1>3
<1>5. IF role = row.role THEN doubled' = doubled ELSE doubled' = doubled \cup {<<role, s>>}
  BY <1>1
<1>6. role # row.role => s = "platform" \/ \A b \in 1..MaxGrant : ~Is(assignments[b], role, s)
  BY <1>1, <1>2
<1> QED BY <1>1, <1>4, <1>5, <1>6, GrantingIds, Patches DEF GrantingInv

LEMMA GrantingDeletes ==
  ASSUME GrantingInv, NEW a \in 1..MaxGrant, Granting!delete_role_assignment(a)
  PROVE  GrantingInv'
<1>1. assignments[a] # NULL /\ Granting!update_role_assignment(a, assignments[a].role, "revoked")
  BY DEF Granting!delete_role_assignment
<1>2. assignments[a].role \in Offices
  BY <1>1 DEF GrantingInv, AccessInv, AccessType, Rows
<1>3. "revoked" \in Statuses
  BY DEF Statuses
<1> QED BY <1>1, <1>2, <1>3, GrantingPatches

LEMMA GrantingOthers ==
  ASSUME GrantingInv, Granting!Other, UNCHANGED <<assignments, asking, revoked, doubled>>
  PROVE  GrantingInv'
<1>1. \/ active' = active /\ \E s \in Scopes : \E row : MemberOf(row, s) /\ members' = [members EXCEPT ![s] = row]
      \/ active' \subseteq active /\ members' = members
  <2>1. ASSUME NEW s \in Scopes, NEW role, NEW legacy, Granting!PutMember(s, role, legacy)
        PROVE  active' = active /\ \E row : MemberOf(row, s) /\ members' = [members EXCEPT ![s] = row]
    <3>1. MemberOf(Granting!Row(role, legacy, "active"), s)
      BY <2>1 DEF Granting!PutMember, Granting!Row, MemberOf
    <3> QED BY <2>1, <3>1 DEF Granting!PutMember, Granting!Put
  <2>2. ASSUME NEW s \in Scopes, NEW role, Granting!add_scoped_member(s, role)
        PROVE  active' = active /\ \E row : MemberOf(row, s) /\ members' = [members EXCEPT ![s] = row]
    <3>1. MemberOf(Granting!Row(role, NULL, "active"), s)
      BY <2>2 DEF Granting!add_scoped_member, Granting!Row, MemberOf
    <3> QED BY <2>2, <3>1 DEF Granting!add_scoped_member, Granting!Put
  <2>3. ASSUME NEW s \in Scopes, NEW role, NEW status, Granting!update_scoped_member(s, role, status)
        PROVE  active' = active /\ \E row : MemberOf(row, s) /\ members' = [members EXCEPT ![s] = row]
    <3>1. MemberOf(Granting!Row(role, NULL, status), s)
      BY <2>3 DEF Granting!update_scoped_member, Granting!Row, MemberOf
    <3> QED BY <2>3, <3>1 DEF Granting!update_scoped_member, Granting!Put
  <2>4. ASSUME NEW s \in Scopes, Granting!remove_member(s) \/ Granting!remove_team_member(s)
        PROVE  active' = active /\ \E row : MemberOf(row, s) /\ members' = [members EXCEPT ![s] = row]
    <3>1. MemberOf(NULL, s)
      BY DEF MemberOf
    <3> QED BY <2>4, <3>1 DEF Granting!remove_member, Granting!remove_team_member, Granting!Put
  <2>5. ASSUME NEW s \in Scopes, Granting!close(s)
        PROVE  active' = active /\ members' = members
    BY <2>5 DEF Granting!close
  <2>6. ASSUME NEW role, Granting!assign_user_role(role) \/ Granting!remove_user_role(role) \/ Granting!delete_role(role)
        PROVE  active' \subseteq active /\ members' = members
    BY <2>6 DEF Granting!assign_user_role, Granting!remove_user_role, Granting!delete_role
  <2> QED BY <2>1, <2>2, <2>3, <2>4, <2>5, <2>6 DEF Granting!Other
<1> QED BY <1>1, Others DEF GrantingInv

LEMMA GrantingNext ==
  ASSUME GrantingInv, Granting!Next \/ UNCHANGED <<s1, s2, s3, s4, s5, s6, s7, s8, s9>>
  PROVE  GrantingInv'
<1>1. CASE Granting!Assign
  <2>1. ASSUME NEW r \in Admins, NEW role \in Offices, NEW s \in Scopes, NEW status \in {"active", "revoked"},
               Granting!create_role_assignment(r, role, s, status)
        PROVE  GrantingInv'
    BY <2>1, GrantingBegins DEF Statuses
  <2>2. ASSUME NEW a \in Granting!AssignmentIds, NEW role \in Offices, NEW status \in {"active", "revoked"},
               Granting!update_role_assignment(a, role, status)
        PROVE  GrantingInv'
    BY <2>2, GrantingPatches, GrantingIds DEF Statuses
  <2>3. ASSUME NEW a \in Granting!AssignmentIds, Granting!delete_role_assignment(a)
        PROVE  GrantingInv'
    BY <2>3, GrantingDeletes, GrantingIds
  <2> QED BY <1>1, <2>1, <2>2, <2>3, GrantingWrites DEF Granting!Assign
<1>2. CASE Granting!Other /\ UNCHANGED <<assignments, asking, revoked, doubled>>
  BY <1>2, GrantingOthers
<1>3. CASE UNCHANGED <<s1, s2, s3, s4, s5, s6, s7, s8, s9>>
  BY <1>3 DEF GrantingInv, AccessInv, AccessType, Once, Waiting, Gone
<1> QED BY <1>1, <1>2, <1>3 DEF Granting!Next

LEMMA GrantingHolds == Spec => [](part = "granting" => GrantingInv)
<1>1. Init => (part = "granting" => GrantingInv)
  BY GrantingInit DEF Init
<1>2. (part = "granting" => GrantingInv) /\ [Next]_vars => (part = "granting" => GrantingInv)'
  <2> SUFFICES ASSUME part = "granting" => GrantingInv, [Next]_vars, part' = "granting"
               PROVE  GrantingInv'
    OBVIOUS
  <2>1. /\ part = "granting"
        /\ Granting!Next \/ UNCHANGED <<s1, s2, s3, s4, s5, s6, s7, s8, s9>>
    BY DEF Next, vars
  <2> QED BY <2>1, GrantingNext
<1> QED BY <1>1, <1>2, PTL DEF Spec

-----------------------------------------------------------------------------
(* The part "assigning"                                                    *)

AssigningInv == AccessInv(Requests, Roles, 1..MaxAssignment)

LEMMA AssigningIds == 0 \notin 1..MaxAssignment /\ NULL \notin Rows(Roles) /\ Assigning!AssignmentIds = 1..MaxAssignment
<1>1. Rows(Roles) \subseteq Rows(Roles \cup Offices)
  BY DEF Rows
<1>2. NULL \notin Rows(Roles \cup Offices)
  BY NullAssumption DEF Rows, Statuses
<1> QED BY <1>1, <1>2, BoundAssumption DEF Assigning!AssignmentIds

LEMMA AssigningInit == Assigning!Init => AssigningInv
<1> SUFFICES ASSUME Assigning!Init PROVE AssigningInv
  OBVIOUS
<1>1. Free \in Calls(Roles, 1..MaxAssignment) /\ Free.at = "idle" /\ Free.existing = 0
  BY DEF Free, Calls
<1>2. /\ active = Roles /\ assignments = [a \in 1..MaxAssignment |-> NULL] /\ members = [s \in Scopes |-> NULL]
      /\ asking = [r \in Requests |-> Free] /\ revoked = {} /\ doubled = {}
  BY AssigningIds DEF Assigning!Init, Assigning!Free, Free
<1>3. AccessType(Requests, Roles, 1..MaxAssignment)
  BY <1>1, <1>2 DEF AccessType, MemberOf
<1> QED BY <1>1, <1>2, <1>3 DEF AssigningInv, AccessInv, Once, Waiting, Gone, Is, Asks

LEMMA AssigningBegins ==
  ASSUME AssigningInv, NEW r \in Requests, NEW role \in Roles, NEW s \in Assignable, NEW status \in Statuses,
         Assigning!create_role_assignment(r, role, s, status)
  PROVE  AssigningInv'
<1>1. s \in Scopes
  BY ScopeAssumption
<1>2. Assigning!RowsOf(role, s) = {a \in 1..MaxAssignment : Is(assignments[a], role, s)}
  BY AssigningIds DEF Assigning!RowsOf, Is
<1>3. Assigning!About(role, s) = {q \in Requests : Asks(asking[q], role, s)}
  BY DEF Assigning!About, Asks
<1>4. PICK existing \in IF Assigning!RowsOf(role, s) = {} THEN {0} ELSE Assigning!RowsOf(role, s) :
        asking' = [asking EXCEPT ![r] = [at |-> "write", role |-> role, scope |-> s, status |-> status,
                                         existing |-> existing]]
  BY DEF Assigning!create_role_assignment
<1>5. /\ existing \in 1..MaxAssignment \cup {0}
      /\ IF existing = 0 THEN \A a \in 1..MaxAssignment : ~Is(assignments[a], role, s)
         ELSE Is(assignments[existing], role, s)
  BY <1>2, AssigningIds
<1>6. /\ revoked' = revoked \ {<<role, s>>} /\ UNCHANGED <<active, members, assignments>>
      /\ doubled' = IF Assigning!About(role, s) = {} THEN doubled ELSE doubled \cup {<<role, s>>}
  BY DEF Assigning!create_role_assignment, Assigning!elsewhere
<1>7. IF \A q \in Requests : ~Asks(asking[q], role, s) THEN doubled' = doubled
      ELSE doubled' = doubled \cup {<<role, s>>}
  BY <1>3, <1>6
<1> QED BY <1>1, <1>4, <1>5, <1>6, <1>7, AssigningIds, Begins DEF AssigningInv

LEMMA AssigningWrites ==
  ASSUME AssigningInv, NEW r \in Requests, Assigning!WriteAssignment(r)
  PROVE  AssigningInv'
<1> DEFINE a == IF asking[r].existing = 0 THEN Assigning!NextAssignment ELSE asking[r].existing
           call == asking[r]
           taken == call.scope # "platform" /\ \E b \in 1..MaxAssignment : Is(assignments[b], call.role, call.scope)
<1>1. Assigning!Taken(call.role, call.scope) <=> taken
  BY AssigningIds DEF Assigning!Taken, Assigning!RowsOf, Is
<1>2. /\ call.at = "write" /\ a \in 1..MaxAssignment /\ (call.existing # 0 => a = call.existing)
      /\ asking' = [asking EXCEPT ![r] = Free] /\ UNCHANGED <<active, members, revoked, doubled>>
  BY AssigningIds DEF Assigning!WriteAssignment, Assigning!elsewhere, Assigning!Free, Free
<1>3. assignments' = IF call.existing # 0 THEN [assignments EXCEPT ![a].status = "active"]
                     ELSE IF Assigning!Taken(call.role, call.scope) THEN assignments
                     ELSE [assignments EXCEPT ![a] = [role |-> call.role, scope |-> call.scope,
                                                      status |-> call.status]]
  BY DEF Assigning!WriteAssignment
<1> HIDE DEF a
<1>4. assignments' = IF call.existing # 0 THEN [assignments EXCEPT ![a].status = "active"]
                     ELSE IF taken THEN assignments
                     ELSE [assignments EXCEPT ![a] = [role |-> call.role, scope |-> call.scope,
                                                      status |-> call.status]]
  BY <1>1, <1>3
<1> QED BY <1>2, <1>4, AssigningIds, Writes DEF AssigningInv

LEMMA AssigningPatches ==
  ASSUME AssigningInv, NEW a \in 1..MaxAssignment, NEW role \in Roles, NEW status \in Statuses,
         Assigning!update_role_assignment(a, role, status)
  PROVE  AssigningInv'
<1> DEFINE row == assignments[a]
           s == row.scope
           new == <<role, s>>
           asked(g) == {r \in Requests : asking[r].at = "write" /\ asking[r].role = g[1] /\ asking[r].scope = g[2]}
           held == {r \in Requests : asking[r].existing = a}
           revoking == role = row.role /\ status = "revoked" /\ asked(new) = {} /\ held = {}
<1>1. /\ row # NULL /\ (role # row.role => ~Assigning!Taken(role, s))
      /\ assignments' = [assignments EXCEPT ![a].role = role, ![a].status = status]
      /\ revoked' = IF revoking THEN revoked \cup {new} ELSE revoked \ {new}
      /\ doubled' = IF role = row.role THEN doubled ELSE doubled \cup {new}
      /\ UNCHANGED <<active, members, asking>>
  BY DEF Assigning!update_role_assignment, Assigning!elsewhere
<1>2. ~Assigning!Taken(role, s) => s = "platform" \/ \A b \in 1..MaxAssignment : ~Is(assignments[b], role, s)
  BY AssigningIds DEF Assigning!Taken, Assigning!RowsOf, Is
<1>3. revoking <=> /\ role = row.role /\ status = "revoked"
                   /\ \A r \in Requests : ~Asks(asking[r], role, s) /\ asking[r].existing # a
  BY DEF Asks
<1> HIDE DEF revoking
<1>4. IF /\ role = row.role /\ status = "revoked"
         /\ \A r \in Requests : ~Asks(asking[r], role, s) /\ asking[r].existing # a
      THEN revoked' = revoked \cup {<<role, s>>} ELSE revoked' = revoked \ {<<role, s>>}
  BY <1>1, <1>3
<1>5. IF role = row.role THEN doubled' = doubled ELSE doubled' = doubled \cup {<<role, s>>}
  BY <1>1
<1>6. role # row.role => s = "platform" \/ \A b \in 1..MaxAssignment : ~Is(assignments[b], role, s)
  BY <1>1, <1>2
<1> QED BY <1>1, <1>4, <1>5, <1>6, AssigningIds, Patches DEF AssigningInv

LEMMA AssigningDeletes ==
  ASSUME AssigningInv, NEW a \in 1..MaxAssignment, Assigning!delete_role_assignment(a)
  PROVE  AssigningInv'
<1>1. assignments[a] # NULL /\ Assigning!update_role_assignment(a, assignments[a].role, "revoked")
  BY DEF Assigning!delete_role_assignment
<1>2. assignments[a].role \in Roles
  BY <1>1 DEF AssigningInv, AccessInv, AccessType, Rows
<1>3. "revoked" \in Statuses
  BY DEF Statuses
<1> QED BY <1>1, <1>2, <1>3, AssigningPatches

LEMMA AssigningOthers ==
  ASSUME AssigningInv, Assigning!Other, UNCHANGED <<assignments, asking, revoked, doubled>>
  PROVE  AssigningInv'
<1>1. \/ active' = active /\ \E s \in Scopes : \E row : MemberOf(row, s) /\ members' = [members EXCEPT ![s] = row]
      \/ active' \subseteq active /\ members' = members
  <2>1. ASSUME NEW s \in Scopes, NEW role, NEW legacy, Assigning!PutMember(s, role, legacy)
        PROVE  active' = active /\ \E row : MemberOf(row, s) /\ members' = [members EXCEPT ![s] = row]
    <3>1. MemberOf(Assigning!Row(role, legacy, "active"), s)
      BY <2>1 DEF Assigning!PutMember, Assigning!Row, MemberOf
    <3> QED BY <2>1, <3>1 DEF Assigning!PutMember, Assigning!Put
  <2>2. ASSUME NEW s \in Scopes, NEW role, Assigning!add_scoped_member(s, role)
        PROVE  active' = active /\ \E row : MemberOf(row, s) /\ members' = [members EXCEPT ![s] = row]
    <3>1. MemberOf(Assigning!Row(role, NULL, "active"), s)
      BY <2>2 DEF Assigning!add_scoped_member, Assigning!Row, MemberOf
    <3> QED BY <2>2, <3>1 DEF Assigning!add_scoped_member, Assigning!Put
  <2>3. ASSUME NEW s \in Scopes, NEW role, NEW status, Assigning!update_scoped_member(s, role, status)
        PROVE  active' = active /\ \E row : MemberOf(row, s) /\ members' = [members EXCEPT ![s] = row]
    <3>1. MemberOf(Assigning!Row(role, NULL, status), s)
      BY <2>3 DEF Assigning!update_scoped_member, Assigning!Row, MemberOf
    <3> QED BY <2>3, <3>1 DEF Assigning!update_scoped_member, Assigning!Put
  <2>4. ASSUME NEW s \in Scopes, Assigning!remove_member(s) \/ Assigning!remove_team_member(s)
        PROVE  active' = active /\ \E row : MemberOf(row, s) /\ members' = [members EXCEPT ![s] = row]
    <3>1. MemberOf(NULL, s)
      BY DEF MemberOf
    <3> QED BY <2>4, <3>1 DEF Assigning!remove_member, Assigning!remove_team_member, Assigning!Put
  <2>5. ASSUME NEW s \in Scopes, Assigning!close(s)
        PROVE  active' = active /\ members' = members
    BY <2>5 DEF Assigning!close
  <2>6. ASSUME NEW role, Assigning!assign_user_role(role) \/ Assigning!remove_user_role(role) \/ Assigning!delete_role(role)
        PROVE  active' \subseteq active /\ members' = members
    BY <2>6 DEF Assigning!assign_user_role, Assigning!remove_user_role, Assigning!delete_role
  <2> QED BY <2>1, <2>2, <2>3, <2>4, <2>5, <2>6 DEF Assigning!Other
<1> QED BY <1>1, Others DEF AssigningInv

LEMMA AssigningNext ==
  ASSUME AssigningInv, Assigning!Next \/ UNCHANGED <<s1, s2, s3, s4, s5, s6, s7, s8, s9>>
  PROVE  AssigningInv'
<1>1. CASE Assigning!Assign
  <2>1. ASSUME NEW r \in Requests, NEW role \in Roles, NEW s \in Assignable, NEW status \in {"active", "revoked"},
               Assigning!create_role_assignment(r, role, s, status)
        PROVE  AssigningInv'
    BY <2>1, AssigningBegins DEF Statuses
  <2>2. ASSUME NEW a \in Assigning!AssignmentIds, NEW role \in Roles, NEW status \in {"active", "revoked"},
               Assigning!update_role_assignment(a, role, status)
        PROVE  AssigningInv'
    BY <2>2, AssigningPatches, AssigningIds DEF Statuses
  <2>3. ASSUME NEW a \in Assigning!AssignmentIds, Assigning!delete_role_assignment(a)
        PROVE  AssigningInv'
    BY <2>3, AssigningDeletes, AssigningIds
  <2> QED BY <1>1, <2>1, <2>2, <2>3, AssigningWrites DEF Assigning!Assign
<1>2. CASE Assigning!Other /\ UNCHANGED <<assignments, asking, revoked, doubled>>
  BY <1>2, AssigningOthers
<1>3. CASE UNCHANGED <<s1, s2, s3, s4, s5, s6, s7, s8, s9>>
  BY <1>3 DEF AssigningInv, AccessInv, AccessType, Once, Waiting, Gone
<1> QED BY <1>1, <1>2, <1>3 DEF Assigning!Next

LEMMA AssigningHolds == Spec => [](part = "assigning" => AssigningInv)
<1>1. Init => (part = "assigning" => AssigningInv)
  BY AssigningInit DEF Init
<1>2. (part = "assigning" => AssigningInv) /\ [Next]_vars => (part = "assigning" => AssigningInv)'
  <2> SUFFICES ASSUME part = "assigning" => AssigningInv, [Next]_vars, part' = "assigning"
               PROVE  AssigningInv'
    OBVIOUS
  <2>1. /\ part = "assigning"
        /\ Assigning!Next \/ UNCHANGED <<s1, s2, s3, s4, s5, s6, s7, s8, s9>>
    BY DEF Next, vars
  <2> QED BY <2>1, AssigningNext
<1> QED BY <1>1, <1>2, PTL DEF Spec
-----------------------------------------------------------------------------
(* Where the roles of a scope come from                                    *)

Applies(from, s) ==
  \/ Kind[from] = "platform" \/ from = s
  \/ Kind[s] = "workspace" /\ Kind[from] = "organization" /\ from = Parent[s]
  \/ Kind[s] \in {"project", "team"} /\ \/ Kind[from] = "organization" /\ from = Parent[Parent[s]]
                                        \/ Kind[from] = "workspace" /\ from = Parent[s]

LEMMA AppliesIs ==
  ASSUME NEW s \in Scopes, NEW from \in Scopes
  PROVE  Applies(from, s) <=> from \in AboveOf[s]
<1>1. from \in Platforms <=> Kind[from] = "platform"
  BY DEF Platforms
<1>2. CASE Kind[s] = "platform"
  BY <1>1, <1>2 DEF Applies, AboveOf
<1>3. CASE Kind[s] = "organization"
  BY <1>1, <1>3 DEF Applies, AboveOf
<1>4. CASE Kind[s] = "workspace"
  <2>1. Kind[Parent[s]] = "organization"
    BY <1>4, ParentIs
  <2> QED BY <1>1, <1>4, <2>1 DEF Applies, AboveOf
<1>5. CASE Kind[s] \in {"project", "team"}
  <2>1. Parent[s] \in Scopes /\ Kind[Parent[s]] = "workspace"
    BY <1>5, ParentIs
  <2>2. Kind[Parent[Parent[s]]] = "organization"
    BY <2>1, ParentIs
  <2>3. AboveOf[s] = {s, Parent[s], Parent[Parent[s]]} \cup Platforms
    BY <1>5 DEF AboveOf
  <2> QED BY <1>1, <1>5, <2>1, <2>2, <2>3 DEF Applies
<1> QED BY <1>2, <1>3, <1>4, <1>5, ScopeAssumption

\* A role given in a scope by an assignment; and by the user's row there.
Given(Ids, role, s) ==
  \E a \in Ids : Is(assignments[a], role, s) /\ assignments[a].status = "active"
MemberAs(role, s) ==
  /\ members[s] # NULL /\ members[s].status = "active"
  /\ role = IF members[s].role = NULL THEN members[s].legacy ELSE members[s].role
Granted(Ids, role, s) ==
  \/ s = "platform" /\ role \in user_roles
  \/ Given(Ids, role, s)
  \/ s \in Scopes /\ MemberAs(role, s)

LEMMA GrantingGrants ==
  ASSUME NEW g
  PROVE  g \in Granting!Grants <=>
           \E role, s : g = <<role, s>> /\ Granted(1..MaxGrant, role, s)
<1> DEFINE given == {b \in 1..MaxGrant : assignments[b] # NULL /\ assignments[b].status = "active"}
           there == {t \in Scopes : members[t] # NULL /\ members[t].status = "active"}
           as(s) == IF members[s].role = NULL THEN members[s].legacy ELSE members[s].role
<1>1. Granting!Grants = {<<r, "platform">> : r \in user_roles} \cup
                   {<<assignments[a].role, assignments[a].scope>> : a \in given} \cup
                   {<<as(s), s>> : s \in there}
  BY GrantingIds DEF Granting!Grants
<1>2. g \in {<<assignments[a].role, assignments[a].scope>> : a \in given} <=>
        \E role, s : g = <<role, s>> /\ Given(1..MaxGrant, role, s)
  BY DEF Given, Is
<1>3. g \in {<<as(s), s>> : s \in there} <=> \E role, s : g = <<role, s>> /\ s \in Scopes /\ MemberAs(role, s)
  BY DEF MemberAs
<1>4. g \in {<<r, "platform">> : r \in user_roles} <=> \E role, s : g = <<role, s>> /\ s = "platform" /\ role \in user_roles
  OBVIOUS
<1> HIDE DEF given, there, as
<1> QED BY <1>1, <1>2, <1>3, <1>4 DEF Granted

LEMMA GrantingApplies ==
  ASSUME GrantingInv, NEW s \in Scopes, NEW g
  PROVE  g \in Granting!role_assignments(s) <=>
           \E role, t : g = <<role, t>> /\ role \in active /\ Given(1..MaxGrant, role, t) /\ t \in AboveOf[s]
<1> DEFINE applying == {b \in 1..MaxGrant : /\ assignments[b] # NULL /\ assignments[b].status = "active"
                                         /\ assignments[b].role \in active /\ Applies(assignments[b].scope, s)}
<1>1. Granting!role_assignments(s) = {<<assignments[a].role, assignments[a].scope>> : a \in applying}
  BY GrantingIds DEF Granting!role_assignments, Granting!assignment_applies, Applies
<1>2. \A b \in 1..MaxGrant : assignments[b] # NULL => assignments[b].scope \in Scopes
  BY DEF GrantingInv, AccessInv, AccessType, Rows
<1>3. \A b \in 1..MaxGrant : b \in applying <=>
        /\ assignments[b] # NULL /\ assignments[b].status = "active"
        /\ assignments[b].role \in active /\ assignments[b].scope \in AboveOf[s]
  BY <1>2, AppliesIs
<1>4. applying \subseteq 1..MaxGrant
  OBVIOUS
<1> HIDE DEF applying
<1>5. ASSUME NEW a \in applying, g = <<assignments[a].role, assignments[a].scope>>
      PROVE  \E role, t : g = <<role, t>> /\ role \in active /\ Given(1..MaxGrant, role, t) /\ t \in AboveOf[s]
  <2>1. Given(1..MaxGrant, assignments[a].role, assignments[a].scope)
    BY <1>3, <1>4 DEF Given, Is
  <2> QED BY <1>3, <1>4, <1>5, <2>1
<1>6. ASSUME NEW role \in active, NEW t \in AboveOf[s], g = <<role, t>>, Given(1..MaxGrant, role, t)
      PROVE  \E a \in applying : g = <<assignments[a].role, assignments[a].scope>>
  BY <1>3, <1>6 DEF Given, Is
<1> QED BY <1>1, <1>5, <1>6

LEMMA GrantingMembers ==
  ASSUME GrantingInv, NEW s \in Scopes, NEW g
  PROVE  /\ Kind[s] \in {"organization", "workspace"} =>
              (g \in Granting!membership_role(s) <=>
                 \E role : g = <<role, s>> /\ role \in active /\ MemberAs(role, s))
         /\ Kind[s] \in {"project", "team"} =>
              (g \in Granting!scoped_membership_role(s) <=>
                 \E role : g = <<role, s>> /\ role \in active /\ MemberAs(role, s))
<1>1. MemberOf(members[s], s)
  BY DEF GrantingInv, AccessInv, AccessType
<1>2. CASE members[s] = NULL
  BY <1>2 DEF Granting!membership_role, Granting!scoped_membership_role, MemberAs
<1>3. CASE members[s] # NULL
  <2>1. ASSUME Kind[s] \in {"organization", "workspace"}
        PROVE  g \in Granting!membership_role(s) <=>
                 \E role : g = <<role, s>> /\ role \in active /\ MemberAs(role, s)
    BY <1>1, <1>3, <2>1 DEF Granting!membership_role, MemberAs, MemberOf
  <2>2. ASSUME Kind[s] \in {"project", "team"}
        PROVE  g \in Granting!scoped_membership_role(s) <=>
                 \E role : g = <<role, s>> /\ role \in active /\ MemberAs(role, s)
    <3>1. Granting!scoped_membership_role(s) =
            {<<r, s>> : r \in active \cap (IF members[s].status = "active" THEN {members[s].role} ELSE {})}
      BY <1>3 DEF Granting!scoped_membership_role
    <3>2. \A role : MemberAs(role, s) <=> members[s].status = "active" /\ role = members[s].role
      BY <1>1, <1>3, <2>2 DEF MemberAs, MemberOf
    <3> QED BY <3>1, <3>2
  <2> QED BY <2>1, <2>2
<1> QED BY <1>2, <1>3

LEMMA GrantingInherits == GrantingInv => Granting!RolesAreInherited
<1> SUFFICES ASSUME GrantingInv, NEW s \in Scopes, s \notin closed, NEW g
             PROVE  g \in Granting!resolve_roles(s) <=>
                      g \in Granting!Grants /\ g[1] \in active /\ g[2] \in AboveOf[s]
  BY GrantingAbove DEF Granting!RolesAreInherited
<1> DEFINE own == \E role : g = <<role, "platform">> /\ role \in user_roles /\ role \in active
           given == \E role, t : g = <<role, t>> /\ role \in active /\ Given(1..MaxGrant, role, t) /\ t \in AboveOf[s]
           member(t) == \E role : g = <<role, t>> /\ role \in active /\ MemberAs(role, t)
           rows == CASE Kind[s] = "platform" -> {}
                     [] Kind[s] = "organization" -> Granting!membership_role(s)
                     [] Kind[s] = "workspace" -> Granting!membership_role(Parent[s]) \cup Granting!membership_role(s)
                     [] OTHER -> Granting!membership_role(Parent[Parent[s]]) \cup Granting!membership_role(Parent[s])
                                   \cup Granting!scoped_membership_role(s)
<1>1. Granting!resolve_roles(s) = {<<r, "platform">> : r \in user_roles \cap active} \cup Granting!role_assignments(s) \cup rows
  BY DEF Granting!resolve_roles
<1>2. g \in {<<r, "platform">> : r \in user_roles \cap active} <=> own
  OBVIOUS
<1>3. g \in Granting!role_assignments(s) <=> given
  BY GrantingApplies
<1>4. "platform" \in AboveOf[s] /\ "platform" \in Scopes
  BY ScopeAssumption DEF AboveOf, Platforms
<1>5. \A role : \A t \in Platforms : ~MemberAs(role, t)
  BY DEF Platforms, GrantingInv, AccessInv, AccessType, MemberOf, MemberAs
<1>6. g \in rows <=> \E t \in Scopes : t \in AboveOf[s] /\ member(t)
  <2>1. CASE Kind[s] = "platform"
    <3>1. rows = {} /\ AboveOf[s] = Platforms
      BY <2>1 DEF AboveOf
    <3> QED BY <1>5, <3>1
  <2>2. CASE Kind[s] = "organization"
    <3>1. rows = Granting!membership_role(s) /\ AboveOf[s] = {s} \cup Platforms
      BY <2>2 DEF AboveOf
    <3>2. g \in Granting!membership_role(s) <=> member(s)
      BY <2>2, GrantingMembers
    <3> HIDE DEF rows
    <3> QED BY <1>5, <3>1, <3>2
  <2>3. CASE Kind[s] = "workspace"
    <3>1. Parent[s] \in Scopes /\ Kind[Parent[s]] = "organization"
      BY <2>3, ParentIs
    <3>2. rows = Granting!membership_role(Parent[s]) \cup Granting!membership_role(s) /\ AboveOf[s] = {s, Parent[s]} \cup Platforms
      BY <2>3 DEF AboveOf
    <3>3. /\ g \in Granting!membership_role(s) <=> member(s)
          /\ g \in Granting!membership_role(Parent[s]) <=> member(Parent[s])
      BY <2>3, <3>1, GrantingMembers
    <3> HIDE DEF rows
    <3> QED BY <1>5, <3>1, <3>2, <3>3
  <2>4. CASE Kind[s] \in {"project", "team"}
    <3>1. Parent[s] \in Scopes /\ Kind[Parent[s]] = "workspace"
      BY <2>4, ParentIs
    <3>2. Parent[Parent[s]] \in Scopes /\ Kind[Parent[Parent[s]]] = "organization"
      BY <3>1, ParentIs
    <3>3. /\ rows = Granting!membership_role(Parent[Parent[s]]) \cup Granting!membership_role(Parent[s])
                      \cup Granting!scoped_membership_role(s)
          /\ AboveOf[s] = {s, Parent[s], Parent[Parent[s]]} \cup Platforms
      BY <2>4 DEF AboveOf
    <3>4. /\ g \in Granting!scoped_membership_role(s) <=> member(s)
          /\ g \in Granting!membership_role(Parent[s]) <=> member(Parent[s])
          /\ g \in Granting!membership_role(Parent[Parent[s]]) <=> member(Parent[Parent[s]])
      BY <2>4, <3>1, <3>2, GrantingMembers
    <3> HIDE DEF rows
    <3> QED BY <1>5, <3>1, <3>2, <3>3, <3>4
  <2> QED BY <2>1, <2>2, <2>3, <2>4, ScopeAssumption
<1> HIDE DEF rows
<1>7. g \in Granting!Grants <=> \E role, t : g = <<role, t>> /\ Granted(1..MaxGrant, role, t)
  BY GrantingGrants
<1>8. ASSUME NEW role, NEW t, g = <<role, t>>
      PROVE  own \/ given \/ (\E u \in Scopes : u \in AboveOf[s] /\ member(u)) <=>
               Granted(1..MaxGrant, role, t) /\ role \in active /\ t \in AboveOf[s]
  BY <1>4, <1>8 DEF Granted
<1>9. ASSUME ~\E role, t : g = <<role, t>> PROVE g \notin Granting!resolve_roles(s) /\ g \notin Granting!Grants
  BY <1>1, <1>2, <1>3, <1>6, <1>7, <1>9
<1>10. ASSUME NEW role, NEW t, g = <<role, t>>
       PROVE  g \in Granting!resolve_roles(s) <=> g \in Granting!Grants /\ g[1] \in active /\ g[2] \in AboveOf[s]
  <2>1. g[1] = role /\ g[2] = t /\ \A x, y : g = <<x, y>> => x = role /\ y = t
    BY <1>10
  <2>2. g \in Granting!Grants <=> Granted(1..MaxGrant, role, t)
    BY <1>7, <1>10, <2>1
  <2>3. g \in Granting!resolve_roles(s) <=> own \/ given \/ (\E u \in Scopes : u \in AboveOf[s] /\ member(u))
    BY <1>1, <1>2, <1>3, <1>6
  <2> HIDE DEF own, given, member
  <2> QED BY <1>8, <1>10, <2>1, <2>2, <2>3
<1> QED BY <1>9, <1>10

LEMMA GrantingOnce == GrantingInv => Granting!AssignedOnce
<1> SUFFICES ASSUME GrantingInv, NEW role \in Offices, NEW s \in Scopes, ~(s = "platform" /\ <<role, s>> \in doubled)
             PROVE  ~(Granting!Cardinality(Granting!RowsOf(role, s)) > 1)
  BY DEF Granting!AssignedOnce
<1> DEFINE found == Granting!RowsOf(role, s)
<1>1. \A a, b \in found : a = b
  BY GrantingIds DEF Granting!RowsOf, GrantingInv, AccessInv, Once, Is
<1>2. found = {} \/ \E a : found = {a}
  <2> HIDE DEF found
  <2> QED BY <1>1
<1>3. Cardinality(found) \in {0, 1}
  BY <1>2, FS_EmptySet, FS_Singleton
<1>4. Granting!Cardinality(found) = Cardinality(found)
  BY DEF Granting!Cardinality, Cardinality
<1> QED BY <1>3, <1>4

LEMMA GrantingRevoked == GrantingInv => Granting!RevokedIsGone
<1> SUFFICES ASSUME GrantingInv, NEW g \in revoked \ doubled, NEW a \in Granting!RowsOf(g[1], g[2])
             PROVE  assignments[a].status # "active"
  BY DEF Granting!RevokedIsGone
<1>1. g \in Offices \X Scopes
  BY DEF GrantingInv, AccessInv, AccessType
<1>2. g[1] \in Offices /\ g[2] \in Scopes /\ g = <<g[1], g[2]>>
  BY <1>1
<1>3. a \in 1..MaxGrant /\ Is(assignments[a], g[1], g[2])
  BY GrantingIds DEF Granting!RowsOf, Is
<1> QED BY <1>2, <1>3 DEF GrantingInv, AccessInv, Gone

LEMMA AssigningGrants ==
  ASSUME NEW g
  PROVE  g \in Assigning!Grants <=>
           \E role, s : g = <<role, s>> /\ Granted(1..MaxAssignment, role, s)
<1> DEFINE given == {b \in 1..MaxAssignment : assignments[b] # NULL /\ assignments[b].status = "active"}
           there == {t \in Scopes : members[t] # NULL /\ members[t].status = "active"}
           as(s) == IF members[s].role = NULL THEN members[s].legacy ELSE members[s].role
<1>1. Assigning!Grants = {<<r, "platform">> : r \in user_roles} \cup
                   {<<assignments[a].role, assignments[a].scope>> : a \in given} \cup
                   {<<as(s), s>> : s \in there}
  BY AssigningIds DEF Assigning!Grants
<1>2. g \in {<<assignments[a].role, assignments[a].scope>> : a \in given} <=>
        \E role, s : g = <<role, s>> /\ Given(1..MaxAssignment, role, s)
  BY DEF Given, Is
<1>3. g \in {<<as(s), s>> : s \in there} <=> \E role, s : g = <<role, s>> /\ s \in Scopes /\ MemberAs(role, s)
  BY DEF MemberAs
<1>4. g \in {<<r, "platform">> : r \in user_roles} <=> \E role, s : g = <<role, s>> /\ s = "platform" /\ role \in user_roles
  OBVIOUS
<1> HIDE DEF given, there, as
<1> QED BY <1>1, <1>2, <1>3, <1>4 DEF Granted

LEMMA AssigningApplies ==
  ASSUME AssigningInv, NEW s \in Scopes, NEW g
  PROVE  g \in Assigning!role_assignments(s) <=>
           \E role, t : g = <<role, t>> /\ role \in active /\ Given(1..MaxAssignment, role, t) /\ t \in AboveOf[s]
<1> DEFINE applying == {b \in 1..MaxAssignment : /\ assignments[b] # NULL /\ assignments[b].status = "active"
                                         /\ assignments[b].role \in active /\ Applies(assignments[b].scope, s)}
<1>1. Assigning!role_assignments(s) = {<<assignments[a].role, assignments[a].scope>> : a \in applying}
  BY AssigningIds DEF Assigning!role_assignments, Assigning!assignment_applies, Applies
<1>2. \A b \in 1..MaxAssignment : assignments[b] # NULL => assignments[b].scope \in Scopes
  BY DEF AssigningInv, AccessInv, AccessType, Rows
<1>3. \A b \in 1..MaxAssignment : b \in applying <=>
        /\ assignments[b] # NULL /\ assignments[b].status = "active"
        /\ assignments[b].role \in active /\ assignments[b].scope \in AboveOf[s]
  BY <1>2, AppliesIs
<1>4. applying \subseteq 1..MaxAssignment
  OBVIOUS
<1> HIDE DEF applying
<1>5. ASSUME NEW a \in applying, g = <<assignments[a].role, assignments[a].scope>>
      PROVE  \E role, t : g = <<role, t>> /\ role \in active /\ Given(1..MaxAssignment, role, t) /\ t \in AboveOf[s]
  <2>1. Given(1..MaxAssignment, assignments[a].role, assignments[a].scope)
    BY <1>3, <1>4 DEF Given, Is
  <2> QED BY <1>3, <1>4, <1>5, <2>1
<1>6. ASSUME NEW role \in active, NEW t \in AboveOf[s], g = <<role, t>>, Given(1..MaxAssignment, role, t)
      PROVE  \E a \in applying : g = <<assignments[a].role, assignments[a].scope>>
  BY <1>3, <1>6 DEF Given, Is
<1> QED BY <1>1, <1>5, <1>6

LEMMA AssigningMembers ==
  ASSUME AssigningInv, NEW s \in Scopes, NEW g
  PROVE  /\ Kind[s] \in {"organization", "workspace"} =>
              (g \in Assigning!membership_role(s) <=>
                 \E role : g = <<role, s>> /\ role \in active /\ MemberAs(role, s))
         /\ Kind[s] \in {"project", "team"} =>
              (g \in Assigning!scoped_membership_role(s) <=>
                 \E role : g = <<role, s>> /\ role \in active /\ MemberAs(role, s))
<1>1. MemberOf(members[s], s)
  BY DEF AssigningInv, AccessInv, AccessType
<1>2. CASE members[s] = NULL
  BY <1>2 DEF Assigning!membership_role, Assigning!scoped_membership_role, MemberAs
<1>3. CASE members[s] # NULL
  <2>1. ASSUME Kind[s] \in {"organization", "workspace"}
        PROVE  g \in Assigning!membership_role(s) <=>
                 \E role : g = <<role, s>> /\ role \in active /\ MemberAs(role, s)
    BY <1>1, <1>3, <2>1 DEF Assigning!membership_role, MemberAs, MemberOf
  <2>2. ASSUME Kind[s] \in {"project", "team"}
        PROVE  g \in Assigning!scoped_membership_role(s) <=>
                 \E role : g = <<role, s>> /\ role \in active /\ MemberAs(role, s)
    <3>1. Assigning!scoped_membership_role(s) =
            {<<r, s>> : r \in active \cap (IF members[s].status = "active" THEN {members[s].role} ELSE {})}
      BY <1>3 DEF Assigning!scoped_membership_role
    <3>2. \A role : MemberAs(role, s) <=> members[s].status = "active" /\ role = members[s].role
      BY <1>1, <1>3, <2>2 DEF MemberAs, MemberOf
    <3> QED BY <3>1, <3>2
  <2> QED BY <2>1, <2>2
<1> QED BY <1>2, <1>3

LEMMA AssigningInherits == AssigningInv => Assigning!RolesAreInherited
<1> SUFFICES ASSUME AssigningInv, NEW s \in Scopes, s \notin closed, NEW g
             PROVE  g \in Assigning!resolve_roles(s) <=>
                      g \in Assigning!Grants /\ g[1] \in active /\ g[2] \in AboveOf[s]
  BY AssigningAbove DEF Assigning!RolesAreInherited
<1> DEFINE own == \E role : g = <<role, "platform">> /\ role \in user_roles /\ role \in active
           given == \E role, t : g = <<role, t>> /\ role \in active /\ Given(1..MaxAssignment, role, t) /\ t \in AboveOf[s]
           member(t) == \E role : g = <<role, t>> /\ role \in active /\ MemberAs(role, t)
           rows == CASE Kind[s] = "platform" -> {}
                     [] Kind[s] = "organization" -> Assigning!membership_role(s)
                     [] Kind[s] = "workspace" -> Assigning!membership_role(Parent[s]) \cup Assigning!membership_role(s)
                     [] OTHER -> Assigning!membership_role(Parent[Parent[s]]) \cup Assigning!membership_role(Parent[s])
                                   \cup Assigning!scoped_membership_role(s)
<1>1. Assigning!resolve_roles(s) = {<<r, "platform">> : r \in user_roles \cap active} \cup Assigning!role_assignments(s) \cup rows
  BY DEF Assigning!resolve_roles
<1>2. g \in {<<r, "platform">> : r \in user_roles \cap active} <=> own
  OBVIOUS
<1>3. g \in Assigning!role_assignments(s) <=> given
  BY AssigningApplies
<1>4. "platform" \in AboveOf[s] /\ "platform" \in Scopes
  BY ScopeAssumption DEF AboveOf, Platforms
<1>5. \A role : \A t \in Platforms : ~MemberAs(role, t)
  BY DEF Platforms, AssigningInv, AccessInv, AccessType, MemberOf, MemberAs
<1>6. g \in rows <=> \E t \in Scopes : t \in AboveOf[s] /\ member(t)
  <2>1. CASE Kind[s] = "platform"
    <3>1. rows = {} /\ AboveOf[s] = Platforms
      BY <2>1 DEF AboveOf
    <3> QED BY <1>5, <3>1
  <2>2. CASE Kind[s] = "organization"
    <3>1. rows = Assigning!membership_role(s) /\ AboveOf[s] = {s} \cup Platforms
      BY <2>2 DEF AboveOf
    <3>2. g \in Assigning!membership_role(s) <=> member(s)
      BY <2>2, AssigningMembers
    <3> HIDE DEF rows
    <3> QED BY <1>5, <3>1, <3>2
  <2>3. CASE Kind[s] = "workspace"
    <3>1. Parent[s] \in Scopes /\ Kind[Parent[s]] = "organization"
      BY <2>3, ParentIs
    <3>2. rows = Assigning!membership_role(Parent[s]) \cup Assigning!membership_role(s) /\ AboveOf[s] = {s, Parent[s]} \cup Platforms
      BY <2>3 DEF AboveOf
    <3>3. /\ g \in Assigning!membership_role(s) <=> member(s)
          /\ g \in Assigning!membership_role(Parent[s]) <=> member(Parent[s])
      BY <2>3, <3>1, AssigningMembers
    <3> HIDE DEF rows
    <3> QED BY <1>5, <3>1, <3>2, <3>3
  <2>4. CASE Kind[s] \in {"project", "team"}
    <3>1. Parent[s] \in Scopes /\ Kind[Parent[s]] = "workspace"
      BY <2>4, ParentIs
    <3>2. Parent[Parent[s]] \in Scopes /\ Kind[Parent[Parent[s]]] = "organization"
      BY <3>1, ParentIs
    <3>3. /\ rows = Assigning!membership_role(Parent[Parent[s]]) \cup Assigning!membership_role(Parent[s])
                      \cup Assigning!scoped_membership_role(s)
          /\ AboveOf[s] = {s, Parent[s], Parent[Parent[s]]} \cup Platforms
      BY <2>4 DEF AboveOf
    <3>4. /\ g \in Assigning!scoped_membership_role(s) <=> member(s)
          /\ g \in Assigning!membership_role(Parent[s]) <=> member(Parent[s])
          /\ g \in Assigning!membership_role(Parent[Parent[s]]) <=> member(Parent[Parent[s]])
      BY <2>4, <3>1, <3>2, AssigningMembers
    <3> HIDE DEF rows
    <3> QED BY <1>5, <3>1, <3>2, <3>3, <3>4
  <2> QED BY <2>1, <2>2, <2>3, <2>4, ScopeAssumption
<1> HIDE DEF rows
<1>7. g \in Assigning!Grants <=> \E role, t : g = <<role, t>> /\ Granted(1..MaxAssignment, role, t)
  BY AssigningGrants
<1>8. ASSUME NEW role, NEW t, g = <<role, t>>
      PROVE  own \/ given \/ (\E u \in Scopes : u \in AboveOf[s] /\ member(u)) <=>
               Granted(1..MaxAssignment, role, t) /\ role \in active /\ t \in AboveOf[s]
  BY <1>4, <1>8 DEF Granted
<1>9. ASSUME ~\E role, t : g = <<role, t>> PROVE g \notin Assigning!resolve_roles(s) /\ g \notin Assigning!Grants
  BY <1>1, <1>2, <1>3, <1>6, <1>7, <1>9
<1>10. ASSUME NEW role, NEW t, g = <<role, t>>
       PROVE  g \in Assigning!resolve_roles(s) <=> g \in Assigning!Grants /\ g[1] \in active /\ g[2] \in AboveOf[s]
  <2>1. g[1] = role /\ g[2] = t /\ \A x, y : g = <<x, y>> => x = role /\ y = t
    BY <1>10
  <2>2. g \in Assigning!Grants <=> Granted(1..MaxAssignment, role, t)
    BY <1>7, <1>10, <2>1
  <2>3. g \in Assigning!resolve_roles(s) <=> own \/ given \/ (\E u \in Scopes : u \in AboveOf[s] /\ member(u))
    BY <1>1, <1>2, <1>3, <1>6
  <2> HIDE DEF own, given, member
  <2> QED BY <1>8, <1>10, <2>1, <2>2, <2>3
<1> QED BY <1>9, <1>10

LEMMA AssigningOnce == AssigningInv => Assigning!AssignedOnce
<1> SUFFICES ASSUME AssigningInv, NEW role \in Roles, NEW s \in Scopes, ~(s = "platform" /\ <<role, s>> \in doubled)
             PROVE  ~(Assigning!Cardinality(Assigning!RowsOf(role, s)) > 1)
  BY DEF Assigning!AssignedOnce
<1> DEFINE found == Assigning!RowsOf(role, s)
<1>1. \A a, b \in found : a = b
  BY AssigningIds DEF Assigning!RowsOf, AssigningInv, AccessInv, Once, Is
<1>2. found = {} \/ \E a : found = {a}
  <2> HIDE DEF found
  <2> QED BY <1>1
<1>3. Cardinality(found) \in {0, 1}
  BY <1>2, FS_EmptySet, FS_Singleton
<1>4. Assigning!Cardinality(found) = Cardinality(found)
  BY DEF Assigning!Cardinality, Cardinality
<1> QED BY <1>3, <1>4

LEMMA AssigningRevoked == AssigningInv => Assigning!RevokedIsGone
<1> SUFFICES ASSUME AssigningInv, NEW g \in revoked \ doubled, NEW a \in Assigning!RowsOf(g[1], g[2])
             PROVE  assignments[a].status # "active"
  BY DEF Assigning!RevokedIsGone
<1>1. g \in Roles \X Scopes
  BY DEF AssigningInv, AccessInv, AccessType
<1>2. g[1] \in Roles /\ g[2] \in Scopes /\ g = <<g[1], g[2]>>
  BY <1>1
<1>3. a \in 1..MaxAssignment /\ Is(assignments[a], g[1], g[2])
  BY AssigningIds DEF Assigning!RowsOf, Is
<1> QED BY <1>2, <1>3 DEF AssigningInv, AccessInv, Gone

-----------------------------------------------------------------------------
(* Theorems                                                                *)

\* The roles resolved in an open scope are the active ones granted in it or above it,
\* and no others, however rows were made, moved and revoked.
THEOREM RolesAreInheritedHolds == Spec => []RolesAreInherited
<1>1. (part = "granting" => GrantingInv) /\ (part = "assigning" => AssigningInv) => RolesAreInherited
  BY GrantingInherits, AssigningInherits DEF RolesAreInherited
<1> QED BY <1>1, GrantingHolds, AssigningHolds, PTL

\* A role is assigned once per scope_type and scope_id; on the platform without an id,
\* where no constraint says so, unless two calls created it at a time or a PATCH moved
\* a row to it.
THEOREM AssignedOnceHolds == Spec => []AssignedOnce
<1>1. (part = "granting" => GrantingInv) /\ (part = "assigning" => AssigningInv) => AssignedOnce
  BY GrantingOnce, AssigningOnce DEF AssignedOnce
<1> QED BY <1>1, GrantingHolds, AssigningHolds, PTL

\* A role that a call nothing overlapped last revoked for a scope_type and scope_id is
\* not active for these; a row with another scope_id is not touched.
THEOREM RevokedIsGoneHolds == Spec => []RevokedIsGone
<1>1. (part = "granting" => GrantingInv) /\ (part = "assigning" => AssigningInv) => RevokedIsGone
  BY GrantingRevoked, AssigningRevoked DEF RevokedIsGone
<1> QED BY <1>1, GrantingHolds, AssigningHolds, PTL
-----------------------------------------------------------------------------
(* The permissions of the roles: the part "catalog"                        *)

permissions == s1
links == s3
check == s4
muddied == s5
USE DEF permissions, links, check, muddied

PermissionIds == 1..MaxPermission
LinkIds == 1..MaxLink
System == {Templates[n] : n \in DOMAIN Templates}
Pairs == (CustomRoles \cup System) \X PermissionIds

\* The permissions in a list that a template is to have, and those in the table.
Among(t, listed) == {m[1] : m \in {n \in listed : n[2] \in Patterns[t]}}
Wanted(t, table) == {p \in PermissionIds : table[p] # NULL /\ table[p].is_active /\ table[p].code \in Patterns[t]}

\* What a check or an edit has; where a check is in the templates; what it is to write.
IsCall(c) ==
  c \in [at : {"idle", "codes", "code", "role", "links", "replace", "checked", "edit"}, done : {c.done},
         row : {c.row}, was_active : {c.was_active}, listed : {c.listed}, role : {c.role}, added : {c.added},
         removed : {c.removed}]
CheckShape(c) ==
  /\ IsCall(c)
  /\ c.at \in {"links", "replace"} => c.done \in 0..Len(Templates) /\ \A m \in c.listed : m[1] \in PermissionIds
  /\ c.at \in {"replace", "edit"} => c.added \subseteq PermissionIds /\ c.removed \subseteq LinkIds \X PermissionIds
  /\ c.at = "replace" => /\ c.done # Len(Templates) /\ c.role = Templates[c.done + 1]
                         /\ c.added \subseteq Among(c.role, c.listed)
                         /\ \A d \in c.removed : d[2] \notin Among(c.role, c.listed)
  /\ c.at = "edit" => c.role \in CustomRoles

\* A template has a permission, and those it should have.
Has(t, p, lk) == \E l \in LinkIds : lk[l] = <<t, p>>
Right(t, table, lk) == \A p \in PermissionIds : Has(t, p, lk) <=> p \in Wanted(t, table)

\* A check that nothing disturbed has done the templates so far; what it is to write of
\* the one it is at makes this right.
Told(c, table, lk) ==
  /\ c.at \in {"links", "replace"} =>
       c.listed = Catalog!list(table) /\ \A n \in 1..c.done : Right(Templates[n], table, lk)
  /\ c.at = "replace" =>
       /\ \A p \in Wanted(c.role, table) : Has(c.role, p, lk) \/ p \in c.added
       /\ \A l \in LinkIds : \A p \in PermissionIds \ Wanted(c.role, table) :
            lk[l] = <<c.role, p>> => <<l, p>> \in c.removed
  /\ c.at = "checked" => \A n \in 1..Len(Templates) : Right(Templates[n], table, lk)

CatalogInv ==
  /\ links \in [LinkIds -> Pairs \cup {NULL}]
  /\ check = [r \in Requests |-> check[r]] /\ \A r \in Requests : CheckShape(check[r])
  /\ \A r \in Requests \ muddied : Told(check[r], permissions, links)

\* Links change towards what the templates say.
Towards(lk, new, table) ==
  \A t \in System :
    /\ \A p \in Wanted(t, table) : Has(t, p, lk) => Has(t, p, new)
    /\ \A l \in LinkIds : \A p \in PermissionIds \ Wanted(t, table) : new[l] = <<t, p>> => lk[l] = <<t, p>>

LEMMA TemplatesAre ==
  /\ Len(Templates) \in Nat /\ Catalog!TemplateSet = {Templates[n] : n \in 1..Len(Templates)}
  /\ DOMAIN Templates = 1..Len(Templates)
BY CatalogAssumption DEF Catalog!TemplateSet

LEMMA PairsAre ==
  /\ NULL \notin Pairs
  /\ \A role \in CustomRoles \cup System : \A p \in PermissionIds : <<role, p>> \in Pairs /\ <<role, p>> # NULL
<1>1. NULL \notin Pairs
  BY NullAssumption DEF Pairs, System, PermissionIds
<1> QED BY <1>1 DEF Pairs

\* Permissions that are wanted, worked out from a list that is up to date.
LEMMA WantedIs ==
  ASSUME NEW t, NEW table
  PROVE  Among(t, Catalog!list(table)) = Wanted(t, table)
<1> DEFINE on == {q \in PermissionIds : table[q] # NULL /\ table[q].is_active}
           listed == {<<p, table[p].code>> : p \in on}
<1>1. Catalog!list(table) = listed
  BY DEF Catalog!list, Catalog!PermissionIds, PermissionIds
<1>2. Wanted(t, table) = {p \in on : table[p].code \in Patterns[t]}
  BY DEF Wanted
<1> HIDE DEF on
<1>3. ASSUME NEW p \in on, table[p].code \in Patterns[t]
      PROVE  \E m \in listed : m[2] \in Patterns[t] /\ m[1] = p
  <2>1. <<p, table[p].code>> \in listed /\ <<p, table[p].code>>[1] = p /\ <<p, table[p].code>>[2] = table[p].code
    OBVIOUS
  <2> QED BY <1>3, <2>1
<1>4. ASSUME NEW m \in listed, m[2] \in Patterns[t]
      PROVE  m[1] \in on /\ table[m[1]].code \in Patterns[t]
  <2>1. PICK p \in on : m = <<p, table[p].code>>
    OBVIOUS
  <2>2. m[1] = p /\ m[2] = table[p].code
    BY <2>1
  <2> QED BY <1>4, <2>2
<1> HIDE DEF listed
<1> QED BY <1>1, <1>2, <1>3, <1>4 DEF Among

\* What a list names are ids.
LEMMA ListedAre ==
  ASSUME NEW table, NEW m \in Catalog!list(table)
  PROVE  m[1] \in PermissionIds
BY DEF Catalog!list, Catalog!PermissionIds, PermissionIds

\* What was told stays true.
LEMMA ToldOn ==
  ASSUME NEW c, CheckShape(c), NEW table, NEW lk, NEW new, Told(c, table, lk), Towards(lk, new, table)
  PROVE  Told(c, table, new)
<1>1. ASSUME NEW t \in System, Right(t, table, lk) PROVE Right(t, table, new)
  <2>1. ASSUME NEW p \in Wanted(t, table) PROVE Has(t, p, new)
    BY <1>1, <2>1 DEF Right, Towards, Wanted
  <2>2. ASSUME NEW p \in PermissionIds \ Wanted(t, table) PROVE ~Has(t, p, new)
    BY <1>1, <2>2 DEF Right, Towards, Has
  <2> QED BY <2>1, <2>2 DEF Right
<1>2. \A n \in 1..Len(Templates) : Templates[n] \in System
  BY TemplatesAre DEF System
<1>3. ASSUME c.at \in {"links", "replace"}
      PROVE  c.listed = Catalog!list(table) /\ \A n \in 1..c.done : Right(Templates[n], table, new)
  <2>1. \A n \in 1..c.done : n \in 1..Len(Templates)
    BY <1>3, TemplatesAre DEF CheckShape
  <2> QED BY <1>1, <1>2, <1>3, <2>1 DEF Told
<1>4. ASSUME c.at = "replace"
      PROVE  /\ \A p \in Wanted(c.role, table) : Has(c.role, p, new) \/ p \in c.added
             /\ \A l \in LinkIds : \A p \in PermissionIds \ Wanted(c.role, table) :
                  new[l] = <<c.role, p>> => <<l, p>> \in c.removed
  <2>1. c.role \in System
    <3>1. c.done + 1 \in 1..Len(Templates)
      BY <1>4, TemplatesAre DEF CheckShape
    <3> QED BY <1>2, <1>4, <3>1 DEF CheckShape
  <2> QED BY <1>4, <2>1 DEF Told, Towards
<1>5. ASSUME c.at = "checked" PROVE \A n \in 1..Len(Templates) : Right(Templates[n], table, new)
  BY <1>1, <1>2, <1>5 DEF Told
<1> QED BY <1>3, <1>4, <1>5 DEF Told

LEMMA Undisturbed ==
  ASSUME Catalog!Watch, NEW r \in Requests \ muddied', check'[r].at \in {"links", "replace", "checked"}
  PROVE  /\ r \notin muddied
         /\ check[r].at \in {"links", "replace", "checked"} =>
              permissions' = permissions /\ \A q \in Requests : Catalog!Commits(q) => ~Catalog!Mistaken(q)
         /\ \A q \in Requests \ {r} : check[q].at \in {"links", "replace"} => check[q].listed = Catalog!list(permissions)
BY DEF Catalog!Watch, Catalog!Linking, Catalog!Outdated

\* A step of one check, or of none.
LEMMA Tells ==
  ASSUME CatalogInv, Catalog!Watch, NEW P \in SUBSET Requests, links' \in [LinkIds -> Pairs \cup {NULL}],
         check' = [r \in Requests |-> check'[r]],
         \A r \in Requests \ P : check'[r] = check[r],
         \A r \in P : CheckShape(check'[r]) /\ (r \notin muddied' => Told(check'[r], permissions', links')),
         \A r \in Requests \ P : /\ r \notin muddied' /\ permissions' = permissions
                                 /\ check[r].at \in {"links", "replace", "checked"}
                                 => Towards(links, links', permissions)
  PROVE  CatalogInv'
<1> SUFFICES ASSUME NEW r \in Requests \ P, r \notin muddied' PROVE Told(check[r], permissions', links')
  BY DEF CatalogInv
<1>1. CASE check[r].at \notin {"links", "replace", "checked"}
  BY <1>1 DEF Told
<1>2. CASE check[r].at \in {"links", "replace", "checked"}
  <2>1. r \notin muddied /\ permissions' = permissions
    BY <1>2, Undisturbed
  <2>2. Told(check[r], permissions, links) /\ CheckShape(check[r])
    BY <2>1 DEF CatalogInv
  <2> QED BY <1>2, <2>1, <2>2, ToldOn
<1> QED BY <1>1, <1>2

\* A check that goes on, no links written.
LEMMA Goes ==
  ASSUME CatalogInv, Catalog!Watch, NEW r \in Requests, NEW c, CheckShape(c), Catalog!Go(r, c), links' = links,
         r \notin muddied' => Told(c, permissions', links)
  PROVE  CatalogInv'
<1>1. /\ check' = [q \in Requests |-> check'[q]] /\ check'[r] = c
      /\ \A q \in Requests \ {r} : check'[q] = check[q]
  BY DEF Catalog!Go, CatalogInv
<1>2. Towards(links, links', permissions) /\ links' \in [LinkIds -> Pairs \cup {NULL}]
  BY DEF Towards, CatalogInv
<1> DEFINE P == {r}
<1>3. P \in SUBSET Requests /\ (\A q \in Requests \ P : check'[q] = check[q])
      /\ \A q \in P : CheckShape(check'[q]) /\ (q \notin muddied' => Told(check'[q], permissions', links'))
  BY <1>1
<1> HIDE DEF P
<1> QED BY <1>1, <1>2, <1>3, Tells

LEMMA NoCheckIs ==
  CheckShape(Catalog!NoCheck) /\ Catalog!NoCheck.at = "idle"
BY DEF CheckShape, IsCall, Catalog!NoCheck

\* A check that is not at the links yet, or no more.
LEMMA GoesElsewhere ==
  ASSUME CatalogInv, Catalog!Watch, NEW r \in Requests, NEW c, CheckShape(c), Catalog!Go(r, c), links' = links,
         c.at \notin {"links", "replace", "checked"}
  PROVE  CatalogInv'
<1>1. Told(c, permissions', links)
  BY DEF Told
<1> QED BY <1>1, Goes
\* Up to the list of the permissions.
LEMMA EarlySteps ==
  ASSUME CatalogInv, Catalog!Watch, NEW r \in Requests,
         \/ Catalog!Begin(r) \/ Catalog!get_by_code(r) \/ Catalog!write_permission(r)
         \/ Catalog!ensure_role(r) \/ Catalog!create_role(r) \/ Catalog!Return(r)
  PROVE  CatalogInv'
<1> DEFINE c0 == check[r]
           Early(c) == CheckShape(c) /\ c.at \notin {"links", "replace", "checked"}
<1>1. CheckShape(c0)
  BY DEF CatalogInv
<1>2. Early(Catalog!NoCheck)
  BY NoCheckIs
<1> SUFFICES \E c : Early(c) /\ Catalog!Go(r, c) /\ links' = links
  BY GoesElsewhere
<1>3. CASE Catalog!Begin(r)
  <2> DEFINE c == [Catalog!NoCheck EXCEPT !.at = "codes"]
  <2>1. Early(c)
    BY DEF CheckShape, IsCall, Catalog!NoCheck
  <2> QED BY <1>3, <2>1 DEF Catalog!Begin
<1>4. CASE Catalog!get_by_code(r)
  <2> DEFINE absent == [c0 EXCEPT !.at = "code", !.row = 0]
             there == [c0 EXCEPT !.done = @ + 1]
             off(p) == [c0 EXCEPT !.at = "code", !.row = p, !.was_active = permissions[p].is_active]
  <2>0. /\ c0.at = "codes" /\ links' = links
        /\ IF Catalog!WithCode(Catalog!Code(r)) = {} THEN Catalog!Go(r, absent)
           ELSE \E p \in Catalog!WithCode(Catalog!Code(r)) :
                  IF permissions[p].status = "active" THEN Catalog!Go(r, there) ELSE Catalog!Go(r, off(p))
    BY <1>4, Zenon DEF Catalog!get_by_code
  <2>1. c0.at = "codes" /\ links' = links
    BY <2>0, Zenon
  <2>2. Early(absent)
    BY <1>1 DEF CheckShape, IsCall
  <2>3. Early(there)
    BY <1>1, <2>1 DEF CheckShape, IsCall
  <2>4. \A p : Early(off(p))
    BY <1>1 DEF CheckShape, IsCall
  <2>5. Catalog!Go(r, absent) \/ Catalog!Go(r, there) \/ \E p : Catalog!Go(r, off(p))
    <3> HIDE DEF absent, there, off
    <3> QED BY <2>0
  <2> HIDE DEF absent, there, off
  <2> QED BY <2>1, <2>2, <2>3, <2>4, <2>5
<1>5. CASE Catalog!write_permission(r)
  <2> DEFINE next == [c0 EXCEPT !.at = "codes", !.done = @ + 1, !.row = 0, !.was_active = FALSE]
  <2>1. Early(next)
    BY <1>1 DEF CheckShape, IsCall
  <2>2. links' = links /\ (Catalog!Go(r, Catalog!NoCheck) \/ Catalog!Go(r, next))
    BY <1>5 DEF Catalog!write_permission
  <2> HIDE DEF next
  <2> QED BY <1>2, <2>1, <2>2
<1>6. CASE Catalog!ensure_role(r)
  <2> DEFINE there == [c0 EXCEPT !.done = @ + 1]
             absent == [c0 EXCEPT !.at = "role"]
  <2>1. c0.at = "codes"
    BY <1>6 DEF Catalog!ensure_role
  <2>2. Early(there)
    BY <1>1, <2>1 DEF CheckShape, IsCall
  <2>3. Early(absent)
    BY <1>1 DEF CheckShape, IsCall
  <2>4. links' = links /\ (Catalog!Go(r, there) \/ Catalog!Go(r, absent))
    BY <1>6 DEF Catalog!ensure_role
  <2> HIDE DEF there, absent
  <2> QED BY <2>2, <2>3, <2>4
<1>7. CASE Catalog!create_role(r)
  <2> DEFINE next == [c0 EXCEPT !.at = "codes", !.done = @ + 1]
  <2>1. Early(next)
    BY <1>1 DEF CheckShape, IsCall
  <2>2. links' = links /\ (Catalog!Go(r, Catalog!NoCheck) \/ Catalog!Go(r, next))
    BY <1>7 DEF Catalog!create_role
  <2> HIDE DEF next
  <2> QED BY <1>2, <2>1, <2>2
<1>8. CASE Catalog!Return(r)
  BY <1>2, <1>8 DEF Catalog!Return
<1> QED BY <1>3, <1>4, <1>5, <1>6, <1>7, <1>8

LEMMA ListsPermissions ==
  ASSUME CatalogInv, Catalog!Watch, NEW r \in Requests, Catalog!list_permissions(r)
  PROVE  CatalogInv'
<1> DEFINE c == [Catalog!NoCheck EXCEPT !.at = "links", !.listed = Catalog!list(permissions)]
<1>1. Catalog!Go(r, c) /\ links' = links /\ permissions' = permissions
  BY DEF Catalog!list_permissions
<1>2. /\ c.at = "links" /\ c.done = 0 /\ c.listed = Catalog!list(permissions)
      /\ c \in [at : {"links"}, done : {0}, row : {c.row}, was_active : {c.was_active}, listed : {c.listed},
                role : {c.role}, added : {c.added}, removed : {c.removed}]
  BY DEF Catalog!NoCheck
<1> HIDE DEF c
<1>3. CheckShape(c)
  BY <1>2, TemplatesAre, ListedAre DEF CheckShape, IsCall
<1>4. Told(c, permissions, links)
  BY <1>2 DEF Told
<1> QED BY <1>1, <1>3, <1>4, Goes

\* The links of a role, as Planned finds them.
LEMMA PlannedIs ==
  ASSUME CatalogInv, NEW c, IsCall(c), NEW role \in CustomRoles \cup System, NEW wanted \in SUBSET PermissionIds
  PROVE  LET new == Catalog!Planned(c, role, wanted)
         IN /\ new \in [at : {c.at}, done : {c.done}, row : {c.row}, was_active : {c.was_active}, listed : {c.listed},
                        role : {role}, added : SUBSET PermissionIds, removed : SUBSET (LinkIds \X PermissionIds)]
            /\ new.added \subseteq wanted /\ \A d \in new.removed : d[2] \notin wanted
            /\ \A p \in wanted : Has(role, p, links) \/ p \in new.added
            /\ \A l \in LinkIds : \A p \in PermissionIds \ wanted : links[l] = <<role, p>> => <<l, p>> \in new.removed
<1> DEFINE mine == {l \in LinkIds : links[l] # NULL /\ links[l][1] = role}
           gone == {m \in mine : links[m][2] \notin wanted}
           added == wanted \ {links[l][2] : l \in mine}
           removed == {<<l, links[l][2]>> : l \in gone}
           new == [c EXCEPT !.role = role, !.added = added, !.removed = removed]
<1>1. Catalog!LinksOf(role) = mine
  BY DEF Catalog!LinksOf, Catalog!LinkIds, LinkIds
<1>2. Catalog!Planned(c, role, wanted) = new
  BY <1>1 DEF Catalog!Planned, Catalog!Linked
<1>3. \A l \in mine : l \in LinkIds /\ links[l] = <<role, links[l][2]>> /\ links[l][2] \in PermissionIds
  BY DEF CatalogInv, Pairs
<1>4. ASSUME NEW l \in LinkIds, NEW p \in PermissionIds, links[l] = <<role, p>>
      PROVE  l \in mine /\ links[l][2] = p
  BY <1>4, PairsAre
<1> HIDE DEF mine
<1>5. removed \subseteq LinkIds \X PermissionIds /\ \A d \in removed : d[2] \notin wanted
  BY <1>3
<1>6. added \subseteq wanted /\ \A p \in wanted : Has(role, p, links) \/ p \in added
  BY <1>3 DEF Has
<1>7. \A l \in LinkIds : \A p \in PermissionIds \ wanted : links[l] = <<role, p>> => <<l, p>> \in removed
  BY <1>4
<1> HIDE DEF added, removed
<1>8. /\ new \in [at : {c.at}, done : {c.done}, row : {c.row}, was_active : {c.was_active}, listed : {c.listed},
                  role : {role}, added : SUBSET PermissionIds, removed : SUBSET (LinkIds \X PermissionIds)]
      /\ new.added = added /\ new.removed = removed
  BY <1>5, <1>6 DEF IsCall
<1> HIDE DEF new
<1> QED BY <1>2, <1>5, <1>6, <1>7, <1>8

LEMMA ListsLinks ==
  ASSUME CatalogInv, Catalog!Watch, NEW r \in Requests, Catalog!list_links(r)
  PROVE  CatalogInv'
<1> DEFINE c0 == check[r]
           t == Templates[c0.done + 1]
           mid == [c0 EXCEPT !.at = "replace"]
           wanted == Among(t, c0.listed)
           all == [Catalog!NoCheck EXCEPT !.at = "checked"]
           read == Catalog!Planned(mid, t, wanted)
           c == IF c0.done = Len(Templates) THEN all ELSE read
<1>1. c0.at = "links" /\ Catalog!Go(r, c) /\ links' = links /\ permissions' = permissions
  BY DEF Catalog!list_links, Among
<1>2. CheckShape(c0) /\ c0.done \in 0..Len(Templates) /\ \A m \in c0.listed : m[1] \in PermissionIds
  BY <1>1 DEF CatalogInv, CheckShape
<1>3. r \notin muddied => Told(c0, permissions, links)
  BY DEF CatalogInv
<1>4. CheckShape(all) /\ all.at = "checked"
  <2>1. IsCall(all) /\ all.at = "checked"
    BY DEF IsCall, Catalog!NoCheck
  <2> HIDE DEF all
  <2> QED BY <2>1 DEF CheckShape
<1>5. ASSUME c0.done # Len(Templates)
      PROVE  /\ CheckShape(read) /\ read.at = "replace" /\ read.done = c0.done /\ read.listed = c0.listed /\ read.role = t
             /\ \A p \in wanted : Has(t, p, links) \/ p \in read.added
             /\ \A l \in LinkIds : \A p \in PermissionIds \ wanted : links[l] = <<t, p>> => <<l, p>> \in read.removed
  <2>1. t \in System
    BY <1>2, <1>5, TemplatesAre DEF System
  <2>2. wanted \in SUBSET PermissionIds
    BY <1>2 DEF Among
  <2>3. /\ mid \in [at : {"replace"}, done : {c0.done}, row : {c0.row}, was_active : {c0.was_active},
                    listed : {c0.listed}, role : {c0.role}, added : {c0.added}, removed : {c0.removed}]
        /\ mid.at = "replace" /\ mid.done = c0.done /\ mid.listed = c0.listed
    BY <1>2 DEF CheckShape, IsCall
  <2> DEFINE new == Catalog!Planned(mid, t, wanted)
  <2>4. /\ new \in [at : {mid.at}, done : {mid.done}, row : {mid.row}, was_active : {mid.was_active},
                    listed : {mid.listed}, role : {t}, added : SUBSET PermissionIds,
                    removed : SUBSET (LinkIds \X PermissionIds)]
        /\ new.added \subseteq wanted /\ \A d \in new.removed : d[2] \notin wanted
        /\ \A p \in wanted : Has(t, p, links) \/ p \in new.added
        /\ \A l \in LinkIds : \A p \in PermissionIds \ wanted : links[l] = <<t, p>> => <<l, p>> \in new.removed
    <3>1. IsCall(mid)
      BY <2>3 DEF IsCall
    <3> HIDE DEF mid, t, wanted
    <3> QED BY <2>1, <2>2, <3>1, PlannedIs
  <2> HIDE DEF mid, new
  <2>5. /\ new.at = "replace" /\ new.done = c0.done /\ new.listed = c0.listed /\ new.role = t
        /\ IsCall(new) /\ new.added \subseteq PermissionIds /\ new.removed \subseteq LinkIds \X PermissionIds
    BY <2>3, <2>4 DEF IsCall
  <2>6. CheckShape(new)
    <3> HIDE DEF wanted
    <3>1. wanted = Among(new.role, new.listed) /\ new.role = Templates[new.done + 1]
      BY <2>5 DEF wanted
    <3> HIDE DEF t
    <3>2. new.done \in 0..Len(Templates) /\ new.done # Len(Templates) /\ \A m \in new.listed : m[1] \in PermissionIds
      BY <1>2, <1>5, <2>5
    <3> QED BY <2>4, <2>5, <3>1, <3>2 DEF CheckShape
  <2> QED BY <2>4, <2>5, <2>6 DEF new, mid
<1> HIDE DEF all, read, wanted
<1>6. CheckShape(c)
  BY <1>4, <1>5
<1>7. r \notin muddied => Told(c, permissions, links)
  <2>1. CASE c0.done = Len(Templates)
    BY <1>1, <1>3, <1>4, <2>1 DEF Told
  <2>2. CASE c0.done # Len(Templates)
    <3>1. c0.listed = Catalog!list(permissions) => wanted = Wanted(t, permissions)
      BY WantedIs DEF wanted
    <3> QED BY <1>1, <1>3, <1>5, <2>2, <3>1 DEF Told
  <2> QED BY <2>1, <2>2
<1>8. Catalog!Go(r, c) => check'[r] = c
  BY DEF Catalog!Go, CatalogInv
<1>9. r \notin muddied' => r \notin muddied
  <2>1. c.at \in {"replace", "checked"}
    BY <1>4, <1>5
  <2> QED BY <1>1, <1>8, <2>1, Undisturbed
<1> HIDE DEF c
<1> QED BY <1>1, <1>6, <1>7, <1>9, Goes

\* The ids of new links are free.
LEMMA FreshAre ==
  ASSUME CatalogInv, NEW r \in Requests, check[r].at \in {"replace", "edit"},
         NEW l \in LinkIds, l \in Catalog!Fresh(check[r])
  PROVE  links[l] = NULL
<1> DEFINE taken == {m \in LinkIds : links[m] # NULL} \cup {0}
           added == check[r].added
           n == 1 + Catalog!Max(taken)
<1>1. taken \subseteq 0..MaxLink /\ taken # {}
  BY BoundAssumption DEF LinkIds
<1>2. \E x \in taken : \A y \in taken : x >= y
  BY <1>1, HasMax, BoundAssumption
<1>3. Catalog!Max(taken) \in taken /\ \A y \in taken : Catalog!Max(taken) >= y
  BY <1>2 DEF Catalog!Max
<1>4. n \in Int /\ \A m \in taken : m < n
  <2> DEFINE x == Catalog!Max(taken)
  <2>1. x \in taken /\ \A y \in taken : x >= y
    BY <1>3
  <2> HIDE DEF taken, x
  <2>2. 1 + x \in Int /\ \A m \in taken : m < 1 + x
    BY <1>1, <2>1, BoundAssumption
  <2> QED BY <2>2 DEF x
<1>5. added \subseteq PermissionIds
  BY DEF CatalogInv, CheckShape
<1>6. Catalog!Cardinality(added) \in Nat
  <2>1. IsFiniteSet(PermissionIds)
    BY FS_Interval, BoundAssumption DEF PermissionIds
  <2>2. IsFiniteSet(added)
    BY <1>5, <2>1, FS_Subset
  <2> HIDE DEF added
  <2>3. Cardinality(added) \in Nat
    BY <2>2, FS_CardinalityType
  <2> QED BY <2>3 DEF Catalog!Cardinality, Cardinality
<1>7. l \in n..(n + Catalog!Cardinality(added) - 1)
  BY DEF Catalog!Fresh, Catalog!NextLink, Catalog!LinkIds, LinkIds
<1> HIDE DEF n, added
<1>8. n <= l
  BY <1>4, <1>6, <1>7
<1> QED BY <1>1, <1>4, <1>8, BoundAssumption DEF LinkIds

\* What a commit does to the links, when the ids of those it deletes have not been
\* given again.
Written(c, lk, new) ==
  /\ \A l \in LinkIds : lk[l] # NULL =>
       new[l] = lk[l] \/ (new[l] = NULL /\ \E d \in c.removed : lk[l] = <<c.role, d[2]>>)
  /\ \A l \in LinkIds : lk[l] = NULL => new[l] = NULL \/ \E p \in c.added : new[l] = <<c.role, p>>
  /\ \A p \in c.added : Has(c.role, p, new)
  /\ \A d \in c.removed : new[d[1]] = NULL

LEMMA RoleIs ==
  ASSUME NEW c, CheckShape(c), c.at \in {"replace", "edit"}
  PROVE  c.role \in CustomRoles \cup System /\ (c.role \in System => c.at = "replace")
<1>1. c.at = "edit" => c.role \in CustomRoles /\ c.role \notin System
  BY CatalogAssumption DEF CheckShape, System
<1>2. c.at = "replace" => c.role \in System
  <2>1. c.at = "replace" => c.done + 1 \in 1..Len(Templates)
    BY TemplatesAre DEF CheckShape
  <2> QED BY <2>1, TemplatesAre DEF CheckShape, System
<1> QED BY <1>1, <1>2

\* A commit of the links of a role.
LEMMA Replaces ==
  ASSUME CatalogInv, NEW r \in Requests, check[r].at \in {"replace", "edit"},
         NEW put \in [Catalog!Fresh(check[r]) -> check[r].added],
         Catalog!Fresh(check[r]) \subseteq LinkIds,
         {put[l] : l \in Catalog!Fresh(check[r])} = check[r].added,
         links' = [l \in LinkIds |-> IF l \in {d[1] : d \in check[r].removed} THEN NULL
                                     ELSE IF l \in Catalog!Fresh(check[r]) THEN <<check[r].role, put[l]>> ELSE links[l]]
  PROVE  /\ links' \in [LinkIds -> Pairs \cup {NULL}]
         /\ ~Catalog!Mistaken(r) => Written(check[r], links, links')
<1> DEFINE c == check[r]
           role == c.role
           fresh == Catalog!Fresh(c)
           gone == {d[1] : d \in c.removed}
<1>1. CheckShape(c) /\ role \in CustomRoles \cup System /\ c.added \subseteq PermissionIds
      /\ c.removed \subseteq LinkIds \X PermissionIds
  BY RoleIs DEF CatalogInv, CheckShape
<1>2. \A l \in fresh : l \in LinkIds /\ links[l] = NULL
  BY FreshAre
<1>3. ~Catalog!Mistaken(r) => \A d \in c.removed : IF links[d[1]] = NULL THEN d[1] \notin fresh ELSE links[d[1]] = <<role, d[2]>>
  BY DEF Catalog!Mistaken
<1> HIDE DEF fresh
<1>4. \A l \in LinkIds : links'[l] = IF l \in gone THEN NULL ELSE IF l \in fresh THEN <<role, put[l]>> ELSE links[l]
  BY DEF fresh
<1>5. \A l \in fresh : put[l] \in c.added /\ <<role, put[l]>> \in Pairs /\ <<role, put[l]>> # NULL
  BY <1>1, PairsAre DEF fresh
<1>6. \A p \in c.added : \E l \in fresh : put[l] = p
  BY DEF fresh
<1>7. links' \in [LinkIds -> Pairs \cup {NULL}]
  <2>1. \A l \in LinkIds : links'[l] \in Pairs \cup {NULL}
    BY <1>4, <1>5 DEF CatalogInv
  <2>2. links' = [l \in LinkIds |-> links'[l]]
    OBVIOUS
  <2> QED BY <2>1, <2>2
<1>8. ASSUME ~Catalog!Mistaken(r) PROVE Written(c, links, links')
  <2>1. ASSUME NEW l \in LinkIds, links[l] # NULL
        PROVE  links'[l] = links[l] \/ (links'[l] = NULL /\ \E d \in c.removed : links[l] = <<role, d[2]>>)
    <3>1. l \notin fresh
      BY <1>2, <2>1
    <3>2. CASE l \in gone
      <4>1. PICK d \in c.removed : l = d[1]
        BY <3>2
      <4>2. links[l] = <<role, d[2]>> /\ links'[l] = NULL
        BY <1>3, <1>4, <1>8, <2>1, <3>2, <4>1
      <4> QED BY <4>1, <4>2
    <3>3. CASE l \notin gone
      BY <1>4, <3>1, <3>3
    <3> QED BY <3>2, <3>3
  <2>2. ASSUME NEW l \in LinkIds, links[l] = NULL
        PROVE  links'[l] = NULL \/ \E p \in c.added : links'[l] = <<role, p>>
    BY <1>4, <1>5, <2>2
  <2>3. ASSUME NEW p \in c.added PROVE Has(role, p, links')
    <3>1. PICK l \in fresh : put[l] = p
      BY <1>6
    <3>2. l \notin gone
      BY <1>2, <1>3, <1>8
    <3> QED BY <1>2, <1>4, <3>1, <3>2 DEF Has
  <2>4. ASSUME NEW d \in c.removed PROVE links'[d[1]] = NULL
    BY <1>1, <1>4
  <2> QED BY <2>1, <2>2, <2>3, <2>4 DEF Written
<1> QED BY <1>7, <1>8

LEMMA WrittenTowards ==
  ASSUME NEW c, CheckShape(c), c.at \in {"replace", "edit"}, NEW lk, NEW new, Written(c, lk, new), NEW table,
         c.at = "replace" => c.listed = Catalog!list(table)
  PROVE  Towards(lk, new, table)
<1> SUFFICES ASSUME NEW t \in System
             PROVE  /\ \A p \in Wanted(t, table) : Has(t, p, lk) => Has(t, p, new)
                    /\ \A l \in LinkIds : \A p \in PermissionIds \ Wanted(t, table) :
                         new[l] = <<t, p>> => lk[l] = <<t, p>>
  BY DEF Towards
<1>1. \A p \in PermissionIds : <<t, p>> # NULL
  BY PairsAre
<1>2. c.role = t => /\ c.added \subseteq Wanted(t, table)
                    /\ \A d \in c.removed : d[2] \notin Wanted(t, table)
  <2>1. c.role = t => c.at = "replace"
    BY RoleIs
  <2>2. c.role = t => Among(t, c.listed) = Wanted(t, table)
    BY <2>1, WantedIs
  <2> QED BY <2>1, <2>2 DEF CheckShape
<1>3. ASSUME NEW p \in Wanted(t, table), NEW l \in LinkIds, lk[l] = <<t, p>> PROVE new[l] = <<t, p>>
  <2>1. lk[l] # NULL
    BY <1>1, <1>3 DEF Wanted
  <2>2. ASSUME NEW d \in c.removed, lk[l] = <<c.role, d[2]>> PROVE FALSE
    <3>1. c.role = t /\ d[2] = p
      BY <1>3, <2>2
    <3> QED BY <1>2, <1>3, <2>2, <3>1
  <2> QED BY <1>3, <2>1, <2>2 DEF Written
<1>4. ASSUME NEW l \in LinkIds, NEW p \in PermissionIds \ Wanted(t, table), new[l] = <<t, p>> PROVE lk[l] = <<t, p>>
  <2>1. new[l] # NULL
    BY <1>1, <1>4
  <2>2. CASE lk[l] # NULL
    BY <1>4, <2>1, <2>2 DEF Written
  <2>3. CASE lk[l] = NULL
    <3>1. PICK q \in c.added : new[l] = <<c.role, q>>
      BY <2>1, <2>3 DEF Written
    <3>2. c.role = t /\ q = p
      BY <1>4, <3>1
    <3> QED BY <1>2, <1>4, <3>1, <3>2
  <2> QED BY <2>2, <2>3
<1> QED BY <1>3, <1>4 DEF Has

LEMMA WrittenRight ==
  ASSUME NEW c, CheckShape(c), c.at = "replace", NEW lk, NEW new, Written(c, lk, new), NEW table, Told(c, table, lk)
  PROVE  Right(c.role, table, new)
<1>1. c.listed = Catalog!list(table)
  BY DEF Told
<1>2. Towards(lk, new, table) /\ c.role \in System
  <2>1. c.done + 1 \in DOMAIN Templates /\ c.role = Templates[c.done + 1]
    BY TemplatesAre DEF CheckShape
  <2> QED BY <1>1, <2>1, WrittenTowards DEF System
<1>3. ASSUME NEW p \in Wanted(c.role, table) PROVE Has(c.role, p, new)
  BY <1>2, <1>3 DEF Told, Towards, Written
<1>4. ASSUME NEW p \in PermissionIds \ Wanted(c.role, table), NEW l \in LinkIds, new[l] = <<c.role, p>> PROVE FALSE
  <2>1. lk[l] = <<c.role, p>>
    BY <1>2, <1>4 DEF Towards
  <2>2. <<l, p>> \in c.removed
    BY <1>4, <2>1 DEF Told
  <2>3. new[l] = NULL
    <3>1. <<l, p>>[1] = l
      OBVIOUS
    <3> QED BY <2>2, <3>1 DEF Written
  <2> QED BY <1>2, <1>4, <2>3, PairsAre
<1> QED BY <1>3, <1>4 DEF Right, Has

LEMMA ReplacesPermissions ==
  ASSUME CatalogInv, Catalog!Watch, NEW r \in Requests, Catalog!replace_permissions(r)
  PROVE  CatalogInv'
<1> DEFINE c0 == check[r]
           fresh == Catalog!Fresh(c0)
           gone == {d[1] : d \in c0.removed}
           next == [c0 EXCEPT !.at = "links", !.done = @ + 1, !.role = NULL, !.added = {}, !.removed = {}]
           new == IF c0.at = "edit" THEN Catalog!NoCheck ELSE next
           commit == /\ fresh \subseteq Catalog!LinkIds
                     /\ \E put \in [fresh -> c0.added] :
                          /\ {put[l] : l \in fresh} = c0.added
                          /\ links' = [l \in Catalog!LinkIds |->
                                         IF l \in gone THEN NULL ELSE IF l \in fresh THEN <<c0.role, put[l]>> ELSE links[l]]
                     /\ Catalog!Go(r, new)
<1>1. /\ c0.at \in {"replace", "edit"} /\ permissions' = permissions
      /\ IF c0.added \cap Catalog!Linked(c0.role) # {} THEN Catalog!Go(r, Catalog!NoCheck) /\ links' = links ELSE commit
  BY DEF Catalog!replace_permissions, Catalog!Replace
<1>2. CASE ~commit
  <2>1. Catalog!Go(r, Catalog!NoCheck) /\ links' = links
    BY <1>1, <1>2
  <2> QED BY <2>1, NoCheckIs, GoesElsewhere
<1>3. CASE commit
  <2>1. CheckShape(c0) /\ IsCall(c0)
    BY DEF CatalogInv, CheckShape
  <2>2. Catalog!LinkIds = LinkIds
    BY DEF Catalog!LinkIds, LinkIds
  <2>3. links' \in [LinkIds -> Pairs \cup {NULL}] /\ (~Catalog!Mistaken(r) => Written(c0, links, links'))
    <3>1. PICK put \in [fresh -> c0.added] :
            /\ {put[l] : l \in fresh} = c0.added
            /\ links' = [l \in LinkIds |->
                           IF l \in gone THEN NULL ELSE IF l \in fresh THEN <<c0.role, put[l]>> ELSE links[l]]
      BY <1>3, <2>2
    <3> QED BY <1>1, <1>3, <2>2, <3>1, Replaces
  <2>4. Catalog!Go(r, new)
    BY <1>3
  <2> HIDE DEF commit, fresh, gone
  <2>5. c0.at = "replace" =>
          /\ next.at = "links" /\ next.done = c0.done + 1 /\ next.listed = c0.listed /\ CheckShape(next)
    <3> SUFFICES ASSUME c0.at = "replace"
                 PROVE  next.at = "links" /\ next.done = c0.done + 1 /\ next.listed = c0.listed /\ CheckShape(next)
      OBVIOUS
    <3>1. next.at = "links" /\ next.done = c0.done + 1 /\ next.listed = c0.listed /\ IsCall(next)
      BY <2>1 DEF IsCall
    <3>2. c0.done + 1 \in 0..Len(Templates) /\ \A m \in c0.listed : m[1] \in PermissionIds
      BY <2>1, TemplatesAre DEF CheckShape
    <3> HIDE DEF next
    <3> QED BY <3>1, <3>2 DEF CheckShape
  <2> HIDE DEF next
  <2>6. CheckShape(new) /\ (new.at = "links" => c0.at = "replace" /\ new = next)
        /\ (c0.at = "edit" => new.at = "idle") /\ (c0.at = "replace" => new = next)
    BY <1>1, <2>5, NoCheckIs
  <2> HIDE DEF new
  <2>7. /\ check' = [q \in Requests |-> check'[q]] /\ check'[r] = new
        /\ \A q \in Requests \ {r} : check'[q] = check[q]
    BY <2>4 DEF Catalog!Go, CatalogInv
  <2>8. links' # links => Catalog!Commits(r)
    BY <1>1, <2>5, <2>6, <2>7 DEF Catalog!Commits
  <2>9. c0.at = "replace" => Catalog!Commits(r)
    BY <2>5, <2>6, <2>7 DEF Catalog!Commits
  <2>10. ASSUME r \notin muddied' PROVE Told(new, permissions, links')
    <3>1. CASE c0.at = "edit"
      BY <2>6, <3>1 DEF Told
    <3>2. CASE c0.at = "replace"
      <4>1. r \notin muddied /\ ~Catalog!Mistaken(r)
        BY <2>5, <2>6, <2>7, <2>9, <2>10, <3>2, Undisturbed
      <4>2. Told(c0, permissions, links) /\ Written(c0, links, links')
        BY <2>3, <4>1 DEF CatalogInv
      <4>3. Right(c0.role, permissions, links')
        BY <2>1, <3>2, <4>2, WrittenRight
      <4>4. c0.listed = Catalog!list(permissions) /\ Towards(links, links', permissions)
        BY <2>1, <3>2, <4>2, WrittenTowards DEF Told
      <4>5. Told(c0, permissions, links')
        BY <2>1, <4>2, <4>4, ToldOn
      <4>6. c0.done \in Nat /\ c0.role = Templates[c0.done + 1]
        BY <2>1, <3>2, TemplatesAre DEF CheckShape
      <4>7. \A n \in 1..next.done : n \in 1..c0.done \/ n = c0.done + 1
        BY <2>5, <3>2, <4>6
      <4>8. \A n \in 1..next.done : Right(Templates[n], permissions, links')
        BY <3>2, <4>3, <4>5, <4>6, <4>7 DEF Told
      <4> QED BY <2>5, <2>6, <3>2, <4>4, <4>8 DEF Told
    <3> QED BY <1>1, <3>1, <3>2
  <2>11. ASSUME NEW q \in Requests \ {r}, q \notin muddied', check[q].at \in {"links", "replace", "checked"}
         PROVE  Towards(links, links', permissions)
    <3>1. CASE links' = links
      BY <3>1 DEF Towards
    <3>2. CASE links' # links
      <4>1. ~Catalog!Mistaken(r) /\ (c0.at = "replace" => c0.listed = Catalog!list(permissions))
        BY <2>7, <2>8, <2>11, <3>2, Undisturbed
      <4> QED BY <1>1, <2>1, <2>3, <4>1, WrittenTowards
    <3> QED BY <3>1, <3>2
  <2> DEFINE P == {r}
  <2>12. P \in SUBSET Requests /\ (\A q \in Requests \ P : check'[q] = check[q])
         /\ \A q \in P : CheckShape(check'[q]) /\ (q \notin muddied' => Told(check'[q], permissions', links'))
    BY <1>1, <2>6, <2>7, <2>10
  <2>13. \A q \in Requests \ P : /\ q \notin muddied' /\ permissions' = permissions
                                 /\ check[q].at \in {"links", "replace", "checked"}
                                 => Towards(links, links', permissions)
    BY <2>11
  <2> HIDE DEF P
  <2> QED BY <2>3, <2>7, <2>12, <2>13, Tells
<1> QED BY <1>2, <1>3

\* Administrators: no links are written yet.
LEMMA EditsLinks ==
  ASSUME CatalogInv, Catalog!Watch, NEW r \in Requests, NEW role \in CustomRoles, Catalog!edit_links(r, role)
  PROVE  CatalogInv'
<1> DEFINE usable == {p \in PermissionIds : permissions[p] # NULL /\ permissions[p].is_active}
           linked == Catalog!Linked(role)
           sets == (SUBSET usable) \cup {linked \cup {p} : p \in usable \ linked} \cup {linked \ {p} : p \in linked}
           mid == [Catalog!NoCheck EXCEPT !.at = "edit"]
<1>1. links' = links /\ \E wanted \in sets : Catalog!Go(r, Catalog!Planned(mid, role, wanted))
  BY DEF Catalog!edit_links, Catalog!PermissionIds, PermissionIds
<1>2. linked \subseteq PermissionIds
  BY DEF CatalogInv, Catalog!Linked, Catalog!LinksOf, Catalog!LinkIds, LinkIds, Pairs
<1> HIDE DEF linked
<1>3. PICK wanted \in sets : Catalog!Go(r, Catalog!Planned(mid, role, wanted))
  BY <1>1
<1>4. wanted \in SUBSET PermissionIds
  <2>1. usable \subseteq PermissionIds
    OBVIOUS
  <2> HIDE DEF usable
  <2>2. \A S \in sets : S \subseteq PermissionIds
    BY <1>2, <2>1
  <2> QED BY <1>3, <2>2
<1>5. IsCall(mid) /\ mid.at = "edit"
  BY DEF IsCall, Catalog!NoCheck
<1> DEFINE c == Catalog!Planned(mid, role, wanted)
<1>6. c \in [at : {mid.at}, done : {mid.done}, row : {mid.row}, was_active : {mid.was_active}, listed : {mid.listed},
             role : {role}, added : SUBSET PermissionIds, removed : SUBSET (LinkIds \X PermissionIds)]
  <2> HIDE DEF mid
  <2> QED BY <1>4, <1>5, PlannedIs
<1> HIDE DEF c, mid
<1>7. CheckShape(c) /\ c.at = "edit"
  BY <1>5, <1>6 DEF CheckShape, IsCall
<1> QED BY <1>1, <1>3, <1>7, GoesElsewhere DEF c

LEMMA Edits ==
  ASSUME CatalogInv, Catalog!Watch, Catalog!Edit
  PROVE  CatalogInv'
<1>1. CASE \E r \in Requests, role \in CustomRoles : Catalog!edit_links(r, role)
  BY <1>1, EditsLinks
<1>2. CASE links' = links /\ check' = check
  <2>1. Towards(links, links', permissions) /\ links' \in [LinkIds -> Pairs \cup {NULL}]
    BY <1>2 DEF Towards, CatalogInv
  <2> DEFINE P == {}
  <2>2. P \in SUBSET Requests /\ check' = [r \in Requests |-> check'[r]] /\ (\A r \in Requests \ P : check'[r] = check[r])
        /\ \A q \in P : CheckShape(check'[q]) /\ (q \notin muddied' => Told(check'[q], permissions', links'))
    BY <1>2 DEF CatalogInv
  <2> HIDE DEF P
  <2> QED BY <2>1, <2>2, Tells
<1> QED BY <1>1, <1>2 DEF Catalog!Edit, Catalog!create, Catalog!update

LEMMA CatalogNext ==
  ASSUME CatalogInv, Catalog!Next \/ UNCHANGED <<s1, s2, s3, s4, s5, s6>>
  PROVE  CatalogInv'
<1>1. CASE Catalog!Next
  <2>1. Catalog!Watch
    BY <1>1 DEF Catalog!Next
  <2>2. ASSUME NEW r \in Requests, Catalog!Check(r) PROVE CatalogInv'
    BY <2>1, <2>2, EarlySteps, ListsPermissions, ListsLinks, ReplacesPermissions DEF Catalog!Check
  <2> QED BY <1>1, <2>1, <2>2, Edits DEF Catalog!Next
<1>2. CASE UNCHANGED <<s1, s2, s3, s4, s5, s6>>
  BY <1>2 DEF CatalogInv
<1> QED BY <1>1, <1>2

LEMMA CatalogHolds == Spec => [](part = "catalog" => CatalogInv)
<1>1. Init => (part = "catalog" => CatalogInv)
  <2> SUFFICES ASSUME Catalog!Init PROVE CatalogInv
    BY DEF Init
  <2>1. check = [r \in Requests |-> Catalog!NoCheck]
    BY DEF Catalog!Init
  <2>2. \A table, lk : Told(Catalog!NoCheck, table, lk)
    BY NoCheckIs DEF Told
  <2>3. links \in [LinkIds -> Pairs \cup {NULL}]
    BY DEF Catalog!Init, Catalog!LinkIds, LinkIds
  <2> QED BY <2>1, <2>2, <2>3, NoCheckIs DEF CatalogInv
<1>2. (part = "catalog" => CatalogInv) /\ [Next]_vars => (part = "catalog" => CatalogInv)'
  <2> SUFFICES ASSUME part = "catalog" => CatalogInv, [Next]_vars, part' = "catalog"
               PROVE  CatalogInv'
    OBVIOUS
  <2>1. /\ part = "catalog"
        /\ Catalog!Next \/ UNCHANGED <<s1, s2, s3, s4, s5, s6>>
    BY DEF Next, vars
  <2> QED BY <2>1, CatalogNext
<1> QED BY <1>1, <1>2, PTL DEF Spec

\* A permission check decides on what the templates say of the permissions in force,
\* unless, while it wrote the links, a permission changed, another check wrote links
\* from an older list, or a commit deleted a link that had got the id of one it had
\* loaded.
THEOREM DecidesOnTemplatesHolds == Spec => []DecidesOnTemplates
<1>1. CatalogInv => Catalog!DecidesOnTemplates
  <2> SUFFICES ASSUME CatalogInv, NEW r \in Requests \ muddied, check[r].at = "checked",
                      NEW t \in Catalog!TemplateSet
               PROVE  Catalog!Granted(t) =
                        {permissions[p].code : p \in {q \in Catalog!PermissionIds : Catalog!InForce(q)}} \cap Patterns[t]
    BY DEF Catalog!DecidesOnTemplates
  <2> DEFINE there == {q \in PermissionIds : Catalog!InForce(q)}
             mine == {l \in LinkIds : links[l] # NULL /\ links[l][1] = t}
             linked == {links[l][2] : l \in mine}
  <2>1. Right(t, permissions, links) /\ t \in System
    BY TemplatesAre DEF CatalogInv, Told, System
  <2>2. Catalog!Linked(t) = linked
    BY DEF Catalog!Linked, Catalog!LinksOf, Catalog!LinkIds, LinkIds
  <2>3. \A l \in mine : l \in LinkIds /\ links[l] = <<t, links[l][2]>> /\ links[l][2] \in PermissionIds
    BY DEF CatalogInv, Pairs
  <2>4. ASSUME NEW l \in LinkIds, NEW p \in PermissionIds, links[l] = <<t, p>>
        PROVE  l \in mine /\ links[l][2] = p
    BY <2>1, <2>4, PairsAre
  <2> HIDE DEF mine
  <2>5. \A p \in PermissionIds : p \in linked <=> Has(t, p, links)
    BY <2>3, <2>4 DEF Has
  <2>6. linked = Wanted(t, permissions)
    <3>1. linked \subseteq PermissionIds /\ Wanted(t, permissions) \subseteq PermissionIds
      BY <2>3 DEF Wanted
    <3> HIDE DEF linked
    <3> QED BY <2>1, <2>5, <3>1 DEF Right
  <2>7. Catalog!Granted(t) = {permissions[p].code : p \in {q \in Wanted(t, permissions) : Catalog!InForce(q)}}
    BY <2>2, <2>6 DEF Catalog!Granted
  <2>8. {q \in Wanted(t, permissions) : Catalog!InForce(q)} = {q \in there : permissions[q].code \in Patterns[t]}
    BY DEF Wanted, Catalog!InForce
  <2>9. there = {q \in Catalog!PermissionIds : Catalog!InForce(q)}
    BY DEF Catalog!PermissionIds, PermissionIds
  <2> HIDE DEF there
  <2> QED BY <2>7, <2>8, <2>9
<1>2. (part = "catalog" => CatalogInv) => DecidesOnTemplates
  BY <1>1 DEF DecidesOnTemplates
<1> QED BY <1>2, CatalogHolds, PTL
=============================================================================
