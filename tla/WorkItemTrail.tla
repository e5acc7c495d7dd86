--------------------------- MODULE WorkItemTrail ---------------------------
(***************************************************************************)
(* What happens in flow-service (services/flow-service/app) after a work   *)
(* item was written: notifications, the audit trail and the automation     *)
(* rules of the project, in the same call and each in commits of its own.  *)
(* Every commit expires what the session has loaded; an expired row is     *)
(* read again when it is next needed, whatever other calls made of it.     *)
(*                                                                         *)
(* One item and two of its fields.  That a status may be refused is        *)
(* ProjectWorkflow's subject, the event sent is EventBus's, and the rows   *)
(* of activities and notifications are left out: nothing here reads them.  *)
(***************************************************************************)
EXTENDS Integers, Sequences, FiniteSetsExt, Functions

CONSTANTS
  Requests,      \* concurrent HTTP calls
  Values,        \* of a field
  Shapes,        \* rules that are written: records as in rules below
  MaxRule,       \* bound on rule ids
  MaxCall,       \* bound on calls about the item
  MaxEdit,       \* bound on changes of rules
  NULL

FieldOrder == <<"status", "priority">>
Fields == Range(FieldOrder)
RuleIds == 1..MaxRule

VARIABLES
  item,          \* [status, priority], or NULL before it is created
  rules,         \* RuleIds -> [trigger, when, does, field, value, is_active], or NULL
  trail,         \* audit_events: [action, field, new_value], oldest first
  work,          \* what each call is doing
  unclear,       \* history: fields that overlapping or broken calls may have changed
  calls, edits   \* the number of calls, and of changes of rules

trailVars == <<item, rules, trail, work, unclear, calls, edits>>

\* row, listed, rule: what the session has loaded, NULL when expired.
Idle == [op |-> "none", at |-> "idle", before |-> NULL, body |-> <<>>, n |-> 1, row |-> NULL,
         queue |-> {}, listed |-> NULL, rule |-> NULL, alone |-> TRUE, due |-> NULL]

Init ==
  /\ item = NULL /\ trail = <<>> /\ unclear = {} /\ calls = 0 /\ edits = 0
  /\ rules \in [RuleIds -> Shapes \cup {NULL}]
  /\ work = [r \in Requests |-> Idle]

-----------------------------------------------------------------------------
(* What the rules of an event should do                                    *)

\* AutomationRuleRepository.list: the newest rule, the one of the highest id, is first.
list(trigger) == {n \in RuleIds : rules[n] # NULL /\ rules[n].is_active /\ rules[n].trigger = trigger}
First(queue) == Max(queue)

Matches(rule, row) == rule.when = NULL \/ row[rule.when[1]] = rule.when[2]
Malformed(rule) == rule.does = "malformed"
Updates(rule) == rule.does = "update"

\* What rules make of a row one after the other, each of what the ones before left.
After(rule, row) ==
  IF Updates(rule) /\ Matches(rule, row) THEN [row EXCEPT ![rule.field] = rule.value] ELSE row
Applied[queue \in SUBSET RuleIds] ==
  [row \in [Fields -> Values] |->
     IF queue = {} THEN row
     ELSE Applied[queue \ {First(queue)}][After(rules[First(queue)], row)]]
Chain(trigger, row) == Applied[list(trigger)][row]

Due(call, before) ==
  CASE call.op = "create" -> Chain("created", call.body)
    [] call.op = "comment" -> Chain("comment", before)
    [] call.op = "test" -> After(call.rule, before)
    [] OTHER ->
         LET written == [f \in Fields |-> IF f \in DOMAIN call.body THEN call.body[f] ELSE before[f]]
             moved(f, row) == f \in DOMAIN call.body /\ row[f] # before[f]
             first == IF moved("status", written) THEN Chain("status", written) ELSE written
         IN IF moved("priority", first) THEN Chain("priority", first) ELSE first

-----------------------------------------------------------------------------
AtWork == {r \in Requests : work[r] # Idle}

\* A call begins with the item loaded.
Start(r, call) ==
  LET others == AtWork \ {r}
      new == [call EXCEPT !.before = item, !.row = item, !.alone = (others = {}),
                          !.due = Due(call, item)]
  IN /\ work[r] = Idle /\ calls < MaxCall /\ calls' = calls + 1
     /\ work' = [q \in Requests |-> IF q = r THEN new ELSE [work[q] EXCEPT !.alone = (q \notin others)]]
     /\ unclear' = IF others = {} THEN unclear ELSE Fields
     /\ UNCHANGED <<item, rules, trail, edits>>

Broken(r) == work' = [work EXCEPT ![r] = Idle] /\ unclear' = Fields

\* The phases of a call; the fields are gone through in each.
Triggers(r) ==
  CASE work[r].op = "create" -> <<"created">> [] work[r].op = "comment" -> <<"comment">>
    [] work[r].op = "test" -> <<"test">> [] OTHER -> FieldOrder
Here(r) == Triggers(r)[work[r].n]
NextPhase(at) == CASE at = "notify" -> "audit" [] at = "audit" -> "rules" [] OTHER -> "done"
Onward(call, r) ==
  IF call.n < Len(Triggers(r)) THEN [call EXCEPT !.n = @ + 1]
  ELSE [call EXCEPT !.n = 1, !.at = NextPhase(call.at)]
Expired(call) == [call EXCEPT !.row = NULL, !.listed = NULL, !.rule = NULL]

\* A field of a PATCH counts when it is named and now differs from what it was
\* when the call loaded the item; creations and comments always do.
Changed(r) ==
  Here(r) \in Fields => Here(r) \in DOMAIN work[r].body /\ work[r].row[Here(r)] # work[r].before[Here(r)]

-----------------------------------------------------------------------------
(* WorkItemService.create and update, CommentService.create                *)

Create(r, row) ==
  /\ item = NULL /\ \A q \in Requests : work[q].op # "create"
  /\ Start(r, [Idle EXCEPT !.op = "create", !.at = "write", !.body = row])
Update(r, body) == item # NULL /\ Start(r, [Idle EXCEPT !.op = "update", !.at = "write", !.body = body])
Comment(r) == item # NULL /\ Start(r, [Idle EXCEPT !.op = "comment", !.at = "notify"])

\* The item is created; or the columns that differ from the loaded row written.
Write(r) ==
  LET call == work[r]
      new(f) == IF f \in DOMAIN call.body /\ (call.op = "create" \/ call.body[f] # call.row[f])
                THEN call.body[f] ELSE item[f]
  IN /\ call.at = "write"
     /\ item' = [f \in Fields |-> new(f)]
     /\ work' = [work EXCEPT ![r] = Expired([call EXCEPT !.at = IF call.op = "create" THEN "audit" ELSE "notify"])]
     /\ UNCHANGED <<rules, trail, unclear, calls, edits>>

\* Who reads the item: publish_event and the audit of a PATCH at their beginning,
\* a comparison of a named field, the condition of a rule.
Reads(r) ==
  \/ work[r].at \in {"notify", "audit"} /\ work[r].n = 1
  \/ /\ work[r].at \in {"notify", "audit", "rules"}
     /\ Here(r) \in Fields => Here(r) \in DOMAIN work[r].body
  \/ work[r].at = "match" /\ work[r].rule.when # NULL
Ready(r) == work[r].row # NULL \/ ~Reads(r)

\* An expired item is read again.
Load(r) ==
  /\ work[r].row = NULL /\ Reads(r)
  /\ work' = [work EXCEPT ![r].row = item]
  /\ UNCHANGED <<item, rules, trail, unclear, calls, edits>>

\* _create_update_notifications: each is a commit.
Notify(r) ==
  LET call == work[r]
  IN /\ call.at = "notify" /\ Ready(r)
     /\ work' = [work EXCEPT ![r] = Onward(IF Changed(r) THEN Expired(call) ELSE call, r)]
     /\ UNCHANGED <<item, rules, trail, unclear, calls, edits>>

\* _create_update_audit_events: each is a commit.
Audit(r) ==
  LET call == work[r]
      f == Here(r)
      row == [action |-> "changed", field |-> f, new_value |-> IF f \in Fields THEN call.row[f] ELSE NULL]
  IN /\ call.at = "audit" /\ Ready(r)
     /\ IF Changed(r)
        THEN /\ trail' = Append(trail, row)
             /\ unclear' = IF call.alone THEN unclear \ {f} ELSE unclear
             /\ work' = [work EXCEPT ![r] = Onward(Expired(call), r)]
        ELSE /\ work' = [work EXCEPT ![r] = Onward(call, r)]
             /\ UNCHANGED <<trail, unclear>>
     /\ UNCHANGED <<item, rules, calls, edits>>

-----------------------------------------------------------------------------
(* AutomationRuleService                                                   *)

\* execute_for_event, if the event happened: the list is read once.
execute_for_event(r) ==
  LET call == work[r]
  IN /\ call.at = "rules" /\ Ready(r)
     /\ work' = [work EXCEPT ![r] =
          IF Changed(r) /\ list(Here(r)) # {}
          THEN [call EXCEPT !.at = "rule", !.queue = list(Here(r)), !.listed = rules]
          ELSE Onward(call, r)]
     /\ UNCHANGED <<item, rules, trail, unclear, calls, edits>>

\* The rule is done; after the last the next event is looked at.
Skip(call, r) ==
  LET rest == [call EXCEPT !.queue = @ \ {First(@)}, !.rule = NULL, !.at = "rule"]
  IN IF rest.queue # {} THEN rest ELSE Onward([rest EXCEPT !.at = "rules", !.listed = NULL], r)

\* test_rule: one rule, active or not, on the item.
test_rule(r, n) ==
  /\ item # NULL /\ rules[n] # NULL
  /\ Start(r, [Idle EXCEPT !.op = "test", !.at = "match", !.queue = {n}, !.rule = rules[n]])

\* The rule's row: as listed, until a commit expires it and it is read again, active
\* or not.  If it is gone, the handler of the exception asks for its id and fails too.
Fetch(r) ==
  LET call == work[r]
      rule == IF call.listed # NULL THEN call.listed[First(call.queue)] ELSE rules[First(call.queue)]
  IN /\ call.at = "rule"
     /\ IF rule = NULL THEN Broken(r)
        ELSE work' = [work EXCEPT ![r].rule = rule, ![r].at = "match"] /\ UNCHANGED unclear
     /\ UNCHANGED <<item, rules, trail, calls, edits>>

\* Mutant of _conditions_match: the conditions are checked against the item as the
\* call first loaded it.
match_before(r) ==
  LET call == work[r]
      row == IF call.op = "create" THEN call.body ELSE call.before
  IN /\ call.at = "match" /\ Ready(r)
     /\ work' = [work EXCEPT ![r] =
          IF Malformed(call.rule) \/ ~Matches(call.rule, row) THEN Skip(call, r) ELSE [call EXCEPT !.at = "act"]]
     /\ UNCHANGED <<item, rules, trail, unclear, calls, edits>>

\* A configuration that is no number raises; that is logged, and the next rule's
\* turn comes.
_conditions_match(r) ==
  LET call == work[r]
  IN /\ call.at = "match" /\ Ready(r)
     /\ work' = [work EXCEPT ![r] =
          IF Malformed(call.rule) \/ ~Matches(call.rule, call.row) THEN Skip(call, r) ELSE [call EXCEPT !.at = "act"]]
     /\ UNCHANGED <<item, rules, trail, unclear, calls, edits>>

\* Mutant of _execute_action: an update of the item is not audited.
act_silently(r) ==
  LET call == work[r]
      f == call.rule.field
      v == call.rule.value
  IN /\ call.at = "act"
     /\ item' = IF Updates(call.rule) /\ (call.row = NULL \/ call.row[f] # v) THEN [item EXCEPT ![f] = v] ELSE item
     /\ work' = [work EXCEPT ![r] = Skip(Expired(call), r)]
     /\ UNCHANGED <<rules, trail, unclear, calls, edits>>

\* The field is written past WorkItemService: no notification, no audit row of the
\* field, no other event.  Notifications and comments do not touch the item.
_execute_action(r) ==
  LET call == work[r]
      f == call.rule.field
      v == call.rule.value
  IN /\ call.at = "act"
     /\ item' = IF Updates(call.rule) /\ (call.row = NULL \/ call.row[f] # v) THEN [item EXCEPT ![f] = v] ELSE item
     /\ work' = [work EXCEPT ![r] = [Expired(call) EXCEPT !.at = "executed", !.rule = call.rule]]
     /\ UNCHANGED <<rules, trail, unclear, calls, edits>>

\* The audit row names the kind of action, not the value; the rule is read again.
_record_execution_audit(r) ==
  LET call == work[r]
  IN /\ call.at = "executed"
     /\ IF rules[First(call.queue)] = NULL THEN Broken(r) /\ UNCHANGED trail
        ELSE /\ trail' = Append(trail, [action |-> "executed", new_value |-> NULL,
                                        field |-> IF Updates(call.rule) THEN call.rule.field ELSE NULL])
             /\ work' = [work EXCEPT ![r] = Skip(Expired(call), r)]
             /\ UNCHANGED unclear
     /\ UNCHANGED <<item, rules, calls, edits>>

Return(r) ==
  /\ work[r].at = "done"
  /\ work' = [work EXCEPT ![r] = Idle]
  /\ UNCHANGED <<item, rules, trail, unclear, calls, edits>>

\* The call stops between two commits.
Fail(r) ==
  /\ work[r] # Idle
  /\ Broken(r)
  /\ UNCHANGED <<item, rules, trail, calls, edits>>

\* create, update and delete of a rule.
Administer(n, rule) ==
  /\ edits < MaxEdit /\ edits' = edits + 1
  /\ rule # rules[n]
  /\ rules' = [rules EXCEPT ![n] = rule]
  /\ work' = [r \in Requests |-> [work[r] EXCEPT !.due = NULL]]
  /\ UNCHANGED <<item, trail, unclear, calls>>

\* Bodies of PATCH: some of the fields.
Bodies == UNION {[named -> Values] : named \in SUBSET Fields \ {{}}}

Next ==
  \/ \E r \in Requests :
       \/ \E row \in [Fields -> Values] : Create(r, row)
       \/ \E body \in Bodies : Update(r, body)
       \/ \E n \in RuleIds : test_rule(r, n)
       \/ Comment(r) \/ Write(r) \/ Load(r) \/ Notify(r) \/ Audit(r) \/ execute_for_event(r) \/ Fetch(r)
       \/ _conditions_match(r) \/ _execute_action(r) \/ _record_execution_audit(r) \/ Return(r) \/ Fail(r)
  \/ \E n \in RuleIds, rule \in Shapes \cup {NULL} : Administer(n, rule)

Spec == Init /\ [][Next]_trailVars

-----------------------------------------------------------------------------
(* Properties                                                              *)

\* The audit trail accounts for the item: at rest, the last row about a field names
\* its value, unless it names a rule that wrote the field, or calls overlapped, or one
\* broke off.  (README: status and priority changes are tracked,
\* successful rule executions write an audit event.)
TrailAccounts ==
  AtWork = {} => \A f \in Fields \ unclear :
    LET about == {n \in DOMAIN trail : trail[n].field = f}
    IN about # {} =>
         LET last == trail[Max(about)]
         IN last.action = "changed" => last.new_value = item[f]

\* A call nothing else overlapped leaves the item as the rules say: each decides on
\* what the ones before it wrote, a malformed one changes nothing, and a rule starts no
\* other except when the PATCH itself names the field.
RulesInOrder ==
  \A r \in Requests : work[r].at = "done" /\ work[r].alone /\ work[r].due # NULL => item = work[r].due
=============================================================================
