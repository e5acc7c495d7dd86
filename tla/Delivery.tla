------------------------------ MODULE Delivery ------------------------------
(***************************************************************************)
(* What the event bus promises, with no word on how a request does it:     *)
(* an event is accepted once and never changes, a subscription is told of  *)
(* an accepted event at most once, what was told is never taken back (only *)
(* the name of a subscription that goes is lost), and a producer hears     *)
(* "published" only of the event that was accepted.                        *)
(***************************************************************************)
EXTENDS Integers, Sequences

CONSTANTS Requests, EventIds, Bodies, SubIds, NULL, NoRow

VARIABLES
  event_id, body,  \* what each request asks to publish
  accepted,        \* EventIds -> the body accepted under the id, or NoRow
  log,             \* who was told of what, in order
  outcome          \* what each producer was told

delivery == <<event_id, body, accepted, log, outcome>>

Init ==
  /\ event_id \in [Requests -> EventIds]
  /\ body \in [Requests -> Bodies]
  /\ accepted = [e \in EventIds |-> NoRow]
  /\ log = <<>>
  /\ outcome = [r \in Requests |-> "waiting"]

Told(e, s) == \E i \in DOMAIN log : log[i] = [event_record |-> e, subscription_id |-> s]

Accept(r) ==
  /\ accepted[event_id[r]] = NoRow
  /\ accepted' = [accepted EXCEPT ![event_id[r]] = body[r]]
  /\ UNCHANGED <<event_id, body, log, outcome>>

Tell(e, s) ==
  /\ accepted[e] # NoRow
  /\ ~Told(e, s)
  /\ log' = Append(log, [event_record |-> e, subscription_id |-> s])
  /\ UNCHANGED <<event_id, body, accepted, outcome>>

\* Some of the lines that name s keep the event only.
Forget(s) ==
  /\ \E lines \in SUBSET {i \in DOMAIN log : log[i].subscription_id = s} :
       log' = [i \in DOMAIN log |-> IF i \in lines THEN [log[i] EXCEPT !.subscription_id = NULL]
                                                   ELSE log[i]]
  /\ UNCHANGED <<event_id, body, accepted, outcome>>

Confirm(r) ==
  /\ outcome[r] = "waiting" /\ accepted[event_id[r]] = body[r]
  /\ outcome' = [outcome EXCEPT ![r] = "published"]
  /\ UNCHANGED <<event_id, body, accepted, log>>

\* A producer may be told of a failure whatever happened to its event.
GiveUp(r) ==
  /\ outcome[r] = "waiting"
  /\ outcome' = [outcome EXCEPT ![r] = "failed"]
  /\ UNCHANGED <<event_id, body, accepted, log>>

Next ==
  \/ \E r \in Requests : Accept(r) \/ Confirm(r) \/ GiveUp(r)
  \/ \E s \in SubIds : Forget(s) \/ \E e \in EventIds : Tell(e, s)

Spec == Init /\ [][Next]_delivery
=============================================================================
