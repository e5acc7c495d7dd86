----------------------------- MODULE MCEventBus -----------------------------
(* Instances of EventBus for TLC: two workspaces, one event name, the three  *)
(* kinds of pattern.                                                         *)
EXTENDS EventBus, TLC

CONSTANTS w1, w2, r1, r2, e1

Created == <<"core", "project", "created">>
AnyEvent == [kind |-> "all", segs |-> <<>>]
CoreEvents == [kind |-> "prefix", segs |-> <<"core">>]
FlowEvents == [kind |-> "prefix", segs |-> <<"flow">>]
CreatedOnly == [kind |-> "exact", segs |-> Created]

Sub(w, p) == [workspace_id |-> w, event_pattern |-> p, is_active |-> TRUE]
Post(w) == [event_name |-> Created, workspace_id |-> w]
Patch(p, b) == [event_pattern |-> p, is_active |-> b]

\* Two callers of one event_id, with an editor at work.
RaceBodies == {Post(w1), Post(NULL)}
RaceNewSubs == {Sub(w1, CoreEvents), Sub(w2, AnyEvent)}
RaceChanges == {Patch(FlowEvents, FALSE)}

\* One fan-out over more subscriptions, with more kinds of edit.
FanOutBodies == {Post(w1)}
FanOutNewSubs == {Sub(w1, CreatedOnly), Sub(NULL, FlowEvents)}
FanOutChanges == {Patch(AnyEvent, TRUE), Patch(Unset, FALSE)}

\* One caller, subscriptions of one kind that come and go.
LostBodies == {Post(w1)}
LostNewSubs == {Sub(w1, CoreEvents)}

RequestSymmetry == Permutations({r1, r2})
=============================================================================
