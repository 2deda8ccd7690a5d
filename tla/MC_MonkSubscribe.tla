------------------------- MODULE MC_MonkSubscribe -------------------------
(* Model-checking instance of MonkSubscribe.                               *)
EXTENDS MonkSubscribe

CONSTANTS objA, a1

\* No targeted subscriptions: only Subscribe(name, event, "").
NoTargets == {}
NoObjTopic == [a \in NoTargets |-> objA]

\* One address a user may target; its reactor topic is "object:a1".
OneTarget == {a1}
OneObjTopic == [a \in OneTarget |-> objA]
=============================================================================
