-------------------------- MODULE ExclusiveScheduler ------------------------
(***************************************************************************)
(* What UC-6.9 promises of several replicas: at any time at most one of    *)
(* them is inside a scheduling tick.                                       *)
(***************************************************************************)
CONSTANT Replica

VARIABLE busy   \* the replicas inside a tick

Init == busy = {}

Begin(r) == busy = {} /\ busy' = {r}

End(r) == r \in busy /\ busy' = busy \ {r}

Next == \E r \in Replica : Begin(r) \/ End(r)

Spec == Init /\ [][Next]_busy
=============================================================================
