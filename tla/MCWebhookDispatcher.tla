--------------------------- MODULE MCWebhookDispatcher ---------------------------
(* Instances of WebhookDispatcher for TLC: one process with two callers and a
   pool, and a process of callers beside the "webhooks" service. *)
EXTENDS WebhookDispatcher, TLC

CONSTANTS p1, p2, c1, c2, w1, w2

OneProcess == [t \in Thread |-> p1]

(* c1 and w1 run in p1; c2 and w2 in the subscriber p2. *)
TwoProcesses == [t \in Thread |-> IF t \in {c1, w1} THEN p1 ELSE p2]

(* Events are interchangeable. *)
EventSymmetry == Permutations(Event)

(* Counters and the delivery log steer nothing: states that differ in them alone
   behave alike, and no property of the Redis instance reads them. *)
WithoutRecords ==
    <<callerVars, poolVars, queue, redisVars, job, endpointVars, dlq, crashes>>
=============================================================================
