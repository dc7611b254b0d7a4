----------------------------- MODULE WebhookDelivery -----------------------------
(* What the webhook dispatcher promises of every event, whichever process,
   queue, pool or Redis channel it travels through: the endpoint is sent at most
   MAX_RETRIES requests, none after it has accepted or declined the event, and
   only an event whose every request failed may become a dead letter.  It
   promises no delivery: a pending event can be lost, several at once when a
   process dies.  And it promises nothing of an event Redis took while the
   publisher was told it had not: two dispatchers then work on it. *)
EXTENDS Naturals

CONSTANTS Event, MAX_RETRIES

VARIABLES outcome, requests, letters

vars == <<outcome, requests, letters>>

Init ==
    /\ outcome = [e \in Event |-> "new"]
    /\ requests = [e \in Event |-> 0]
    /\ letters = {}

Submit(e) ==
    /\ outcome[e] = "new"
    /\ outcome' = [outcome EXCEPT ![e] = "pending"]
    /\ UNCHANGED <<requests, letters>>

Request(e) ==
    /\ outcome[e] = "pending"
    /\ requests[e] < MAX_RETRIES
    /\ requests' = [requests EXCEPT ![e] = @ + 1]
    /\ \E answer \in {"accepted", "declined",
                      IF requests[e] + 1 = MAX_RETRIES THEN "abandoned" ELSE "pending"} :
          outcome' = [outcome EXCEPT ![e] = answer]
    /\ UNCHANGED letters

DeadLetter(e) ==
    /\ outcome[e] = "abandoned"
    /\ letters' = letters \cup {e}
    /\ UNCHANGED <<outcome, requests>>

Lose(lost) ==
    /\ \A e \in lost : outcome[e] = "pending"
    /\ outcome' = [e \in Event |-> IF e \in lost THEN "lost" ELSE outcome[e]]
    /\ UNCHANGED <<requests, letters>>

Fork(e) ==
    /\ outcome[e] = "pending"
    /\ requests[e] = 0
    /\ outcome' = [outcome EXCEPT ![e] = "forked"]
    /\ UNCHANGED <<requests, letters>>

Next ==
    \/ \E e \in Event : Submit(e) \/ Request(e) \/ DeadLetter(e) \/ Fork(e)
    \/ \E lost \in SUBSET Event : Lose(lost)

Spec == Init /\ [][Next]_vars
=============================================================================
