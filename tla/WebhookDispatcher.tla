---------------------------- MODULE WebhookDispatcher ----------------------------
(* The unified webhook dispatcher, shared/webhook_dispatcher.py: every service
   imports it, calls dispatch_event, and each process keeps a bounded queue, a
   lazily started pool of daemon worker threads and, in the one service named
   "webhooks", a Redis subscriber thread.  An envelope is abstracted to the
   identity of its event; the endpoint, Redis and the tables are modelled by
   the answers they can give.  WEBHOOK_URL is set: without it dispatch_event
   returns at once and nothing below happens.

   Steps are cut where the code can be preempted with shared state exposed:
   between the check of _workers_started and the lock, between publishing and
   enqueueing, between the HTTP request, its log row and the next attempt.
   The increments of _stats are single steps, as under the interpreter lock.

   An operator whose comment begins with "Slip:" is no part of the model.  It is
   a faulty variant of the definition after it, kept to show that a property
   below would notice that fault. *)
EXTENDS Naturals, Sequences, FiniteSets

CONSTANTS
    Process,      \* processes that import the module
    Subscribers,  \* those whose SERVICE_NAME is "webhooks"
    Caller,       \* threads that call dispatch_event or dispatch_event_sync
    Worker,       \* pool threads; those at home in p are WEBHOOK_WORKERS of p
    Home,         \* the process each thread runs in
    Event,        \* events the services fire
    NoEvent, NoJob, Free,
    QUEUE_SIZE,   \* WEBHOOK_QUEUE_SIZE
    MAX_RETRIES,  \* WEBHOOK_MAX_RETRIES
    MaxCrashes    \* bound: process deaths in a behaviour

Thread == Caller \cup Worker

(* Where _deliver_with_retries of a thread stands: about to post attempt n, with
   an answer not logged yet, or with a dead letter to write. *)
Job == [event : Event, attempt : 1..MAX_RETRIES,
        phase : {"post", "ok", "declined", "failed", "dlq"}]

ASSUME ThreadsAssumption ==
    /\ Caller \cap Worker = {}
    /\ Subscribers \subseteq Process
    /\ Home \in [Thread -> Process]
    /\ NoEvent \notin Event
    /\ Free \notin Caller
ASSUME LimitsAssumption ==
    /\ QUEUE_SIZE \in Nat \ {0}
    /\ MAX_RETRIES \in Nat \ {0}
    /\ MaxCrashes \in Nat
ASSUME JobAssumption == NoJob \notin Job
(* "a single dispatcher process picks them up" (header, lines 26-27). *)
ASSUME OneSubscriberAssumption ==
    \A p, q \in Subscribers : p = q

VARIABLES
    dispatched,      \* history: events some caller has handed over
    pc, hand,        \* callers: where in dispatch_event, and with which event
    workersStarted,  \* _workers_started
    lock,            \* _lock: its holder or Free
    pools,           \* history: pools of threads this process has started
    queue,           \* _event_queue
    listener,        \* the subscriber thread: "off", "on" or "dead"
    inbox,           \* messages Redis has pushed to the subscription of p
    forked,          \* history: events Redis took though publish reported failure
    job,             \* what _deliver_with_retries of a thread is doing
    posts,           \* requests the endpoint was sent for an event
    answers,         \* history: definitive answers a dispatcher read
    log, dlq,        \* webhook_delivery_log, webhook_dead_letters
    stats,           \* _stats
    crashes

callerVars == <<dispatched, pc, hand>>
poolVars == <<workersStarted, lock, pools>>
queueVars == <<queue>>
redisVars == <<listener, inbox, forked>>
endpointVars == <<posts, answers>>
tables == <<log, dlq>>
vars == <<callerVars, poolVars, queueVars, redisVars, job, endpointVars,
          tables, stats, crashes>>

Stats == [dispatched : Nat, delivered : Nat, failed : Nat, dropped : Nat]
NoStats == [dispatched |-> 0, delivered |-> 0, failed |-> 0, dropped |-> 0]

CallerState == {"idle", "publish", "check", "lock", "start", "enqueue", "sync"}

LogRow == [event : Event, attempt : 1..MAX_RETRIES,
           status : {"DELIVERED", "FAILED", "RETRYING"}]

Init ==
    /\ dispatched = {}
    /\ pc = [c \in Caller |-> "idle"]
    /\ hand = [c \in Caller |-> NoEvent]
    /\ workersStarted = [p \in Process |-> FALSE]
    /\ lock = [p \in Process |-> Free]
    /\ pools = [p \in Process |-> 0]
    /\ queue = [p \in Process |-> <<>>]
    /\ listener = [p \in Process |-> "off"]
    /\ inbox = [p \in Process |-> <<>>]
    /\ forked = {}
    /\ job = [t \in Thread |-> NoJob]
    /\ posts = [e \in Event |-> 0]
    /\ answers = [e \in Event |-> {}]
    /\ log = {}
    /\ dlq = {}
    /\ stats = [p \in Process |-> NoStats]
    /\ crashes = 0

Bump(p, counter) == stats' = [stats EXCEPT ![p][counter] = @ + 1]

FirstAttempt(e) == [event |-> e, attempt |-> 1, phase |-> "post"]
NextAttempt(j) == [event |-> j.event, attempt |-> j.attempt + 1, phase |-> "post"]

----------------------------------------------------------------------------
(* Callers. *)

(* dispatch_event up to the envelope and the counter.  With use_redis it goes
   on to publish, without to _ensure_workers. *)
Dispatch(c, e) ==
    /\ pc[c] = "idle"
    /\ e \notin dispatched
    /\ dispatched' = dispatched \cup {e}
    /\ hand' = [hand EXCEPT ![c] = e]
    /\ \E next \in {"check", "publish"} : pc' = [pc EXCEPT ![c] = next]
    /\ Bump(Home[c], "dispatched")
    /\ UNCHANGED <<poolVars, queueVars, redisVars, job, endpointVars, tables, crashes>>

(* dispatch_event_sync: the caller itself runs _deliver_with_retries. *)
DispatchSync(c, e) ==
    /\ pc[c] = "idle"
    /\ e \notin dispatched
    /\ dispatched' = dispatched \cup {e}
    /\ pc' = [pc EXCEPT ![c] = "sync"]
    /\ job' = [job EXCEPT ![c] = FirstAttempt(e)]
    /\ Bump(Home[c], "dispatched")
    /\ UNCHANGED <<hand, poolVars, queueVars, redisVars, endpointVars, tables, crashes>>

(* Redis hands a published message to every live subscription, and to nobody
   when there is none. *)
Broadcast(e) ==
    inbox' = [p \in Process |->
                 IF listener[p] = "on" THEN Append(inbox[p], e) ELSE inbox[p]]

(* _publish_to_redis reports success: dispatch_event returns. *)
Publish(c) ==
    /\ pc[c] = "publish"
    /\ Broadcast(hand[c])
    /\ pc' = [pc EXCEPT ![c] = "idle"]
    /\ hand' = [hand EXCEPT ![c] = NoEvent]
    /\ UNCHANGED <<dispatched, poolVars, queueVars, listener, forked, job, endpointVars,
                   tables, stats, crashes>>

(* Any exception falls through to the in-process queue. *)
PublishFails(c) ==
    /\ pc[c] = "publish"
    /\ pc' = [pc EXCEPT ![c] = "check"]
    /\ UNCHANGED <<dispatched, hand, poolVars, queueVars, redisVars, job, endpointVars,
                   tables, stats, crashes>>

(* The connection breaks after Redis took the message: it is broadcast, and
   the caller falls through all the same. *)
PublishForks(c) ==
    /\ pc[c] = "publish"
    /\ \E p \in Process : listener[p] = "on"
    /\ Broadcast(hand[c])
    /\ forked' = forked \cup {hand[c]}
    /\ pc' = [pc EXCEPT ![c] = "check"]
    /\ UNCHANGED <<dispatched, hand, poolVars, queueVars, listener, job, endpointVars,
                   tables, stats, crashes>>

(* Slip: _ensure_workers is not called. *)
CheckNothing(c) ==
    /\ pc[c] = "check"
    /\ pc' = [pc EXCEPT ![c] = "enqueue"]
    /\ UNCHANGED <<dispatched, hand, poolVars, queueVars, redisVars, job, endpointVars,
                   tables, stats, crashes>>

(* _ensure_workers: the unlocked check ... *)
CheckStarted(c) ==
    /\ pc[c] = "check"
    /\ pc' = [pc EXCEPT ![c] = IF workersStarted[Home[c]] THEN "enqueue" ELSE "lock"]
    /\ UNCHANGED <<dispatched, hand, poolVars, queueVars, redisVars, job, endpointVars,
                   tables, stats, crashes>>

(* Slip: no second check under the lock. *)
LockWithoutRecheck(c) ==
    LET p == Home[c] IN
    /\ pc[c] = "lock"
    /\ lock[p] = Free
    /\ pc' = [pc EXCEPT ![c] = "start"]
    /\ lock' = [lock EXCEPT ![p] = c]
    /\ UNCHANGED <<dispatched, hand, workersStarted, pools, queueVars, redisVars, job,
                   endpointVars, tables, stats, crashes>>

(* ... the check again with the lock held; when another caller was faster the
   lock is released at once ... *)
LockAndRecheck(c) ==
    LET p == Home[c] IN
    /\ pc[c] = "lock"
    /\ lock[p] = Free
    /\ IF workersStarted[p]
       THEN pc' = [pc EXCEPT ![c] = "enqueue"] /\ UNCHANGED lock
       ELSE pc' = [pc EXCEPT ![c] = "start"] /\ lock' = [lock EXCEPT ![p] = c]
    /\ UNCHANGED <<dispatched, hand, workersStarted, pools, queueVars, redisVars, job,
                   endpointVars, tables, stats, crashes>>

(* ... and the threads, the flag, the release. *)
StartWorkers(c) ==
    LET p == Home[c] IN
    /\ pc[c] = "start"
    /\ pools' = [pools EXCEPT ![p] = @ + 1]
    /\ workersStarted' = [workersStarted EXCEPT ![p] = TRUE]
    /\ lock' = [lock EXCEPT ![p] = Free]
    /\ pc' = [pc EXCEPT ![c] = "enqueue"]
    /\ UNCHANGED <<dispatched, hand, queueVars, redisVars, job, endpointVars, tables,
                   stats, crashes>>

(* Slip: one more than the capacity. *)
PutOneMore(p, e) ==
    IF Len(queue[p]) <= QUEUE_SIZE
    THEN queue' = [queue EXCEPT ![p] = Append(@, e)] /\ UNCHANGED stats
    ELSE Bump(p, "dropped") /\ UNCHANGED queue

(* _enqueue: put_nowait, or count the event as dropped. *)
PutNowait(p, e) ==
    IF Len(queue[p]) < QUEUE_SIZE
    THEN queue' = [queue EXCEPT ![p] = Append(@, e)] /\ UNCHANGED stats
    ELSE Bump(p, "dropped") /\ UNCHANGED queue

Enqueue(c) ==
    /\ pc[c] = "enqueue"
    /\ PutNowait(Home[c], hand[c])
    /\ pc' = [pc EXCEPT ![c] = "idle"]
    /\ hand' = [hand EXCEPT ![c] = NoEvent]
    /\ UNCHANGED <<dispatched, poolVars, redisVars, job, endpointVars, tables, crashes>>

----------------------------------------------------------------------------
(* The Redis subscriber thread. *)

ListenerStarts(p) ==
    /\ p \in Subscribers
    /\ listener[p] = "off"
    /\ listener' = [listener EXCEPT ![p] = "on"]
    /\ UNCHANGED <<callerVars, poolVars, queueVars, inbox, forked, job, endpointVars,
                   tables, stats, crashes>>

(* An exception in subscribe or listen ends the thread for good, and what the
   subscription had not yet handed over is gone. *)
ListenerDies(p) ==
    /\ p \in Subscribers
    /\ listener[p] # "dead"
    /\ listener' = [listener EXCEPT ![p] = "dead"]
    /\ inbox' = [inbox EXCEPT ![p] = <<>>]
    /\ UNCHANGED <<callerVars, poolVars, queueVars, forked, job, endpointVars, tables,
                   stats, crashes>>

(* It enqueues without _ensure_workers. *)
ListenerReceives(p) ==
    /\ listener[p] = "on"
    /\ inbox[p] # <<>>
    /\ PutNowait(p, Head(inbox[p]))
    /\ inbox' = [inbox EXCEPT ![p] = Tail(@)]
    /\ UNCHANGED <<callerVars, poolVars, listener, forked, job, endpointVars, tables,
                   crashes>>

----------------------------------------------------------------------------
(* Delivery. *)

(* _worker takes the next envelope. *)
WorkerGets(w) ==
    LET p == Home[w] IN
    /\ pools[p] > 0
    /\ job[w] = NoJob
    /\ queue[p] # <<>>
    /\ job' = [job EXCEPT ![w] = FirstAttempt(Head(queue[p]))]
    /\ queue' = [queue EXCEPT ![p] = Tail(@)]
    /\ UNCHANGED <<callerVars, poolVars, redisVars, endpointVars, tables, stats,
                   crashes>>

InPhase(t, phases) == job[t] # NoJob /\ job[t].phase \in phases

(* The request of _deliver: 2xx, 406, or anything else (another status, a
   timeout, a lost connection), which says nothing of what the endpoint did. *)
Post(t) ==
    /\ InPhase(t, {"post"})
    /\ LET e == job[t].event IN
       \E answer \in {"ok", "declined", "failed"} :
          /\ posts' = [posts EXCEPT ![e] = @ + 1]
          /\ answers' = [answers EXCEPT ![e] = @ \cup ({answer} \ {"failed"})]
          /\ job' = [job EXCEPT ![t].phase = answer]
    /\ UNCHANGED <<callerVars, poolVars, queueVars, redisVars, tables, stats, crashes>>

(* The status column of _log_delivery. *)
LogStatus(j) ==
    IF j.phase = "ok" THEN "DELIVERED"
    ELSE IF j.attempt >= MAX_RETRIES THEN "FAILED" ELSE "RETRYING"

(* _log_delivery writes the row or, on any database error, nothing. *)
LogDelivery(j) ==
    \E row \in SUBSET {[event |-> j.event, attempt |-> j.attempt, status |-> LogStatus(j)]} :
       log' = log \cup row

(* The thread leaves _deliver_with_retries: a worker counts the event as
   delivered whatever became of it, a synchronous caller returns True. *)
FinishJob(t) ==
    /\ job' = [job EXCEPT ![t] = NoJob]
    /\ IF t \in Worker
       THEN Bump(Home[t], "delivered") /\ UNCHANGED pc
       ELSE pc' = [pc EXCEPT ![t] = "idle"] /\ UNCHANGED stats

(* Slip: a declined event goes to the dead letters. *)
SettleToDeadLetters(t) ==
    /\ InPhase(t, {"ok", "declined"})
    /\ LogDelivery(job[t])
    /\ IF job[t].phase = "ok" THEN FinishJob(t)
       ELSE job' = [job EXCEPT ![t].phase = "dlq"] /\ UNCHANGED <<pc, stats>>
    /\ UNCHANGED <<dispatched, hand, poolVars, queueVars, redisVars, endpointVars, dlq,
                   crashes>>

(* The answer was 2xx or 406: log it and stop. *)
Settle(t) ==
    /\ InPhase(t, {"ok", "declined"})
    /\ LogDelivery(job[t])
    /\ FinishJob(t)
    /\ UNCHANGED <<dispatched, hand, poolVars, queueVars, redisVars, endpointVars, dlq,
                   crashes>>

(* Slip: one attempt too many. *)
RetryOnceMore(t) ==
    /\ InPhase(t, {"failed"})
    /\ job[t].attempt <= MAX_RETRIES
    /\ LogDelivery(job[t])
    /\ job' = [job EXCEPT ![t] = NextAttempt(@)]
    /\ UNCHANGED <<callerVars, poolVars, queueVars, redisVars, endpointVars, dlq, stats,
                   crashes>>

(* A transient failure with attempts left: log it, sleep, try again. *)
Retry(t) ==
    /\ InPhase(t, {"failed"})
    /\ job[t].attempt < MAX_RETRIES
    /\ LogDelivery(job[t])
    /\ job' = [job EXCEPT ![t] = NextAttempt(@)]
    /\ UNCHANGED <<callerVars, poolVars, queueVars, redisVars, endpointVars, dlq, stats,
                   crashes>>

(* The last attempt failed: log it and count the event as failed ... *)
Abandon(t) ==
    /\ InPhase(t, {"failed"})
    /\ job[t].attempt = MAX_RETRIES
    /\ LogDelivery(job[t])
    /\ job' = [job EXCEPT ![t].phase = "dlq"]
    /\ Bump(Home[t], "failed")
    /\ UNCHANGED <<callerVars, poolVars, queueVars, redisVars, endpointVars, dlq, crashes>>

(* ... and _write_to_dlq, which may fail silently too.  As installed it always does:
   only the init scripts make the table, with columns of other names. *)
DeadLetter(t) ==
    /\ InPhase(t, {"dlq"})
    /\ \E letters \in SUBSET {job[t].event} : dlq' = dlq \cup letters
    /\ FinishJob(t)
    /\ UNCHANGED <<dispatched, hand, poolVars, queueVars, redisVars, endpointVars, log,
                   crashes>>

----------------------------------------------------------------------------
(* The process dies and is started again: what was in its memory, the daemon
   threads and the subscription included, is gone; the tables and the endpoint
   remain. *)
Crash(p) ==
    LET gone == {t \in Thread : Home[t] = p} IN
    /\ crashes < MaxCrashes
    /\ crashes' = crashes + 1
    /\ pc' = [c \in Caller |-> IF c \in gone THEN "idle" ELSE pc[c]]
    /\ hand' = [c \in Caller |-> IF c \in gone THEN NoEvent ELSE hand[c]]
    /\ job' = [t \in Thread |-> IF t \in gone THEN NoJob ELSE job[t]]
    /\ workersStarted' = [workersStarted EXCEPT ![p] = FALSE]
    /\ lock' = [lock EXCEPT ![p] = Free]
    /\ pools' = [pools EXCEPT ![p] = 0]
    /\ queue' = [queue EXCEPT ![p] = <<>>]
    /\ listener' = [listener EXCEPT ![p] = "off"]
    /\ inbox' = [inbox EXCEPT ![p] = <<>>]
    /\ stats' = [stats EXCEPT ![p] = NoStats]
    /\ UNCHANGED <<dispatched, forked, endpointVars, tables>>

----------------------------------------------------------------------------
CallerStep(c) ==
    \/ Publish(c) \/ PublishFails(c) \/ PublishForks(c)
    \/ CheckStarted(c) \/ LockAndRecheck(c) \/ StartWorkers(c) \/ Enqueue(c)

DeliveryStep(t) == Post(t) \/ Settle(t) \/ Retry(t) \/ Abandon(t) \/ DeadLetter(t)

Next ==
    \/ \E c \in Caller, e \in Event : Dispatch(c, e) \/ DispatchSync(c, e)
    \/ \E c \in Caller : CallerStep(c)
    \/ \E p \in Process : ListenerStarts(p) \/ ListenerDies(p) \/ ListenerReceives(p)
    \/ \E w \in Worker : WorkerGets(w)
    \/ \E t \in Thread : DeliveryStep(t)
    \/ \E p \in Process : Crash(p)

(* The interpreter schedules every live thread, requests and sleeps are
   bounded, and a listener with a message handles it.  Nothing makes a service
   fire an event, and nothing restarts a listener. *)
Fairness ==
    /\ \A c \in Caller : WF_vars(CallerStep(c))
    /\ \A w \in Worker : WF_vars(WorkerGets(w))
    /\ \A t \in Thread : WF_vars(DeliveryStep(t))
    /\ \A p \in Process : WF_vars(ListenerReceives(p))

Spec == Init /\ [][Next]_vars
FairSpec == Spec /\ Fairness
----------------------------------------------------------------------------
(* Properties. *)

CallerTypes ==
    /\ dispatched \subseteq Event
    /\ pc \in [Caller -> CallerState]
    /\ hand \in [Caller -> Event \cup {NoEvent}]
PoolTypes ==
    /\ workersStarted \in [Process -> BOOLEAN]
    /\ lock \in [Process -> Caller \cup {Free}]
    /\ pools \in [Process -> Nat]
QueueTypes ==
    /\ queue \in [Process -> Seq(Event)]
    /\ \A p \in Process : Len(queue[p]) <= QUEUE_SIZE
RedisTypes ==
    /\ listener \in [Process -> {"off", "on", "dead"}]
    /\ inbox \in [Process -> Seq(Event)]
    /\ forked \subseteq Event
JobTypes == job \in [Thread -> Job \cup {NoJob}]
EndpointTypes ==
    /\ posts \in [Event -> Nat]
    /\ answers \in [Event -> SUBSET {"ok", "declined"}]
TableTypes == log \subseteq LogRow /\ dlq \subseteq Event
CounterTypes == stats \in [Process -> Stats] /\ crashes \in Nat

(* Types, and the capacity of every queue. *)
TypeOK ==
    /\ CallerTypes /\ PoolTypes /\ QueueTypes /\ RedisTypes
    /\ JobTypes /\ EndpointTypes /\ TableTypes /\ CounterTypes

(* The double-checked lock of _ensure_workers: however the callers of a process
   interleave, it starts at most one pool of WEBHOOK_WORKERS threads. *)
OnePool == \A p \in Process : pools[p] <= 1

(* The places an event is in: a caller's hands, a subscription, a queue, a
   delivering thread. *)
Owners(e) ==
    {<<"hand", c, 0>> : c \in {d \in Caller : hand[d] = e}}
    \cup {<<"job", t, 0>> : t \in {u \in Thread : job[u] # NoJob /\ job[u].event = e}}
    \cup (UNION {{<<"queue", p, i>> : i \in {j \in DOMAIN queue[p] : queue[p][j] = e}}
                    : p \in Process})
    \cup (UNION {{<<"inbox", p, i>> : i \in {j \in DOMAIN inbox[p] : inbox[p][j] = e}}
                    : p \in Process})

(* A dead letter is an event whose MAX_RETRIES requests all failed: never one
   the endpoint was seen to accept, never one it declined with 406. *)
DeadLettersFailed ==
    \A e \in dlq \ forked : posts[e] = MAX_RETRIES /\ answers[e] = {}

(* Every event a service fires is settled in the end: sent until accepted,
   declined or abandoned, or lost, but not left in a queue nobody serves.  This
   needs every event to go through _ensure_workers, so no subscriber. *)
EventsSettle ==
    \A e \in Event : e \in dispatched ~> Owners(e) = {}

(* The dispatcher implements WebhookDelivery. *)
Outcome(e) ==
    IF e \notin dispatched THEN "new"
    ELSE IF e \in forked THEN "forked"
    ELSE IF "ok" \in answers[e] THEN "accepted"
    ELSE IF "declined" \in answers[e] THEN "declined"
    ELSE IF posts[e] = MAX_RETRIES THEN "abandoned"
    ELSE IF Owners(e) # {} THEN "pending" ELSE "lost"

Delivery == INSTANCE WebhookDelivery WITH
    outcome <- [e \in Event |-> Outcome(e)],
    requests <- [e \in Event |-> IF e \in forked THEN 0 ELSE posts[e]],
    letters <- dlq \ forked

ImplementsDelivery == Delivery!Spec
=============================================================================
