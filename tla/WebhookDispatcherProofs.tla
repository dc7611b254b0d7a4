------------------------- MODULE WebhookDispatcherProofs -------------------------
(* Proofs about WebhookDispatcher, for every number of processes, threads,
   events, attempts and crashes. *)
EXTENDS WebhookDispatcher, TLAPS

(* The state of a caller and what it holds: an event in hand inside
   dispatch_event, a job inside dispatch_event_sync, otherwise neither. *)
CallersOK ==
    \A c \in Caller :
       /\ hand[c] = NoEvent <=> pc[c] \in {"idle", "sync"}
       /\ job[c] # NoJob => pc[c] = "sync"

(* The caller about to start the pool holds the lock, nobody else does, and no
   pool has been started before. *)
PoolsOK ==
    /\ \A p \in Process : pools[p] = IF workersStarted[p] THEN 1 ELSE 0
    /\ \A c \in Caller : pc[c] = "start" =>
          lock[Home[c]] = c /\ ~ workersStarted[Home[c]]

PoolInv == TypeOK /\ CallersOK /\ PoolsOK

LEMMA Homes ==
    /\ \A t \in Thread : Home[t] \in Process
    /\ Caller \subseteq Thread /\ Worker \subseteq Thread
    /\ \A t \in Thread : t \in Worker \/ t \in Caller
    /\ \A t \in Caller : t \notin Worker
  BY ThreadsAssumption DEF Thread

----------------------------------------------------------------------------
(* What the shared operators do. *)

(* The counters of _stats stay naturals. *)
LEMMA BumpType ==
    ASSUME CounterTypes, NEW p \in Process,
           NEW counter \in {"dispatched", "delivered", "failed", "dropped"},
           Bump(p, counter)
    PROVE  stats' \in [Process -> Stats]
  <1>1. stats[p] \in Stats
    BY DEF CounterTypes
  <1>2. [stats[p] EXCEPT ![counter] = @ + 1] \in Stats
    BY <1>1 DEF Stats
  <1>3. stats' = [stats EXCEPT ![p] = [stats[p] EXCEPT ![counter] = @ + 1]]
    BY <1>1 DEF Bump, Stats
  <1>. QED BY <1>2, <1>3 DEF CounterTypes

(* _enqueue keeps the queue within its capacity. *)
LEMMA PutType ==
    ASSUME QueueTypes, CounterTypes, NEW p \in Process, NEW e \in Event, PutNowait(p, e)
    PROVE  QueueTypes' /\ stats' \in [Process -> Stats]
  <1>1. CASE Len(queue[p]) < QUEUE_SIZE
    <2>1. queue[p] \in Seq(Event) /\ Append(queue[p], e) \in Seq(Event)
      BY DEF QueueTypes
    <2>2. Len(Append(queue[p], e)) <= QUEUE_SIZE
      BY <1>1, <2>1, LimitsAssumption
    <2>3. queue' = [queue EXCEPT ![p] = Append(queue[p], e)] /\ stats' = stats
      BY <1>1 DEF PutNowait
    <2>. QED BY <2>1, <2>2, <2>3 DEF QueueTypes, CounterTypes
  <1>2. CASE ~ (Len(queue[p]) < QUEUE_SIZE)
    BY <1>2, BumpType DEF QueueTypes, PutNowait
  <1>. QED BY <1>1, <1>2

(* Redis only appends the published event to subscriptions. *)
LEMMA BroadcastType ==
    ASSUME RedisTypes, NEW e \in Event, Broadcast(e)
    PROVE  inbox' \in [Process -> Seq(Event)]
  BY DEF RedisTypes, Broadcast

(* Finishing a job leaves a worker free and a synchronous caller idle. *)
LEMMA FinishType ==
    ASSUME PoolInv, NEW t \in Thread, job[t] # NoJob, FinishJob(t),
           UNCHANGED <<dispatched, hand>>
    PROVE  JobTypes' /\ CallerTypes' /\ CallersOK' /\ stats' \in [Process -> Stats]
           /\ \A c \in Caller : pc'[c] = "start" => pc[c] = "start"
  <1>. USE DEF PoolInv, TypeOK
  <1>1. JobTypes'
    BY DEF JobTypes, FinishJob
  <1>2. CASE t \in Worker
    <2>1. Bump(Home[t], "delivered") /\ pc' = pc
      BY <1>2 DEF FinishJob
    <2>2. stats' \in [Process -> Stats]
      BY <2>1, BumpType, Homes
    <2>. QED BY <1>1, <1>2, <2>1, <2>2, Homes DEF CallerTypes, CallersOK, FinishJob, JobTypes
  <1>3. CASE t \in Caller
    <2>1. pc' = [pc EXCEPT ![t] = "idle"] /\ stats' = stats
      BY <1>3, Homes DEF FinishJob
    <2>2. CallerTypes'
      BY <2>1, <1>3 DEF CallerTypes, CallerState
    <2>3. CallersOK'
      BY <2>1, <1>3, Homes DEF CallersOK, CallerTypes, FinishJob, JobTypes
    <2>. QED BY <1>1, <1>3, <2>1, <2>2, <2>3 DEF CallerTypes, CounterTypes
  <1>. QED BY <1>2, <1>3, Homes

(* A row _log_delivery writes is a row of the table. *)
LEMMA LogType ==
    ASSUME TableTypes, NEW j \in Job, LogDelivery(j)
    PROVE  log' \subseteq LogRow
  <1>1. PICK row \in SUBSET {[event |-> j.event, attempt |-> j.attempt, status |-> LogStatus(j)]} :
           log' = log \cup row
    BY DEF LogDelivery
  <1>2. [event |-> j.event, attempt |-> j.attempt, status |-> LogStatus(j)] \in LogRow
    BY DEF Job, LogRow, LogStatus
  <1>. QED BY <1>1, <1>2 DEF TableTypes

(* Inside dispatch_event a caller has an event in hand. *)
LEMMA InHand ==
    ASSUME PoolInv, NEW c \in Caller, pc[c] \notin {"idle", "sync"}
    PROVE  hand[c] \in Event
  BY DEF PoolInv, TypeOK, CallerTypes, CallersOK

----------------------------------------------------------------------------
(* The inductive invariant. *)

LEMMA InitPool == Init => PoolInv
  <1>. SUFFICES ASSUME Init PROVE PoolInv
    OBVIOUS
  <1>1. TypeOK
    BY JobAssumption, LimitsAssumption
       DEF Init, TypeOK, CallerTypes, PoolTypes, QueueTypes, RedisTypes, JobTypes,
           EndpointTypes, TableTypes, CounterTypes, CallerState, Stats, NoStats
  <1>2. CallersOK
    BY Homes DEF Init, CallersOK
  <1>3. PoolsOK
    BY DEF Init, PoolsOK
  <1>. QED BY <1>1, <1>2, <1>3 DEF PoolInv
LEMMA StepPool == PoolInv /\ [Next]_vars => PoolInv'
  <1>. SUFFICES ASSUME PoolInv, [Next]_vars PROVE PoolInv'
    OBVIOUS
  <1>. USE DEF PoolInv, TypeOK
  <1>1. ASSUME NEW c \in Caller, NEW e \in Event, Dispatch(c, e) PROVE PoolInv'
    <2>1. PICK next \in {"check", "publish"} : pc' = [pc EXCEPT ![c] = next]
      BY <1>1 DEF Dispatch
    <2>2. hand' = [hand EXCEPT ![c] = e] /\ dispatched' = dispatched \cup {e}
          /\ pc[c] = "idle" /\ job' = job
      BY <1>1 DEF Dispatch
    <2>3. CallerTypes'
      BY <2>1, <2>2 DEF CallerTypes, CallerState
    <2>4. CallersOK'
      BY <2>1, <2>2, ThreadsAssumption DEF CallersOK, CallerTypes
    <2>5. CounterTypes'
      BY <1>1, BumpType, Homes DEF Dispatch, CounterTypes
    <2>6. /\ PoolTypes' /\ QueueTypes' /\ RedisTypes' /\ JobTypes' /\ EndpointTypes'
          /\ TableTypes'
      BY <1>1 DEF Dispatch, PoolTypes, QueueTypes, RedisTypes, JobTypes, EndpointTypes,
         TableTypes, poolVars, queueVars, redisVars, endpointVars, tables
    <2>7. PoolsOK'
      BY <1>1, <2>1 DEF Dispatch, PoolsOK, CallerTypes, poolVars
    <2>. QED BY <2>3, <2>4, <2>5, <2>6, <2>7
  <1>2. ASSUME NEW c \in Caller, NEW e \in Event, DispatchSync(c, e) PROVE PoolInv'
    <2>1. /\ pc' = [pc EXCEPT ![c] = "sync"] /\ job' = [job EXCEPT ![c] = FirstAttempt(e)]
          /\ dispatched' = dispatched \cup {e} /\ hand' = hand /\ pc[c] = "idle"
      BY <1>2 DEF DispatchSync
    <2>2. FirstAttempt(e) \in Job
      BY LimitsAssumption DEF FirstAttempt, Job
    <2>3. CallerTypes' /\ JobTypes'
      BY <2>1, <2>2 DEF CallerTypes, CallerState, JobTypes
    <2>4. CallersOK'
      BY <2>1, Homes DEF CallersOK, CallerTypes, JobTypes
    <2>5. CounterTypes'
      BY <1>2, BumpType, Homes DEF DispatchSync, CounterTypes
    <2>6. PoolTypes' /\ QueueTypes' /\ RedisTypes' /\ EndpointTypes' /\ TableTypes'
      BY <1>2 DEF DispatchSync, PoolTypes, QueueTypes, RedisTypes, EndpointTypes,
         TableTypes, poolVars, queueVars, redisVars, endpointVars, tables
    <2>7. PoolsOK'
      BY <1>2, <2>1 DEF DispatchSync, PoolsOK, CallerTypes, poolVars
    <2>. QED BY <2>3, <2>4, <2>5, <2>6, <2>7
  <1>3. ASSUME NEW c \in Caller, Publish(c) PROVE PoolInv'
    <2>1. /\ pc' = [pc EXCEPT ![c] = "idle"] /\ hand' = [hand EXCEPT ![c] = NoEvent]
          /\ dispatched' = dispatched /\ job' = job /\ pc[c] = "publish" /\ Broadcast(hand[c])
          /\ listener' = listener /\ forked' = forked
      BY <1>3 DEF Publish
    <2>2. RedisTypes'
      BY <2>1, InHand, BroadcastType DEF RedisTypes
    <2>3. CallerTypes'
      BY <2>1 DEF CallerTypes, CallerState
    <2>4. CallersOK'
      BY <2>1 DEF CallersOK, CallerTypes
    <2>5. /\ PoolTypes' /\ QueueTypes' /\ JobTypes' /\ EndpointTypes' /\ TableTypes'
          /\ CounterTypes'
      BY <1>3 DEF Publish, PoolTypes, QueueTypes, JobTypes, EndpointTypes, TableTypes,
         CounterTypes, poolVars, queueVars, endpointVars, tables
    <2>6. PoolsOK'
      BY <1>3, <2>1 DEF Publish, PoolsOK, CallerTypes, poolVars
    <2>. QED BY <2>2, <2>3, <2>4, <2>5, <2>6
  <1>4. ASSUME NEW c \in Caller, PublishFails(c) PROVE PoolInv'
    <2>1. /\ pc' = [pc EXCEPT ![c] = "check"] /\ pc[c] = "publish"
          /\ UNCHANGED <<dispatched, hand, job>>
      BY <1>4 DEF PublishFails
    <2>2. CallerTypes' /\ CallersOK'
      BY <2>1 DEF CallerTypes, CallerState, CallersOK
    <2>3. /\ PoolTypes' /\ QueueTypes' /\ RedisTypes' /\ JobTypes' /\ EndpointTypes'
          /\ TableTypes' /\ CounterTypes'
      BY <1>4 DEF PublishFails, PoolTypes, QueueTypes, RedisTypes, JobTypes, EndpointTypes,
         TableTypes, CounterTypes, poolVars, queueVars, redisVars, endpointVars, tables
    <2>4. PoolsOK'
      BY <1>4, <2>1 DEF PublishFails, PoolsOK, CallerTypes, poolVars
    <2>. QED BY <2>2, <2>3, <2>4
  <1>5. ASSUME NEW c \in Caller, PublishForks(c) PROVE PoolInv'
    <2>1. /\ pc' = [pc EXCEPT ![c] = "check"] /\ pc[c] = "publish" /\ Broadcast(hand[c])
          /\ UNCHANGED <<dispatched, hand, job, listener>>
          /\ forked' = forked \cup {hand[c]}
      BY <1>5 DEF PublishForks
    <2>2. CallerTypes' /\ CallersOK'
      BY <2>1 DEF CallerTypes, CallerState, CallersOK
    <2>3. RedisTypes'
      BY <2>1, InHand, BroadcastType DEF RedisTypes
    <2>4. /\ PoolTypes' /\ QueueTypes' /\ JobTypes' /\ EndpointTypes' /\ TableTypes'
          /\ CounterTypes'
      BY <1>5 DEF PublishForks, PoolTypes, QueueTypes, JobTypes, EndpointTypes, TableTypes,
         CounterTypes, poolVars, queueVars, endpointVars, tables
    <2>5. PoolsOK'
      BY <1>5, <2>1 DEF PublishForks, PoolsOK, CallerTypes, poolVars
    <2>. QED BY <2>2, <2>3, <2>4, <2>5
  <1>6. ASSUME NEW c \in Caller, CheckStarted(c) PROVE PoolInv'
    <2>1. PICK next \in {"enqueue", "lock"} :
             pc' = [pc EXCEPT ![c] = next] /\ pc[c] = "check" /\ UNCHANGED <<dispatched, hand, job>>
      BY <1>6 DEF CheckStarted
    <2>2. CallerTypes' /\ CallersOK'
      BY <2>1 DEF CallerTypes, CallerState, CallersOK
    <2>3. /\ PoolTypes' /\ QueueTypes' /\ RedisTypes' /\ JobTypes' /\ EndpointTypes'
          /\ TableTypes' /\ CounterTypes'
      BY <1>6 DEF CheckStarted, PoolTypes, QueueTypes, RedisTypes, JobTypes, EndpointTypes,
         TableTypes, CounterTypes, poolVars, queueVars, redisVars, endpointVars, tables
    <2>4. PoolsOK'
      BY <1>6, <2>1 DEF CheckStarted, PoolsOK, CallerTypes, poolVars
    <2>. QED BY <2>2, <2>3, <2>4
  <1>7. ASSUME NEW c \in Caller, LockAndRecheck(c) PROVE PoolInv'
    <2>1. /\ pc[c] = "lock" /\ lock[Home[c]] = Free
          /\ UNCHANGED <<dispatched, hand, job, workersStarted, pools>>
      BY <1>7 DEF LockAndRecheck
    <2>2. /\ QueueTypes' /\ RedisTypes' /\ JobTypes' /\ EndpointTypes' /\ TableTypes'
          /\ CounterTypes'
      BY <1>7 DEF LockAndRecheck, QueueTypes, RedisTypes, JobTypes, EndpointTypes,
         TableTypes, CounterTypes, queueVars, redisVars, endpointVars, tables
    <2>3. CASE workersStarted[Home[c]]
      <3>1. pc' = [pc EXCEPT ![c] = "enqueue"] /\ lock' = lock
        BY <1>7, <2>3 DEF LockAndRecheck
      <3>2. CallerTypes' /\ CallersOK' /\ PoolTypes'
        BY <2>1, <3>1 DEF CallerTypes, CallerState, CallersOK, PoolTypes
      <3>3. PoolsOK'
        BY <2>1, <3>1 DEF PoolsOK, CallerTypes
      <3>. QED BY <2>2, <3>2, <3>3
    <2>4. CASE ~ workersStarted[Home[c]]
      <3>1. pc' = [pc EXCEPT ![c] = "start"] /\ lock' = [lock EXCEPT ![Home[c]] = c]
        BY <1>7, <2>4 DEF LockAndRecheck
      <3>2. CallerTypes' /\ CallersOK' /\ PoolTypes'
        BY <2>1, <3>1 DEF CallerTypes, CallerState, CallersOK, PoolTypes
      <3>3. \A d \in Caller : pc[d] = "start" => Home[d] # Home[c]
        BY <2>1, ThreadsAssumption DEF PoolsOK
      <3>4. PoolsOK'
        BY <2>1, <2>4, <3>1, <3>3, Homes DEF PoolsOK, CallerTypes, PoolTypes
      <3>. QED BY <2>2, <3>2, <3>4
    <2>. QED BY <2>3, <2>4
  <1>8. ASSUME NEW c \in Caller, StartWorkers(c) PROVE PoolInv'
    <2>. DEFINE p == Home[c]
    <2>1. /\ pc[c] = "start" /\ pc' = [pc EXCEPT ![c] = "enqueue"]
          /\ pools' = [pools EXCEPT ![p] = @ + 1]
          /\ workersStarted' = [workersStarted EXCEPT ![p] = TRUE]
          /\ lock' = [lock EXCEPT ![p] = Free]
          /\ UNCHANGED <<dispatched, hand, job>>
      BY <1>8 DEF StartWorkers
    <2>2. p \in Process
      BY Homes
    <2>3. CallerTypes' /\ CallersOK'
      BY <2>1 DEF CallerTypes, CallerState, CallersOK
    <2>4. PoolTypes'
      BY <2>1, <2>2 DEF PoolTypes
    <2>5. /\ QueueTypes' /\ RedisTypes' /\ JobTypes' /\ EndpointTypes' /\ TableTypes'
          /\ CounterTypes'
      BY <1>8 DEF StartWorkers, QueueTypes, RedisTypes, JobTypes, EndpointTypes,
         TableTypes, CounterTypes, queueVars, redisVars, endpointVars, tables
    <2>6. pools[p] = 0 /\ \A d \in Caller : pc'[d] = "start" => Home[d] # p
      BY <2>1, <2>2 DEF PoolsOK, CallerTypes
    <2>7. PoolsOK'
      BY <2>1, <2>2, <2>6, Homes DEF PoolsOK, PoolTypes, CallerTypes
    <2>. QED BY <2>3, <2>4, <2>5, <2>7
  <1>9. ASSUME NEW c \in Caller, Enqueue(c) PROVE PoolInv'
    <2>1. /\ pc' = [pc EXCEPT ![c] = "idle"] /\ hand' = [hand EXCEPT ![c] = NoEvent]
          /\ UNCHANGED <<dispatched, job, crashes>>
          /\ pc[c] = "enqueue" /\ PutNowait(Home[c], hand[c])
      BY <1>9 DEF Enqueue
    <2>2. QueueTypes' /\ CounterTypes'
      BY <2>1, InHand, PutType, Homes DEF CounterTypes
    <2>3. CallerTypes' /\ CallersOK'
      BY <2>1 DEF CallerTypes, CallerState, CallersOK
    <2>4. PoolTypes' /\ RedisTypes' /\ JobTypes' /\ EndpointTypes' /\ TableTypes'
      BY <1>9 DEF Enqueue, PoolTypes, RedisTypes, JobTypes, EndpointTypes, TableTypes,
         poolVars, redisVars, endpointVars, tables
    <2>5. PoolsOK'
      BY <1>9, <2>1 DEF Enqueue, PoolsOK, CallerTypes, poolVars
    <2>. QED BY <2>2, <2>3, <2>4, <2>5
  <1>10. ASSUME NEW p \in Process, ListenerStarts(p) PROVE PoolInv'
    <2>1. RedisTypes'
      BY <1>10 DEF ListenerStarts, RedisTypes
    <2>. QED
      BY <1>10, <2>1 DEF ListenerStarts, CallerTypes, PoolTypes, QueueTypes, JobTypes,
         EndpointTypes, TableTypes, CounterTypes, CallersOK, PoolsOK, callerVars, poolVars,
         queueVars, endpointVars, tables
  <1>11. ASSUME NEW p \in Process, ListenerDies(p) PROVE PoolInv'
    <2>1. RedisTypes'
      BY <1>11 DEF ListenerDies, RedisTypes
    <2>. QED
      BY <1>11, <2>1 DEF ListenerDies, CallerTypes, PoolTypes, QueueTypes, JobTypes,
         EndpointTypes, TableTypes, CounterTypes, CallersOK, PoolsOK, callerVars, poolVars,
         queueVars, endpointVars, tables
  <1>12. ASSUME NEW p \in Process, ListenerReceives(p) PROVE PoolInv'
    <2>1. inbox[p] \in Seq(Event) /\ inbox[p] # <<>>
      BY <1>12 DEF ListenerReceives, RedisTypes
    <2>2. Head(inbox[p]) \in Event /\ Tail(inbox[p]) \in Seq(Event)
      BY <2>1
    <2>3. QueueTypes' /\ CounterTypes'
      BY <1>12, <2>2, PutType DEF ListenerReceives, CounterTypes
    <2>4. RedisTypes'
      BY <1>12, <2>2 DEF ListenerReceives, RedisTypes
    <2>. QED
      BY <1>12, <2>3, <2>4 DEF ListenerReceives, CallerTypes, PoolTypes, JobTypes,
         EndpointTypes, TableTypes, CallersOK, PoolsOK, callerVars, poolVars, endpointVars,
         tables
  <1>13. ASSUME NEW w \in Worker, WorkerGets(w) PROVE PoolInv'
    <2>. DEFINE p == Home[w]
    <2>1. p \in Process /\ w \in Thread /\ w \notin Caller
      BY Homes
    <2>2. queue[p] \in Seq(Event) /\ queue[p] # <<>> /\ Len(queue[p]) <= QUEUE_SIZE
      BY <1>13, <2>1 DEF WorkerGets, QueueTypes
    <2>3. /\ Head(queue[p]) \in Event /\ Tail(queue[p]) \in Seq(Event)
          /\ Len(Tail(queue[p])) <= QUEUE_SIZE
      BY <2>2, LimitsAssumption
    <2>4. QueueTypes'
      BY <1>13, <2>1, <2>3 DEF WorkerGets, QueueTypes
    <2>5. FirstAttempt(Head(queue[p])) \in Job
      BY <2>3, LimitsAssumption DEF FirstAttempt, Job
    <2>6. JobTypes' /\ CallersOK'
      BY <1>13, <2>1, <2>5 DEF WorkerGets, JobTypes, CallersOK, callerVars
    <2>. QED
      BY <1>13, <2>4, <2>6 DEF WorkerGets, CallerTypes, PoolTypes, RedisTypes,
         EndpointTypes, TableTypes, CounterTypes, PoolsOK, callerVars, poolVars, redisVars,
         endpointVars, tables
  <1>14. ASSUME NEW t \in Thread, Post(t) PROVE PoolInv'
    <2>. DEFINE e == job[t].event
    <2>1. job[t] \in Job /\ job[t] # NoJob
      BY <1>14 DEF Post, InPhase, JobTypes
    <2>2. PICK answer \in {"ok", "declined", "failed"} :
             /\ posts' = [posts EXCEPT ![e] = @ + 1]
             /\ answers' = [answers EXCEPT ![e] = @ \cup ({answer} \ {"failed"})]
             /\ job' = [job EXCEPT ![t] = [job[t] EXCEPT !.phase = answer]]
      BY <1>14 DEF Post
    <2>3. e \in Event /\ [job[t] EXCEPT !.phase = answer] \in Job
      BY <2>1 DEF Job
    <2>4. EndpointTypes'
      BY <2>2, <2>3 DEF EndpointTypes
    <2>5. JobTypes' /\ CallersOK'
      BY <1>14, <2>1, <2>2, <2>3 DEF Post, JobTypes, CallersOK, callerVars
    <2>. QED
      BY <1>14, <2>4, <2>5 DEF Post, CallerTypes, PoolTypes, QueueTypes, RedisTypes,
         TableTypes, CounterTypes, PoolsOK, callerVars, poolVars, queueVars, redisVars, tables
  <1>15. ASSUME NEW t \in Thread, Settle(t) PROVE PoolInv'
    <2>1. /\ job[t] \in Job /\ job[t] # NoJob /\ LogDelivery(job[t]) /\ FinishJob(t)
          /\ UNCHANGED <<dispatched, hand, dlq, crashes>>
      BY <1>15 DEF Settle, InPhase, JobTypes
    <2>2. /\ JobTypes' /\ CallerTypes' /\ CallersOK' /\ stats' \in [Process -> Stats]
          /\ \A c \in Caller : pc'[c] = "start" => pc[c] = "start"
      BY <2>1, FinishType
    <2>3. TableTypes' /\ CounterTypes'
      BY <2>1, <2>2, LogType DEF TableTypes, CounterTypes
    <2>. QED
      BY <1>15, <2>2, <2>3 DEF Settle, PoolTypes, QueueTypes, RedisTypes, EndpointTypes,
         PoolsOK, poolVars, queueVars, redisVars, endpointVars
  <1>16. ASSUME NEW t \in Thread, Retry(t) PROVE PoolInv'
    <2>1. /\ job[t] \in Job /\ job[t] # NoJob /\ LogDelivery(job[t])
          /\ job[t].attempt < MAX_RETRIES /\ job' = [job EXCEPT ![t] = NextAttempt(job[t])]
          /\ UNCHANGED <<callerVars, dlq>>
      BY <1>16 DEF Retry, InPhase, JobTypes
    <2>2. NextAttempt(job[t]) \in Job
      BY <2>1, LimitsAssumption DEF Job, NextAttempt
    <2>3. JobTypes' /\ CallersOK'
      BY <2>1, <2>2 DEF JobTypes, CallersOK, callerVars
    <2>4. TableTypes'
      BY <2>1, LogType DEF TableTypes
    <2>. QED
      BY <1>16, <2>3, <2>4 DEF Retry, CallerTypes, PoolTypes, QueueTypes, RedisTypes,
         EndpointTypes, CounterTypes, PoolsOK, callerVars, poolVars, queueVars, redisVars,
         endpointVars
  <1>17. ASSUME NEW t \in Thread, Abandon(t) PROVE PoolInv'
    <2>. DEFINE next == [job[t] EXCEPT !.phase = "dlq"]
    <2>1. /\ job[t] \in Job /\ job[t] # NoJob /\ LogDelivery(job[t])
          /\ job' = [job EXCEPT ![t] = next] /\ Bump(Home[t], "failed")
          /\ UNCHANGED <<callerVars, dlq, crashes>>
      BY <1>17 DEF Abandon, InPhase, JobTypes
    <2>2. next \in Job
      BY <2>1 DEF Job
    <2>3. JobTypes' /\ CallersOK'
      BY <2>1, <2>2 DEF JobTypes, CallersOK, callerVars
    <2>4. TableTypes' /\ CounterTypes'
      BY <2>1, LogType, BumpType, Homes DEF TableTypes, CounterTypes
    <2>. QED
      BY <1>17, <2>3, <2>4 DEF Abandon, CallerTypes, PoolTypes, QueueTypes, RedisTypes,
         EndpointTypes, PoolsOK, callerVars, poolVars, queueVars, redisVars, endpointVars
  <1>18. ASSUME NEW t \in Thread, DeadLetter(t) PROVE PoolInv'
    <2>1. /\ job[t] \in Job /\ job[t] # NoJob /\ FinishJob(t)
          /\ UNCHANGED <<dispatched, hand, log, crashes>>
          /\ \E letters \in SUBSET {job[t].event} : dlq' = dlq \cup letters
      BY <1>18 DEF DeadLetter, InPhase, JobTypes
    <2>2. /\ JobTypes' /\ CallerTypes' /\ CallersOK' /\ stats' \in [Process -> Stats]
          /\ \A c \in Caller : pc'[c] = "start" => pc[c] = "start"
      BY <2>1, FinishType
    <2>3. job[t].event \in Event
      BY <2>1 DEF Job
    <2>4. TableTypes' /\ CounterTypes'
      BY <2>1, <2>2, <2>3 DEF TableTypes, CounterTypes
    <2>. QED
      BY <1>18, <2>2, <2>4 DEF DeadLetter, PoolTypes, QueueTypes, RedisTypes,
         EndpointTypes, PoolsOK, poolVars, queueVars, redisVars, endpointVars
  <1>19. ASSUME NEW p \in Process, Crash(p) PROVE PoolInv'
    <2>1. CallerTypes' /\ JobTypes'
      BY <1>19 DEF Crash, CallerTypes, CallerState, JobTypes
    <2>2. PoolTypes' /\ CounterTypes'
      BY <1>19 DEF Crash, PoolTypes, CounterTypes, Stats, NoStats
    <2>3. QueueTypes' /\ RedisTypes'
      BY <1>19, LimitsAssumption DEF Crash, QueueTypes, RedisTypes
    <2>4. EndpointTypes' /\ TableTypes'
      BY <1>19 DEF Crash, EndpointTypes, TableTypes, endpointVars, tables
    <2>5. CallersOK'
      BY <1>19, Homes DEF Crash, CallersOK
    <2>6. PoolsOK'
      BY <1>19, Homes DEF Crash, PoolsOK, PoolTypes
    <2>. QED BY <2>1, <2>2, <2>3, <2>4, <2>5, <2>6
  <1>20. CASE UNCHANGED vars
    BY <1>20 DEF vars, CallerTypes, PoolTypes, QueueTypes, RedisTypes, JobTypes,
       EndpointTypes, TableTypes, CounterTypes, CallersOK, PoolsOK, callerVars, poolVars,
       queueVars, redisVars, endpointVars, tables
  <1>. QED
    BY <1>1, <1>2, <1>3, <1>4, <1>5, <1>6, <1>7, <1>8, <1>9, <1>10, <1>11, <1>12, <1>13,
       <1>14, <1>15, <1>16, <1>17, <1>18, <1>19, <1>20 DEF Next, CallerStep, DeliveryStep

(* Type correctness, the bound of the queue included. *)
THEOREM TypeCorrect == Spec => []TypeOK
  <1>1. PoolInv => TypeOK
    BY DEF PoolInv
  <1>. QED BY InitPool, StepPool, <1>1, PTL DEF Spec

(* _ensure_workers starts one pool in the life of a process. *)
THEOREM PoolStartsOnce == Spec => []OnePool
  <1>1. PoolInv => OnePool
    BY DEF PoolInv, PoolsOK, OnePool
  <1>. QED BY InitPool, StepPool, <1>1, PTL DEF Spec

-------------------------------------------------------------------------------
(* The dispatcher implements WebhookDelivery: for every number of processes,
   threads, events, attempts and crashes, whatever the callers, the workers, Redis
   and the subscriber do, the requests, outcomes and dead letters of an event are
   those WebhookDelivery allows.

   The heart of it is that an event Redis did not fork is in one place at most: a
   caller's hand, a job, a place of a queue or a place of a subscription.  So what
   a job knows of the requests made is all there is to know. *)

(* Event e is at place i of x: x is a thread, or the process of a queue. *)
At(k, x, i, e) ==
    \/ k = "hand" /\ x \in Caller /\ i = 0 /\ hand[x] = e
    \/ k = "job" /\ x \in Thread /\ i = 0 /\ job[x] # NoJob /\ job[x].event = e
    \/ k = "queue" /\ x \in Process /\ i \in 1 .. Len(queue[x]) /\ queue[x][i] = e
    \/ k = "inbox" /\ x \in Process /\ i \in 1 .. Len(inbox[x]) /\ inbox[x][i] = e

ListenersOK == \A p \in Process : listener[p] = "on" => p \in Subscribers

Known ==
    /\ forked \subseteq dispatched
    /\ \A e \in Event : \A k, x, i : At(k, x, i, e) => e \in dispatched
    /\ \A e \in Event \ dispatched : posts[e] = 0 /\ answers[e] = {} /\ e \notin dlq

Single ==
    \A e \in Event \ forked : \A k, x, i, l, y, j :
        At(k, x, i, e) /\ At(l, y, j, e) => k = l /\ x = y /\ i = j

Waiting ==
    \A e \in Event \ forked : \A k, x, i :
        At(k, x, i, e) /\ k # "job" => posts[e] = 0 /\ answers[e] = {}

JobTold(j) ==
    /\ j.phase = "post" => posts[j.event] = j.attempt - 1 /\ answers[j.event] = {}
    /\ j.phase = "ok" => "ok" \in answers[j.event]
    /\ j.phase = "declined" => "declined" \in answers[j.event]
    /\ j.phase = "failed" => posts[j.event] = j.attempt /\ answers[j.event] = {}
    /\ j.phase = "dlq" => posts[j.event] = MAX_RETRIES /\ answers[j.event] = {}

JobsTold ==
    \A t \in Thread : job[t] # NoJob /\ job[t].event \notin forked => JobTold(job[t])

(* What is somewhere was somewhere. *)
Placed(e) == \E k, x, i : At(k, x, i, e)
NoneNew == \A e \in Event : Placed(e)' => Placed(e)

OneHandInv == Known /\ Single /\ Waiting /\ JobsTold /\ DeadLettersFailed
DeliveryInv == PoolInv /\ ListenersOK /\ OneHandInv

-------------------------------------------------------------------------------
(* What steps do to places. *)

(* Places are left and none is taken. *)
LEMMA Fewer ==
    ASSUME OneHandInv, JobsTold',
           \A e \in Event : \A k, x, i : At(k, x, i, e)' => At(k, x, i, e),
           UNCHANGED <<dispatched, forked, posts, answers, dlq>>
    PROVE  OneHandInv' /\ NoneNew
  <1>1. Known'
    BY DEF OneHandInv, Known
  <1>2. Single'
    BY DEF OneHandInv, Single
  <1>3. Waiting'
    BY DEF OneHandInv, Waiting
  <1>4. DeadLettersFailed'
    BY DEF OneHandInv, DeadLettersFailed
  <1>5. NoneNew
    BY DEF NoneNew, Placed
  <1> QED BY <1>1, <1>2, <1>3, <1>4, <1>5 DEF OneHandInv

(* An event leaves where it was, and may turn up at place i1 of x1. *)
Step(e, k0, x0, k1, x1, i1) ==
    \A d \in Event : \A k, x, i : At(k, x, i, d)' =>
        \/ k = k1 /\ x = x1 /\ i = i1 /\ d = e
        \/ ~(k = k0 /\ x = x0) /\ At(k, x, i, d)

(* The same of the first in a line: the others move up. *)
StepUp(e, k0, x0, k1, x1, i1) ==
    \A d \in Event : \A k, x, i : At(k, x, i, d)' =>
        \/ k = k1 /\ x = x1 /\ i = i1 /\ d = e
        \/ ~(k = k0 /\ x = x0) /\ At(k, x, i, d)
        \/ k = k0 /\ x = x0 /\ i \in Nat \ {0} /\ At(k, x, i + 1, d)

LEMMA Moves ==
    ASSUME OneHandInv, JobsTold',
           NEW e \in Event, NEW k0, NEW x0, NEW i0, NEW k1, NEW x1, NEW i1,
           At(k0, x0, i0, e), k0 # "job",
           Step(e, k0, x0, k1, x1, i1),
           UNCHANGED <<dispatched, forked, posts, answers, dlq>>
    PROVE  OneHandInv' /\ NoneNew
  <1> USE DEF Step
  <1>1. Known'
    BY DEF OneHandInv, Known
  <1>2. Single'
    <2> SUFFICES ASSUME NEW d \in Event \ forked, NEW k, NEW x, NEW i, NEW l, NEW y, NEW j,
                        At(k, x, i, d)', At(l, y, j, d)'
                 PROVE  k = l /\ x = y /\ i = j
      BY DEF Single
    <2>1. \A m, z, n, m2, z2, n2 : At(m, z, n, d) /\ At(m2, z2, n2, d) =>
              m = m2 /\ z = z2 /\ n = n2
      BY DEF OneHandInv, Single
    <2> QED BY <2>1
  <1>3. Waiting'
    BY DEF OneHandInv, Waiting
  <1>4. DeadLettersFailed'
    BY DEF OneHandInv, DeadLettersFailed
  <1>5. NoneNew
    BY DEF NoneNew, Placed
  <1> QED BY <1>1, <1>2, <1>3, <1>4, <1>5 DEF OneHandInv

LEMMA MovesFirst ==
    ASSUME OneHandInv, JobsTold',
           NEW e \in Event, NEW k0, NEW x0, NEW k1, NEW x1, NEW i1,
           At(k0, x0, 1, e), k0 # "job",
           StepUp(e, k0, x0, k1, x1, i1),
           UNCHANGED <<dispatched, forked, posts, answers, dlq>>
    PROVE  OneHandInv' /\ NoneNew
  <1> USE DEF StepUp
  <1>1. Known'
    BY DEF OneHandInv, Known
  <1>2. Single'
    <2> SUFFICES ASSUME NEW d \in Event \ forked, NEW k, NEW x, NEW i, NEW l, NEW y, NEW j,
                        At(k, x, i, d)', At(l, y, j, d)'
                 PROVE  k = l /\ x = y /\ i = j
      BY DEF Single
    <2>1. \A m, z, n, m2, z2, n2 : At(m, z, n, d) /\ At(m2, z2, n2, d) =>
              m = m2 /\ z = z2 /\ n = n2
      BY DEF OneHandInv, Single
    <2>2. CASE k = k1 /\ x = x1 /\ i = i1 /\ d = e
      BY <2>1, <2>2
    <2>3. CASE l = k1 /\ y = x1 /\ j = i1 /\ d = e
      BY <2>1, <2>3
    <2>4. CASE /\ ~(k = k1 /\ x = x1 /\ i = i1 /\ d = e)
               /\ ~(l = k1 /\ y = x1 /\ j = i1 /\ d = e)
      <3>1. CASE k = k0 /\ x = x0
        <4>1. i \in Nat /\ At(k, x, i + 1, d)
          BY <2>4, <3>1
        <4>2. l = k0 /\ y = x0
          BY <2>1, <2>4, <3>1, <4>1
        <4>3. j \in Nat /\ At(l, y, j + 1, d)
          BY <2>4, <4>2
        <4>4. i + 1 = j + 1
          BY <2>1, <4>1, <4>3
        <4> QED BY <3>1, <4>1, <4>2, <4>3, <4>4
      <3>2. CASE ~(k = k0 /\ x = x0)
        <4>1. At(k, x, i, d)
          BY <2>4, <3>2
        <4>2. ~(l = k0 /\ y = x0)
          BY <2>1, <2>4, <3>2, <4>1
        <4>3. At(l, y, j, d)
          BY <2>4, <4>2
        <4> QED BY <2>1, <4>1, <4>3
      <3> QED BY <3>1, <3>2
    <2> QED BY <2>2, <2>3, <2>4
  <1>3. Waiting'
    BY DEF OneHandInv, Waiting
  <1>4. DeadLettersFailed'
    BY DEF OneHandInv, DeadLettersFailed
  <1>5. NoneNew
    BY DEF NoneNew, Placed
  <1> QED BY <1>1, <1>2, <1>3, <1>4, <1>5 DEF OneHandInv

(* Jobs as they were, of events whose requests and answers are as they were. *)
LEMMA SameJobs ==
    ASSUME OneHandInv, UNCHANGED <<posts, answers>>, forked \subseteq forked',
           \A t \in Thread : job'[t] \in {job[t], NoJob}
    PROVE  JobsTold'
  <1> SUFFICES ASSUME NEW t \in Thread, job'[t] # NoJob, job'[t].event \notin forked'
               PROVE  JobTold(job[t])'
    BY DEF JobsTold
  <1>1. job'[t] = job[t]
    OBVIOUS
  <1>2. JobTold(job[t])
    BY <1>1 DEF OneHandInv, JobsTold
  <1> QED BY <1>1, <1>2 DEF JobTold

-------------------------------------------------------------------------------
(* Callers. *)

LEMMA DispatchKeeps ==
    ASSUME DeliveryInv, NEW c \in Caller, NEW e \in Event, Dispatch(c, e)
    PROVE  OneHandInv'
  <1> USE DEF DeliveryInv, PoolInv, TypeOK
  <1>1. /\ e \notin dispatched /\ dispatched' = dispatched \cup {e}
        /\ hand' = [hand EXCEPT ![c] = e]
        /\ UNCHANGED <<queue, inbox, forked, job, posts, answers, dlq>>
    BY DEF Dispatch, queueVars, redisVars, endpointVars, tables
  <1>2. \A k, x, i : ~At(k, x, i, e)
    BY <1>1 DEF OneHandInv, Known
  <1>3. posts[e] = 0 /\ answers[e] = {} /\ e \notin dlq /\ e \notin forked
    BY <1>1 DEF OneHandInv, Known
  <1>4. \A d \in Event : \A k, x, i : At(k, x, i, d)' =>
            \/ k = "hand" /\ x = c /\ i = 0 /\ d = e
            \/ d # e /\ At(k, x, i, d)
    <2> SUFFICES ASSUME NEW d \in Event, NEW k, NEW x, NEW i, At(k, x, i, d)'
                 PROVE  \/ k = "hand" /\ x = c /\ i = 0 /\ d = e
                        \/ At(k, x, i, d)
      BY <1>2
    <2> QED BY <1>1 DEF At, CallerTypes
  <1>5. JobsTold'
    BY <1>1, SameJobs
  <1>6. Known'
    BY <1>1, <1>3, <1>4 DEF OneHandInv, Known
  <1>7. Single'
    BY <1>1, <1>4 DEF OneHandInv, Single
  <1>8. Waiting'
    BY <1>1, <1>3, <1>4 DEF OneHandInv, Waiting
  <1>9. DeadLettersFailed'
    BY <1>1 DEF OneHandInv, DeadLettersFailed
  <1> QED BY <1>5, <1>6, <1>7, <1>8, <1>9 DEF OneHandInv

LEMMA DispatchSyncKeeps ==
    ASSUME DeliveryInv, NEW c \in Caller, NEW e \in Event, DispatchSync(c, e)
    PROVE  OneHandInv'
  <1> USE DEF DeliveryInv, PoolInv, TypeOK
  <1> DEFINE first == FirstAttempt(e)
  <1>1. /\ e \notin dispatched /\ dispatched' = dispatched \cup {e}
        /\ job' = [job EXCEPT ![c] = first]
        /\ UNCHANGED <<queue, inbox, forked, hand, posts, answers, dlq>>
    BY DEF DispatchSync, queueVars, redisVars, endpointVars, tables
  <1>2. \A k, x, i : ~At(k, x, i, e)
    BY <1>1 DEF OneHandInv, Known
  <1>3. posts[e] = 0 /\ answers[e] = {} /\ e \notin dlq /\ e \notin forked
    BY <1>1 DEF OneHandInv, Known
  <1>4. first.event = e /\ first.phase = "post" /\ first.attempt = 1
    BY DEF FirstAttempt
  <1> HIDE DEF first
  <1>5. c \in Thread
    BY Homes
  <1>6. \A d \in Event : \A k, x, i : At(k, x, i, d)' =>
            \/ k = "job" /\ x = c /\ i = 0 /\ d = e
            \/ d # e /\ At(k, x, i, d)
    <2> SUFFICES ASSUME NEW d \in Event, NEW k, NEW x, NEW i, At(k, x, i, d)'
                 PROVE  \/ k = "job" /\ x = c /\ i = 0 /\ d = e
                        \/ At(k, x, i, d)
      BY <1>2
    <2> QED BY <1>1, <1>4, <1>5 DEF At, JobTypes
  <1>7. JobsTold'
    <2> SUFFICES ASSUME NEW t \in Thread, job'[t] # NoJob, job'[t].event \notin forked'
                 PROVE  JobTold(job[t])'
      BY DEF JobsTold
    <2>1. CASE t = c
      <3>1. job'[t] = first
        BY <1>1, <1>5, <2>1 DEF JobTypes
      <3> QED BY <1>1, <1>3, <1>4, <3>1 DEF JobTold
    <2>2. CASE t # c
      <3>1. job'[t] = job[t]
        BY <1>1, <2>2 DEF JobTypes
      <3>2. JobTold(job[t])
        BY <1>1, <3>1 DEF OneHandInv, JobsTold
      <3> QED BY <1>1, <3>1, <3>2 DEF JobTold
    <2> QED BY <2>1, <2>2
  <1>8. Known'
    BY <1>1, <1>3, <1>6 DEF OneHandInv, Known
  <1>9. Single'
    BY <1>1, <1>6 DEF OneHandInv, Single
  <1>10. Waiting'
    BY <1>1, <1>3, <1>6 DEF OneHandInv, Waiting
  <1>11. DeadLettersFailed'
    BY <1>1 DEF OneHandInv, DeadLettersFailed
  <1> QED BY <1>7, <1>8, <1>9, <1>10, <1>11 DEF OneHandInv

(* The message is appended to the subscription, if there is one. *)
Appended(e, q, n) ==
    \A x \in Process : \A i \in 1 .. Len(inbox'[x]) :
        \/ x = q /\ i = n /\ inbox'[x][i] = e
        \/ i \in 1 .. Len(inbox[x]) /\ inbox'[x][i] = inbox[x][i]

LEMMA BroadcastPlaces ==
    ASSUME DeliveryInv, NEW e \in Event, Broadcast(e)
    PROVE  \E q, n : Appended(e, q, n)
  <1> USE DEF DeliveryInv, PoolInv, TypeOK, RedisTypes
  <1>1. CASE \E p \in Process : listener[p] = "on"
    <2>1. PICK q \in Process : listener[q] = "on"
      BY <1>1
    <2>2. \A x \in Process : x # q => listener[x] # "on"
      BY <2>1, OneSubscriberAssumption DEF ListenersOK
    <2>3. inbox'[q] = Append(inbox[q], e)
      BY <2>1 DEF Broadcast
    <2>4. \A x \in Process : x # q => inbox'[x] = inbox[x]
      BY <2>2 DEF Broadcast
    <2>5. inbox[q] \in Seq(Event)
      OBVIOUS
    <2>6. /\ Len(inbox'[q]) = Len(inbox[q]) + 1
          /\ inbox'[q][Len(inbox[q]) + 1] = e
          /\ \A i \in 1 .. Len(inbox[q]) : inbox'[q][i] = inbox[q][i]
          /\ Len(inbox[q]) \in Nat
      BY <2>3, <2>5
    <2>7. PICK n \in Nat : n = Len(inbox[q]) + 1
      BY <2>6
    <2>8. Appended(e, q, n)
      BY <2>4, <2>6, <2>7 DEF Appended
    <2> QED BY <2>8
  <1>2. CASE \A p \in Process : listener[p] # "on"
    <2>1. Appended(e, 0, 0)
      BY <1>2 DEF Broadcast, Appended
    <2> QED BY <2>1
  <1> QED BY <1>1, <1>2

LEMMA PublishKeeps ==
    ASSUME DeliveryInv, NEW c \in Caller, Publish(c)
    PROVE  OneHandInv' /\ NoneNew
  <1> USE DEF DeliveryInv, PoolInv, TypeOK
  <1> DEFINE e == hand[c]
  <1>1. e \in Event /\ pc[c] = "publish"
    BY InHand DEF Publish
  <1>2. /\ Broadcast(e)
        /\ hand' = [hand EXCEPT ![c] = NoEvent]
        /\ UNCHANGED <<dispatched, queue, forked, job, posts, answers, dlq>>
    BY DEF Publish, queueVars, endpointVars, tables
  <1>3. At("hand", c, 0, e)
    BY DEF At
  <1> HIDE DEF e
  <1>4. PICK p1, i1 : Appended(e, p1, i1)
    BY <1>1, <1>2, BroadcastPlaces
  <1>5. Step(e, "hand", c, "inbox", p1, i1)
    <2> SUFFICES ASSUME NEW d \in Event, NEW k, NEW x, NEW i, At(k, x, i, d)'
                 PROVE  \/ k = "inbox" /\ x = p1 /\ i = i1 /\ d = e
                        \/ ~(k = "hand" /\ x = c) /\ At(k, x, i, d)
      BY DEF Step
    <2>1. CASE k = "inbox"
      BY <1>4, <2>1 DEF At, Appended
    <2>2. CASE k = "hand"
      BY <1>2, <2>2, ThreadsAssumption DEF At, CallerTypes
    <2>3. CASE k \notin {"inbox", "hand"}
      BY <1>2, <2>3 DEF At
    <2> QED BY <2>1, <2>2, <2>3
  <1>6. JobsTold'
    BY <1>2, SameJobs
  <1> QED BY <1>1, <1>2, <1>3, <1>5, <1>6, Moves

(* Steps of callers and of the subscriber that touch no event. *)
LEMMA StillKeeps ==
    ASSUME DeliveryInv,
           UNCHANGED <<hand, queue, inbox, job, dispatched, forked, posts, answers, dlq>>
    PROVE  OneHandInv' /\ NoneNew
  <1> USE DEF DeliveryInv
  <1>1. JobsTold'
    BY SameJobs
  <1>2. \A e \in Event : \A k, x, i : At(k, x, i, e)' => At(k, x, i, e)
    BY DEF At
  <1> QED BY <1>1, <1>2, Fewer

(* Redis takes the message, the caller keeps the event: it is forked from here on. *)
LEMMA PublishForksKeeps ==
    ASSUME DeliveryInv, NEW c \in Caller, PublishForks(c)
    PROVE  OneHandInv'
  <1> USE DEF DeliveryInv, PoolInv, TypeOK
  <1> DEFINE e == hand[c]
  <1>1. e \in Event /\ pc[c] = "publish"
    BY InHand DEF PublishForks
  <1>2. /\ Broadcast(e)
        /\ forked' = forked \cup {e}
        /\ UNCHANGED <<dispatched, hand, queue, job, posts, answers, dlq>>
    BY DEF PublishForks, queueVars, endpointVars, tables
  <1>3. At("hand", c, 0, e)
    BY DEF At
  <1>4. e \in dispatched
    BY <1>1, <1>3 DEF OneHandInv, Known
  <1> HIDE DEF e
  <1>5. PICK p1, i1 : Appended(e, p1, i1)
    BY <1>1, <1>2, BroadcastPlaces
  <1>6. \A d \in Event : \A k, x, i : At(k, x, i, d)' => d = e \/ At(k, x, i, d)
    BY <1>2, <1>5 DEF At, Appended
  <1>7. JobsTold'
    BY <1>2, SameJobs
  <1>8. Known'
    BY <1>2, <1>4, <1>6 DEF OneHandInv, Known
  <1>9. Single' /\ Waiting'
    BY <1>2, <1>6 DEF OneHandInv, Single, Waiting
  <1>10. DeadLettersFailed'
    BY <1>2 DEF OneHandInv, DeadLettersFailed
  <1> QED BY <1>7, <1>8, <1>9, <1>10 DEF OneHandInv

(* _enqueue: at the end of the queue, or nowhere. *)
LEMMA PutPlaces ==
    ASSUME QueueTypes, NEW p \in Process, NEW e \in Event, PutNowait(p, e)
    PROVE  \A x \in Process : \A i \in 1 .. Len(queue'[x]) :
               \/ x = p /\ i = Len(queue[p]) + 1 /\ queue'[x][i] = e
               \/ i \in 1 .. Len(queue[x]) /\ queue'[x][i] = queue[x][i]
  <1>1. queue[p] \in Seq(Event) /\ Len(queue[p]) \in Nat
    BY DEF QueueTypes
  <1>2. CASE queue' = queue
    BY <1>2
  <1>3. CASE queue' = [queue EXCEPT ![p] = Append(@, e)]
    <2>1. queue'[p] = Append(queue[p], e)
      BY <1>3 DEF QueueTypes
    <2>2. \A x \in Process : x # p => queue'[x] = queue[x]
      BY <1>3 DEF QueueTypes
    <2>3. /\ Len(queue'[p]) = Len(queue[p]) + 1
          /\ queue'[p][Len(queue[p]) + 1] = e
          /\ \A i \in 1 .. Len(queue[p]) : queue'[p][i] = queue[p][i]
      BY <1>1, <2>1
    <2> QED BY <1>1, <2>2, <2>3
  <1> QED BY <1>2, <1>3 DEF PutNowait

LEMMA EnqueueKeeps ==
    ASSUME DeliveryInv, NEW c \in Caller, Enqueue(c)
    PROVE  OneHandInv' /\ NoneNew
  <1> USE DEF DeliveryInv, PoolInv, TypeOK
  <1> DEFINE e == hand[c]
             p == Home[c]
             n == Len(queue[p]) + 1
  <1>1. e \in Event
    BY InHand DEF Enqueue
  <1>2. /\ PutNowait(p, e)
        /\ hand' = [hand EXCEPT ![c] = NoEvent]
        /\ UNCHANGED <<dispatched, inbox, forked, job, posts, answers, dlq>>
    BY DEF Enqueue, redisVars, endpointVars, tables
  <1>3. At("hand", c, 0, e)
    BY DEF At
  <1>4. p \in Process
    BY Homes
  <1>5. \A x \in Process : \A i \in 1 .. Len(queue'[x]) :
            \/ x = p /\ i = n /\ queue'[x][i] = e
            \/ i \in 1 .. Len(queue[x]) /\ queue'[x][i] = queue[x][i]
    BY <1>1, <1>2, <1>4, PutPlaces
  <1> HIDE DEF e, p, n
  <1>6. Step(e, "hand", c, "queue", p, n)
    <2> SUFFICES ASSUME NEW d \in Event, NEW k, NEW x, NEW i, At(k, x, i, d)'
                 PROVE  \/ k = "queue" /\ x = p /\ i = n /\ d = e
                        \/ ~(k = "hand" /\ x = c) /\ At(k, x, i, d)
      BY DEF Step
    <2>1. CASE k = "queue"
      BY <1>5, <2>1 DEF At
    <2>2. CASE k = "hand"
      BY <1>2, <2>2, ThreadsAssumption DEF At, CallerTypes
    <2>3. CASE k \notin {"queue", "hand"}
      BY <1>2, <2>3 DEF At
    <2> QED BY <2>1, <2>2, <2>3
  <1>7. JobsTold'
    BY <1>2, SameJobs
  <1> QED BY <1>1, <1>2, <1>3, <1>6, <1>7, Moves

-------------------------------------------------------------------------------
(* The subscriber and the workers: the first of a line leaves it. *)

LEMMA TailPlaces ==
    ASSUME NEW s \in Seq(Event), s # <<>>
    PROVE  /\ Head(s) \in Event /\ Head(s) = s[1] /\ 1 \in 1 .. Len(s)
           /\ \A i \in 1 .. Len(Tail(s)) :
                i \in Nat \ {0} /\ i + 1 \in 1 .. Len(s) /\ Tail(s)[i] = s[i + 1]
  OBVIOUS

LEMMA ListenerReceivesKeeps ==
    ASSUME DeliveryInv, NEW p \in Process, ListenerReceives(p)
    PROVE  OneHandInv' /\ NoneNew
  <1> USE DEF DeliveryInv, PoolInv, TypeOK
  <1> DEFINE e == Head(inbox[p])
             n == Len(queue[p]) + 1
  <1>1. inbox[p] \in Seq(Event) /\ inbox[p] # <<>>
    BY DEF ListenerReceives, RedisTypes
  <1>2. /\ PutNowait(p, e)
        /\ inbox' = [inbox EXCEPT ![p] = Tail(@)]
        /\ UNCHANGED <<dispatched, hand, forked, job, posts, answers, dlq>>
    BY DEF ListenerReceives, callerVars, endpointVars, tables
  <1>3. e \in Event /\ At("inbox", p, 1, e)
    BY <1>1, TailPlaces DEF At
  <1>4. \A x \in Process : \A i \in 1 .. Len(queue'[x]) :
            \/ x = p /\ i = n /\ queue'[x][i] = e
            \/ i \in 1 .. Len(queue[x]) /\ queue'[x][i] = queue[x][i]
    BY <1>2, <1>3, PutPlaces
  <1>5. /\ \A i \in 1 .. Len(inbox'[p]) :
             i \in Nat \ {0} /\ i + 1 \in 1 .. Len(inbox[p]) /\ inbox'[p][i] = inbox[p][i + 1]
        /\ \A x \in Process : x # p => inbox'[x] = inbox[x]
    <2>1. inbox'[p] = Tail(inbox[p])
      BY <1>2 DEF RedisTypes
    <2>2. \A x \in Process : x # p => inbox'[x] = inbox[x]
      BY <1>2 DEF RedisTypes
    <2> QED BY <1>1, <2>1, <2>2, TailPlaces
  <1> HIDE DEF e, n
  <1>6. StepUp(e, "inbox", p, "queue", p, n)
    <2> SUFFICES ASSUME NEW d \in Event, NEW k, NEW x, NEW i, At(k, x, i, d)'
                 PROVE  \/ k = "queue" /\ x = p /\ i = n /\ d = e
                        \/ ~(k = "inbox" /\ x = p) /\ At(k, x, i, d)
                        \/ k = "inbox" /\ x = p /\ i \in Nat \ {0} /\ At(k, x, i + 1, d)
      BY DEF StepUp
    <2>1. CASE k = "queue"
      BY <1>4, <2>1 DEF At
    <2>2. CASE k = "inbox"
      BY <1>5, <2>2 DEF At
    <2>3. CASE k \notin {"queue", "inbox"}
      BY <1>2, <2>3 DEF At
    <2> QED BY <2>1, <2>2, <2>3
  <1>7. JobsTold'
    BY <1>2, SameJobs
  <1> QED BY <1>2, <1>3, <1>6, <1>7, MovesFirst

LEMMA WorkerGetsKeeps ==
    ASSUME DeliveryInv, NEW w \in Worker, WorkerGets(w)
    PROVE  OneHandInv' /\ NoneNew
  <1> USE DEF DeliveryInv, PoolInv, TypeOK
  <1> DEFINE p == Home[w]
             e == Head(queue[p])
             first == FirstAttempt(e)
  <1>1. w \in Thread /\ p \in Process
    BY Homes
  <1>2. queue[p] \in Seq(Event) /\ queue[p] # <<>>
    BY <1>1 DEF WorkerGets, QueueTypes
  <1>3. /\ job' = [job EXCEPT ![w] = first]
        /\ queue' = [queue EXCEPT ![p] = Tail(@)]
        /\ UNCHANGED <<dispatched, hand, inbox, forked, posts, answers, dlq>>
    BY DEF WorkerGets, callerVars, redisVars, endpointVars, tables
  <1>4. e \in Event /\ At("queue", p, 1, e)
    BY <1>1, <1>2, TailPlaces DEF At
  <1>5. /\ \A i \in 1 .. Len(queue'[p]) :
             i \in Nat \ {0} /\ i + 1 \in 1 .. Len(queue[p]) /\ queue'[p][i] = queue[p][i + 1]
        /\ \A x \in Process : x # p => queue'[x] = queue[x]
    <2>1. queue'[p] = Tail(queue[p])
      BY <1>1, <1>3 DEF QueueTypes
    <2>2. \A x \in Process : x # p => queue'[x] = queue[x]
      BY <1>1, <1>3 DEF QueueTypes
    <2> QED BY <1>2, <2>1, <2>2, TailPlaces
  <1>6. first.event = e /\ first.phase = "post" /\ first.attempt = 1
    BY DEF FirstAttempt
  <1> HIDE DEF e, p, first
  <1>7. /\ job'[w] = first
        /\ \A t \in Thread : t # w => job'[t] = job[t]
    BY <1>1, <1>3 DEF JobTypes
  <1>8. StepUp(e, "queue", p, "job", w, 0)
    <2> SUFFICES ASSUME NEW d \in Event, NEW k, NEW x, NEW i, At(k, x, i, d)'
                 PROVE  \/ k = "job" /\ x = w /\ i = 0 /\ d = e
                        \/ ~(k = "queue" /\ x = p) /\ At(k, x, i, d)
                        \/ k = "queue" /\ x = p /\ i \in Nat \ {0} /\ At(k, x, i + 1, d)
      BY DEF StepUp
    <2>1. CASE k = "job"
      BY <1>6, <1>7, <2>1 DEF At
    <2>2. CASE k = "queue"
      BY <1>5, <2>2 DEF At
    <2>3. CASE k \notin {"job", "queue"}
      BY <1>3, <2>3 DEF At
    <2> QED BY <2>1, <2>2, <2>3
  <1>9. JobsTold'
    <2> SUFFICES ASSUME NEW t \in Thread, job'[t] # NoJob, job'[t].event \notin forked'
                 PROVE  JobTold(job[t])'
      BY DEF JobsTold
    <2>1. CASE t = w
      <3>1. posts[e] = 0 /\ answers[e] = {}
        BY <1>3, <1>4, <1>6, <1>7, <2>1 DEF OneHandInv, Waiting
      <3> QED BY <1>3, <1>6, <1>7, <2>1, <3>1 DEF JobTold
    <2>2. CASE t # w
      <3>1. JobTold(job[t])
        BY <1>3, <1>7, <2>2 DEF OneHandInv, JobsTold
      <3> QED BY <1>3, <1>7, <2>2, <3>1 DEF JobTold
    <2> QED BY <2>1, <2>2
  <1> QED BY <1>3, <1>4, <1>8, <1>9, MovesFirst

(* The subscription is gone, and what it held. *)
LEMMA ListenerDiesKeeps ==
    ASSUME DeliveryInv, NEW p \in Process, ListenerDies(p)
    PROVE  OneHandInv' /\ NoneNew
  <1> USE DEF DeliveryInv, PoolInv, TypeOK
  <1>1. /\ inbox' = [inbox EXCEPT ![p] = <<>>]
        /\ UNCHANGED <<dispatched, hand, queue, forked, job, posts, answers, dlq>>
    BY DEF ListenerDies, callerVars, queueVars, endpointVars, tables
  <1>2. \A e \in Event : \A k, x, i : At(k, x, i, e)' => At(k, x, i, e)
    BY <1>1 DEF At, RedisTypes
  <1>3. JobsTold'
    BY <1>1, SameJobs
  <1> QED BY <1>1, <1>2, <1>3, Fewer

LEMMA CrashKeeps ==
    ASSUME DeliveryInv, NEW p \in Process, Crash(p)
    PROVE  OneHandInv' /\ NoneNew
  <1> USE DEF DeliveryInv, PoolInv, TypeOK
  <1>1. /\ \A c \in Caller : hand'[c] \in {hand[c], NoEvent}
        /\ \A t \in Thread : job'[t] \in {job[t], NoJob}
        /\ queue' = [queue EXCEPT ![p] = <<>>]
        /\ inbox' = [inbox EXCEPT ![p] = <<>>]
        /\ UNCHANGED <<dispatched, forked, posts, answers, dlq>>
    BY DEF Crash, endpointVars, tables
  <1>2. \A e \in Event : \A k, x, i : At(k, x, i, e)' => At(k, x, i, e)
    BY <1>1, ThreadsAssumption DEF At, QueueTypes, RedisTypes
  <1>3. JobsTold'
    BY <1>1, SameJobs
  <1> QED BY <1>1, <1>2, <1>3, Fewer

-------------------------------------------------------------------------------
(* Delivery. *)

(* The job of a thread, as a record. *)
LEMMA JobFields ==
    ASSUME DeliveryInv, NEW t \in Thread, job[t] # NoJob
    PROVE  /\ job[t] \in Job
           /\ job[t].event \in Event
           /\ job[t].attempt \in 1 .. MAX_RETRIES
           /\ job[t].phase \in {"post", "ok", "declined", "failed", "dlq"}
           /\ At("job", t, 0, job[t].event)
           /\ job[t].event \in dispatched
  <1>1. job[t] \in Job
    BY DEF DeliveryInv, PoolInv, TypeOK, JobTypes
  <1>2. job[t].event \in Event
    BY <1>1 DEF Job
  <1>3. At("job", t, 0, job[t].event)
    BY DEF At
  <1>4. job[t].event \in dispatched
    BY <1>2, <1>3 DEF DeliveryInv, OneHandInv, Known
  <1> QED BY <1>1, <1>2, <1>3, <1>4 DEF Job

(* Only this thread has the event, so what it is told is all there is. *)
LEMMA PostKeeps ==
    ASSUME DeliveryInv, NEW t \in Thread, Post(t)
    PROVE  OneHandInv'
  <1> USE DEF DeliveryInv, PoolInv, TypeOK
  <1> DEFINE e == job[t].event
             n == job[t].attempt
  <1>1. job[t] # NoJob /\ job[t].phase = "post"
    BY DEF Post, InPhase
  <1>2. PICK answer \in {"ok", "declined", "failed"} :
            /\ posts' = [posts EXCEPT ![e] = @ + 1]
            /\ answers' = [answers EXCEPT ![e] = @ \cup ({answer} \ {"failed"})]
            /\ job' = [job EXCEPT ![t].phase = answer]
    BY DEF Post
  <1>3. UNCHANGED <<dispatched, hand, queue, inbox, forked, dlq>>
    BY DEF Post, callerVars, queueVars, redisVars, tables
  <1>4. /\ e \in Event /\ e \in dispatched /\ At("job", t, 0, e)
        /\ n \in 1 .. MAX_RETRIES
    BY <1>1, JobFields
  <1>5. /\ job'[t].event = e /\ job'[t].attempt = n /\ job'[t].phase = answer
        /\ \A u \in Thread : u # t => job'[u] = job[u]
    <2>1. PICK ph \in {"post", "ok", "declined", "failed", "dlq"} :
              job[t] = [event |-> e, attempt |-> n, phase |-> ph]
      <3>1. job[t] \in Job
        BY <1>1, JobFields
      <3> QED BY <3>1 DEF Job
    <2>2. job'[t] = [job[t] EXCEPT !.phase = answer]
      BY <1>2 DEF JobTypes
    <2>3. job'[t] = [event |-> e, attempt |-> n, phase |-> answer]
      BY <2>1, <2>2
    <2>4. \A u \in Thread : u # t => job'[u] = job[u]
      BY <1>2 DEF JobTypes
    <2> QED BY <2>3, <2>4
  <1>6. /\ \A d \in Event : d # e => posts'[d] = posts[d] /\ answers'[d] = answers[d]
        /\ posts'[e] = posts[e] + 1
        /\ answers'[e] = answers[e] \cup ({answer} \ {"failed"})
    BY <1>2, <1>4 DEF EndpointTypes
  <1>7. e \notin forked => posts[e] = n - 1 /\ answers[e] = {}
    BY <1>1 DEF OneHandInv, JobsTold, JobTold
  <1> HIDE DEF e, n
  <1>8. \A d \in Event : \A k, x, i : At(k, x, i, d)' => At(k, x, i, d)
    <2> SUFFICES ASSUME NEW d \in Event, NEW k, NEW x, NEW i, At(k, x, i, d)'
                 PROVE  At(k, x, i, d)
      OBVIOUS
    <2>1. CASE k = "job"
      <3>1. x \in Thread /\ i = 0 /\ job'[x].event = d
        BY <2>1 DEF At
      <3>2. CASE x = t
        BY <1>4, <1>5, <2>1, <3>1, <3>2
      <3>3. CASE x # t
        <4>1. job'[x] = job[x] /\ job'[x] # NoJob
          BY <1>5, <2>1, <3>1, <3>3 DEF At
        <4> QED BY <2>1, <3>1, <4>1 DEF At
      <3> QED BY <3>2, <3>3
    <2>2. CASE k # "job"
      BY <1>3, <2>2 DEF At
    <2> QED BY <2>1, <2>2
  <1>9. e \notin forked => \A k, x, i : At(k, x, i, e) => k = "job" /\ x = t
    BY <1>4 DEF OneHandInv, Single
  <1>10. JobsTold'
    <2> SUFFICES ASSUME NEW u \in Thread, job'[u] # NoJob, job'[u].event \notin forked'
                 PROVE  JobTold(job[u])'
      BY DEF JobsTold
    <2>1. CASE u = t
      <3>1. posts[e] = n - 1 /\ answers[e] = {}
        BY <1>3, <1>5, <1>7, <2>1
      <3> QED BY <1>4, <1>5, <1>6, <2>1, <3>1 DEF JobTold
    <2>2. CASE u # t
      <3>1. job'[u] = job[u]
        BY <1>5, <2>2
      <3>2. job[u].event \in Event /\ At("job", u, 0, job[u].event)
        BY <3>1, JobFields
      <3>3. job[u].event # e
        BY <1>3, <1>9, <2>2, <3>1, <3>2
      <3>4. JobTold(job[u])
        BY <1>3, <3>1 DEF OneHandInv, JobsTold
      <3> QED BY <1>6, <3>1, <3>2, <3>3, <3>4 DEF JobTold
    <2> QED BY <2>1, <2>2
  <1>11. Known'
    BY <1>3, <1>4, <1>6, <1>8 DEF OneHandInv, Known
  <1>12. Single'
    BY <1>3, <1>8 DEF OneHandInv, Single
  <1>13. Waiting'
    BY <1>3, <1>6, <1>8, <1>9 DEF OneHandInv, Waiting
  <1>14. DeadLettersFailed'
    <2> SUFFICES ASSUME NEW d \in dlq' \ forked'
                 PROVE  posts'[d] = MAX_RETRIES /\ answers'[d] = {}
      BY DEF DeadLettersFailed
    <2>1. d \in dlq \ forked /\ d \in Event
      BY <1>3 DEF TableTypes
    <2>2. posts[d] = MAX_RETRIES /\ answers[d] = {}
      BY <2>1 DEF OneHandInv, DeadLettersFailed
    <2>3. d # e
      BY <1>4, <1>7, <2>1, <2>2, LimitsAssumption
    <2> QED BY <1>6, <2>1, <2>2, <2>3
  <1> QED BY <1>10, <1>11, <1>12, <1>13, <1>14 DEF OneHandInv

(* The thread goes on with the same event, or is done with it. *)
LEMMA SameEvent ==
    ASSUME DeliveryInv, NEW t \in Thread, job[t] # NoJob,
           job' = [job EXCEPT ![t] = job'[t]],
           job'[t] = NoJob \/ job'[t].event = job[t].event,
           UNCHANGED <<hand, queue, inbox>>
    PROVE  /\ \A e \in Event : \A k, x, i : At(k, x, i, e)' => At(k, x, i, e)
           /\ \A u \in Thread : u # t => job'[u] = job[u]
  <1>1. \A u \in Thread : u # t => job'[u] = job[u]
    BY DEF DeliveryInv, PoolInv, TypeOK, JobTypes
  <1>2. ASSUME NEW e \in Event, NEW k, NEW x, NEW i, At(k, x, i, e)'
        PROVE  At(k, x, i, e)
    <2>1. CASE k = "job"
      <3>1. x \in Thread /\ i = 0 /\ job'[x] # NoJob /\ job'[x].event = e
        BY <1>2, <2>1 DEF At
      <3>2. job[x] # NoJob /\ job[x].event = e
        BY <1>1, <3>1
      <3> QED BY <2>1, <3>1, <3>2 DEF At
    <2>2. CASE k # "job"
      BY <1>2, <2>2 DEF At
    <2> QED BY <2>1, <2>2
  <1> QED BY <1>1, <1>2

LEMMA GoesOn ==
    ASSUME DeliveryInv, NEW t \in Thread, job[t] # NoJob,
           job' = [job EXCEPT ![t] = job'[t]],
           job'[t] = NoJob \/ job'[t].event = job[t].event,
           job'[t] # NoJob /\ job[t].event \notin forked => JobTold(job[t])',
           UNCHANGED <<dispatched, hand, queue, inbox, forked, posts, answers, dlq>>
    PROVE  OneHandInv' /\ NoneNew
  <1> USE DEF DeliveryInv
  <1>1. /\ \A e \in Event : \A k, x, i : At(k, x, i, e)' => At(k, x, i, e)
        /\ \A u \in Thread : u # t => job'[u] = job[u]
    BY SameEvent
  <1>2. JobsTold'
    <2> SUFFICES ASSUME NEW u \in Thread, job'[u] # NoJob, job'[u].event \notin forked'
                 PROVE  JobTold(job[u])'
      BY DEF JobsTold
    <2>1. CASE u = t
      BY <2>1
    <2>2. CASE u # t
      <3>1. JobTold(job[u])
        BY <1>1, <2>2 DEF OneHandInv, JobsTold
      <3> QED BY <1>1, <2>2, <3>1 DEF JobTold
    <2> QED BY <2>1, <2>2
  <1> QED BY <1>1, <1>2, Fewer

LEMMA SettleKeeps ==
    ASSUME DeliveryInv, NEW t \in Thread, Settle(t)
    PROVE  OneHandInv' /\ NoneNew
  <1>1. job[t] # NoJob /\ job' = [job EXCEPT ![t] = NoJob]
    BY DEF Settle, InPhase, FinishJob
  <1>2. UNCHANGED <<dispatched, hand, queue, inbox, forked, posts, answers, dlq>>
    BY DEF Settle, queueVars, redisVars, endpointVars
  <1>3. job'[t] = NoJob
    BY <1>1 DEF DeliveryInv, PoolInv, TypeOK, JobTypes
  <1>4. job' = [job EXCEPT ![t] = job'[t]]
    BY <1>1, <1>3
  <1> QED BY <1>1, <1>2, <1>3, <1>4, GoesOn

LEMMA RetryKeeps ==
    ASSUME DeliveryInv, NEW t \in Thread, Retry(t)
    PROVE  OneHandInv' /\ NoneNew
  <1> DEFINE next == NextAttempt(job[t])
  <1>1. /\ job[t] # NoJob /\ job[t].phase = "failed"
        /\ job' = [job EXCEPT ![t] = next]
    BY DEF Retry, InPhase
  <1>2. UNCHANGED <<dispatched, hand, queue, inbox, forked, posts, answers, dlq>>
    BY DEF Retry, callerVars, queueVars, redisVars, endpointVars
  <1>3. next.event = job[t].event /\ next.attempt = job[t].attempt + 1 /\ next.phase = "post"
    BY DEF NextAttempt
  <1> HIDE DEF next
  <1>4. job'[t] = next
    BY <1>1 DEF DeliveryInv, PoolInv, TypeOK, JobTypes
  <1>5. job' = [job EXCEPT ![t] = job'[t]]
    BY <1>1, <1>4
  <1>6. job[t].event \notin forked => JobTold(job[t])'
    <2>1. job[t].event \notin forked => JobTold(job[t])
      BY <1>1 DEF DeliveryInv, OneHandInv, JobsTold
    <2>2. job[t].attempt \in 1 .. MAX_RETRIES
      BY <1>1, JobFields
    <2> QED BY <1>1, <1>2, <1>3, <1>4, <2>1, <2>2, LimitsAssumption DEF JobTold
  <1> QED BY <1>1, <1>2, <1>3, <1>4, <1>5, <1>6, GoesOn

LEMMA AbandonKeeps ==
    ASSUME DeliveryInv, NEW t \in Thread, Abandon(t)
    PROVE  OneHandInv' /\ NoneNew
  <1>1. /\ job[t] # NoJob /\ job[t].phase = "failed" /\ job[t].attempt = MAX_RETRIES
        /\ job' = [job EXCEPT ![t].phase = "dlq"]
    BY DEF Abandon, InPhase
  <1>2. UNCHANGED <<dispatched, hand, queue, inbox, forked, posts, answers, dlq>>
    BY DEF Abandon, callerVars, queueVars, redisVars, endpointVars
  <1>3. /\ job'[t].event = job[t].event /\ job'[t].phase = "dlq"
        /\ job' = [job EXCEPT ![t] = job'[t]]
    <2>1. job[t] \in Job
      BY <1>1, JobFields
    <2>2. job'[t] = [job[t] EXCEPT !.phase = "dlq"]
      BY <1>1 DEF DeliveryInv, PoolInv, TypeOK, JobTypes
    <2>3. job'[t].event = job[t].event /\ job'[t].phase = "dlq"
      BY <2>1, <2>2 DEF Job
    <2> QED BY <1>1, <2>2, <2>3
  <1>4. job[t].event \notin forked => JobTold(job[t])'
    <2>1. job[t].event \notin forked => JobTold(job[t])
      BY <1>1 DEF DeliveryInv, OneHandInv, JobsTold
    <2> QED BY <1>1, <1>2, <1>3, <2>1 DEF JobTold
  <1> QED BY <1>1, <1>2, <1>3, <1>4, GoesOn

LEMMA DeadLetterKeeps ==
    ASSUME DeliveryInv, NEW t \in Thread, DeadLetter(t)
    PROVE  OneHandInv'
  <1> USE DEF DeliveryInv
  <1> DEFINE e == job[t].event
  <1>1. job[t] # NoJob /\ job[t].phase = "dlq" /\ job' = [job EXCEPT ![t] = NoJob]
    BY DEF DeadLetter, InPhase, FinishJob
  <1>2. UNCHANGED <<dispatched, hand, queue, inbox, forked, posts, answers>>
    BY DEF DeadLetter, queueVars, redisVars, endpointVars
  <1>3. dlq' \subseteq dlq \cup {e}
    BY DEF DeadLetter
  <1>4. e \in Event /\ e \in dispatched
    BY <1>1, JobFields
  <1>5. e \notin forked => posts[e] = MAX_RETRIES /\ answers[e] = {}
    BY <1>1 DEF OneHandInv, JobsTold, JobTold
  <1>6. job'[t] = NoJob
    BY <1>1 DEF PoolInv, TypeOK, JobTypes
  <1>7. \A d \in Event : \A k, x, i : At(k, x, i, d)' => At(k, x, i, d)
    <2>1. job' = [job EXCEPT ![t] = job'[t]]
      BY <1>1, <1>6
    <2> QED BY <1>1, <1>2, <1>6, <2>1, SameEvent
  <1>8. JobsTold'
    <2>1. \A u \in Thread : job'[u] \in {job[u], NoJob}
      BY <1>1 DEF PoolInv, TypeOK, JobTypes
    <2> QED BY <1>2, <2>1, SameJobs
  <1> HIDE DEF e
  <1>9. Known'
    BY <1>2, <1>3, <1>4, <1>7 DEF OneHandInv, Known
  <1>10. Single' /\ Waiting'
    BY <1>2, <1>7 DEF OneHandInv, Single, Waiting
  <1>11. DeadLettersFailed'
    BY <1>2, <1>3, <1>5 DEF OneHandInv, DeadLettersFailed
  <1> QED BY <1>8, <1>9, <1>10, <1>11 DEF OneHandInv

-------------------------------------------------------------------------------
(* The invariant. *)

LEMMA InitOneHand == Init => DeliveryInv
  <1> SUFFICES ASSUME Init
               PROVE  DeliveryInv
    OBVIOUS
  <1>1. PoolInv
    BY InitPool
  <1>2. ListenersOK
    BY DEF Init, ListenersOK
  <1>3. \A e \in Event : \A k, x, i : ~At(k, x, i, e)
    BY ThreadsAssumption DEF Init, At
  <1>4. Known /\ Single /\ Waiting
    BY <1>3 DEF Init, Known, Single, Waiting
  <1>5. JobsTold /\ DeadLettersFailed
    BY DEF Init, JobsTold, DeadLettersFailed
  <1> QED BY <1>1, <1>2, <1>4, <1>5 DEF DeliveryInv, OneHandInv

(* Steps that touch no event. *)
Quiet ==
    \/ \E c \in Caller : PublishFails(c) \/ CheckStarted(c) \/ LockAndRecheck(c) \/ StartWorkers(c)
    \/ \E p \in Process : ListenerStarts(p)
    \/ UNCHANGED vars

LEMMA QuietIsStill ==
    ASSUME Quiet
    PROVE  UNCHANGED <<hand, queue, inbox, job, dispatched, forked, posts, answers, dlq>>
  BY DEF Quiet, PublishFails, CheckStarted, LockAndRecheck, StartWorkers, ListenerStarts,
         vars, callerVars, queueVars, redisVars, endpointVars, tables

(* Steps that lose an event or pass it on, and tell nobody. *)
Passing ==
    \/ \E c \in Caller : Publish(c) \/ Enqueue(c)
    \/ \E p \in Process : ListenerDies(p) \/ ListenerReceives(p) \/ Crash(p)
    \/ \E w \in Worker : WorkerGets(w)
    \/ \E t \in Thread : Settle(t) \/ Retry(t) \/ Abandon(t)
    \/ Quiet

LEMMA PassingKeeps ==
    ASSUME DeliveryInv, Passing
    PROVE  /\ OneHandInv' /\ NoneNew
           /\ UNCHANGED <<dispatched, forked, posts, answers, dlq>>
  <1>1. OneHandInv' /\ NoneNew
    BY PublishKeeps, EnqueueKeeps, ListenerDiesKeeps, ListenerReceivesKeeps, CrashKeeps,
       WorkerGetsKeeps, SettleKeeps, RetryKeeps, AbandonKeeps, QuietIsStill, StillKeeps
       DEF Passing
  <1>2. UNCHANGED <<dispatched, forked, posts, answers, dlq>>
    BY QuietIsStill
       DEF Passing, Publish, Enqueue, ListenerDies, ListenerReceives, Crash, WorkerGets,
           Settle, Retry, Abandon, callerVars, redisVars, endpointVars, tables
  <1> QED BY <1>1, <1>2

LEMMA Steps ==
    ASSUME [Next]_vars
    PROVE  \/ Passing
           \/ \E c \in Caller, e \in Event : Dispatch(c, e) \/ DispatchSync(c, e)
           \/ \E c \in Caller : PublishForks(c)
           \/ \E t \in Thread : Post(t) \/ DeadLetter(t)
  BY DEF Next, CallerStep, DeliveryStep, Passing, Quiet

LEMMA StepListeners ==
    ASSUME DeliveryInv, [Next]_vars
    PROVE  ListenersOK'
  <1>1. listener \in [Process -> {"off", "on", "dead"}]
    BY DEF DeliveryInv, PoolInv, TypeOK, RedisTypes
  <1>2. CASE UNCHANGED listener
    BY <1>2 DEF DeliveryInv, ListenersOK
  <1>3. CASE \E p \in Process : ListenerStarts(p) \/ ListenerDies(p) \/ Crash(p)
    BY <1>1, <1>3 DEF ListenerStarts, ListenerDies, Crash, DeliveryInv, ListenersOK
  <1>4. CASE \E c \in Caller, e \in Event : Dispatch(c, e) \/ DispatchSync(c, e)
    BY <1>2, <1>4 DEF Dispatch, DispatchSync, redisVars
  <1>5. CASE \E c \in Caller : CallerStep(c)
    BY <1>2, <1>5 DEF CallerStep, Publish, PublishFails, PublishForks, CheckStarted,
                      LockAndRecheck, StartWorkers, Enqueue, redisVars
  <1>6. CASE \E p \in Process : ListenerReceives(p)
    BY <1>2, <1>6 DEF ListenerReceives
  <1>7. CASE \E w \in Worker : WorkerGets(w)
    BY <1>2, <1>7 DEF WorkerGets, redisVars
  <1>8. CASE \E t \in Thread : DeliveryStep(t)
    BY <1>2, <1>8 DEF DeliveryStep, Post, Settle, Retry, Abandon, DeadLetter, redisVars
  <1>9. CASE UNCHANGED vars
    BY <1>2, <1>9 DEF vars, redisVars
  <1> QED BY <1>3, <1>4, <1>5, <1>6, <1>7, <1>8, <1>9 DEF Next

LEMMA StepOneHand == DeliveryInv /\ [Next]_vars => DeliveryInv'
  <1> SUFFICES ASSUME DeliveryInv, [Next]_vars
               PROVE  DeliveryInv'
    OBVIOUS
  <1>1. PoolInv'
    BY StepPool DEF DeliveryInv
  <1>2. OneHandInv'
    BY Steps, PassingKeeps, DispatchKeeps, DispatchSyncKeeps, PublishForksKeeps, PostKeeps,
       DeadLetterKeeps
  <1> QED BY <1>1, <1>2, StepListeners DEF DeliveryInv

LEMMA Invariance == Spec => []DeliveryInv
  BY InitOneHand, StepOneHand, PTL DEF Spec

(* Whatever races and crashes there are, a dead letter is an event all of whose
   MAX_RETRIES requests failed (_deliver_with_retries, _write_to_dlq). *)
THEOREM OnlyFailuresAreDead == Spec => []DeadLettersFailed
  <1>1. DeliveryInv => DeadLettersFailed
    BY DEF DeliveryInv, OneHandInv
  <1> QED BY <1>1, Invariance, PTL

-------------------------------------------------------------------------------
(* The refinement. *)

LEMMA OwnersPlaced ==
    TypeOK => \A e \in Event : Owners(e) # {} <=> Placed(e)
  <1> SUFFICES ASSUME TypeOK, NEW e \in Event
               PROVE  Owners(e) # {} <=> Placed(e)
    OBVIOUS
  <1>1. /\ \A p \in Process : DOMAIN queue[p] = 1 .. Len(queue[p])
        /\ \A p \in Process : DOMAIN inbox[p] = 1 .. Len(inbox[p])
    BY DEF TypeOK, QueueTypes, RedisTypes
  <1>2. ASSUME NEW o \in Owners(e)
        PROVE  Placed(e)
    <2>1. CASE \E c \in Caller : hand[c] = e
      <3>1. PICK c \in Caller : hand[c] = e
        BY <2>1
      <3>2. At("hand", c, 0, e)
        BY <3>1 DEF At
      <3> QED BY <3>2 DEF Placed
    <2>2. CASE \E t \in Thread : job[t] # NoJob /\ job[t].event = e
      <3>1. PICK t \in Thread : job[t] # NoJob /\ job[t].event = e
        BY <2>2
      <3>2. At("job", t, 0, e)
        BY <3>1 DEF At
      <3> QED BY <3>2 DEF Placed
    <2>3. CASE \E p \in Process : \E i \in DOMAIN queue[p] : queue[p][i] = e
      <3>1. PICK p \in Process : \E i \in DOMAIN queue[p] : queue[p][i] = e
        BY <2>3
      <3>2. PICK i \in DOMAIN queue[p] : queue[p][i] = e
        BY <3>1
      <3>3. At("queue", p, i, e)
        BY <1>1, <3>2 DEF At
      <3> QED BY <3>3 DEF Placed
    <2>4. CASE \E p \in Process : \E i \in DOMAIN inbox[p] : inbox[p][i] = e
      <3>1. PICK p \in Process : \E i \in DOMAIN inbox[p] : inbox[p][i] = e
        BY <2>4
      <3>2. PICK i \in DOMAIN inbox[p] : inbox[p][i] = e
        BY <3>1
      <3>3. At("inbox", p, i, e)
        BY <1>1, <3>2 DEF At
      <3> QED BY <3>3 DEF Placed
    <2> QED BY <1>2, <2>1, <2>2, <2>3, <2>4 DEF Owners
  <1>3. ASSUME NEW k, NEW x, NEW i, At(k, x, i, e)
        PROVE  Owners(e) # {}
    <2>1. CASE x \in Caller /\ hand[x] = e
      <3>1. <<"hand", x, 0>> \in Owners(e)
        BY <2>1 DEF Owners
      <3> QED BY <3>1
    <2>2. CASE x \in Thread /\ job[x] # NoJob /\ job[x].event = e
      <3>1. <<"job", x, 0>> \in Owners(e)
        BY <2>2 DEF Owners
      <3> QED BY <3>1
    <2>3. CASE x \in Process /\ i \in DOMAIN queue[x] /\ queue[x][i] = e
      <3> DEFINE Line(p) == {<<"queue", p, n>> : n \in {m \in DOMAIN queue[p] : queue[p][m] = e}}
      <3>1. <<"queue", x, i>> \in Line(x)
        BY <2>3
      <3>2. <<"queue", x, i>> \in UNION {Line(p) : p \in Process}
        <4> HIDE DEF Line
        <4> QED BY <2>3, <3>1
      <3>3. <<"queue", x, i>> \in Owners(e)
        BY <3>2, Zenon DEF Owners
      <3> QED BY <3>3
    <2>4. CASE x \in Process /\ i \in DOMAIN inbox[x] /\ inbox[x][i] = e
      <3> DEFINE Line(p) == {<<"inbox", p, n>> : n \in {m \in DOMAIN inbox[p] : inbox[p][m] = e}}
      <3>1. <<"inbox", x, i>> \in Line(x)
        BY <2>4
      <3>2. <<"inbox", x, i>> \in UNION {Line(p) : p \in Process}
        <4> HIDE DEF Line
        <4> QED BY <2>4, <3>1
      <3>3. <<"inbox", x, i>> \in Owners(e)
        BY <3>2, Zenon DEF Owners
      <3> QED BY <3>3
    <2> QED BY <1>1, <1>3, <2>1, <2>2, <2>3, <2>4 DEF At
  <1> QED BY <1>2, <1>3 DEF Placed

(* Outcome, in terms of places. *)
OutcomeAt(e) ==
    IF e \notin dispatched THEN "new"
    ELSE IF e \in forked THEN "forked"
    ELSE IF "ok" \in answers[e] THEN "accepted"
    ELSE IF "declined" \in answers[e] THEN "declined"
    ELSE IF posts[e] = MAX_RETRIES THEN "abandoned"
    ELSE IF Placed(e) THEN "pending" ELSE "lost"

LEMMA Outcomes == TypeOK => \A e \in Event : Outcome(e) = OutcomeAt(e)
  BY OwnersPlaced DEF Outcome, OutcomeAt

LEMMA OutcomesNext ==
    ASSUME TypeOK, TypeOK'
    PROVE  /\ [e \in Event |-> Outcome(e)] = [e \in Event |-> OutcomeAt(e)]
           /\ [e \in Event |-> Outcome(e)]' = [e \in Event |-> OutcomeAt(e)']
  <1>1. \A e \in Event : Outcome(e) = OutcomeAt(e)
    BY Outcomes
  <1>2. (\A e \in Event : Outcome(e) = OutcomeAt(e))'
    BY Outcomes, PTL
  <1> QED BY <1>1, <1>2

(* The abstract variables. *)
Outs == [e \in Event |-> OutcomeAt(e)]
Reqs == [e \in Event |-> IF e \in forked THEN 0 ELSE posts[e]]
Dead == dlq \ forked

LEMMA AbstractNext ==
    ASSUME DeliveryInv, DeliveryInv'
    PROVE  /\ [e \in Event |-> Outcome(e)] = Outs
           /\ [e \in Event |-> Outcome(e)]' = Outs'
  BY OutcomesNext DEF DeliveryInv, PoolInv, Outs

LEMMA SubmitImplemented ==
    ASSUME DeliveryInv, DeliveryInv', NEW e \in Event,
           Outs[e] = "new", Outs' = [Outs EXCEPT ![e] = "pending"],
           UNCHANGED <<Reqs, Dead>>
    PROVE  Delivery!Next
  <1>1. Delivery!Submit(e)
    BY AbstractNext DEF Delivery!Submit, Reqs, Dead
  <1> QED BY <1>1 DEF Delivery!Next

LEMMA RequestImplemented ==
    ASSUME DeliveryInv, DeliveryInv', NEW e \in Event,
           Outs[e] = "pending", Reqs[e] < MAX_RETRIES,
           Reqs' = [Reqs EXCEPT ![e] = @ + 1],
           NEW answer \in {"accepted", "declined",
                           IF Reqs[e] + 1 = MAX_RETRIES THEN "abandoned" ELSE "pending"},
           Outs' = [Outs EXCEPT ![e] = answer],
           UNCHANGED Dead
    PROVE  Delivery!Next
  <1>1. Delivery!Request(e)
    BY AbstractNext DEF Delivery!Request, Reqs, Dead
  <1> QED BY <1>1 DEF Delivery!Next

LEMMA DeadLetterImplemented ==
    ASSUME DeliveryInv, DeliveryInv', NEW e \in Event,
           Outs[e] = "abandoned", Dead' = Dead \cup {e}, UNCHANGED <<Outs, Reqs>>
    PROVE  Delivery!Next
  <1>1. Delivery!DeadLetter(e)
    BY AbstractNext DEF Delivery!DeadLetter, Reqs, Dead
  <1> QED BY <1>1 DEF Delivery!Next

LEMMA LoseImplemented ==
    ASSUME DeliveryInv, DeliveryInv', NEW lost \in SUBSET Event,
           \A e \in lost : Outs[e] = "pending",
           Outs' = [e \in Event |-> IF e \in lost THEN "lost" ELSE Outs[e]],
           UNCHANGED <<Reqs, Dead>>
    PROVE  Delivery!Next
  <1>1. Delivery!Lose(lost)
    BY AbstractNext DEF Delivery!Lose, Reqs, Dead
  <1> QED BY <1>1 DEF Delivery!Next

LEMMA ForkImplemented ==
    ASSUME DeliveryInv, DeliveryInv', NEW e \in Event,
           Outs[e] = "pending", Reqs[e] = 0, Outs' = [Outs EXCEPT ![e] = "forked"],
           UNCHANGED <<Reqs, Dead>>
    PROVE  Delivery!Next
  <1>1. Delivery!Fork(e)
    BY AbstractNext DEF Delivery!Fork, Reqs, Dead
  <1> QED BY <1>1 DEF Delivery!Next

LEMMA NothingImplemented ==
    ASSUME DeliveryInv, DeliveryInv', UNCHANGED <<Outs, Reqs, Dead>>
    PROVE  UNCHANGED Delivery!vars
  BY AbstractNext DEF Delivery!vars, Reqs, Dead

(* The outcome of an event no step is about. *)
LEMMA OthersStay ==
    ASSUME NEW d \in Event,
           d \in dispatched <=> d \in dispatched', d \in forked <=> d \in forked',
           posts'[d] = posts[d], answers'[d] = answers[d],
           Placed(d) <=> Placed(d)'
    PROVE  OutcomeAt(d)' = OutcomeAt(d)
  BY DEF OutcomeAt

LEMMA PassingImplemented ==
    ASSUME DeliveryInv, DeliveryInv', Passing
    PROVE  Delivery!Next
  <1> DEFINE lost == {e \in Event : OutcomeAt(e) = "pending" /\ OutcomeAt(e)' # "pending"}
  <1>1. NoneNew /\ UNCHANGED <<dispatched, forked, posts, answers, dlq>>
    BY PassingKeeps
  <1>2. ASSUME NEW e \in Event
        PROVE  OutcomeAt(e)' = IF e \in lost THEN "lost" ELSE OutcomeAt(e)
    <2>1. Placed(e)' => Placed(e)
      BY <1>1 DEF NoneNew
    <2> QED BY <1>1, <2>1 DEF OutcomeAt
  <1>3. Outs' = [e \in Event |-> IF e \in lost THEN "lost" ELSE Outs[e]]
    BY <1>2 DEF Outs
  <1>4. \A e \in lost : Outs[e] = "pending"
    BY DEF Outs
  <1>5. UNCHANGED <<Reqs, Dead>>
    BY <1>1 DEF Reqs, Dead
  <1>6. lost \in SUBSET Event
    OBVIOUS
  <1> HIDE DEF lost
  <1> QED BY <1>3, <1>4, <1>5, <1>6, LoseImplemented

LEMMA DispatchImplemented ==
    ASSUME DeliveryInv, DeliveryInv', NEW c \in Caller, NEW e \in Event,
           Dispatch(c, e) \/ DispatchSync(c, e)
    PROVE  Delivery!Next
  <1> USE DEF DeliveryInv, PoolInv, TypeOK
  <1>1. /\ pc[c] = "idle" /\ e \notin dispatched /\ dispatched' = dispatched \cup {e}
        /\ UNCHANGED <<queue, inbox, forked, posts, answers, dlq>>
        /\ \/ hand' = [hand EXCEPT ![c] = e] /\ job' = job
           \/ hand' = hand /\ job' = [job EXCEPT ![c] = FirstAttempt(e)]
    BY DEF Dispatch, DispatchSync, queueVars, redisVars, endpointVars, tables
  <1>2. hand[c] = NoEvent /\ job[c] = NoJob
    BY <1>1 DEF CallersOK
  <1>3. /\ posts[e] = 0 /\ answers[e] = {} /\ e \notin dlq /\ e \notin forked
    BY <1>1 DEF OneHandInv, Known
  <1>4. FirstAttempt(e).event = e /\ FirstAttempt(e) # NoJob
    <2>1. FirstAttempt(e) \in Job
      BY LimitsAssumption DEF FirstAttempt, Job
    <2> QED BY <2>1, JobAssumption DEF FirstAttempt
  <1>5. c \in Thread /\ NoEvent \notin Event
    BY Homes, ThreadsAssumption
  <1>6. \A d \in Event \ {e} : \A k, x, i : At(k, x, i, d)' <=> At(k, x, i, d)
    <2>1. CASE hand' = [hand EXCEPT ![c] = e] /\ job' = job
      BY <1>1, <1>2, <1>5, <2>1 DEF At, CallerTypes
    <2>2. CASE hand' = hand /\ job' = [job EXCEPT ![c] = FirstAttempt(e)]
      BY <1>1, <1>2, <1>4, <1>5, <2>2 DEF At, JobTypes
    <2> QED BY <1>1, <2>1, <2>2
  <1>7. Placed(e)'
    <2>1. CASE hand' = [hand EXCEPT ![c] = e]
      <3>1. At("hand", c, 0, e)'
        BY <2>1 DEF At, CallerTypes
      <3> QED BY <3>1 DEF Placed
    <2>2. CASE job' = [job EXCEPT ![c] = FirstAttempt(e)]
      <3>1. job'[c] = FirstAttempt(e)
        BY <1>5, <2>2 DEF JobTypes
      <3>2. At("job", c, 0, e)'
        BY <1>4, <1>5, <3>1 DEF At
      <3> QED BY <3>2 DEF Placed
    <2> QED BY <1>1, <2>1, <2>2
  <1>8. OutcomeAt(e) = "new" /\ OutcomeAt(e)' = "pending"
    BY <1>1, <1>3, <1>7, LimitsAssumption DEF OutcomeAt
  <1>9. \A d \in Event \ {e} : OutcomeAt(d)' = OutcomeAt(d)
    <2>1. \A d \in Event \ {e} : Placed(d) <=> Placed(d)'
      BY <1>6 DEF Placed
    <2> QED BY <1>1, <2>1, OthersStay
  <1>10. Outs[e] = "new" /\ Outs' = [Outs EXCEPT ![e] = "pending"]
    BY <1>8, <1>9 DEF Outs
  <1>11. UNCHANGED <<Reqs, Dead>>
    BY <1>1 DEF Reqs, Dead
  <1> QED BY <1>10, <1>11, SubmitImplemented

LEMMA PublishForksImplemented ==
    ASSUME DeliveryInv, DeliveryInv', NEW c \in Caller, PublishForks(c)
    PROVE  Delivery!Next \/ UNCHANGED Delivery!vars
  <1> USE DEF DeliveryInv, PoolInv, TypeOK
  <1>1. PICK e \in Event : e = hand[c]
    BY InHand DEF PublishForks
  <1>2. /\ Broadcast(e)
        /\ forked' = forked \cup {e}
        /\ UNCHANGED <<dispatched, hand, queue, job, posts, answers, dlq>>
    BY <1>1 DEF PublishForks, queueVars, endpointVars, tables
  <1>3. At("hand", c, 0, e)
    BY <1>1 DEF At
  <1>4. PICK p1, i1 : Appended(e, p1, i1)
    BY <1>2, BroadcastPlaces
  <1>5. \A x \in Process : \A i \in 1 .. Len(inbox[x]) :
            i \in 1 .. Len(inbox'[x]) /\ inbox'[x][i] = inbox[x][i]
    <2>1. ASSUME NEW x \in Process, NEW i \in 1 .. Len(inbox[x])
          PROVE  i \in 1 .. Len(inbox'[x]) /\ inbox'[x][i] = inbox[x][i]
      <3>1. inbox[x] \in Seq(Event)
        BY DEF RedisTypes
      <3>2. inbox'[x] = inbox[x] \/ inbox'[x] = Append(inbox[x], e)
        BY <1>2 DEF Broadcast
      <3> QED BY <2>1, <3>1, <3>2
    <2> QED BY <2>1
  <1>6. \A d \in Event \ {e} : \A k, x, i : At(k, x, i, d)' <=> At(k, x, i, d)
    BY <1>2, <1>4, <1>5 DEF At, Appended
  <1>7. \A d \in Event \ {e} : OutcomeAt(d)' = OutcomeAt(d)
    <2>1. \A d \in Event \ {e} : Placed(d) <=> Placed(d)'
      BY <1>6 DEF Placed
    <2> QED BY <1>2, <2>1, OthersStay
  <1>8. Placed(e) /\ e \in dispatched
    BY <1>3 DEF Placed, OneHandInv, Known
  <1>9. OutcomeAt(e)' = "forked"
    BY <1>2, <1>8 DEF OutcomeAt
  <1>10. CASE e \in forked
    <2>1. OutcomeAt(e) = "forked"
      BY <1>8, <1>10 DEF OutcomeAt
    <2>2. UNCHANGED <<Outs, Reqs, Dead>>
      <3>1. UNCHANGED forked
        BY <1>2, <1>10
      <3> QED BY <1>2, <1>7, <1>9, <2>1, <3>1 DEF Outs, Reqs, Dead
    <2> QED BY <2>2, NothingImplemented
  <1>11. CASE e \notin forked
    <2>1. posts[e] = 0 /\ answers[e] = {}
      BY <1>3, <1>11 DEF OneHandInv, Waiting
    <2>2. e \notin dlq
      BY <1>11, <2>1, LimitsAssumption DEF OneHandInv, DeadLettersFailed
    <2>3. OutcomeAt(e) = "pending"
      BY <1>8, <1>11, <2>1, LimitsAssumption DEF OutcomeAt
    <2>4. Outs[e] = "pending" /\ Reqs[e] = 0 /\ Outs' = [Outs EXCEPT ![e] = "forked"]
      BY <1>7, <1>9, <1>11, <2>1, <2>3 DEF Outs, Reqs
    <2>5. UNCHANGED <<Reqs, Dead>>
      BY <1>2, <2>1, <2>2 DEF Reqs, Dead
    <2> QED BY <2>4, <2>5, ForkImplemented
  <1> QED BY <1>10, <1>11

(* A thread asks the endpoint: a request of the event, unless it is forked. *)
LEMMA PostImplemented ==
    ASSUME DeliveryInv, DeliveryInv', NEW t \in Thread, Post(t)
    PROVE  Delivery!Next \/ UNCHANGED Delivery!vars
  <1> USE DEF DeliveryInv, PoolInv, TypeOK
  <1>1. job[t] # NoJob /\ job[t].phase = "post"
    BY DEF Post, InPhase
  <1>2. PICK e \in Event, n \in 1 .. MAX_RETRIES :
            e = job[t].event /\ n = job[t].attempt
    BY <1>1, JobFields
  <1>3. PICK reply \in {"ok", "declined", "failed"} :
            /\ posts' = [posts EXCEPT ![e] = @ + 1]
            /\ answers' = [answers EXCEPT ![e] = @ \cup ({reply} \ {"failed"})]
            /\ job' = [job EXCEPT ![t].phase = reply]
    BY <1>2 DEF Post
  <1>4. UNCHANGED <<dispatched, hand, queue, inbox, forked, dlq>>
    BY DEF Post, callerVars, queueVars, redisVars, tables
  <1>5. e \in dispatched
    BY <1>1, <1>2, JobFields
  <1>6. job'[t] # NoJob /\ job'[t].event = e /\ \A u \in Thread : u # t => job'[u] = job[u]
    <2>1. PICK ph \in {"post", "ok", "declined", "failed", "dlq"} :
              job[t] = [event |-> e, attempt |-> n, phase |-> ph]
      <3>1. job[t] \in Job
        BY <1>1, JobFields
      <3> QED BY <1>2, <3>1 DEF Job
    <2>2. job'[t] = [job[t] EXCEPT !.phase = reply]
      BY <1>3 DEF JobTypes
    <2>3. job'[t] = [event |-> e, attempt |-> n, phase |-> reply]
      BY <2>1, <2>2
    <2>4. job'[t] \in Job
      BY <2>3 DEF Job
    <2>5. \A u \in Thread : u # t => job'[u] = job[u]
      BY <1>3 DEF JobTypes
    <2> QED BY <2>3, <2>4, <2>5, JobAssumption
  <1>7. /\ \A d \in Event : d # e => posts'[d] = posts[d] /\ answers'[d] = answers[d]
        /\ posts'[e] = posts[e] + 1
        /\ answers'[e] = answers[e] \cup ({reply} \ {"failed"})
    BY <1>3 DEF EndpointTypes
  <1>8. \A d \in Event : \A k, x, i : At(k, x, i, d)' <=> At(k, x, i, d)
    <2> SUFFICES ASSUME NEW d \in Event, NEW k, NEW x, NEW i
                 PROVE  At(k, x, i, d)' <=> At(k, x, i, d)
      OBVIOUS
    <2>1. CASE k = "job" /\ x = t
      BY <1>1, <1>2, <1>6, <2>1 DEF At
    <2>2. CASE k = "job" /\ x # t
      BY <1>6, <2>2 DEF At
    <2>3. CASE k # "job"
      BY <1>4, <2>3 DEF At
    <2> QED BY <2>1, <2>2, <2>3
  <1>9. \A d \in Event : Placed(d) <=> Placed(d)'
    BY <1>8 DEF Placed
  <1>10. \A d \in Event \ {e} : OutcomeAt(d)' = OutcomeAt(d)
    BY <1>4, <1>7, <1>9, OthersStay
  <1>11. UNCHANGED Dead
    BY <1>4 DEF Dead
  <1>12. CASE e \in forked
    <2>1. OutcomeAt(e) = "forked" /\ OutcomeAt(e)' = "forked"
      BY <1>4, <1>5, <1>12 DEF OutcomeAt
    <2>2. UNCHANGED Outs
      BY <1>10, <2>1 DEF Outs
    <2>3. UNCHANGED Reqs
      BY <1>4, <1>7, <1>12 DEF Reqs
    <2> QED BY <1>11, <2>2, <2>3, NothingImplemented
  <1>13. CASE e \notin forked
    <2>1. posts[e] = n - 1 /\ answers[e] = {}
      BY <1>1, <1>2, <1>13 DEF OneHandInv, JobsTold, JobTold
    <2>2. Placed(e) /\ Placed(e)'
      <3>1. At("job", t, 0, e)
        BY <1>1, <1>2 DEF At
      <3> QED BY <1>9, <3>1 DEF Placed
    <2>3. OutcomeAt(e) = "pending"
      BY <1>5, <1>13, <2>1, <2>2, LimitsAssumption DEF OutcomeAt
    <2>4. posts'[e] = n
      BY <1>7, <2>1
    <2> DEFINE more == IF n = MAX_RETRIES THEN "abandoned" ELSE "pending"
               answer == IF reply = "ok" THEN "accepted"
                         ELSE IF reply = "declined" THEN "declined" ELSE more
    <2>5. OutcomeAt(e)' = answer
      <3>1. CASE reply = "ok"
        <4>1. "ok" \in answers'[e]
          BY <1>7, <3>1
        <4> QED BY <1>4, <1>5, <1>13, <3>1, <4>1 DEF OutcomeAt
      <3>2. CASE reply = "declined"
        <4>1. "ok" \notin answers'[e] /\ "declined" \in answers'[e]
          BY <1>7, <2>1, <3>2
        <4> QED BY <1>4, <1>5, <1>13, <3>2, <4>1 DEF OutcomeAt
      <3>3. CASE reply = "failed"
        <4>1. answers'[e] = {}
          BY <1>7, <2>1, <3>3
        <4> QED BY <1>4, <1>5, <1>13, <2>2, <2>4, <3>3, <4>1 DEF OutcomeAt
      <3> QED BY <3>1, <3>2, <3>3
    <2>6. Outs[e] = "pending" /\ Reqs[e] = n - 1
      BY <1>13, <2>1, <2>3 DEF Outs, Reqs
    <2>7. Outs' = [Outs EXCEPT ![e] = answer]
      <3> HIDE DEF answer
      <3> QED BY <1>10, <2>5 DEF Outs
    <2>8. Reqs' = [Reqs EXCEPT ![e] = @ + 1]
      BY <1>4, <1>7, <1>13, <2>1 DEF Reqs
    <2>9. answer \in {"accepted", "declined",
                      IF Reqs[e] + 1 = MAX_RETRIES THEN "abandoned" ELSE "pending"}
      <3>1. Reqs[e] + 1 = n
        BY <2>6
      <3> QED BY <3>1
    <2>10. Reqs[e] < MAX_RETRIES
      BY <2>6, LimitsAssumption
    <2> HIDE DEF answer
    <2> QED BY <1>11, <2>6, <2>7, <2>8, <2>9, <2>10, RequestImplemented
  <1> QED BY <1>12, <1>13

(* A thread writes a dead letter, or fails to, and is done with the event. *)
LEMMA LetterImplemented ==
    ASSUME DeliveryInv, DeliveryInv', NEW t \in Thread, DeadLetter(t)
    PROVE  Delivery!Next \/ UNCHANGED Delivery!vars
  <1> USE DEF DeliveryInv, PoolInv, TypeOK
  <1>1. job[t] # NoJob /\ job[t].phase = "dlq" /\ job' = [job EXCEPT ![t] = NoJob]
    BY DEF DeadLetter, InPhase, FinishJob
  <1>2. PICK e \in Event : e = job[t].event
    BY <1>1, JobFields
  <1>3. UNCHANGED <<dispatched, hand, queue, inbox, forked, posts, answers>>
    BY DEF DeadLetter, queueVars, redisVars, endpointVars
  <1>4. dlq' = dlq \/ dlq' = dlq \cup {e}
    BY <1>2 DEF DeadLetter
  <1>5. e \in dispatched
    BY <1>1, <1>2, JobFields
  <1>6. \A d \in Event \ {e} : \A k, x, i : At(k, x, i, d)' <=> At(k, x, i, d)
    BY <1>1, <1>2, <1>3 DEF At, JobTypes
  <1>7. \A d \in Event \ {e} : OutcomeAt(d)' = OutcomeAt(d)
    <2>1. \A d \in Event \ {e} : Placed(d) <=> Placed(d)'
      BY <1>6 DEF Placed
    <2> QED BY <1>3, <2>1, OthersStay
  <1>8. UNCHANGED Reqs
    BY <1>3 DEF Reqs
  <1>9. CASE e \in forked
    <2>1. OutcomeAt(e) = "forked" /\ OutcomeAt(e)' = "forked"
      BY <1>3, <1>5, <1>9 DEF OutcomeAt
    <2>2. UNCHANGED <<Outs, Dead>>
      BY <1>3, <1>4, <1>7, <1>9, <2>1 DEF Outs, Dead
    <2> QED BY <1>8, <2>2, NothingImplemented
  <1>10. CASE e \notin forked
    <2>1. posts[e] = MAX_RETRIES /\ answers[e] = {}
      BY <1>1, <1>2, <1>10 DEF OneHandInv, JobsTold, JobTold
    <2>2. OutcomeAt(e) = "abandoned" /\ OutcomeAt(e)' = "abandoned"
      BY <1>3, <1>5, <1>10, <2>1 DEF OutcomeAt
    <2>3. Outs[e] = "abandoned" /\ UNCHANGED Outs
      BY <1>7, <2>2 DEF Outs
    <2>4. CASE dlq' = dlq
      <3>1. UNCHANGED Dead
        BY <1>3, <2>4 DEF Dead
      <3> QED BY <1>8, <2>3, <3>1, NothingImplemented
    <2>5. CASE dlq' = dlq \cup {e}
      <3>1. Dead' = Dead \cup {e}
        BY <1>3, <1>10, <2>5 DEF Dead
      <3> QED BY <1>8, <2>3, <3>1, DeadLetterImplemented
    <2> QED BY <1>4, <2>4, <2>5
  <1> QED BY <1>9, <1>10

LEMMA InitImplemented == Init => Delivery!Init
  <1> SUFFICES ASSUME Init
               PROVE  Delivery!Init
    OBVIOUS
  <1>1. \A e \in Event : Outcome(e) = "new"
    BY DEF Init, Outcome
  <1> QED BY <1>1 DEF Init, Delivery!Init

LEMMA StepImplemented ==
    ASSUME DeliveryInv, DeliveryInv', [Next]_vars
    PROVE  [Delivery!Next]_(Delivery!vars)
  BY Steps, PassingImplemented, DispatchImplemented, PublishForksImplemented,
     PostImplemented, LetterImplemented

(* Whatever process, queue, pool or channel an event travels through, and whatever
   crashes, the endpoint gets at most MAX_RETRIES requests of it, none after it
   accepted or declined it, and its dead letter only when all of them failed. *)
THEOREM DispatcherImplementsDelivery == Spec => ImplementsDelivery
  <1>1. DeliveryInv /\ DeliveryInv' /\ [Next]_vars => [Delivery!Next]_(Delivery!vars)
    BY StepImplemented
  <1> QED BY <1>1, InitImplemented, Invariance, PTL DEF Spec, ImplementsDelivery, Delivery!Spec
===============================================================================
