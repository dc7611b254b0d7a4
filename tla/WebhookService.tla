--------------------------- MODULE WebhookService ---------------------------
(* The webhook service, worker/webhooks: an HTTP application whose handlers run
   one at a time in one event loop, a bounded queue, and a pool of daemon threads
   that post every queued event to the configured addresses with retries
   (services/notification_sender.py).  Each handler also hands its event to the
   dispatcher, which WebhookDispatcher models: here a hand-over is recorded in
   "dispatched" and nothing more.

   None of the handlers awaits after it has read the request, so the event loop
   is a single actor; the threads run between any two of its steps.  A request is
   abstracted to its identity: any handler may get it and find it wanting.  The
   answer of an address is abstracted to whether the sender reads a success in it.

   The threads and the queue are made while the application is imported and are
   never stopped: nothing calls stop_workers.  An operator whose comment begins
   with "Slip:" is a faulty variant of the definition after it. *)
EXTENDS Naturals, Sequences, FiniteSets

CONSTANTS
    Request,         \* HTTP requests, at most one answer each
    Worker,          \* WEBHOOK_WORKERS threads
    Url,             \* how many addresses _get_webhook_urls returns
    RETRIES,         \* retry_attempts of the event's configuration
    QUEUE_SIZE,      \* webhook_queue's maxsize
    NoRequest, NoJob,
    MaxCrashes       \* bound: deaths of the process

(* _get_webhook_urls: the addresses are those of the environment, as the sender
   has no database_service to ask. *)
Addresses == 1..Url
(* A thread at work: the event, the address and the attempt it has come to, and
   whether some address has taken the event. *)
Job == [event : Request, url : 1..(Url + 1), attempt : 0..RETRIES, taken : BOOLEAN]

ASSUME RequestAssumption == NoRequest \notin Request
ASSUME SizeAssumption ==
    /\ Url \in Nat
    /\ RETRIES \in Nat
    /\ QUEUE_SIZE \in Nat \ {0}
    /\ MaxCrashes \in Nat
ASSUME JobAssumption == NoJob \notin Job

VARIABLES
    loop,        \* what the event loop is in the middle of
    answer,      \* what each caller was told, "none" while it waits
    queue,       \* webhook_queue
    job,         \* what each thread is doing
    error_count, \* of the queue manager
    dispatched,  \* history: events given to dispatch_event
    worked,      \* history: events a thread is done with
    dropped,     \* history: events the full queue refused
    lost,        \* history: events that died with the process
    crashes

handlerVars == <<loop, answer, dispatched>>
workerVars == <<job, error_count, worked>>
webhookVars == <<handlerVars, queue, workerVars, dropped, lost, crashes>>

Idle == [at |-> "idle", event |-> NoRequest]
WebhookInit ==
    /\ loop = Idle
    /\ answer = [r \in Request |-> "none"]
    /\ queue = <<>>
    /\ job = [w \in Worker |-> NoJob]
    /\ error_count = 0
    /\ dispatched = {}
    /\ worked = {}
    /\ dropped = {}
    /\ lost = {}
    /\ crashes = 0

--------------------------------------------------------------------------------
(* Handlers.  A request that cannot be read is answered with an error before
   anything has changed; so is mail without its text. *)
Arrives(r) == loop = Idle /\ answer[r] = "none"
Refuse(r) ==
    /\ answer' = [answer EXCEPT ![r] = "error"]
    /\ UNCHANGED <<loop, queue, dispatched, workerVars, dropped, lost, crashes>>
(* Slip: a queue that is full loses its oldest event. *)
QueueRing(r) ==
    /\ queue' = Append(IF Len(queue) < QUEUE_SIZE THEN queue ELSE Tail(queue), r)
    /\ UNCHANGED dropped
(* put_nowait; the callers do not look at its result. *)
QueueWebhook(r) ==
    IF Len(queue) < QUEUE_SIZE
    THEN queue' = Append(queue, r) /\ UNCHANGED dropped
    ELSE dropped' = dropped \cup {r} /\ UNCHANGED queue
Accept(r) ==
    /\ QueueWebhook(r)
    /\ loop' = [at |-> "dispatch", event |-> r]
    /\ UNCHANGED <<answer, dispatched, workerVars, lost, crashes>>

HandleInboundEmail(r) == Arrives(r) /\ (Refuse(r) \/ Accept(r))
HandleOutboundEmail(r) == Arrives(r) /\ (Refuse(r) \/ Accept(r))
(* The action of the mail client is looked up in a table; one that is no name is an
   error, after the event was queued. *)
Raise(r) ==
    /\ QueueWebhook(r)
    /\ answer' = [answer EXCEPT ![r] = "error"]
    /\ UNCHANGED <<loop, dispatched, workerVars, lost, crashes>>
HandleImapEvent(r) == Arrives(r) /\ (Refuse(r) \/ Accept(r) \/ Raise(r))
HandlePop3Event(r) == Arrives(r) /\ (Refuse(r) \/ Accept(r) \/ Raise(r))

(* The test handler waits for a place in the queue, and the event loop with it. *)
TestWebhook(r) ==
    /\ Arrives(r)
    /\ \/ Refuse(r)
       \/ /\ loop' = [at |-> "put", event |-> r]
          /\ UNCHANGED <<answer, queue, dispatched, workerVars, dropped, lost, crashes>>
Put ==
    /\ loop.at = "put" /\ Len(queue) < QUEUE_SIZE
    /\ queue' = Append(queue, loop.event)
    /\ loop' = [at |-> "dispatch", event |-> loop.event]
    /\ UNCHANGED <<answer, dispatched, workerVars, dropped, lost, crashes>>

(* dispatch_event raises nothing; the answer follows without another step. *)
Dispatch ==
    /\ loop.at = "dispatch"
    /\ dispatched' = dispatched \cup {loop.event}
    /\ answer' = [answer EXCEPT ![loop.event] = "success"]
    /\ loop' = Idle
    /\ UNCHANGED <<queue, workerVars, dropped, lost, crashes>>

--------------------------------------------------------------------------------
(* Threads. *)
Take(w) ==
    /\ job[w] = NoJob /\ queue # <<>>
    /\ job' = [job EXCEPT ![w] = [event |-> Head(queue), url |-> 1,
                                  attempt |-> 0, taken |-> FALSE]]
    /\ queue' = Tail(queue)
    /\ UNCHANGED <<handlerVars, error_count, worked, dropped, lost, crashes>>

(* _send_single_webhook: a status of success ends the attempts for an address,
   so does the last attempt; the next address follows. *)
Posting(w) == job[w] # NoJob /\ job[w].url \in Addresses
NextAddress(j, taken) ==
    [event |-> j.event, url |-> j.url + 1, attempt |-> 0, taken |-> taken]
Again(j) == [j EXCEPT !.attempt = @ + 1]
Post(w) ==
    /\ Posting(w)
    /\ \/ job' = [job EXCEPT ![w] = NextAddress(job[w], TRUE)]
       \/ /\ job[w].attempt < RETRIES
          /\ job' = [job EXCEPT ![w] = Again(job[w])]
       \/ /\ job[w].attempt = RETRIES
          /\ job' = [job EXCEPT ![w] = NextAddress(job[w], job[w].taken)]
    /\ UNCHANGED <<handlerVars, queue, error_count, worked, dropped, lost, crashes>>

Sent(w) == job[w] # NoJob /\ job[w].url = Url + 1
(* Slip: the error ends the thread. *)
FinishAndDie(w) == Sent(w) /\ UNCHANGED webhookVars
(* Leaving the LogTimer block raises an AttributeError whatever the result was
   (it is given a bound method for a logger), so each event is counted as an
   error; the except clause keeps the thread alive. *)
Finish(w) ==
    /\ Sent(w)
    /\ job' = [job EXCEPT ![w] = NoJob]
    /\ error_count' = error_count + 1
    /\ worked' = worked \cup {job[w].event}
    /\ UNCHANGED <<handlerVars, queue, dropped, lost, crashes>>

(* The queue is memory: what waits or is being sent dies with the process, and
   the caller of a handler that had begun gets no answer but a broken
   connection.  The container is restarted. *)
InHand == {job[w].event : w \in {v \in Worker : job[v] # NoJob}}
Queued == {queue[i] : i \in DOMAIN queue}
Crash ==
    /\ crashes < MaxCrashes
    /\ crashes' = crashes + 1
    /\ lost' = lost \cup Queued \cup InHand
    /\ queue' = <<>>
    /\ job' = [w \in Worker |-> NoJob]
    /\ error_count' = 0
    /\ answer' = [r \in Request |-> IF r = loop.event THEN "error" ELSE answer[r]]
    /\ loop' = Idle
    /\ UNCHANGED <<dispatched, worked, dropped>>

Handle(r) ==
    \/ HandleInboundEmail(r) \/ HandleOutboundEmail(r)
    \/ HandleImapEvent(r) \/ HandlePop3Event(r) \/ TestWebhook(r)
Work(w) == Take(w) \/ Post(w) \/ Finish(w)
WebhookNext ==
    \/ \E r \in Request : Handle(r)
    \/ Put \/ Dispatch
    \/ \E w \in Worker : Work(w)
    \/ Crash

WebhookSpec == WebhookInit /\ [][WebhookNext]_webhookVars
(* A thread that can run is scheduled, and every post ends: requests.post has a
   timeout of connection and of reading.  Requests come when they come. *)
WebhookFairSpec ==
    /\ WebhookSpec
    /\ WF_webhookVars(Put) /\ WF_webhookVars(Dispatch)
    /\ \A w \in Worker : WF_webhookVars(Work(w))

--------------------------------------------------------------------------------
(* Types of the state of the service's process and of the histories. *)
WebhookTypeOK ==
    /\ loop \in [at : {"idle", "put", "dispatch"}, event : Request \cup {NoRequest}]
    /\ (loop.at = "idle") <=> (loop.event = NoRequest)
    /\ answer \in [Request -> {"none", "success", "error"}]
    /\ queue \in Seq(Request) /\ Len(queue) <= QUEUE_SIZE
    /\ job \in [Worker -> Job \cup {NoJob}]
    /\ error_count \in Nat
    /\ dispatched \subseteq Request /\ worked \subseteq Request
    /\ dropped \subseteq Request /\ lost \subseteq Request
    /\ crashes \in 0..MaxCrashes

(* An event never sits in two places of the queue or with two threads, and one
   whose caller was told "Webhook queued" is in exactly one of: the queue, the
   hands of a thread, done with, refused by a full queue, lost in a crash.  So
   the callers' answer is a lie exactly in the last two cases. *)
QueuedOnce == \A i, j \in DOMAIN queue : queue[i] = queue[j] => i = j
InOneHand ==
    \A v, w \in Worker :
        job[v] # NoJob /\ job[w] # NoJob /\ job[v].event = job[w].event => v = w
InOnePlace ==
    /\ Queued \cap (InHand \cup worked \cup dropped \cup lost) = {}
    /\ InHand \cap (worked \cup dropped \cup lost) = {}
    /\ worked \cap (dropped \cup lost) = {}
    /\ dropped \cap lost = {}
Accounted == Queued \cup InHand \cup worked \cup dropped \cup lost
Dispatching(r) == loop = [at |-> "dispatch", event |-> r]
AccountedOnce ==
    /\ QueuedOnce /\ InOneHand /\ InOnePlace
    /\ \A r \in Request : answer[r] = "success" \/ Dispatching(r) => r \in Accounted

(* The event loop gets out of every handler, the one that waits in it for a place
   in the queue included, and every queued event is worked on to its end unless
   the process dies: no answer of an address and no error on the way stops the
   threads. *)
EverythingEnds ==
    \A r \in Request :
        /\ (loop.event = r) ~> (answer[r] # "none")
        /\ (r \in Queued) ~> (r \in worked \cup lost)
================================================================================
