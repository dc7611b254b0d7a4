# TLA+ models of the Mailyte mail server

Mailyte is a self-hosted mail server: Postfix, Dovecot and Rspamd containers with
Python policy scripts, Python worker services (provisioning API, rate limiter,
webhooks, tracking, autoconfiguration, templates), a certificate manager, MySQL, Redis
and operations scripts.  This directory models the parts of it whose correctness
depends on the order in which things happen: threads, requests, processes that die,
files that are copied one after the other, commands that fail halfway.

Contents

1. The system: components, state, operations, interactions
2. The modules, and how they correspond to the code
3. The runs: instances, bounds, fairness, what they show
4. Where code and documentation disagree
5. What is proved, and how
6. What is not modelled, and why
7. Plan

Run a model with `tlc -config X.cfg MCModule.tla`, check proofs with
`tlapm XProofs.tla` (a few minutes for the longest, `BackupRestoreProofs`).
`PROJECT.json` lists the runs, the theorems, the lines every definition stands for, the
hazards the properties are for, and for each property a faulty variant of a definition
(marked "Slip:" in the modules) that violates it.

## 1. The system

| Component | State it keeps | Operations | Interacts with |
|---|---|---|---|
| Webhook dispatcher, `shared/webhook_dispatcher.py`, imported by every service | per process: a bounded queue, the flag and lock of a lazily started pool, the Redis subscription, counters; in MySQL: delivery log, dead letters | `dispatch_event`, `dispatch_event_sync`, worker loop, subscriber thread, delivery with retries | services call it; Redis carries events between processes; an external endpoint answers |
| Authentication policy, `mailer/dovecot/scripts/dovecot-auth-policy.py` | in Redis, per address and login name: times of failures, expiry of that set, block | `/allow`, `/report` | Dovecot asks before and after it verifies a password and reports the outcome |
| Certificate manager, `mailer/cert_manager/scripts/cert_manager.py` | certificate and key files, links between them, the server's pair, two SNI maps; certbot's directory; rows of `ssl_certificates` | a pass over the domains with parallel workers, the weekly limit, the wildcard certificate, linking, maps | reads the API's rows; Postfix and Dovecot read the volume; orders from a certificate authority |
| Backup and restore, `scripts/backup.sh`, `scripts/restore.sh` | backup directories, manifest, two marker files | full and incremental backup, verification, retention, restore | MySQL and its binary log, the mail store, Redis, Docker |
| Provisioning API, `worker/api/routes` | organizations, domains, mailboxes, aliases, webhook endpoints in MySQL; Sieve files | REST handlers, one or two MySQL transactions each, then an event | fires events; its rows are read by all others |
| Database migrations, `manage.py`, `database/migrate.py`, `alembic/` | 24 tables and a version row | migrate, rollback, reset, fresh, status | every service needs what they leave; docker's init scripts make the same tables, more of them, and version rows of their own |
| Webhook service, `worker/webhooks` | a bounded queue and worker threads | event handlers, sender with retries per address | Postfix and Dovecot scripts post to it; it feeds its own sender and the dispatcher |
| Rate limiter, `worker/rate_limiter` | a pool of MySQL connections, a cached organization per domain; as designed also rules, counters, alerts | check, count, change a rule, monitor thread | `rate_limit_policy.py` asks for Postfix |
| Templates, `worker/templates` | templates, their versions, a log of renderings, in MySQL | create, update, delete, duplicate, render, read | single requests |
| Tracking injector, `mailer/postfix/scripts/tracking_injector.py` | none; Postfix keeps the queue | one run per mail and recipient domain: read, rewrite, reinject, exit code | started by Postfix's pipe transport, reinjects at 127.0.0.1:10026, asks the tracking service |
| Tracking service, `worker/tracking` | events, suppressions, endpoint cache, delivery statistics | pixel, click, suppression, delivery with retries | MySQL, Redis |
| Other Postfix scripts, `mailer/postfix/scripts` | a cache of access decisions | one policy request or one bounce at a time | rate limiter, webhook service |
| Autoconfiguration, log analyzer, Rspamd, operations scripts, shared helpers | mostly none of their own | single requests or commands | MySQL, Docker |

What is hard about them, and what makes each of them correct:

- **Dispatcher.** Several callers race to start the pool; an event travels through
  Redis or, when publishing fails, through the local queue; retries sleep for hours in
  memory; the queue is bounded; the process can die at any point.  Correct: one pool
  per process, no request after a definitive answer, a dead letter only when every
  request failed, no event left where nobody serves it.
- **Authentication policy.** The decision (`/allow`) and the count (`/report`) are two
  requests of attempts that overlap; the failure handler is up to ten Redis commands
  without a transaction; keys expire on their own.  Correct: the count is what
  happened in the window, the threshold blocks, nobody is blocked without cause, a
  block ends, and the gap between decision and count is bounded.
- **Certificate manager.** Certificate and key are two files; files of one domain are
  links to those of another; `copy2` follows links; workers run in parallel while the
  count that guards the authority's weekly limit is taken once, before the pass, from
  rows the workers write; it is restarted at any time.  Correct: the pair a domain
  serves belongs together, both maps list every pair, what is due is replaced, the
  server's pair heals after a crash.  That a full week waits, which the guard is for,
  does not hold (section 4).
- **Backup.** The database, Redis and mail are copied one after the other while all of
  them change; two marker files decide what the next incremental backup contains;
  the script can be stopped between any two writes.  Correct: position and log
  rebuild the database, the mail of a dump that tar can read is in the same backup, a
  success is readable, and a full backup restored gives its database back.
- **Provisioning.** The same statements meet two schemas, one that cascades and one
  that restricts; handlers guard some deletions and leave others to foreign keys; a
  request can fail after its commit, and an event can be lost between commit and
  dispatch.  Correct: no row without the rows it names, a subscriber that missed
  nothing agrees with the tables, a domain never counts fewer mailboxes than it has.
- **Sieve filters.** Files and a link, changed by single system calls, any of which may be
  the last.  Correct: the link never leads to a script that is gone.
- **Migrations.** MySQL commits each DDL statement; a failed or interrupted command
  leaves a schema no version describes, and the server may have come with tables that
  other scripts made, all or some of them, under version rows of theirs.  Correct: nothing
  works on a schema it does not know, no foreign key of its own is ever in the way of a
  statement, and success means the tables of the version.
- **Webhook service.** A blocking `put` and a dropping one into the same bounded queue,
  from an event loop that serves everybody.  Correct: an event is in exactly one
  place until it is worked off, dropped or lost with the process, and the loop and the
  threads go on.
- **Rate limiter.** Connections are given back only on the path without an error; two
  threads share the pool; MySQL goes away and comes back; the bridge gives up; lookups of
  rules fail each time and use the pool up.  Correct: other lookups lose a connection to an
  outage only, and every request is answered all the same.
- **Templates.** The present version, its history and two figures of its renderings are
  in different tables; the text a template was made with is merged separately from its
  HTML.  Correct: a whole history, no text of an older HTML, no version lost that its
  author saw, figures that agree.
- **Tracking injector.** All submitted mail passes through it.  It takes the recipients
  from the headers although its exit code answers for those Postfix started it for; it
  may die, or lose an answer, before, during or after the reinjection; three lookups
  decide whether a mail is changed.  Correct: no recipient is lost, copies and reports
  of failure come from something that went wrong, only mails that qualify are changed,
  and no mail the listener takes stays in the queue for ever.

How they interact.  The API writes the rows everything else reads and hands events to the
dispatcher, which the webhook service calls too; migrations (or docker's init scripts)
make the tables all of them use, and which of the two did it decides what the API can do
(`schema` of `Provisioning`) and which commands Alembic accepts (`version` of
`Migrations`); that either came before the certificate manager decides whose columns
`ssl_certificates` has (`ownTable` of `CertManager`).  The interfaces are modelled from
both sides: `Provisioning` and `WebhookService` keep what they handed to the dispatcher
and what may be lost before that, `WebhookDispatcher` begins where an event is handed
over; `Provisioning` keeps what a subscriber to these events believes; `SieveFilters`
extends `Provisioning`, with whose requests its own interleave over the accounts;
`RateLimiter` contains its client, the bridge, `MailFilter` its server, Postfix, and
`AuthPolicy` the attempts of Dovecot.

## 2. The modules

| Module | Models | Checked in | Proofs |
|---|---|---|---|
| `WebhookDelivery` | what the dispatcher promises of one event | `dispatcher_redis` | `WebhookDispatcherProofs` |
| `WebhookDispatcher` | the dispatcher | `dispatcher_pool`, `dispatcher_redis` | `WebhookDispatcherProofs` |
| `AuthPolicy` | the authentication policy | `auth_policy` | `AuthPolicyProofs` |
| `CertManager` | the certificate manager | `cert_safety`, `cert_live` | `CertManagerProofs` |
| `BackupRestore` | both scripts | `backup_safety` | `BackupRestoreProofs` |
| `MailFilter` | the tracking injector and Postfix around it | `mail_filter` | `MailFilterProofs` |
| `Provisioning`, `SieveFilters` | the API's routes | `provisioning` | `ProvisioningProofs` |
| `WebhookService` | the webhook service | `webhook_service` | `WorkerServicesProofs` |
| `Migrations` | the migration commands | `migrations` | `MigrationsProofs` |
| `RateLimiter` | the rate limiter and the bridge | `rate_limiter` | `WorkerServicesProofs` |
| `TemplateService` | the template service | `templates` | `WorkerServicesProofs` |

The MC modules hold what TLC needs beside a cfg: which thread lives in which process,
the map of base domains, what options select, symmetry sets, and one VIEW.

`WebhookDelivery` is what the dispatcher promises of one event: at most
`MAX_RETRIES` requests, none after a definitive answer, a dead letter only for an
event all of whose requests failed.  It promises no delivery.

`WebhookDispatcher` is the dispatcher itself.  Threads are callers and workers, each
at home in a process.  Each place where the code can be preempted with shared state
exposed is a step: `dispatch_event` is `Dispatch`, `Publish` (or `PublishFails`,
`PublishForks`), `CheckStarted`, `LockAndRecheck`, `StartWorkers`, `Enqueue`; a worker
is `WorkerGets`, then `Post`, `Settle`, `Retry`, `Abandon`, `DeadLetter`, the
delivery steps it shares with `dispatch_event_sync`; the subscriber is
`ListenerStarts`, `ListenerReceives`, `ListenerDies`; `Crash` empties a process.
Assumed: `WEBHOOK_URL` is set (without it `dispatch_event` returns at once), at most one
process is the subscriber, as the header of the file says, a publish returns, and
threads can be started.  As deployed no service is named "webhooks", so no subscriber
runs: `Subscribers = {}` is the deployed system, the instance with one is what the
file describes.  `DeadLetter` may write its row or not; as installed the insert fails each
time, since only the init scripts make the table, with columns of other names.

`AuthPolicy` keeps for every identity (address or login name) the ages of the entries
in its sorted set, the time to live of that set and the time left of its block, in
relative seconds.  An entry of age `FAILURE_WINDOW_SECS` stands for one that is that old
or older: both are trimmed before each count.  `Allow`, `ReportSuccess`,
`ReportFailure`, `ReportRefused` are the handlers; the server has one thread, so
each is one step, but a Redis error ends a handler after any of its commands
(`RecordFailure(i, u, n)`: the first n commands).  `AllowFailsOpen` is an error, or an
answer Dovecot did not wait for.  `Restart` decides again whether Redis is used.
An attempt the service answers with a delay (`Delayed`, a negative status) is admitted or
refused: Dovecot refuses it, and what the properties say holds either way.
`truth` and `earned` are history variables: what the reports say should be counted
and blocked.

`CertManager` has the main thread's `phase` and one `job` per group of domains with a
common base.  A file is missing, truncated, a copy of a certificate, or a link; `CopyFile`
writes through a link at its destination, `Unlink` and `Symlink` are `_link_certificate`
file by file.  A domain without a file is judged by the server's certificate, as the
docstring of `check_certificate_expiry` says.  certbot is `CertbotSucceeds` and
`CertbotFails` (locks, ports and a certificate that is not due included).  `booked` is
which domains have a row of this week in `ssl_certificates`: `Book` is
`update_certificate_database`, which orders, failures and links call and which may fail
unnoticed; `StartPass` looks at the number of rows once (`WeekIsFull`), and goes on
without it when the query fails; `WeekPasses` ages a row.  All of these statements name
columns of the table `setup_certificate_tables` makes when there is none (`ownTable`).
The table of the schema, which is there first wherever docker-compose or Alembic makes the
database, lacks `domain` and `updated_at`: on it nothing is ever booked or counted. The
initial states have either table.  `ordered`, a history variable, is what was really
ordered.  `Expire` ages a certificate, `Activate` and `Deactivate` change the rows, whose
order is MySQL's to choose, `Crash` is a restart by supervisord.

`BackupRestore` has one script running at a time.  The binary log is a sequence of
files of row events; `DumpBegins` is the moment at which mysqldump, under one lock,
rotates the log, takes its snapshot and notes the position; `ReadDir` is tar
reading one directory while `Deliver` and `Disturb` go on, and may leave any file of it
out, of which nobody is told; `SavePosition`,
`KeepPosition`, `StampMail` write the marker files or do not; `InterruptBackup` is a
signal at any point with or without the trap; `RestoreDump`, `RestoreIncrement`,
`RestoreBinlogs` and `RestoreMail` are the restore.  What was selected is worked off in
the order of `Place`: `run.rest` is the components still to come, and a component is
`Over`, `Completed` or `Failed`.  `KeepPosition` is worth a
word: the script runs under `pipefail`, and `zcat | head -100 | grep -q` is false as
soon as `zcat` has more to write than the pipe takes, so a dump of some size never
updates the position.  `delivered`, `rebuilt`, `run.owed` and the rows in the position
are history.  Replaying a dump or a log is one step; the events of databases
other than the server's are not followed; a purged binary log is a failed
`mysqlbinlog`; the sub-second the mail stamp rounds away is left out (it archives a
message twice); a message appended with an old date is left out.

`MailFilter` is the way of one mail from the queue through the filter and back. `Start` is
Postfix starting a run for the recipients of one domain (the next hop of
`content_filter=tracking-filter:` is the recipient's domain).  `process_email` is three
steps: reading the mail (the headers may have no sender or no recipients, the mail may
have no HTML, the email package may be unable to write it out again), resolving the
sender's domain to a tenant in MySQL, and asking the tracking service for the HTML with
its additions; each can fail, and then the mail goes on as it was.  Four facts of the
build are in it.  Without PyMySQL, which the image does not install, every sender
resolves, to default ids (`pymysql` is both in the initial states).  With it the second
lookup names a column that does not exist (`users.tenant_id`), so only hosted sender
domains resolve. The tracking service of this repository has no `/api/tracking/inject`, so
that it takes another service behind `TRACKING_SERVICE_URL` for a mail to be changed at
all.  And the listener at 10026 keeps the restrictions on relaying of `main.cf`: it takes
mail for this server's domains and refuses every other recipient each time (`Relayed`), as
smtplib refuses to write an address that is not ASCII (`Writes`); neither is a fault.
What a changed mail reports is the first recipient of its headers, in everybody's copy.
`Send`, `SendFails`, `AnswerLost`, `Quit`, `QuitFails` are the steps of `_reinject_email`,
`Terminate` is the signal handler; `Delivered`, `TempFail`, `Bounced` are what pipe(8)
makes of an exit code.  Without metadata the recipients are `sys.argv[1:]`, that is `-f`,
the sender, `--` and the recipients: Postfix refuses the two options as addresses,
`sendmail` does not mind, and the sender gets a copy.  The queue manager, pipe and the
listener are external, as the code and `master.cf` use them.

`Provisioning` has one action per route of `worker/api/routes` (organizations, domains,
email accounts, mailboxes, aliases, webhook endpoints).  The handlers await nothing
between their first query and their last, and one uvicorn process serves them, so a
request is one step; what can come between is what its answer and its event meet:
`Report` is an event sent, or a process killed between commit and dispatch.  `schema` is
which of the two installations made the tables, because it decides what a handler can
do: "ulid" is what docker's init scripts leave (the last, `009_ulid_safe.sql`, makes ids
`CHAR(26)` without a default and foreign keys that cascade), "integer" is what
`alembic upgrade` makes (ids that count, foreign keys that restrict).  A raw INSERT
that names no id works in the second only, an ORM row with a ULID in the first only, so
that each route works on one schema at most and ends with an error on the other; the
errors after a commit (`CreateEmailAccount`, `DeleteMailbox`, the DKIM key of
`CreateDomain`) are in the actions.  `orgs`, `domains` and `accounts` are partial
functions from keys to rows, `mirror` is the copy a subscriber to the events keeps.
Left out of the rows: names, quotas, secrets; `max_users` is the parameter `full`; MySQL's
case folding.  `SieveFilters` extends it with a directory of scripts and a link per
user; each route is the set of states it can stop in, after any of its system calls.

`Migrations` has the 24 tables of the one revision in the order of `upgrade`, with the
foreign keys between them; `job` is the command that runs and the table it is at.
`CreateTable`, `DropTable`, `Stamp`, `Unstamp` are statements, each committed by itself;
`CreateRefused` and `DropRefused` are what MySQL says no to: a table that exists, a key
that is too long, a parent that is missing, a child that is there, one of another script's
tables included (`held`).  `Cut` is Ctrl-C or a lost connection.  The database is empty or
as docker's init scripts leave it (`Scripted`), which the image does not repeat: 001 inserts
the version row and then makes the 24 tables, so that it can leave the row and fewer of
them; 002 to 006 add tables that refer to two of the 24; from 007 on the row is none of
Alembic's, and every command is refused (`Unplaced`); 009 deletes the row before it inserts
its own.  The server is strict, which is the default, or not.  One operator is assumed:
Alembic takes no lock.

`WebhookService` has the event loop as one actor, `loop`: a handler that put or could not
put its event, one that waits in `Put`, one that is about to call `dispatch_event`.
Threads `Take`, `Post` to each address with its retries, and `Finish`; `Finish` always
counts an error because leaving the `LogTimer` raises.  `Crash` loses the queue and what
threads hold.  `Raise` is an IMAP or POP3 event whose action is no name: queued, and then
answered with an error.  `stop_workers` is called by nothing.

`RateLimiter` is the service as it is built, and most of its features end in an except
clause.  The second class `RateLimitRule` of `config_service.py` lacks `@dataclass`, so
making a rule, the default one included, raises; `LogTimer.__exit__` raises; the cache
asks the configuration for a `redis_pool_size` it does not have and works without a
client; `database_service.py` reads `time` without importing it, before it borrows from
its own pool.  So no rule is ever applied, nothing is counted, and every check answers
"allowed".  What remains, and is modelled, is what these requests do to the one pool of
connections they share with the monitor thread: each query `Borrow`s one, and gives it
back unless an error came between (`Query`): a dead connection, or the columns of a rule,
which the table `rate_limit_configs` of the init scripts lacks (Alembic makes no such
table at all), so that each lookup of a rule costs a connection (`pool.spent`).  `todo` is
the queries a thread still has to make.  A bridge asks, gives up after its timeout, and
says DUNNO either way.  The thread that cleans up asks the database nothing either.

`TemplateService` has the three tables and what authors were shown (`told`) or served
(`served`).  Handlers never await and the image starts one process, so a request is one
step; an error before its commit leaves no trace and is no step, an error after it
leaves the change and no answer (`Answer` may add nothing to `told`).  The tables are those
the service makes when it starts; on a database made by docker's init scripts it finds
others under the same names (`008_missing_tables.sql:166`), and no template can be written.

`WebhookService`, `RateLimiter` and `TemplateService` are three processes that share no
state.  They also share no name (`LimiterInit`, `WebhookInit` and so on), so that one
module can hold the proofs about all three.

## 3. The runs

| Run | Instance and bounds | Shows |
|---|---|---|
| `dispatcher_pool` | one process, two callers, two workers, two events, queue of 1, 2 attempts, one crash | `TypeOK`, with the capacity of the queues, `OnePool`; every event fired is settled or lost, not stuck (`EventsSettle`) |
| `dispatcher_redis` | a publisher and a subscriber, one worker each, two events, one crash | `DeadLettersFailed`, and `ImplementsDelivery`: a refinement of `WebhookDelivery` |
| `auth_policy` | one address, two login names, two attempts in flight, thresholds 3 and 2, one Redis error, time that passes | `CountsAreTrue`, `ThresholdBlocks`, `BlocksAreEarned`, `OvershootBounded`, `EveryBlockEnds` |
| `cert_safety` | two domains of one base, one of another, two workers, two orders per name, one row a week, three changes of rows, either table | `PairsMatch`, `MapsListEveryPair` |
| `cert_live` | two domains of one base, one row a week, one crash, failed write or failed query | `DueIsRenewed`, `ServerPairHeals` |
| `backup_safety` | two backups; of two restores, a change to the database, a rotation, a failure or interrupt any two; one message, two directories | `FullRebuilds`, `DumpAndLogGiveToday`, `MailOfTheDump`, `SuccessIsReadable` |
| `mail_filter` | two recipients of a hosted domain, one not ASCII, one on another server, the sender in a second hosted domain, any headers, with and without PyMySQL, two faults | `NothingVanishes`, `CopiesBounded`, `ReturnsAreEarned`, `PixelsAreWarranted`, `MailGetsOut` |
| `provisioning` | both schemas, two organizations, two domains, two mailboxes, one alias address, one endpoint, one user with two scripts | `RowsHaveParents`, `SubscriberAgrees`, `CounterCovers`, `ActiveScriptStored` |
| `webhook_service` | three requests, queue of 1, two threads, two addresses, one retry, one crash | `AccountedOnce`, `EverythingEnds` |
| `migrations` | all 24 tables, an empty database and whatever the init scripts leave, both modes of the server, any commands, three of them cut off | `KeysNeverBreak`, `UnknownSchemaUntouched`, `SuccessIsWhole` |
| `rate_limiter` | two bridges, a pool of three, two outages, one restart | `LookupsGiveBack`, `RequestsEnd` |
| `templates` | two templates, three HTML bodies of which one does not parse, four versions together, one rendering each | `HistoryTells`, `TextsAgree`, `ToldIsKept`, `StatsAgree` |

Why the bounds are enough.  The queue of one is at its limit with the second event, and
two attempts have a first, a last and a retry between.  Two callers are what a race for
the lock needs.  With thresholds of 3 and 2, two attempts in flight cross either; the
window and block are longer than the larger threshold, since every report takes a second,
so that all failures of a burst fit in one window.  Two recipients of one domain and one
of another give runs with one and with two recipients, and two runs at once, and a
transaction with recipients the listener takes, refuses or cannot be told of; two faults
let a run fail and its retry, or the other run, fail.  Two domains of one base are a
source and a link, which swap roles after two changes of the rows; the third domain keeps
a second worker busy; a limit of one row lets a week be full.  Two backups are a base and
its increment; one event outside the scripts between them is what each of the properties
needs to break, and two leave room for a failure beside it.  Two organizations and two
domains are what the uniqueness of external ids across rows needs; the address of one
mailbox ends in that of the other, which is what the deletion's `LIKE` meets.  Three
requests fill a queue of one while a thread works and leave one for the handler that
waits.  Three cuts interrupt a command, its repetition and a rollback.  One outage costs a
lookup of an organization at most one connection, so that a pool of three tells one more
from that after two outages; the lookups of one check empty it, which is the case
`RequestsEnd` is for.  Two templates are an original and its copy, each with a change.
All bounds are CONSTANTS (`MaxCrashes`, `MaxFaults`, `MaxEdits`, `MaxOrders`,
`MaxBackups`, `MaxRestores`, `MaxChanges`, `MaxRotations`, `MaxEvents`, `MaxTotal`,
`MaxCuts`, `MaxOutages`, `MaxRestarts`, `MaxVersions`, `MaxRenders`) and guards of the
actions they bound.

`PairsMatch`, `MapsListEveryPair` and the properties of `AuthPolicy` with
`faults = 0` are about the time before the first fault, because the code promises no
more: after a crash between the copies of a certificate and its key the pair does not
match, and `check_certificate_expiry`, which looks at the certificate's date only, lets
no pass deploy it again before it is due.  Hence
`MaxFaults = 0` in `cert_safety`; crashes and failed writes are in `cert_live`.
`CounterCovers` is about the schema on which the counter is kept; `MailOfTheDump` about mail
tar can read; `ReturnsAreEarned` and `MailGetsOut` about recipients whose transaction has an
addressee the listener takes and no address it cannot be told (`Deliverable`).

Reductions.  Symmetry: events in `dispatcher_redis`, directories in `backup_safety`,
templates in `templates`; these runs check no liveness.  `dispatcher_redis` has a VIEW
without counters and the delivery log: no guard and no property of that run reads them.

Deadlock is not checked where the number of events, requests, backups or versions is
bounded, so that the instance runs out of work (`CHECK_DEADLOCK FALSE`, with a comment).

Fairness.  Dispatcher: a live thread is scheduled, a request and a sleep end, a
listener handles a message that arrived; nothing makes a service fire an event, and
nothing restarts a listener.  Authentication policy: time passes; nobody has to log in.
Mail filter: Postfix starts runs of what is in the queue and a run goes on (weak):
its calls have timeouts; faults are bounded; that the queue's lifetime ends is not
assumed.  Certificate manager: threads run and the rows of a week grow old (weak); passes
are not refused for ever, and a certificate that is ordered again and again is issued
in the end (strong, as passes come and go).  Webhook service: a handler that can go on
does, and threads take, post and finish (weak): `requests.post` has timeouts; requests
come when they come, and `Put` is enabled only while the queue has room.  Rate limiter: the
event loop goes on with the request it has (weak); neither the monitor, nor MySQL coming
back, nor a bridge is assumed to move.

## 4. Where code and documentation disagree

Met while modelling.  None is a run of its own; most can be seen in the model by stating
the quoted sentence as an invariant or an action property.

- Dispatcher: "services in different containers publish to Redis; a single dispatcher
  process picks them up" (header of the file).  The listener puts a message on the
  queue without `_ensure_workers` (`webhook_dispatcher.py:446`), so in a process that
  fires nothing itself no worker ever runs.
- Certificates: "Create symlinks so domain uses another domain's certificate".  After a
  change of the order of rows, `copy2` writes the new certificate through a link into
  the file of the previous source (`cert_manager.py:428`), `_link_certificate` removes
  that file, and the group is left without a certificate; its row, if any, says active.
  "Each worker uses a different ACME account from the rotation pool"
  (`cert_manager.py:89`): two workers can be given the same one.
- Certificates, the weekly limit: the guard reports "certs this week (limit: 50)"
  (`cert_manager.py:589`) from the `ssl_certificates` in which "the cert manager tracks
  certificate state" (`docs/mailer/cert-manager.md:118`).  The count and the rows it counts
  name columns the schema's table does not have; both fail each time, a count that fails
  lets the pass go on (`:592`), and a pass orders however full the week is.  On the table
  the program would make for itself the guard counts, but it does not see wildcard orders,
  which write no row, and sees the failures of one domain as one.
- Backup: "Also apply incremental binlogs if they exist".  The increment is found as the
  dump as well (`restore.sh:495`) and applied twice (`:540`): a row added and deleted
  since the full backup comes back.  "new mail only": the stamp is taken after tar has
  finished (`backup.sh:514`), so a message that arrived while tar was reading is in no
  archive.  What tar cannot read is left out of an archive that is called a success
  (`:500-511`, `2>/dev/null || true`): `MailOfTheDump` exempts these messages, because
  nothing in the script could notice them.
- Mail filter: the envelope routes the mail, the headers "can differ — which is how BCC
  works" (`docs/reference/glossary.md`).  With tracking on the filter reinjects a mail for
  the addresses in its headers (`tracking_injector.py:640`); a recipient only in the
  envelope gets nothing and the mail counts as delivered.  "Always fall back to
  defaults" (`:373`): the attribute of the default does not exist; without PyMySQL, which
  `mailer/postfix/Dockerfile` never installs, the default does apply, to every sender
  (`:302`).  A domain's own
  switch `tracking_enabled` is read and not used.  The listener "receives mail after
  tracking injection and delivers it normally" (`master.cf:59`): it inherits
  `smtpd_relay_restrictions` from `main.cf:199`, and a recipient on another server is
  refused each time, silently beside the sender or a local recipient, whose acceptance
  makes the run a success, and else until the queue's lifetime ends.
- API: the deletion of a mailbox reports failure after its COMMIT (`mailboxes.py:930`), and
  its `LIKE '%address%'` also deletes aliases of other mailboxes (`:893`).  Turning the
  vacation answer off leaves its script active.  On the "ulid" schema aliases, and
  mailboxes by the older route, cannot be created, on the "integer" one domains, and
  mailboxes by the newer route, cannot.
- Migrations: under the strict mode of MySQL 8.0 `manage.py migrate` always fails at the
  index on `webhook_delivery_logs.webhook_url` (`001_initial_schema.py:435`, 4000 bytes against
  3072) and leaves fifteen tables and no version row, which no later command repairs.
  `migrate:fresh`, "Drop all tables and re-run migrations" (`manage.py:13`), drops nothing
  where the version row is missing.  The docs name a `migrate:run` that does not exist.  The
  version row of the init scripts is there "so Alembic knows this schema is applied"
  (`001_init_schema.sql:11`); the last script leaves `009_ulid_primary_keys`
  (`009_ulid_safe.sql:232`), no revision of `alembic/versions`: on the database docker-compose
  makes, every command that migrates is refused.
- Webhook service: a full queue drops the event and the handler answers "queued"
  (`webhooks/app.py:371`); every event is counted as an error.  "Write a permanently failed
  webhook event to the dead letter queue table" (`webhook_dispatcher.py:262`): the table of
  the init scripts has other columns, the row is never written, and listing them fails.
- Rate limiter: the docs promise 429 and DEFER; nothing is ever counted or limited
  (section 2).  008 "creates all tables referenced in service code but missing from previous
  migrations" (`008_missing_tables.sql:4`): its `rate_limit_configs` lacks the columns
  `config_service.py:683` and `:968` ask for, each lookup of a rule fails and keeps its
  connection, and the first checks after a start empty the pool.
- Templates: every update "creates a new version.  The previous content is preserved in the
  version history" (`docs/features/templates.md`): the first content of a copy is in no
  history (`templates/app.py:557`).  The ten versions kept, the caches and the `version` of
  a rendering the document tells of do not exist.  A plain text, written or made, is
  never parsed when it is stored, so that rendering it can fail for ever.

## 5. What is proved, and how

TLAPS checks these for every value of the constants that satisfies the named
assumptions of the modules.  In every module one lemma per action (or kind of action)
shows that a step keeps the invariant, a lemma `...Preserves` or `Step...` collects them,
and a temporal step ends it.

`WebhookDispatcherProofs`: `TypeCorrect` (`[]TypeOK`, with the capacity of the queues),
`PoolStartsOnce` (`[]OnePool`), `OnlyFailuresAreDead` (`[]DeadLettersFailed`) and
`DispatcherImplementsDelivery`: the dispatcher, with any processes, threads, events,
attempts and crashes, implements `WebhookDelivery`.  `OnePool` is not inductive: a caller
between `LockAndRecheck` and `StartWorkers` could start a second pool.  `PoolInv` adds
that such a caller holds the lock of its process and that `_workers_started` is false
then and counts the pools otherwise (`PoolsOK`), and which caller states hold an event
(`CallersOK`), which the types of the next states need.  `DeliveryInv` adds to
`PoolInv` that only subscribers listen and that an event Redis did not fork is in one
place at most (`Single`): a caller's hand, a job, a place of a queue or of a
subscription.  So what a job knows of the requests made (`JobsTold`) is all there is to know,
and what still waits was never requested (`Waiting`).  `Moves` and `MovesFirst` are the
steps that take an event from one place to another.  The refinement has one lemma per
kind of step: those that submit, request, write a dead letter, lose, fork, and those
that stutter.

`AuthPolicyProofs`: `TypeCorrect`, `CountsTrue`, `ThresholdEnforced`, `OnlyEarnedBlocks`,
`OvershootIsBounded`, that is all five invariants of `auth_policy`.  `CountsAreTrue`
follows from two halves: Redis invents no recent entry (`NothingInvented`, which
holds under any errors) and, before the first error, loses none, because the key never
expires before its youngest entry is too old to count (`NothingLost`).  With the types,
`ThresholdBlocks` and `BlocksAreEarned` they form `PolicyInv`.  The overshoot is a second
invariant on top of it: failures counted plus attempts admitted stay below threshold
plus attempts (`OvershootInv`); a report moves one from the second summand to the first,
and `/allow` admits nobody at the threshold because there the identity is blocked.
`BlockOutlastsWindow` (3600 s against 900 s by default) is needed there: otherwise a
block could end while its failures still count.

`MailFilterProofs`: `TypeCorrect`, `MailNeverVanishes`, `CopiesAreBounded`,
`OnlyEarnedReturns`, `OnlyWarrantedPixels`: the types and all four invariants of
`mail_filter`, for any set of addresses, any domains and any number of faults. `FilterInv`
adds to the types that a run is for all that waits in its domain (so that runs never share
a recipient), that none of it is deferred, that a sending run sends to `Recipients`, and
that each of these was served or refused once it quits. `NothingVanishes` then needs only
that nothing is taken back and who leaves the queue. `ReturnsAreEarned` is strengthened to
what is deferred (`Earned`), because the queue's expiry reports that; it needs that the
recipients of a domain leave the queue together (`DomainsTogether`), so that every run for
it makes the same transaction (`SameTransaction`).  `CopiesBounded` counts domains that
are done, or whose run only has to quit (`Done`): a copy without a fault adds one, and a
domain leaves the set only by a fault (`CopyInv`).  `WarrantInv` says of each run on its
way what `PixelsAreWarranted` says of what has arrived.

`ProvisioningProofs`: `TypeCorrect`, `ParentsStay`, `EventsTellAll`, `CountersCover`,
`ActiveStaysStored`: the types and all four invariants of `provisioning`.  A few lemmas
say what `Put` and `Drop` do to partial functions; `ReportKeeps` is what an event, or its
loss, does to the mirror of a table that just changed.  `RowsHaveParents` needs one
strengthening (`NoAliasWithoutKey`): on the schema whose aliases have no foreign key left
that restricts, there are no aliases, because none can be inserted.  `CounterCovers`
counts, with the cardinality lemmas of the library.  `ActiveScriptStored` is inductive
with the types (`SieveInv`): what each order of system calls keeps.

`CertManagerProofs`: `TypeCorrect`, `PairsCorrect` (`[]PairsMatch`), `MapsCorrect`
(`[]MapsListEveryPair`): the types and both invariants of `cert_safety`, for any domains and
bases, any number of workers, any weekly limit and either table; before the first fault, as
in section 3.  A link is followed by recursion
over the set of domains, so the first part shows that the walk from a domain ends where
the model says (`Walk`, `ReachedByWalk`), and that two directories that agree on the
domains of a base agree on all that is reached from them (`ReachedAgrees`): parallel
workers belong to different bases and cannot disturb each other.  `CertInv` has the
types and what they rest on: no domain is listed twice (`RowsOK`), links and copies
stay within a base (`FilesOK`), and so does a group, of which one at most is worked on
for each base (`JobsOK`).  Between the two files of a step `PairsMatch` says nothing, so
`StepInv` does: the certificates are what the keys will be once the step is over
(`Expected`), and a step moves nothing of another base (`Confined`).  `MapsInv`: every
pair is listed as long as no worker of the pass has copied anything, and again when
both maps are written.

`BackupRestoreProofs`: `TypeCorrect`, `PositionIsTrue` (`[]DumpAndLogGiveToday`),
`MailIsOfTheDump` (`[]MailOfTheDump`), `SuccessesAreReadable` (`[]SuccessIsReadable`),
`RestoreRebuilds` (`[]FullRebuilds`): the types and all four invariants of
`backup_safety`, for any rows, messages and directories, any number of backups, restores,
changes and faults.  `BackupInv` has the types and the place of the script: nothing of the
mail is done while the database is still to come, no manifest while anything is, and the
position lies within the log (`BackupPlace`).  What a replay computes is by recursion over
events and over files of the log.  `Replays` and `Leads` say that it passes through states
that follow one another; that such a path decides the result is shown once, by induction
over a set of numbers, and afterwards steps only lengthen paths: a change appends events
to the last file (`PathLogs`), a rotation appends a file (`PathRotates`).  With them
`Position` says that the noted rows lead to today's database, also while the dump they
belong to is still being written (`Noted`). `Archiving` is the invariant of the backup
that is being written: it is a success only at its end and, as long as there were no
errors, has an archive of every component that is done (`Sound`), and every message the
dump owes (what tar leaves out it owes no more) is archived or in a directory tar has yet
to read (`OfDump`).  `Readable` is about finished backups, which nothing writes to again.
`Restored` says that the backup restored last is not the one being written.

`MigrationsProofs`: `TypeCorrect`, `KeysHold` (`[]KeysNeverBreak`), `UnknownStays`
(`[]UnknownSchemaUntouched`), `SuccessesAreWhole` (`SuccessIsWhole`, an action property):
all of `migrations`, for any number of cuts.  The invariant is that the tables
there are are at any time the first so many of the revision (`SomeFirst`), also of what init
scripts left unfinished, that a command past its first table knows how many (`Making`,
`Taking`), and that what other scripts' tables refer to stays, as does all of a schema whose
row Alembic cannot place (`Kept`).  It needs of
the 24 tables that their names differ (`OrderDistinct`) and that each refers to earlier
ones only (`UpgradeFits`), which is shown group by group.

`WorkerServicesProofs` holds the proofs about the three services of the worker.  Rate
limiter: `LimiterTypeCorrect` and `LookupsCostOutagesOnly` (`[]LookupsGiveBack`).  The types
need the balance of the pool: every connection it was made with is free, held by one of
the two threads, lost or spent (`Balance`).  Templates: `TypeCorrect`, `HistoryIsWhole`,
`TextsAreOfTheirHtml`, `ShownVersionsAreKept`, `FiguresAgree`, the types and all four
invariants of `templates`.  The strengthening is that a template nobody created has left
no trace (`NoTrace`).  The routes fall into three kinds (a version is saved, only the row
changes, a copy is made), and each property is kept template by template (`Tells`,
`TextsFit`, `Kept`).  Webhook service: `WebhookTypeCorrect` and `QueuedIsAccounted`
(`[]AccountedOnce`).  A handler may put an event anywhere only because nothing was done yet
for a request without an answer: `Untouched`, `Unanswered` and `Told` relate the places of
an event, the answer and the event loop.  `AppendOnce` and `TailOnce` are about queues
without repetition.

So every invariant, the refinement and the action property the runs check are
theorems.  Model-checked only are the liveness properties, because TLAPS does not
handle ENABLED and fairness: `EventsSettle`, `EveryBlockEnds`, `DueIsRenewed`,
`ServerPairHeals`, `MailGetsOut`, `EverythingEnds` and `RequestsEnd`. The library's
induction theorems take an operator as a parameter, which the installed provers cannot
instantiate, and RECURSIVE operators are closed to them. What is recursive in the modules is
therefore written as functions, and induction over a particular set of numbers, by its least
element (`Least`, `SetInduction`), takes the place of those theorems.

## 6. What is not modelled, and why

- In the modelled components: signing and the layout of the dispatcher's envelope; the
  audit tables and the length of the delays of the authentication policy, several
  instances of it; of the certificate manager the counters and the rotation of ACME
  accounts, the subdomains of an order, its webhooks, `{domain}_fullchain.crt`, `wildcard.key`,
  `_should_use_wildcard` (which nothing calls), the SIGHUP (off by default, and the image
  has no docker client), the second try of the wildcard certificate at start; S3,
  encrypted archives, `--list` and `--verify`, and what a restore does to Redis, keys,
  certificates and configuration.
- Of the tracking injector: the rewritten HTML itself, the Mailyte id, the limit of
  recipients per command line (a large domain is several runs), an empty mail, a mail
  whose parsing fails (it goes the way of one without metadata), and four methods about
  organizations, delivery times and webhooks that nothing calls.  `webhook_sender.py`, the
  other pipe of `master.cf`, is named by no `content_filter`.
- Of the webhook service: read-only routes, the text of payloads, `email_processor.py`
  (pure functions nothing calls), and the clean-up routes, which use a service only
  `__main__` creates, which the image does not run: they answer with an error.
- Of the rate limiter: rules, counters, the cache and alerts, which every request leaves
  by an exception before they have an effect.  A model of what they were meant to do would
  not be one of this code.
- The tracking service: its pixel and click handlers call `check_rate_limit`, which its
  limiter does not have, and answer with the pixel or the redirect only; bounces and
  complaints read a suppression service nobody sets, after the event was committed, and
  answer with an error.  Its cache of endpoints shares one timestamp
  (`webhook_service.py:152`).
- Postfix's policy scripts: bridges of one request at a time (the one of the rate limiter
  is in `RateLimiter`); the access cache of `ip_access_policy.py` keeps a decision for
  five minutes after its rule has changed.
- `api/routes/ssl.py` reads only.  Rspamd, log analyzer, autoconfiguration, container
  health monitor, operations scripts, shared helpers: configuration, pure I/O, single
  transactions, or not imported.

## 7. Plan

1. Proofs: what holds after a fault, where the runs say nothing yet: of `CertManager`,
   that a pair which does not match is replaced when its certificate is due; of
   `BackupRestore`, that an increment and its base restore what was dumped, as far
   as the second application of the increment (section 4) leaves it true.
2. Tracking service and rate limiter once their requests get past the errors named
   above: the specification of a limiter, no more messages than the rule allows, is one
   of check and count in two requests, as in `AuthPolicy`.
3. A composition of `Provisioning` and `WebhookDispatcher` in which the subscriber's copy
   goes stale by what the dispatcher loses, not only before it.
