------------------------------ MODULE Migrations ------------------------------
(* The database migrations: manage.py and database/migrate.py over Alembic, with
   the one revision there is (alembic/versions/001_initial_schema.py).  MySQL
   commits every statement of DDL, and Alembic writes the version row after the
   last one, so that a command that fails or is cut off leaves what it had done.
   The database may also be one docker-compose's init scripts made, or began:
   001_init_schema.sql inserts the version row and then makes the same tables in
   the same order, the later scripts make further tables and leave version rows
   that are no revision of Alembic. *)
EXTENDS Integers, Sequences, SequencesExt

CONSTANT MaxCuts    \* commands that are cut off

ASSUME MigrationsAssumption == MaxCuts \in Nat

VARIABLES
    db,         \* the tables there are
    version,    \* what alembic_version says
    held,       \* the tables other scripts' tables refer to
    strict,     \* strict sql_mode, the default of mysql:8.0
    job,        \* the command that is running: which way, at which table
    outcome,    \* how the last command ended
    cuts

vars == <<db, version, held, strict, job, outcome, cuts>>

-----------------------------------------------------------------------------
(* The tables, in the order they are created, with those they refer to. *)

T(name, refs) == [name |-> name, refs |-> refs]

SystemTables ==
    << T("system_config", {}), T("health_checks", {}), T("service_metrics", {}) >>

TenantTables == << T("organizations", {}), T("domains", {"organizations"}) >>

Tenant == {"domains", "organizations"}
Account == Tenant \cup {"email_accounts"}

AccountTables ==
    << T("email_accounts", Tenant), T("aliases", Tenant),
       T("user_sessions", {"email_accounts"}) >>

MailTables ==
    << T("mail_queue", {"organizations"}), T("mail_logs", {"organizations"}),
       T("email_tracking", Tenant), T("tracking_statistics", Tenant) >>

WebhookTables ==
    << T("api_keys", {"organizations"}), T("webhook_urls", {"organizations"}),
       T("webhook_delivery_logs", Tenant \cup {"webhook_urls"}) >>

LimitTables == << T("alerts", Account), T("usage_history", Account) >>

SecurityTables ==
    << T("ssl_certificates", {"domains"}), T("dkim_keys", {"domains"}),
       T("ai_transactions", {"organizations"}) >>

ReputationTables ==
    << T("email_suppressions", {"organizations"}), T("domain_reputation", Tenant),
       T("feedback_loops", {"organizations"}), T("analytics_data", {"organizations"}) >>

(* An index on webhook_url, 1000 characters of up to four bytes: more than the
   3072 bytes of an InnoDB key, an error under the strict mode and a shorter
   index without it. *)
LongKeys == {"webhook_delivery_logs"}

(* Slip: the accounts before what they belong to. *)
AccountsFirst ==
    SystemTables \o AccountTables \o TenantTables \o MailTables \o WebhookTables
        \o LimitTables \o SecurityTables \o ReputationTables
upgrade ==
    SystemTables \o TenantTables \o AccountTables \o MailTables \o WebhookTables
        \o LimitTables \o SecurityTables \o ReputationTables

(* The same tables, last to first. *)
downgrade == Reverse(upgrade)

All == {upgrade[i].name : i \in DOMAIN upgrade}

References(name) == {t.name : t \in {u \in ToSet(upgrade) : name \in u.refs}}

-----------------------------------------------------------------------------
NoJob == [way |-> "none", at |-> 0, again |-> FALSE]

(* What the init scripts leave: the whole schema, or as far as they came, since
   the image does not run them again on a database that exists. *)
Scripted ==
    \/ /\ version = "001" /\ held = {}                    \* 001_init_schema.sql
       /\ \E n \in 0 .. Len(upgrade) : db = {upgrade[i].name : i \in 1 .. n}
    \/ /\ version = "001" /\ db = All                     \* 002 to 006
       /\ held \in {{"organizations"}, {"organizations", "email_accounts"}}
    \/ /\ version = "unknown" /\ db = All                 \* 007 to 009
       /\ held \in {{}, {"organizations", "email_accounts"}}
    \/ version = "none" /\ db = All /\ held = {}           \* 009, between two statements

Init ==
    /\ \/ db = {} /\ version = "none" /\ held = {}
       \/ Scripted
    /\ strict \in BOOLEAN
    /\ job = NoJob
    /\ outcome = "ok"
    /\ cuts = 0

Idle == job.way = "none"

(* The version row and the tables tell the same. *)
Agrees == db = IF version = "none" THEN {} ELSE All

(* Alembic looks every row up among its revisions before it does anything. *)
Unplaced == version = "unknown"

End(how) == job' = NoJob /\ outcome' = how
Run(way, again) ==
    job' = [way |-> way, at |-> 1, again |-> again] /\ outcome' = "running"

(* alembic upgrade head: nothing to do at the head. *)
Upgrade ==
    \/ version = "none" /\ Run("up", FALSE)
    \/ version = "001" /\ End("ok")
    \/ Unplaced /\ End("unknown revision")

(* alembic downgrade base *)
Downgrade(again) ==
    \/ version = "001" /\ Run("down", again)
    \/ version = "none" /\ ~again /\ End("ok")
    \/ version = "none" /\ again /\ Run("up", FALSE)
    \/ Unplaced /\ End("unknown revision")

Command == Idle /\ UNCHANGED <<db, version, held, strict, cuts>>

Migrate == Command /\ Upgrade

(* One revision can be taken back, and only from the head. *)
Rollback(steps) ==
    /\ Command
    /\ \/ version = "001" /\ steps = 1 /\ Run("down", FALSE)
       \/ version = "none" /\ End("no revision")
       \/ version = "001" /\ steps > 1 /\ End("no revision")
       \/ Unplaced /\ End("unknown revision")

Reset == Command /\ Downgrade(FALSE)

Fresh == Command /\ Downgrade(TRUE)

(* The question is not answered with yes, the environment lacks a setting, or
   the command only reads or writes a file. *)
LeavesAlone == Command /\ \E how \in {"ok", "refused"} : End(how)

-----------------------------------------------------------------------------
(* One table with its indexes, unless MySQL refuses the statement. *)
CreateRefused(t) ==
    IF t.name \in db THEN "exists"
    ELSE IF t.refs \subseteq db THEN "no" ELSE "no parent"

(* Slip: a table that exists is passed over. *)
CreateIfNotExists ==
    /\ job.way = "up" /\ job.at <= Len(upgrade)
    /\ db' = db \cup {upgrade[job.at].name}
    /\ job' = [job EXCEPT !.at = @ + 1]
    /\ UNCHANGED <<version, held, strict, outcome, cuts>>
CreateTable ==
    /\ job.way = "up" /\ job.at <= Len(upgrade)
    /\ LET t == upgrade[job.at] IN
       \/ CreateRefused(t) # "no" /\ UNCHANGED db /\ End(CreateRefused(t))
       \/ /\ CreateRefused(t) = "no"
          /\ db' = db \cup {t.name}
          /\ IF strict /\ t.name \in LongKeys
             THEN End("key too long")
             ELSE job' = [job EXCEPT !.at = @ + 1] /\ UNCHANGED outcome
    /\ UNCHANGED <<version, held, strict, cuts>>

Stamp ==
    /\ job.way = "up" /\ job.at > Len(upgrade)
    /\ version' = "001"
    /\ End("ok")
    /\ UNCHANGED <<db, held, strict, cuts>>

DropRefused(t) ==
    IF t \notin db THEN "unknown"
    ELSE IF References(t) \cap db = {} /\ t \notin held THEN "no" ELSE "has children"

DropTable ==
    /\ job.way = "down" /\ job.at <= Len(downgrade)
    /\ LET t == downgrade[job.at].name IN
       \/ DropRefused(t) # "no" /\ UNCHANGED db /\ End(DropRefused(t))
       \/ /\ DropRefused(t) = "no"
          /\ db' = db \ {t}
          /\ job' = [job EXCEPT !.at = @ + 1] /\ UNCHANGED outcome
    /\ UNCHANGED <<version, held, strict, cuts>>

(* After the last drop; migrate:fresh goes on with the upgrade. *)
(* Slip: done at the last table. *)
UnstampEarly ==
    /\ job.way = "down" /\ job.at >= Len(downgrade)
    /\ version' = "none"
    /\ IF job.again THEN Run("up", FALSE) ELSE End("ok")
    /\ UNCHANGED <<db, held, strict, cuts>>
Unstamp ==
    /\ job.way = "down" /\ job.at > Len(downgrade)
    /\ version' = "none"
    /\ IF job.again THEN Run("up", FALSE) ELSE End("ok")
    /\ UNCHANGED <<db, held, strict, cuts>>

(* The process is killed, or loses the database. *)
Cut ==
    /\ ~Idle /\ cuts < MaxCuts
    /\ End("cut off")
    /\ cuts' = cuts + 1
    /\ UNCHANGED <<db, version, held, strict>>

Next ==
    \/ Migrate \/ Reset \/ Fresh \/ LeavesAlone \/ \E n \in 1 .. 2 : Rollback(n)
    \/ CreateTable \/ Stamp \/ DropTable \/ Unstamp \/ Cut

Spec == Init /\ [][Next]_vars

-----------------------------------------------------------------------------
TypeOK ==
    /\ db \subseteq All
    /\ version \in {"none", "001", "unknown"}
    /\ held \subseteq All
    /\ strict \in BOOLEAN
    /\ job \in [way : {"none", "up", "down"}, at : 0 .. Len(upgrade) + 1, again : BOOLEAN]
    /\ Idle => job = NoJob
    /\ outcome \in {"ok", "running", "exists", "no parent", "key too long", "unknown",
                    "has children", "no revision", "unknown revision", "refused", "cut off"}
    /\ cuts \in 0 .. MaxCuts

(* 001_initial_schema.py promises "the correct dependency order": from whatever a
   failure, a cut or the init scripts left, no table is made before those it refers
   to or dropped before those that refer to it.  A drop is refused for a key only
   where none of the revision's own tables is in the way, by the tables of other
   scripts, and these keep what they refer to. *)
KeysNeverBreak ==
    /\ outcome # "no parent"
    /\ outcome = "has children" => \E t \in held \cap db : References(t) \cap db = {}
    /\ \A i \in DOMAIN upgrade : upgrade[i].name \in db => upgrade[i].refs \subseteq db
    /\ held \subseteq db

(* What a command has done so far. *)
Done ==
    LET names(s) == {s[i].name : i \in 1 .. job.at - 1}
    IN  IF job.way = "up" THEN names(upgrade) ELSE All \ names(downgrade)

(* A failed or cut off command leaves tables the version row does not tell of, and
   so do init scripts that did not come to their end: no command may add to them or
   take from them.  One that is past its first table works on an empty schema it
   fills, or on the whole of revision 001, whoever made it, which it takes down; a
   schema with rows of the later scripts is left as it is. *)
UnknownSchemaUntouched ==
    /\ job.at > 1 => db = Done
    /\ Unplaced => Idle /\ db = All

(* A command that did something and answers success leaves the tables the version
   row tells of, whatever failed or was cut off before it. *)
SuccessIsWhole == [][~Idle /\ outcome' = "ok" => Agrees']_vars
=============================================================================
