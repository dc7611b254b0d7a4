------------------------------ MODULE BackupRestore ------------------------------
(* scripts/backup.sh and scripts/restore.sh against running services: a full or an
   incremental backup archives one component after the other while MySQL commits
   and mail comes in, two marker files tell the next incremental backup where to
   begin, old backups are purged, and a restore replays what one backup directory
   holds.

   A row of the database is a member of Row, and its change an event of the binary
   log; mail is a set of messages, each in a maildir directory.  Of the other
   archives only the state is followed: missing, whole or cut short; DKIM keys,
   certificates and configuration, three times the same, are one component, "trees".
   Left out: the copy in S3, --verify and --list, which change nothing, an encrypted
   archive of the DKIM keys, what a restore does to components other than the
   database and the mail, and the archives it makes of what it is about to overwrite.
   The scripts are started by one operator or cron job at a time.

   An operator whose comment begins with "Slip:" is a faulty variant of the
   definition after it, and no part of the model. *)
EXTENDS Naturals, Sequences

CONSTANTS
    Row, Msg, Dir,
    Selections,       \* what the option of a backup selects
    None,
    MaxBackups, MaxRestores, MaxChanges, MaxRotations, MaxFaults,   \* bounds
    MaxEvents         \* bound of the last four together

Component == {"mysql", "redis", "mail", "trees"}
Other == {"redis", "trees"}
Id == 1..MaxBackups

(* parse_args *)
ASSUME SelectionsAssumption ==
    Selections \subseteq {Component, {"mysql"}, {"redis"}, {"mail"}, {"trees"}}
ASSUME BoundsAssumption ==
    {MaxBackups, MaxRestores, MaxChanges, MaxRotations, MaxFaults, MaxEvents} \subseteq Nat
ASSUME NoneAssumption == None \notin Id

VARIABLES
    db,          \* rows of MYSQL_DATABASE
    binlog,      \* the binary log: a sequence of files, each a sequence of events
    mail,        \* messages with the directory they are in
    fresh,       \* messages with an mtime after that in .last_mail_backup_time
    backups,     \* the directories under BACKUP_DIR
    position,    \* .last_binlog_position
    stamped,     \* is there a .last_mail_backup_time?
    stopped,     \* are Postfix and Dovecot stopped by a restore?
    run,         \* the script that runs
    count,       \* of what the bounds bound
    delivered,   \* history: messages delivered so far
    rebuilt      \* history: the backup whose dump was restored last

mysql == <<db, binlog>>
store == <<mail, fresh, delivered>>
markers == <<position, stamped>>
vars == <<mysql, store, backups, markers, stopped, run, count, rebuilt>>

----------------------------------------------------------------------------
(* The binary log, in row format: an event replaces the rows "of" by "new"; one
   that is not ddl fails unless they are "before" as they were. *)
Event == [ddl : BOOLEAN, of : SUBSET Row, before : SUBSET Row, new : SUBSET Row]

Log(events) == [binlog EXCEPT ![Len(binlog)] = @ \o events]

Fits(e, rows) == e.ddl \/ rows \cap e.of = e.before
Changed(e, rows) == (rows \ e.of) \cup e.new

(* mysql reads events until one fails. *)
Replay(rows, events) ==
    LET at[n \in 0..Len(events)] ==
            IF n = 0 THEN [rows |-> rows, done |-> 0]
            ELSE IF at[n - 1].done = n - 1 /\ Fits(events[n], at[n - 1].rows)
                 THEN [rows |-> Changed(events[n], at[n - 1].rows), done |-> n]
                 ELSE at[n - 1]
    IN  at[Len(events)]

(* The same, file after file from the one numbered "first". *)
ReplayLog(rows, first) ==
    LET at[n \in 0..Len(binlog)] ==
            IF n < first THEN [rows |-> rows, whole |-> TRUE]
            ELSE LET result == Replay(at[n - 1].rows, binlog[n]) IN
                 [rows |-> result.rows,
                  whole |-> at[n - 1].whole /\ result.done = Len(binlog[n])]
    IN  at[Len(binlog)]

----------------------------------------------------------------------------
(* Backup directories *)

NoSql == [kind |-> "none"]
CutSql == [kind |-> "cut"]
FullSql(rows) == [kind |-> "full", rows |-> rows]
IncrementalSql(events) == [kind |-> "incremental", events |-> events]

NoMail == [kind |-> "none", pairs |-> {}]
CutMail == [kind |-> "cut", pairs |-> {}]

NoBackup == [exists |-> FALSE]
EmptyBackup ==
    [exists |-> TRUE, mysql |-> NoSql, mail |-> NoMail,
     other |-> [c \in Other |-> "none"], status |-> "none"]

State(b, c) ==
    CASE c = "mysql" -> b.mysql.kind
      [] c = "mail" -> b.mail.kind
      [] OTHER -> b.other[c]

Unreadable(b) == \E c \in Component : State(b, c) = "cut"

----------------------------------------------------------------------------
(* The script that runs *)

NoRun == [script |-> "none", id |-> 0, sel |-> {}, incremental |-> FALSE,
          rest |-> {}, pc |-> "begin", saved |-> FALSE, errors |-> FALSE,
          rows |-> {}, file |-> 0, unread |-> {}, pairs |-> {},
          owed |-> {}]

(* "owed" is history: what was in the store when the dump began, has been where it was
   since, and was not left out by tar. *)
Undisturbed(gone) == [run EXCEPT !.owed = @ \ gone]

Init ==
    /\ db = {}
    /\ binlog = <<<<>>>>
    /\ mail = {}
    /\ fresh = {}
    /\ backups = [id \in Id |-> NoBackup]
    /\ position = None
    /\ stamped = FALSE
    /\ stopped = FALSE
    /\ run = NoRun
    /\ count = [backups |-> 0, restores |-> 0, changes |-> 0, rotations |-> 0, faults |-> 0]
    /\ delivered = {}
    /\ rebuilt = None

Tally(what, bound) ==
    /\ count[what] < bound
    /\ what # "backups" =>
          count.restores + count.changes + count.rotations + count.faults < MaxEvents
    /\ count' = [count EXCEPT ![what] = @ + 1]

Fault == Tally("faults", MaxFaults)

(* Slip: the mail is archived first. *)
MailFirst == [mail |-> 1, mysql |-> 2, redis |-> 3, trees |-> 4]

(* The order of main, in both scripts. *)
Place == [mysql |-> 1, redis |-> 2, mail |-> 3, trees |-> 4]

StartBackup(sel, incremental) ==
    /\ run = NoRun
    /\ Tally("backups", MaxBackups)
    /\ LET id == count.backups + 1 IN
       /\ backups' = [backups EXCEPT ![id] = EmptyBackup]
       /\ run' = [NoRun EXCEPT !.script = "backup", !.id = id, !.sel = sel,
                               !.incremental = incremental, !.rest = sel]
    /\ UNCHANGED <<mysql, store, markers, stopped, rebuilt>>

Doing(script, c, pcs) ==
    /\ run.script = script
    /\ c \in run.rest
    /\ \A d \in run.rest : Place[c] <= Place[d]
    /\ run.pc \in pcs

Over(c) == [run EXCEPT !.rest = @ \ {c}, !.pc = "begin"]
Completed(c) == [Over(c) EXCEPT !.saved = TRUE]    \* COMPONENTS_BACKED_UP
Failed(c) == [Over(c) EXCEPT !.errors = TRUE]      \* log_error, return 1

Goto(pc) == run' = [run EXCEPT !.pc = pc]

----------------------------------------------------------------------------
(* backup_mysql_full and backup_mysql_incremental *)

Incremental == run.incremental /\ position # None

WantsDump ==
    \/ Doing("backup", "mysql", {"fallback"})
    \/ Doing("backup", "mysql", {"begin"}) /\ ~Incremental

(* mysqldump --single-transaction --flush-logs --master-data=2: under one lock the
   log is rotated, the snapshot taken and the place in the log noted. *)
DumpBegins ==
    /\ WantsDump
    /\ binlog' = Append(binlog, <<>>)
    /\ run' = [run EXCEPT !.pc = "dump", !.rows = db, !.file = Len(binlog) + 1, !.owed = mail]
    /\ UNCHANGED <<db, store, backups, markers, stopped, count, rebuilt>>

DumpFails ==
    /\ WantsDump \/ Doing("backup", "mysql", {"dump"})
    /\ Fault
    /\ run' = Failed("mysql")
    /\ UNCHANGED <<mysql, store, backups, markers, stopped, rebuilt>>

DumpEnds ==
    /\ Doing("backup", "mysql", {"dump"})
    /\ backups' = [backups EXCEPT ![run.id].mysql = FullSql(run.rows)]
    /\ Goto("position")
    /\ UNCHANGED <<mysql, store, markers, stopped, count, rebuilt>>

(* The look at the head of the dump is a pipe, and under pipefail it is false when
   zcat still had something to write: then the position of an older dump stays. *)
KeepPosition ==
    /\ Doing("backup", "mysql", {"position"})
    /\ Goto("saved")
    /\ UNCHANGED <<mysql, store, backups, markers, stopped, count, rebuilt>>

(* Slip: the log file that is written now. *)
SavePositionOfNow ==
    /\ Doing("backup", "mysql", {"position"})
    /\ position' = [file |-> Len(binlog), rows |-> run.rows]
    /\ Goto("saved")
    /\ UNCHANGED <<mysql, store, backups, stamped, stopped, count, rebuilt>>

(* The place the dump itself names; its rows are history. *)
SavePosition ==
    /\ Doing("backup", "mysql", {"position"})
    /\ position' = [file |-> run.file, rows |-> run.rows]
    /\ Goto("saved")
    /\ UNCHANGED <<mysql, store, backups, stamped, stopped, count, rebuilt>>

DumpSaved ==
    /\ Doing("backup", "mysql", {"saved"})
    /\ run' = Completed("mysql")
    /\ UNCHANGED <<mysql, store, backups, markers, stopped, count, rebuilt>>

(* mysqlbinlog reads the one file the position names, to its end. *)
DumpIncrement ==
    /\ Doing("backup", "mysql", {"begin"}) /\ Incremental
    /\ backups' = [backups EXCEPT ![run.id].mysql =
                      IncrementalSql(binlog[position.file])]
    /\ run' = Completed("mysql")
    /\ UNCHANGED <<mysql, store, markers, stopped, count, rebuilt>>

DumpIncrementFails ==
    /\ Doing("backup", "mysql", {"begin"}) /\ Incremental
    /\ Fault
    /\ Goto("fallback")
    /\ UNCHANGED <<mysql, store, backups, markers, stopped, rebuilt>>

----------------------------------------------------------------------------
(* backup_mail *)

MailBegins ==
    /\ Doing("backup", "mail", {"begin"})
    /\ run' = [run EXCEPT !.pc = "tar", !.unread = Dir]
    /\ UNCHANGED <<mysql, store, backups, markers, stopped, count, rebuilt>>

NewMailOnly == run.incremental /\ stamped

Due(d) == {p \in mail : p[2] = d /\ (NewMailOnly => p[1] \in fresh)}

(* tar goes through the directories one after the other.  A file it may not read, or
   gets an error from, it leaves out, and goes on: what it says of it and its exit code
   are dropped (2>/dev/null || true). *)
ReadDir(d) ==
    /\ Doing("backup", "mail", {"tar"})
    /\ d \in run.unread
    /\ \E lost \in SUBSET Due(d) :
          /\ IF lost = {} THEN UNCHANGED count ELSE Fault
          /\ run' = [run EXCEPT !.unread = @ \ {d}, !.pairs = @ \cup (Due(d) \ lost),
                                !.owed = @ \ lost]
    /\ UNCHANGED <<mysql, store, backups, markers, stopped, rebuilt>>

MailEnds ==
    /\ Doing("backup", "mail", {"tar"})
    /\ run.unread = {}
    /\ backups' = [backups EXCEPT ![run.id].mail =
                      [kind |-> IF NewMailOnly THEN "incremental" ELSE "full",
                       pairs |-> run.pairs]]
    /\ Goto("stamp")
    /\ UNCHANGED <<mysql, store, markers, stopped, count, rebuilt>>

(* tar is killed, or the disk is full: || true *)
MailCutShort ==
    /\ Doing("backup", "mail", {"tar"})
    /\ Fault
    /\ \E file \in {CutMail, NoMail} : backups' = [backups EXCEPT ![run.id].mail = file]
    /\ Goto("stamp")
    /\ UNCHANGED <<mysql, store, markers, stopped, rebuilt>>

(* The time after the archive was made.  It has seconds: messages of that second
   are archived once more, which harms nobody and is left out. *)
StampMail ==
    /\ Doing("backup", "mail", {"stamp"})
    /\ stamped' = TRUE
    /\ fresh' = {}
    /\ run' = IF backups[run.id].mail = NoMail THEN Failed("mail") ELSE Completed("mail")
    /\ UNCHANGED <<mysql, mail, delivered, backups, position, stopped, count, rebuilt>>

----------------------------------------------------------------------------
(* backup_redis, backup_dkim, backup_ssl, backup_config *)

ArchiveOther(c) ==
    /\ Doing("backup", c, {"begin"})
    /\ backups' = [backups EXCEPT ![run.id].other[c] = "whole"]
    /\ run' = Completed(c)
    /\ UNCHANGED <<mysql, store, markers, stopped, count, rebuilt>>

(* An error of redis-cli and docker cp is noticed, one of tar is not. *)
ArchiveOtherFails(c) ==
    /\ Doing("backup", c, {"begin"})
    /\ Fault
    /\ \/ c = "redis" /\ run' = Failed(c) /\ UNCHANGED backups
       \/ /\ c = "trees"
          /\ run' = Completed(c)
          /\ \E file \in {"none", "cut"} :
                backups' = [backups EXCEPT ![run.id].other[c] = file]
    /\ UNCHANGED <<mysql, store, markers, stopped, rebuilt>>

(* The directories do not exist. *)
SkipTrees ==
    /\ Doing("backup", "trees", {"begin"})
    /\ run' = Over("trees")
    /\ UNCHANGED <<mysql, store, backups, markers, stopped, count, rebuilt>>

----------------------------------------------------------------------------
(* The end of a backup *)

AllDone(pc) == run.script = "backup" /\ run.rest = {} /\ run.pc = pc

(* Slip: only what was found is verified: nothing. *)
VerifyNothing ==
    /\ AllDone("begin")
    /\ Goto("manifest")
    /\ UNCHANGED <<mysql, store, backups, markers, stopped, count, rebuilt>>

(* verify_backups reads every dump and archive. *)
VerifyBackup ==
    /\ AllDone("begin")
    /\ run' = [run EXCEPT !.pc = "manifest", !.errors = @ \/ Unreadable(backups[run.id])]
    /\ UNCHANGED <<mysql, store, backups, markers, stopped, count, rebuilt>>

GenerateManifest ==
    /\ AllDone("manifest")
    /\ backups' = [backups EXCEPT
                     ![run.id].status = IF ~run.saved THEN "failed"
                                        ELSE IF run.errors THEN "partial" ELSE "success"]
    /\ Goto("cleanup")
    /\ UNCHANGED <<mysql, store, markers, stopped, count, rebuilt>>

Without(ids) == [id \in Id |-> IF id \in ids THEN NoBackup ELSE backups[id]]

(* cleanup_local_backups: backups that are older than BACKUP_RETENTION_DAYS by now,
   the oldest first; and the trap, which removes a backup of nothing. *)
CleanupBackups ==
    /\ AllDone("cleanup")
    /\ \E age \in 1..run.id :
          backups' = Without(1..(age - 1) \cup IF run.saved THEN {} ELSE {run.id})
    /\ run' = NoRun
    /\ UNCHANGED <<mysql, store, markers, stopped, count, rebuilt>>

(* What a script that is stopped while it writes leaves. *)
Writes == [mysql |-> {"begin", "fallback", "dump"}, redis |-> {"begin"},
           mail |-> {"tar"}, trees |-> {"begin"}]

LeftBehind(c) ==
    \/ c = "mysql" /\ backups' = [backups EXCEPT ![run.id].mysql = CutSql]
    \/ c = "mail" /\ backups' = [backups EXCEPT ![run.id].mail = CutMail]
    \/ c \in Other /\ backups' = [backups EXCEPT ![run.id].other[c] = "cut"]

(* A signal, a kill or a reboot.  The trap removes the directory when nothing is
   in COMPONENTS_BACKED_UP, if it runs and finds an exit code that is not 0. *)
InterruptBackup ==
    /\ run.script = "backup"
    /\ Fault
    /\ \/ UNCHANGED backups
       \/ \E c \in Component : Doing("backup", c, Writes[c]) /\ LeftBehind(c)
       \/ ~run.saved /\ backups' = Without({run.id})
    /\ run' = NoRun
    /\ UNCHANGED <<mysql, store, markers, stopped, rebuilt>>

----------------------------------------------------------------------------
(* restore.sh --date: of everything, of the database or of the mail *)

RestoreSelections == {{"mysql", "mail"}, {"mysql"}, {"mail"}}

(* stop_services: among the services that depend on MySQL it names some that the
   compose file does not define, and then none is stopped. *)
StartRestore(id, sel) ==
    /\ run = NoRun
    /\ backups[id].exists
    /\ Tally("restores", MaxRestores)
    /\ stopped' = (sel = {"mail"})
    /\ run' = [NoRun EXCEPT !.script = "restore", !.id = id, !.sel = sel, !.rest = sel]
    /\ UNCHANGED <<mysql, store, backups, markers, rebuilt>>

(* Nothing to restore, nothing readable, or the operator says no. *)
SkipRestore ==
    /\ \E c \in Component : Doing("restore", c, {"begin"}) /\ run' = Over(c)
    /\ UNCHANGED <<mysql, store, backups, markers, stopped, count, rebuilt>>

Sql == backups[run.id].mysql

(* Slip: the dump is made without DROP TABLE. *)
LoadIntoTables(tables) ==
    /\ db' = (Sql.rows \cap tables) \cup db
    /\ binlog' = Log(<<[ddl |-> TRUE, of |-> tables, before |-> {},
                        new |-> Sql.rows \cap tables]>>)
    /\ run' = Over("mysql")

(* A dump drops, creates and fills table after table; an error ends it between. *)
LoadTables(tables) ==
    /\ db' = (Sql.rows \cap tables) \cup (db \ tables)
    /\ binlog' = Log(<<[ddl |-> TRUE, of |-> tables, before |-> {},
                        new |-> Sql.rows \cap tables]>>)
    /\ run' = Over("mysql")

RestoreDump ==
    /\ Doing("restore", "mysql", {"begin"})
    /\ Sql.kind = "full"
    /\ LoadTables(Row)
    /\ rebuilt' = run.id
    /\ UNCHANGED <<store, backups, markers, stopped, count>>

RestoreDumpFails ==
    /\ Doing("restore", "mysql", {"begin"})
    /\ Sql.kind = "full"
    /\ Fault
    /\ \E tables \in SUBSET Row : LoadTables(tables)
    /\ rebuilt' = None
    /\ UNCHANGED <<store, backups, markers, stopped>>

ApplyIncrement ==
    LET result == Replay(db, Sql.events) IN
    /\ db' = result.rows
    /\ binlog' = Log(SubSeq(Sql.events, 1, result.done))

(* The dump that is found in the directory of an incremental backup is the
   increment itself. *)
RestoreIncrement ==
    /\ Doing("restore", "mysql", {"begin"})
    /\ Sql.kind = "incremental"
    /\ ApplyIncrement
    /\ IF Replay(db, Sql.events).done = Len(Sql.events)
       THEN Goto("binlogs")
       ELSE run' = Over("mysql")
    /\ rebuilt' = None
    /\ UNCHANGED <<store, backups, markers, stopped, count>>

(* "Also apply incremental binlogs if they exist" *)
RestoreBinlogs ==
    /\ Doing("restore", "mysql", {"binlogs"})
    /\ ApplyIncrement
    /\ run' = Over("mysql")
    /\ rebuilt' = None
    /\ UNCHANGED <<store, backups, markers, stopped, count>>

(* tar extracts over what is there. *)
RestoreMail ==
    /\ Doing("restore", "mail", {"begin"})
    /\ backups[run.id].mail.kind \in {"full", "incremental"}
    /\ mail' = mail \cup backups[run.id].mail.pairs
    /\ run' = Over("mail")
    /\ UNCHANGED <<mysql, fresh, delivered, backups, markers, stopped, count, rebuilt>>

(* start_services, unless --no-restart *)
EndRestore ==
    /\ run.script = "restore"
    /\ run.rest = {}
    /\ stopped' \in {FALSE, stopped}
    /\ run' = NoRun
    /\ UNCHANGED <<mysql, store, backups, markers, count, rebuilt>>

InterruptRestore ==
    /\ run.script = "restore"
    /\ Fault
    /\ run' = NoRun
    /\ UNCHANGED <<mysql, store, backups, markers, stopped, rebuilt>>

----------------------------------------------------------------------------
(* The services, MySQL, and time *)

CommitChange(r) ==
    LET before == db \cap {r}
        new == {r} \ db
    IN  /\ Tally("changes", MaxChanges)
        /\ db' = (db \ {r}) \cup new
        /\ binlog' = Log(<<[ddl |-> FALSE, of |-> {r}, before |-> before, new |-> new]>>)
        /\ rebuilt' = None
        /\ UNCHANGED <<store, backups, markers, stopped, run>>

(* A restart of MySQL, or a file that has grown to its limit. *)
RotateLog ==
    /\ Tally("rotations", MaxRotations)
    /\ binlog' = Append(binlog, <<>>)
    /\ UNCHANGED <<db, store, backups, markers, stopped, run, rebuilt>>

Deliver(m, d) ==
    /\ ~stopped
    /\ m \notin delivered
    /\ delivered' = delivered \cup {m}
    /\ mail' = mail \cup {<<m, d>>}
    /\ fresh' = fresh \cup {m}
    /\ UNCHANGED <<mysql, backups, markers, stopped, run, count, rebuilt>>

(* From new to cur, into another folder, or removed. *)
Disturb(p) ==
    /\ ~stopped
    /\ p \in mail
    /\ \/ mail' = mail \ {p}
       \/ \E d \in Dir \ {p[2]} : mail' = (mail \ {p}) \cup {<<p[1], d>>}
    /\ run' = Undisturbed({p})
    /\ UNCHANGED <<mysql, fresh, delivered, backups, markers, stopped, count, rebuilt>>

StartServices ==
    /\ run = NoRun
    /\ stopped
    /\ stopped' = FALSE
    /\ UNCHANGED <<mysql, store, backups, markers, run, count, rebuilt>>

Next ==
    \/ \E sel \in Selections, incremental \in BOOLEAN : StartBackup(sel, incremental)
    \/ DumpBegins \/ DumpFails \/ DumpEnds
    \/ SavePosition \/ KeepPosition \/ DumpSaved
    \/ DumpIncrement \/ DumpIncrementFails
    \/ MailBegins \/ MailEnds \/ MailCutShort \/ StampMail
    \/ \E d \in Dir : ReadDir(d)
    \/ \E c \in Other : ArchiveOther(c) \/ ArchiveOtherFails(c)
    \/ SkipTrees
    \/ VerifyBackup \/ GenerateManifest \/ CleanupBackups \/ InterruptBackup
    \/ \E id \in Id, sel \in RestoreSelections : StartRestore(id, sel)
    \/ SkipRestore \/ RestoreDump \/ RestoreDumpFails \/ RestoreIncrement
    \/ RestoreBinlogs \/ RestoreMail \/ EndRestore \/ InterruptRestore
    \/ \E r \in Row : CommitChange(r)
    \/ RotateLog \/ StartServices
    \/ \E m \in Msg, d \in Dir : Deliver(m, d) \/ Disturb(<<m, d>>)

Spec == Init /\ [][Next]_vars

----------------------------------------------------------------------------
(* Properties *)

SqlType(sql) ==
    CASE sql.kind = "full" -> sql.rows \subseteq Row
      [] sql.kind = "incremental" -> sql.events \in Seq(Event)
      [] OTHER -> sql \in {NoSql, CutSql}

BackupType(b) ==
    /\ b.exists
    /\ SqlType(b.mysql)
    /\ b.mail.kind \in {"none", "cut", "full", "incremental"}
    /\ b.mail.pairs \subseteq Msg \X Dir
    /\ b.other \in [Other -> {"none", "whole", "cut"}]
    /\ b.status \in {"none", "success", "partial", "failed"}

(* Every variable keeps its type, and a backup holds what its kind of file may. *)
TypeOK ==
    /\ db \subseteq Row
    /\ binlog \in Seq(Seq(Event)) /\ binlog # <<>>
    /\ mail \subseteq delivered \X Dir
    /\ fresh \subseteq delivered /\ delivered \subseteq Msg
    /\ DOMAIN backups = Id
    /\ \A id \in Id : backups[id] = NoBackup \/ BackupType(backups[id])
    /\ position # None => position.file \in 1..Len(binlog) /\ position.rows \subseteq Row
    /\ stamped \in BOOLEAN /\ stopped \in BOOLEAN
    /\ run.script \in {"none", "backup", "restore"}
    /\ run # NoRun => (run.id \in Id /\ backups[run.id].exists)
    /\ rebuilt \in Id \cup {None}

(* The position file and the dump it was saved with belong together: whatever
   failed, was interrupted, restored or rotated since, that dump and the binary log
   from that position on give the database of today.  This is what every later
   incremental backup relies on (backup_mysql_full). *)
DumpAndLogGiveToday ==
    position # None =>
        ReplayLog(position.rows, position.file) = [rows |-> db, whole |-> TRUE]

(* A full backup is of one piece: every message that was in the store when the
   database was dumped, was not moved or deleted before tar had it, and was not one
   tar could not read, is in its archive of the mail (the order of the components in
   main).  What tar leaves out nobody is told: such a backup is a success. *)
MailOfTheDump ==
    run.script = "backup" =>
        LET b == backups[run.id] IN
        b.mysql.kind = "full" /\ b.mail.kind = "full" => run.owed \subseteq b.mail.pairs

(* Whatever the manifest calls a success can be read, although tar's errors are
   ignored, and has the database, Redis and the mail, as far as they were selected
   (generate_manifest after verify_backups). *)
SuccessIsReadable ==
    \A id \in Id : (backups[id].exists /\ backups[id].status = "success") =>
        LET b == backups[id] IN
        /\ ~Unreadable(b)
        /\ (run.script = "backup" /\ run.id = id) =>
              \A c \in run.sel \ {"trees"} : State(b, c) # "none"

(* Once a full backup is restored and until the next change, the database is that of
   its dump: whatever was added, removed or half restored since is gone, on every
   way through the script that ends without an error in the database (restore_mysql). *)
FullRebuilds ==
    (rebuilt # None /\ backups[rebuilt].exists /\ backups[rebuilt].mysql.kind = "full")
        => db = backups[rebuilt].mysql.rows
=============================================================================
