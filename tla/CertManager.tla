------------------------------ MODULE CertManager ------------------------------
(* mailer/cert_manager/scripts/cert_manager.py: a loop that looks at the
   certificate files of the active domains in a volume shared with Postfix and
   Dovecot, has parallel workers order what is missing or about to expire, copies
   it into the volume, makes the other domains of the same base domain use it
   through symbolic links, and rebuilds the two SNI maps.

   A certificate is the name it was ordered for and a serial, and so is its key.
   Of the table ssl_certificates the model keeps what the loop reads back, which
   domains have a row written in the last week.  The columns the statements name are
   those of the table setup_certificate_tables makes if there is none; the table of
   the schema (sql/001, alembic's 001) has neither domain nor updated_at, so that on
   it each statement fails, every time.  docker-compose makes the schema before MySQL
   takes connections, so that its table is the deployed one.  What is left out: the subdomains
   and the choice of ACME account of an order, the counters of the accounts and the
   webhooks, which the loop only writes, {domain}_fullchain.crt and wildcard.key,
   which nothing reads back, and the SIGHUP to Postfix and Dovecot.

   An operator whose comment begins with "Slip:" is a faulty variant of the
   definition after it, and no part of the model. *)
EXTENDS Naturals, Sequences, FiniteSets

CONSTANTS
    Domain,
    Base,                  \* the last two labels of a domain
    WildcardDomain,        \* WILDCARD_DOMAIN, the name of the server certificate
    WILDCARD,              \* are WILDCARD_DOMAIN and DNS_PROVIDER set?
    CERT_WORKER_THREADS,
    CERTS_PER_WEEK,        \* the 40 of _check_rate_limits
    MaxOrders,             \* bound: certificates issued for one name
    MaxEdits,              \* bound: changes to the table of domains
    MaxFaults              \* bound: crashes, failed writes and failed queries

ASSUME NameAssumption ==
    /\ IsFiniteSet(Domain)
    /\ DOMAIN Base = Domain
    /\ WildcardDomain \notin Domain
    /\ WILDCARD \in BOOLEAN
ASSUME NumberAssumption ==
    /\ CERT_WORKER_THREADS \in Nat \ {0}
    /\ CERTS_PER_WEEK \in Nat \ {0}
    /\ MaxOrders \in Nat \ {0}
    /\ MaxEdits \in Nat
    /\ MaxFaults \in Nat

Name == Domain \cup {WildcardDomain}
Ext == {"crt", "key"}

VARIABLES
    rows,      \* the active domains, in the order MySQL returns them
    edits,
    live,      \* serial in /etc/letsencrypt/live of a name; 0: none yet
    ownTable,  \* is ssl_certificates the table of setup_certificate_tables?
    old,       \* serials up to this one have 30 days left or less
    files,     \* {domain}.crt and {domain}.key in the shared volume
    server,    \* server.crt, server.key and wildcard.crt there
    maps,      \* the domains listed in postfix_sni.map and dovecot_sni.conf
    phase,     \* where the main thread is
    job,       \* the job of the group a domain is the first of
    booked,    \* ssl_certificates: the domains whose row is of this week
    ordered,   \* history: the domains a certificate was ordered for this week
    faults

books == <<booked, ordered>>
world == <<rows, edits, old, ownTable>>
volume == <<files, server, maps>>
vars == <<world, books, live, volume, phase, job, faults>>

----------------------------------------------------------------------------
(* Files *)

NoFile == [kind |-> "none"]
Torn == [kind |-> "torn"]                \* truncated by an interrupted copy
Copy(n, s) == [kind |-> "copy", of |-> n, serial |-> s]
Link(d) == [kind |-> "link", to |-> d]

File(names) == {NoFile, Torn} \cup [kind : {"copy"}, of : names, serial : 1..MaxOrders]
Entry == File(Domain) \cup [kind : {"link"}, to : Domain]

(* The name reached by following links from d; no path is longer than Domain. *)
Reached(f, d) ==
    LET at[n \in 0..Cardinality(Domain)] ==
            IF n = 0 THEN d
            ELSE IF f[at[n - 1]].kind = "link" THEN f[at[n - 1]].to ELSE at[n - 1]
    IN  at[Cardinality(Domain)]

Content(f, d) == f[Reached(f, d)]

(* os.path.exists follows links. *)
Exists(f, d) == Content(f, d).kind \in {"copy", "torn"}

(* shutil.copy2 follows a link at the destination, and creates what it points to. *)
Written(f, d, c) == [f EXCEPT ![Reached(f, d)] = c]

Paired(d) ==
    /\ Exists(files.crt, d)
    /\ Content(files.crt, d) = Content(files.key, d)

----------------------------------------------------------------------------
(* When a certificate is due *)

(* Missing, not parsed by openssl, or within CERT_RENEWAL_DAYS. *)
DueFile(c) == ~(c.kind = "copy" /\ c.serial > old[c.of])

(* Slip: server.crt is looked at first. *)
NeedsRenewalOfServer(d) ==
    DueFile(IF server.crt # NoFile THEN server.crt ELSE Content(files.crt, d))

(* A domain without a file of its own is judged by server.crt, if there is one. *)
NeedsRenewal(d) ==
    DueFile(IF Exists(files.crt, d) THEN Content(files.crt, d) ELSE server.crt)

InSeq(d, s) == \E i \in 1..Len(s) : s[i] = d

(* The active domains of the base of d, in the order of rows. *)
Group(d) ==
    LET upto[n \in 0..Len(rows)] ==
            IF n = 0 THEN <<>>
            ELSE IF Base[rows[n]] = Base[d] THEN Append(upto[n - 1], rows[n])
                 ELSE upto[n - 1]
    IN  upto[Len(rows)]

IsPrimary(d) == InSeq(d, rows) /\ Head(Group(d)) = d

IsDue(d) == \E i \in 1..Len(Group(d)) : NeedsRenewal(Group(d)[i])

----------------------------------------------------------------------------
(* The main thread *)

NoJob == [pc |-> "none", group |-> <<>>, i |-> 1]
Idle == [d \in Domain |-> NoJob]

Init ==
    /\ rows \in {<<>>} \cup {<<d>> : d \in Domain}
    /\ edits = 0
    /\ live = [n \in Name |-> 0]
    /\ old = [n \in Name |-> 0]
    /\ files = [e \in Ext |-> [d \in Domain |-> NoFile]]
    /\ server = [crt |-> NoFile, key |-> NoFile, mark |-> NoFile]
    /\ maps = [postfix |-> {}, dovecot |-> {}]
    /\ phase = "process"
    /\ job = Idle
    /\ ownTable \in BOOLEAN
    /\ booked = {} /\ ordered = {}
    /\ faults = 0

(* On the schema's table the count fails, and a count that fails is none. *)
WeekIsFull == ownTable /\ Cardinality(booked) >= CERTS_PER_WEEK

(* The week is full, or the database is down, or does not give the domains. *)
PassRefused ==
    /\ phase = "process"
    /\ phase' = "sleep"
    /\ job' = Idle
    /\ UNCHANGED <<world, books, live, volume, faults>>

(* When the rows cannot be counted the pass goes on. *)
StartPass ==
    /\ phase = "process"
    /\ IF WeekIsFull
       THEN faults < MaxFaults /\ faults' = faults + 1
       ELSE UNCHANGED faults
    /\ job' = [d \in Domain |->
                 IF IsPrimary(d) /\ IsDue(d)
                 THEN [pc |-> "queued", group |-> Group(d), i |-> 1]
                 ELSE NoJob]
    /\ phase' = IF job' = Idle THEN "sleep" ELSE "issue"
    /\ UNCHANGED <<world, books, live, volume>>

WorkersDone ==
    /\ phase = "issue"
    /\ \A p \in Domain : job[p].pc \in {"none", "done", "failed"}
    /\ phase' = IF \E p \in Domain : job[p].pc = "done" THEN "postfix_map" ELSE "sleep"
    /\ UNCHANGED <<world, books, live, volume, job, faults>>

(* Slip: links are not certificates. *)
ListedRegular == {d \in Domain : files.crt[d].kind = "copy" /\ Exists(files.key, d)}

(* The directory lists a link that leads nowhere; exists() does not see it. *)
Listed == {d \in Domain : files.crt[d] # NoFile /\ Exists(files.key, d)}

WritePostfixMap ==
    /\ phase = "postfix_map"
    /\ IF Listed = {}
       THEN phase' = "sleep" /\ UNCHANGED maps
       ELSE phase' = "dovecot_map" /\ maps' = [maps EXCEPT !.postfix = Listed]
    /\ UNCHANGED <<world, books, live, files, server, job, faults>>

WriteDovecotMap ==
    /\ phase = "dovecot_map"
    /\ phase' = "sleep"
    /\ maps' = [maps EXCEPT !.dovecot = Listed]
    /\ UNCHANGED <<world, books, live, files, server, job, faults>>

(* The file is left alone, or truncated. *)
MapWriteFails ==
    /\ phase \in {"postfix_map", "dovecot_map"}
    /\ faults < MaxFaults
    /\ faults' = faults + 1
    /\ phase' = "sleep"
    /\ \/ UNCHANGED maps
       \/ maps' = [maps EXCEPT ![IF phase = "postfix_map" THEN "postfix" ELSE "dovecot"] = {}]
    /\ UNCHANGED <<world, books, live, files, server, job>>

(* What certbot certonly does: keep a certificate that is not due. *)
Issue(n) ==
    live' = [live EXCEPT ![n] = IF @ <= old[n] THEN @ + 1 ELSE @]

(* The next round: the wildcard certificate is valid, unwanted, or not obtained. *)
Wake ==
    /\ phase = "sleep"
    /\ phase' = "process"
    /\ UNCHANGED <<world, books, live, volume, job, faults>>

WildcardIssued ==
    /\ phase = "sleep"
    /\ WILDCARD
    /\ DueFile(server.mark)
    /\ Issue(WildcardDomain)
    /\ phase' = "server_crt"
    /\ UNCHANGED <<world, books, volume, job, faults>>

(* Slip: wildcard.crt is written first. *)
CopyOfMarkFirst == [server_crt |-> "mark", server_key |-> "crt", wildcard_crt |-> "key"]

(* The three copies, and the phase after each. *)
CopyOf == [server_crt |-> "crt", server_key |-> "key", wildcard_crt |-> "mark"]
NextCopy == [server_crt |-> "server_key", server_key |-> "wildcard_crt",
             wildcard_crt |-> "process"]

ServerCopy(c) == server' = [server EXCEPT ![CopyOf[phase]] = c]

CopyServerFile ==
    /\ phase \in DOMAIN CopyOf
    /\ ServerCopy(Copy(WildcardDomain, live[WildcardDomain]))
    /\ phase' = NextCopy[phase]
    /\ UNCHANGED <<world, books, live, files, maps, job, faults>>

CopyServerFileFails ==
    /\ phase \in DOMAIN CopyOf
    /\ faults < MaxFaults
    /\ faults' = faults + 1
    /\ \/ UNCHANGED server
       \/ ServerCopy(Torn)
    /\ phase' = "process"
    /\ UNCHANGED <<world, books, live, files, maps, job>>

----------------------------------------------------------------------------
(* A worker, with the group whose first domain is p *)

Waiting == {"none", "queued", "done", "failed"}
Running == {p \in Domain : job[p].pc \notin Waiting}

Goto(p, pc) == job' = [job EXCEPT ![p].pc = pc]

TakeJob(p) ==
    /\ job[p].pc = "queued"
    /\ Cardinality(Running) < CERT_WORKER_THREADS
    /\ Goto(p, "certbot")
    /\ UNCHANGED <<world, books, live, volume, phase, faults>>

CertbotSucceeds(p) ==
    /\ job[p].pc = "certbot"
    /\ Issue(p)
    /\ ordered' = IF live' = live THEN ordered ELSE ordered \cup {p}
    /\ Goto(p, "copy_crt")
    /\ UNCHANGED <<world, booked, volume, phase, faults>>

(* update_certificate_database: the row of d is written, or nothing is; the schema's
   table takes none. *)
Book(d) ==
    \/ ownTable /\ booked' = booked \cup {d} /\ UNCHANGED faults
    \/ ~ownTable /\ UNCHANGED <<booked, faults>>
    \/ faults < MaxFaults /\ faults' = faults + 1 /\ UNCHANGED booked

(* An error, or no answer within 300 s. *)
CertbotFails(p) ==
    /\ job[p].pc = "certbot"
    /\ ordered' = ordered \cup {p}
    /\ Book(p)
    /\ Goto(p, "failed")
    /\ UNCHANGED <<world, live, volume, phase>>

Target == [copy_crt |-> "crt", copy_key |-> "key"]

(* Slip: a key that is there is kept. *)
DeployKeepingKey(p, c) ==
    files' = IF job[p].pc = "copy_key" /\ Exists(files.key, p)
             THEN files
             ELSE [files EXCEPT ![Target[job[p].pc]] = Written(@, p, c)]

Deploy(p, c) == files' = [files EXCEPT ![Target[job[p].pc]] = Written(@, p, c)]

(* The domain of the group that is deployed to or linked. *)
Linked(p) == job[p].group[job[p].i]

(* After the deployment, and after each link: the next domain of the group. *)
LinkNext(p) ==
    LET j == job[p]
        pc == IF j.i < Len(j.group) THEN "unlink_crt" ELSE "done"
    IN  job' = [job EXCEPT ![p] = [pc |-> pc, group |-> j.group, i |-> j.i + 1]]

CopyFile(p) ==
    /\ job[p].pc \in DOMAIN Target
    /\ Deploy(p, Copy(p, live[p]))
    /\ IF job[p].pc = "copy_crt"
       THEN Goto(p, "copy_key") /\ UNCHANGED <<booked, faults>>
       ELSE LinkNext(p) /\ Book(p)
    /\ UNCHANGED <<world, ordered, live, server, maps, phase>>

(* _deploy_certificate logs the error; its caller takes that for success. *)
CopyFileFails(p) ==
    /\ job[p].pc \in DOMAIN Target
    /\ faults < MaxFaults
    /\ faults' = faults + 1
    /\ \/ UNCHANGED files
       \/ Deploy(p, Torn)
    /\ LinkNext(p)
    /\ booked' = IF ownTable THEN booked \cup {p} ELSE booked
    /\ UNCHANGED <<world, ordered, live, server, maps, phase>>

(* _link_certificate, a file at a time *)

Unlink(p, e) ==
    LET d == Linked(p) IN
    /\ job[p].pc = IF e = "crt" THEN "unlink_crt" ELSE "unlink_key"
    /\ files' = IF Exists(files[e], d) THEN [files EXCEPT ![e][d] = NoFile] ELSE files
    /\ Goto(p, IF e = "crt" THEN "symlink_crt" ELSE "symlink_key")
    /\ UNCHANGED <<world, books, live, server, maps, phase, faults>>

(* Over a link that leads nowhere os.symlink raises, which ends this domain. *)
Symlink(p, e) ==
    LET d == Linked(p)
        made == Exists(files[e], p) /\ files[e][d] = NoFile
        raises == Exists(files[e], p) /\ files[e][d] # NoFile
    IN
    /\ job[p].pc = IF e = "crt" THEN "symlink_crt" ELSE "symlink_key"
    /\ files' = IF made THEN [files EXCEPT ![e][d] = Link(p)] ELSE files
    /\ IF e = "key" \/ raises THEN LinkNext(p) ELSE Goto(p, "unlink_key")
    /\ IF e = "key" /\ ~raises THEN Book(d) ELSE UNCHANGED <<booked, faults>>
    /\ UNCHANGED <<world, ordered, live, server, maps, phase>>

----------------------------------------------------------------------------
(* The world around *)

(* supervisord starts the process again; a copy under way may be cut short. *)
Crash ==
    /\ faults < MaxFaults
    /\ faults' = faults + 1
    /\ \E cut \in SUBSET {p \in Domain : job[p].pc \in DOMAIN Target} :
          files' = [e \in Ext |-> [n \in Domain |->
                      IF \E p \in cut : Target[job[p].pc] = e /\ Reached(files[e], p) = n
                      THEN Torn ELSE files[e][n]]]
    /\ \/ UNCHANGED server
       \/ phase \in DOMAIN CopyOf /\ ServerCopy(Torn)
    /\ phase' = "process"
    /\ job' = Idle
    /\ UNCHANGED <<world, books, live, maps>>

(* A week after d was ordered, linked or given up last, between two passes: in one
   the row is not looked at. *)
WeekPasses(d) ==
    /\ phase \in {"process", "sleep"}
    /\ d \in booked \cup ordered
    /\ booked' = booked \ {d}
    /\ ordered' = ordered \ {d}
    /\ UNCHANGED <<world, live, volume, phase, job, faults>>

(* Sixty days later. *)
Expire(n) ==
    /\ old[n] < live[n]
    /\ n \notin ordered
    /\ live[n] < MaxOrders
    /\ old' = [old EXCEPT ![n] = live[n]]
    /\ UNCHANGED <<rows, edits, ownTable, books, live, volume, phase, job, faults>>

(* A domain is added, or deactivated, or deleted and added again: the place of
   its row among the others is MySQL's to choose. *)
Activate(d) ==
    /\ edits < MaxEdits
    /\ edits' = edits + 1
    /\ ~InSeq(d, rows)
    /\ \E i \in 0..Len(rows) :
          rows' = SubSeq(rows, 1, i) \o <<d>> \o SubSeq(rows, i + 1, Len(rows))
    /\ UNCHANGED <<live, old, ownTable, books, volume, phase, job, faults>>

Deactivate(d) ==
    /\ edits < MaxEdits
    /\ edits' = edits + 1
    /\ \E i \in 1..Len(rows) :
          /\ rows[i] = d
          /\ rows' = SubSeq(rows, 1, i - 1) \o SubSeq(rows, i + 1, Len(rows))
    /\ UNCHANGED <<live, old, ownTable, books, volume, phase, job, faults>>

Main ==
    \/ WorkersDone \/ WritePostfixMap \/ WriteDovecotMap \/ CopyServerFile \/ Wake

Work(p) ==
    \/ TakeJob(p) \/ CopyFile(p)
    \/ CertbotSucceeds(p) \/ CertbotFails(p)
    \/ \E e \in Ext : Unlink(p, e) \/ Symlink(p, e)

Next ==
    \/ Main \/ StartPass \/ PassRefused \/ MapWriteFails
    \/ WildcardIssued \/ CopyServerFileFails
    \/ \E p \in Domain : Work(p) \/ CopyFileFails(p)
    \/ Crash
    \/ \E n \in Name : Expire(n)
    \/ \E d \in Domain : WeekPasses(d) \/ Activate(d) \/ Deactivate(d)

Spec == Init /\ [][Next]_vars

(* Threads run and time passes.  The database is not down for ever, and the
   authority issues a certificate that is ordered again and again. *)
FairSpec ==
    /\ Spec
    /\ WF_vars(Main)
    /\ \A d \in Domain : WF_vars(WeekPasses(d))
    /\ SF_vars(StartPass)
    /\ SF_vars(WildcardIssued)
    /\ \A p \in Domain : WF_vars(Work(p)) /\ SF_vars(CertbotSucceeds(p))

----------------------------------------------------------------------------
(* Properties *)

JobPc == Waiting \cup DOMAIN Target \cup
         {"certbot", "unlink_crt", "symlink_crt", "unlink_key", "symlink_key"}

Phase == {"process", "issue", "postfix_map", "dovecot_map", "sleep"} \cup DOMAIN CopyOf

(* Every variable keeps its type: every file of a domain is missing, truncated, a
   copy of a certificate of its base domain or a link within it, the server's files
   hold the wildcard certificate only, and no more jobs run than there are threads
   (CERT_WORKER_THREADS in process_domains). *)
TypeOK ==
    /\ rows \in Seq(Domain) /\ \A i, j \in 1..Len(rows) : rows[i] = rows[j] => i = j
    /\ edits \in 0..MaxEdits
    /\ live \in [Name -> 0..MaxOrders]
    /\ old \in [Name -> 0..MaxOrders]
    /\ files \in [Ext -> [Domain -> Entry]]
    /\ \A e \in Ext, d \in Domain :
          /\ files[e][d].kind = "copy" => Base[files[e][d].of] = Base[d]
          /\ files[e][d].kind = "link" => Base[files[e][d].to] = Base[d]
    /\ server \in [crt : File({WildcardDomain}), key : File({WildcardDomain}),
                   mark : File({WildcardDomain})]
    /\ maps \in [postfix : SUBSET Domain, dovecot : SUBSET Domain]
    /\ phase \in Phase
    /\ job \in [Domain -> [pc : JobPc, group : Seq(Domain), i : Nat]]
    /\ Cardinality(Running) <= CERT_WORKER_THREADS
    /\ ownTable \in BOOLEAN
    /\ booked \subseteq Domain /\ ordered \subseteq Domain
    /\ faults \in 0..MaxFaults

Quiet(d) == \A p \in Domain : Base[p] = Base[d] => job[p].pc \in Waiting

(* Without crashes and failed writes, the certificate and the key a domain has when
   no worker is on its group are of one order, links or not (_deploy_certificate
   and _link_certificate treat the two files one after the other). *)
PairsMatch ==
    faults = 0 =>
        \A d \in Domain : Quiet(d) => Content(files.crt, d) = Content(files.key, d)

(* Without crashes and failed writes, between two passes every domain that has a
   pair is in both SNI maps, although a pass in which nothing succeeded rebuilds
   neither (process_domains, _update_sni_maps). *)
MapsListEveryPair ==
    faults = 0 /\ phase \in {"sleep", "process"} =>
        \A d \in Domain : Paired(d) => d \in maps.postfix /\ d \in maps.dovecot

(* A certificate that is about to expire, or damaged, is replaced, whichever domain
   of its group it was ordered for, and whatever crashes on the way. *)
DueIsRenewed ==
    \A d \in Domain :
        InSeq(d, rows) /\ Exists(files.crt, d) /\ DueFile(Content(files.crt, d))
            ~> ~InSeq(d, rows) \/ ~Exists(files.crt, d) \/ ~DueFile(Content(files.crt, d))

(* server.crt and server.key do not stay of different orders: wildcard.crt, by which
   obtain_wildcard_certificate decides, is written after both. *)
ServerPairHeals == server.crt # server.key ~> server.crt = server.key
=============================================================================
