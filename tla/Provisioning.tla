----------------------------- MODULE Provisioning -----------------------------
(* The provisioning routes of the API (worker/api/routes): organizations,
   domains, email accounts, aliases and webhook endpoints, over the tables they
   share.  The handlers are coroutines of one uvicorn process and none of them
   awaits between its first query and its last, so a request is one step.

   The tables come in one of two shapes.  "ulid": docker-compose ran every file
   of database/migrations/sql, the last of which (009_ulid_safe.sql) makes the
   ids CHAR(26) without a default and puts back five foreign keys, with ON DELETE
   CASCADE.  "integer": alembic made them (001_initial_schema.py), with ids that
   count and foreign keys that restrict.  A row inserted by raw SQL names no id
   and needs the second, a row inserted by the ORM brings a ULID and needs the
   first; organizations bring their own id and work with both.

   A subscriber to the events of webhook_dispatcher keeps a copy of the
   organizations and domains: mirror.  Nothing sends an event again, so once one
   is lost between the commit and dispatch_event the copy is of no use. *)
EXTENDS Naturals, FiniteSets, Functions

CONSTANTS
    Org, Domain, Account, Source, Target, Ext, Endpoint,
    None,               \* no external id
    AccountDomain,      \* the domain of each address
    SourceDomain,       \* the domain of the source address of an alias
    EndpointOrg,        \* the organization of each webhook endpoint
    Contains,           \* pairs <<target, account>>: target LIKE '%account%',
                        \* and <<source, account>>: the alias has its address
    MaxTotal            \* bound: how far total_email_accounts is followed

ASSUME ProvisioningAssumption ==
    /\ AccountDomain \in [Account -> Domain]
    /\ SourceDomain \in [Source -> Domain]
    /\ EndpointOrg \in [Endpoint -> Org]
    /\ None \notin Ext
    /\ MaxTotal \in Nat
    /\ Org \cap Domain = {}
    /\ IsFiniteSet(Account)

VARIABLES
    schema,
    orgs,       \* the external id of each organization there is
    domains,    \* the row of each domain there is
    accounts,   \* the row of each email account there is
    aliases,
    endpoints,
    mirror,     \* organizations and domains according to the events, or Stale
    answer      \* to the last request, or to its last item

tables == <<orgs, domains, accounts, aliases, endpoints>>
provVars == <<schema, tables, mirror, answer>>

(* total: the column total_email_accounts. *)
DomainRow == [org: Org, ext: Ext \cup {None}, active: BOOLEAN, total: 0..MaxTotal]
AccountRow == [org: Org, vacation: BOOLEAN]
Alias == [source: Source, target: Target, org: Org]

Stale == {None}

Rows(Key, Row) == UNION {[K -> Row] : K \in SUBSET Key}
Empty == [k \in {} |-> None]
Put(table, key, row) == [k \in DOMAIN table \cup {key} |-> IF k = key THEN row ELSE table[k]]
Drop(table, key) == Restrict(table, DOMAIN table \ {key})

AccountsOf(d) == {a \in DOMAIN accounts : AccountDomain[a] = d}
AliasesOf(d) == {x \in aliases : SourceDomain[x.source] = d}
Live(d) == d \in DOMAIN domains /\ domains[d].active
Taken(table, ext, but) == \E k \in DOMAIN table \ {but} : table[k] = ext

(* Alembic's tables start empty or with what setup-first-user.sh inserts; the
   statements of that script fail on the others. *)
Init ==
    /\ schema \in {"ulid", "integer"}
    /\ \/ /\ orgs = Empty /\ domains = Empty /\ accounts = Empty
       \/ /\ schema = "integer"
          /\ \E o \in Org, a \in Account :
               /\ orgs = Put(Empty, o, None)
               /\ domains = Put(Empty, AccountDomain[a],
                     [org |-> o, ext |-> None, active |-> TRUE, total |-> 0])
               /\ accounts = Put(Empty, a, [org |-> o, vacation |-> FALSE])
    /\ aliases = {}
    /\ endpoints \in SUBSET {e \in Endpoint : EndpointOrg[e] \in DOMAIN orgs}
    /\ mirror = DOMAIN orgs \cup DOMAIN domains
    /\ answer = "ok"

-------------------------------------------------------------------------------
(* Answers.  A request that is refused (400, 404, 409) or fails (500) has its
   session rolled back or closed without a commit. *)

Stays == UNCHANGED <<schema, tables, mirror>>
Refused == answer' = "error" /\ Stays
Failed == Refused
Served == answer' = "ok" /\ Stays

(* Slip: the event of a deletion reads like that of an update. *)
HeardPresence(x, there) ==
    mirror' = IF mirror = Stale THEN Stale ELSE mirror \cup {x}

(* What is left of a request that has committed: its event tells that x is there
   or is not there any more; or the process is killed before it is sent. *)
Heard(x, there) ==
    mirror' = IF mirror = Stale THEN Stale
              ELSE IF there THEN mirror \cup {x} ELSE mirror \ {x}
Report(x, there) ==
    \/ answer' = "ok" /\ Heard(x, there)
    \/ answer' = "error" /\ mirror' = Stale

(* The decorator of every route looks the API key up first: it is missing, unknown,
   inactive or not allowed to write, or cannot be looked up. *)
BadKey == Refused
Unauthorized == BadKey

(* A body that does not pass the validators of its route is answered before the
   first query: a name or an address that is missing or not well formed, a password
   that is weak, a limit that is negative, a status that is none. *)
InvalidOrganization == Refused
InvalidDomain == Refused
InvalidPassword == Refused
InvalidAccount == InvalidPassword \/ Refused
InvalidAlias == Refused

-------------------------------------------------------------------------------
(* organizations.py *)

CreateOrganization(o, ext) ==
    \/ /\ o \in DOMAIN orgs \/ (ext # None /\ Taken(orgs, ext, o))
       /\ Refused
    \/ /\ o \notin DOMAIN orgs
       /\ ext # None => ~Taken(orgs, ext, o)
       /\ orgs' = Put(orgs, o, ext)
       /\ Report(o, TRUE)
       /\ UNCHANGED <<schema, domains, accounts, aliases, endpoints>>

(* filter_by(external_id=None) is IS NULL: an organization cannot give up its
   external id while another has none. *)
UpdateOrganization(o, ext) ==
    \/ /\ o \in DOMAIN orgs => ext # orgs[o] /\ Taken(orgs, ext, o)
       /\ Refused
    \/ /\ o \in DOMAIN orgs
       /\ ext # orgs[o] => ~Taken(orgs, ext, o)
       /\ orgs' = [orgs EXCEPT ![o] = ext]
       /\ answer' = "ok"
       /\ UNCHANGED <<schema, domains, accounts, aliases, endpoints, mirror>>

OwnsSomething(o) ==
    \/ \E d \in DOMAIN domains : domains[d].org = o
    \/ \E a \in DOMAIN accounts : accounts[a].org = o

(* Slip: no constraint on organization_id. *)
NotReferenced(o) == FALSE

(* A restricting foreign key; 009_ulid_safe.sql does not put these back. *)
Referenced(o) ==
    /\ schema = "integer"
    /\ \/ \E x \in aliases : x.org = o
       \/ \E e \in endpoints : EndpointOrg[e] = o

DeleteOrganization(o) ==
    \/ /\ o \notin DOMAIN orgs \/ OwnsSomething(o)
       /\ Refused
    \/ /\ o \in DOMAIN orgs /\ ~OwnsSomething(o)
       /\ Referenced(o)
       /\ Failed
    \/ /\ o \in DOMAIN orgs /\ ~OwnsSomething(o)
       /\ ~Referenced(o)
       /\ orgs' = Drop(orgs, o)
       /\ Report(o, FALSE)
       /\ UNCHANGED <<schema, domains, accounts, aliases, endpoints>>

(* No row of email_accounts can be loaded as an entity: status holds the value
   ("active") where the ORM's type expects the name ("ACTIVE"). *)
Unreadable(o) == \E a \in DOMAIN accounts : accounts[a].org = o

(* GET / and GET /{id} count the accounts or load them. *)
ReadOrganizations == Served
ReadOrganization(o) ==
    \/ o \notin DOMAIN orgs /\ Refused
    \/ o \in DOMAIN orgs /\ Unreadable(o) /\ Failed
    \/ o \in DOMAIN orgs /\ ~Unreadable(o) /\ Served
OrganizationByExternalId(ext) ==
    \/ ~Taken(orgs, ext, None) /\ Refused
    \/ \E o \in DOMAIN orgs : orgs[o] = ext /\ ReadOrganization(o)
OrganizationQuotas(o) == ReadOrganization(o)
UpdateOrganizationQuotas(o) ==
    \/ o \notin DOMAIN orgs /\ Refused
    \/ o \in DOMAIN orgs /\ Served

-------------------------------------------------------------------------------
(* domains.py *)

DomainExtTaken(ext, but) == \E d \in DOMAIN domains \ {but} : domains[d].ext = ext

NewDomain(o, ext) == [org |-> o, ext |-> ext, active |-> TRUE, total |-> 0]

(* The DKIM key is made in a transaction of its own.  When making it fails the
   domain goes without; when storing it fails the session is left to be rolled
   back, so that the next look at the domain raises: as with a crash, the domain
   is there and nobody was told. *)
CreateDomain(d, o, ext) ==
    \/ /\ \/ o \notin DOMAIN orgs
          \/ d \in DOMAIN domains
          \/ ext # None /\ DomainExtTaken(ext, d)
       /\ Refused
    \/ /\ o \in DOMAIN orgs /\ d \notin DOMAIN domains
       /\ ext # None => ~DomainExtTaken(ext, d)
       /\ schema = "integer"
       /\ Failed
    \/ /\ o \in DOMAIN orgs /\ d \notin DOMAIN domains
       /\ ext # None => ~DomainExtTaken(ext, d)
       /\ schema = "ulid"
       /\ domains' = Put(domains, d, NewDomain(o, ext))
       /\ Report(d, TRUE)
       /\ UNCHANGED <<schema, orgs, accounts, aliases, endpoints>>

(* The external id is looked up after the other fields were assigned; a refusal
   leaves them to a session that is closed without a commit. *)
UpdateDomain(d, given, ext, active) ==
    \/ /\ d \notin DOMAIN domains \/ (given /\ DomainExtTaken(ext, d))
       /\ Refused
    \/ /\ d \in DOMAIN domains
       /\ given => ~DomainExtTaken(ext, d)
       /\ domains' = Put(domains, d, [domains[d] EXCEPT
             !.ext = IF given THEN ext ELSE @, !.active = active])
       /\ answer' = "ok"
       /\ UNCHANGED <<schema, orgs, accounts, aliases, endpoints, mirror>>

UpdateDomainQuotas(d) ==
    \/ d \notin DOMAIN domains /\ Refused
    \/ d \in DOMAIN domains /\ Served

(* The ORM takes the domain out of the rows of its DKIM keys, which stay; its
   aliases go with it or hold it back. *)
DeleteDomainById(d) ==
    \/ /\ d \notin DOMAIN domains \/ AccountsOf(d) # {}
       /\ Refused
    \/ /\ d \in DOMAIN domains /\ AccountsOf(d) = {}
       /\ schema = "integer" /\ AliasesOf(d) # {}
       /\ Failed
    \/ /\ d \in DOMAIN domains /\ AccountsOf(d) = {}
       /\ schema = "ulid" \/ AliasesOf(d) = {}
       /\ domains' = Drop(domains, d)
       /\ aliases' = aliases \ AliasesOf(d)
       /\ Report(d, FALSE)
       /\ UNCHANGED <<schema, orgs, accounts, endpoints>>

(* The older routes name columns and a table that neither schema has: "modified",
   "email_accounts.domain", "domain_policy".  A deletion is rolled back item by
   item and the answer lists the items. *)
EditDomain == Failed
DeleteDomain == Failed
EditDomainPolicy == Failed
DomainPolicy == Failed

ReadDomains == Served
ReadDomain(d) ==
    \/ d \notin DOMAIN domains /\ Refused
    \/ d \in DOMAIN domains /\ AccountsOf(d) # {} /\ Failed
    \/ d \in DOMAIN domains /\ AccountsOf(d) = {} /\ Served
DomainQuotas(d) == ReadDomain(d)
VerifyDomainDns(d) ==
    \/ d \notin DOMAIN domains /\ Refused
    \/ d \in DOMAIN domains /\ Served
DomainStats(d) == VerifyDomainDns(d)

-------------------------------------------------------------------------------
(* mailboxes.py.  Every route that loads an account as an entity fails as soon
   as the account exists. *)

(* status: what the request says.  Without one the handler's own default
   "ACTIVE" is not a value of AccountStatus.  full: the domain has max_users
   accounts.  The row and the domain's counter are committed before account.id
   has to be read back, and that fails: the answer is an error, there is no
   event, the account is there. *)
NewAccount(a, full, status) ==
    /\ AccountDomain[a] \in DOMAIN domains
    /\ a \notin DOMAIN accounts
    /\ ~full /\ status = "active" /\ schema = "ulid"

(* Slip: the counter of the domain is not kept. *)
CreateEmailAccountUncounted(a, full, status) ==
    LET d == AccountDomain[a] IN
    /\ NewAccount(a, full, status)
    /\ accounts' = Put(accounts, a, [org |-> domains[d].org, vacation |-> FALSE])
    /\ answer' = "error"
    /\ UNCHANGED <<schema, orgs, domains, aliases, endpoints, mirror>>

CreateEmailAccount(a, full, status) ==
    LET d == AccountDomain[a] IN
    \/ ~NewAccount(a, full, status) /\ Failed
    \/ /\ NewAccount(a, full, status)
       /\ domains[d].total < MaxTotal
       /\ accounts' = Put(accounts, a, [org |-> domains[d].org, vacation |-> FALSE])
       /\ domains' = Put(domains, d, [domains[d] EXCEPT !.total = @ + 1])
       /\ answer' = "error"
       /\ UNCHANGED <<schema, orgs, aliases, endpoints, mirror>>

Entity(a) ==
    \/ a \notin DOMAIN accounts /\ Refused
    \/ a \in DOMAIN accounts /\ Failed

ListEmailAccounts == IF accounts = Empty THEN Served ELSE Failed
GetEmailAccount(a) == Entity(a)
UpdateEmailAccount(a) == Entity(a)
DeleteEmailAccount(a) == Entity(a)
AccountQuotas(a) == Entity(a)
UpdateAccountQuotas(a) == Entity(a)

(* The older route, with the organization k of the API key: neither the limit
   nor the counter of the domain. *)
AddMailbox(a, k) ==
    \/ /\ ~Live(AccountDomain[a]) \/ a \in DOMAIN accounts
       /\ Refused
    \/ /\ Live(AccountDomain[a]) /\ a \notin DOMAIN accounts
       /\ schema = "ulid" \/ k \notin DOMAIN orgs
       /\ Failed
    \/ /\ Live(AccountDomain[a]) /\ a \notin DOMAIN accounts
       /\ schema = "integer" /\ k \in DOMAIN orgs
       /\ accounts' = Put(accounts, a, [org |-> k, vacation |-> FALSE])
       /\ answer' = "ok"
       /\ UNCHANGED <<schema, orgs, domains, aliases, endpoints, mirror>>

(* After the commit the event's data name a variable that does not exist; the
   handler of that error rolls back a transaction that is over. *)
DeleteMailbox(a) ==
    /\ answer' = "error"
    /\ IF a \in DOMAIN accounts
       THEN /\ accounts' = Drop(accounts, a)
            /\ aliases' = {x \in aliases : {<<x.target, a>>, <<x.source, a>>} \cap Contains = {}}
       ELSE UNCHANGED <<accounts, aliases>>
    /\ UNCHANGED <<schema, orgs, domains, endpoints, mirror>>

GetMailboxes == Served
EditMailbox == Failed
EditMailboxQuota == Failed
MailboxQuota == Failed
MailboxStats == Failed

-------------------------------------------------------------------------------
(* aliases.py: one item each; the routes for several report item by item. *)

NewAlias(s, t, k) ==
    /\ Live(SourceDomain[s])
    /\ \A x \in aliases : x.source # s
    /\ schema = "integer" /\ k \in DOMAIN orgs

InsertAlias(s, t, k) ==
    /\ aliases' = aliases \cup {[source |-> s, target |-> t, org |-> k]}
    /\ answer' = "ok"
    /\ UNCHANGED <<schema, orgs, domains, accounts, endpoints, mirror>>

AddAlias(s, t, k) ==
    \/ /\ ~Live(SourceDomain[s]) \/ (\E x \in aliases : x.source = s)
       /\ Refused
    \/ /\ Live(SourceDomain[s]) /\ \A x \in aliases : x.source # s
       /\ schema = "ulid" \/ k \notin DOMAIN orgs
       /\ Failed
    \/ NewAlias(s, t, k) /\ InsertAlias(s, t, k)

AddBulkAliases(s, t, k) ==
    \/ NewAlias(s, t, k) /\ InsertAlias(s, t, k)
    \/ ~NewAlias(s, t, k) /\ Failed

EditAlias(s, t) ==
    \/ /\ \A x \in aliases : x.source # s
       /\ Failed
    \/ /\ \E x \in aliases : x.source = s
       /\ aliases' = {IF x.source = s THEN [x EXCEPT !.target = t] ELSE x : x \in aliases}
       /\ answer' = "ok"
       /\ UNCHANGED <<schema, orgs, domains, accounts, endpoints, mirror>>

DeleteAlias(s) ==
    \/ /\ \A x \in aliases : x.source # s
       /\ Failed
    \/ /\ \E x \in aliases : x.source = s
       /\ aliases' = {x \in aliases : x.source # s}
       /\ answer' = "ok"
       /\ UNCHANGED <<schema, orgs, domains, accounts, endpoints, mirror>>

(* The statistics read message_forwards, which no migration creates. *)
GetAliases == IF aliases = {} THEN Served ELSE Failed
AliasStats(d) ==
    \/ d \notin DOMAIN domains /\ Refused
    \/ d \in DOMAIN domains /\ Failed

-------------------------------------------------------------------------------
(* webhooks.py: rows put into webhook_urls by hand, since the INSERT of the
   route names a column (secret) the table does not have.  org is that of the
   API key, or None. *)

CreateEndpoint == Refused \/ Failed

Visible(e, org) == e \in endpoints /\ (org = None \/ EndpointOrg[e] = org)

UpdateEndpoint(e, org) ==
    \/ ~Visible(e, org) /\ Refused
    \/ Visible(e, org) /\ (Served \/ Failed)

DeleteEndpoint(e, org) ==
    \/ ~Visible(e, org) /\ Refused
    \/ /\ Visible(e, org)
       /\ endpoints' = endpoints \ {e}
       /\ answer' = "ok"
       /\ UNCHANGED <<schema, orgs, domains, accounts, aliases, mirror>>

ReadEndpoint(e, org) ==
    \/ ~Visible(e, org) /\ Refused
    \/ Visible(e, org) /\ Served
TestEndpoint(e, org) == ReadEndpoint(e, org)
ListEndpoints == Served
ListDeliveries == Served

(* One schema lacks the table, the other its columns. *)
ListDeadLetters == Failed

-------------------------------------------------------------------------------
OrganizationRequest ==
    \/ ReadOrganizations
    \/ \E o \in Org :
         \/ DeleteOrganization(o)
         \/ ReadOrganization(o) \/ OrganizationQuotas(o) \/ UpdateOrganizationQuotas(o)
    \/ \E o \in Org, ext \in Ext \cup {None} :
         CreateOrganization(o, ext) \/ UpdateOrganization(o, ext)
    \/ \E ext \in Ext : OrganizationByExternalId(ext)

DomainRequest ==
    \/ ReadDomains \/ EditDomain \/ DeleteDomain \/ EditDomainPolicy \/ DomainPolicy
    \/ \E d \in Domain :
         \/ DeleteDomainById(d) \/ ReadDomain(d) \/ DomainQuotas(d)
         \/ VerifyDomainDns(d) \/ DomainStats(d) \/ AliasStats(d)
         \/ UpdateDomainQuotas(d)
         \/ \E ext \in Ext \cup {None} :
              \/ \E o \in Org : CreateDomain(d, o, ext)
              \/ \E given, active \in BOOLEAN : UpdateDomain(d, given, ext, active)

MailboxRequest ==
    \/ ListEmailAccounts \/ GetMailboxes \/ EditMailbox \/ EditMailboxQuota
    \/ MailboxQuota \/ MailboxStats
    \/ \E a \in Account :
         \/ \E full \in BOOLEAN, status \in {"unset", "active"} : CreateEmailAccount(a, full, status)
         \/ GetEmailAccount(a) \/ UpdateEmailAccount(a) \/ DeleteEmailAccount(a)
         \/ AccountQuotas(a) \/ UpdateAccountQuotas(a)
         \/ \E k \in Org : AddMailbox(a, k)
         \/ DeleteMailbox(a)

AliasRequest ==
    \/ GetAliases
    \/ \E s \in Source, t \in Target :
         \/ EditAlias(s, t)
         \/ \E k \in Org : AddAlias(s, t, k) \/ AddBulkAliases(s, t, k)
    \/ \E s \in Source : DeleteAlias(s)

EndpointRequest ==
    \/ CreateEndpoint \/ ListEndpoints \/ ListDeliveries \/ ListDeadLetters
    \/ \E e \in Endpoint, org \in Org \cup {None} :
         UpdateEndpoint(e, org) \/ DeleteEndpoint(e, org) \/ ReadEndpoint(e, org) \/ TestEndpoint(e, org)

ProvNext ==
    \/ Unauthorized
    \/ InvalidOrganization \/ InvalidDomain \/ InvalidAccount \/ InvalidAlias
    \/ OrganizationRequest \/ DomainRequest \/ MailboxRequest \/ AliasRequest \/ EndpointRequest

ProvSpec == Init /\ [][ProvNext]_provVars

-------------------------------------------------------------------------------
ProvTypeOK ==
    /\ schema \in {"ulid", "integer"}
    /\ orgs \in Rows(Org, Ext \cup {None})
    /\ domains \in Rows(Domain, DomainRow)
    /\ accounts \in Rows(Account, AccountRow)
    /\ aliases \in SUBSET Alias
    /\ endpoints \in SUBSET Endpoint
    /\ mirror = Stale \/ mirror \in SUBSET (Org \cup Domain)
    /\ answer \in {"ok", "error"}

(* Every row has the rows it names: a domain its organization, an account its
   domain and its organization, an alias its domain and the organization of the
   key that made it.  Part of this the handlers see to by counting before they
   delete, part of it the foreign keys, and which of the two differs between the
   schemas and between the parents. *)
RowsHaveParents ==
    /\ \A d \in DOMAIN domains : domains[d].org \in DOMAIN orgs
    /\ \A a \in DOMAIN accounts :
         AccountDomain[a] \in DOMAIN domains /\ accounts[a].org \in DOMAIN orgs
    /\ \A x \in aliases :
         SourceDomain[x.source] \in DOMAIN domains /\ x.org \in DOMAIN orgs

(* A subscriber that missed no event knows exactly the organizations and domains
   there are: each handler tells what it committed, and nothing it did not. *)
SubscriberAgrees ==
    mirror # Stale => mirror = DOMAIN orgs \cup DOMAIN domains

(* Where every account was made by the ORM's route, no domain counts fewer than
   it has: total_email_accounts is written with the account or not at all, and
   the routes that delete accounts leave it too high rather than too low. *)
CounterCovers ==
    schema = "ulid" =>
        \A d \in DOMAIN domains : Cardinality(AccountsOf(d)) <= domains[d].total
=============================================================================
