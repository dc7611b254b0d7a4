------------------------------ MODULE RateLimiter ------------------------------
(* The rate limiter as it is built, and the bridge Postfix asks it through
   (mailer/postfix/scripts/rate_limit_policy.py).  The service answers one request
   after the other in its event loop, next to the thread that looks at the rules
   once a minute; both borrow from one pool of MySQL connections and give back
   only what no error came upon.

   Three errors decide what a request can bring.  The second class RateLimitRule of
   config_service.py lacks the decorator of the first: making a rule raises, the
   default one too.  Leaving a LogTimer block raises.  And the rules are asked for
   by columns that the table of the init scripts lacks; the migrations make no such
   table at all.  Every check ends in an except clause that allows, every count in
   one that does not count, so that limits and counters are not in this model. *)
EXTENDS Integers, Sequences

CONSTANTS
    Bridge,         \* rate_limit_policy.py, one process for each smtpd
    POOL_SIZE,      \* DB_POOL_SIZE
    MaxOutages,     \* MySQL goes down
    MaxRestarts     \* the service is restarted

ASSUME RateLimiterAssumption ==
    /\ POOL_SIZE \in Nat \ {0}
    /\ MaxOutages \in Nat /\ MaxRestarts \in Nat
    /\ {"api", "nobody"} \cap Bridge = {}

VARIABLES
    mysql,      \* up or down
    pool,       \* rate_limit_config_pool: made at start or not, the connections that
                \* are free, lost by lookups of an organization, and spent on rules
    held,       \* the connection each thread holds: none, good or dead
    todo,       \* the queries before each thread
    serving,    \* whose request the event loop works on
    inbox,      \* requests of bridges the service has to read
    mapped,     \* Redis holds the organization of the domain
    mail,       \* what each bridge is at
    outages, restarts

dbVars == <<mysql, outages>>
poolVars == <<pool, held, todo>>
serviceVars == <<serving, inbox, mapped>>
limiterVars == <<dbVars, poolVars, serviceVars, mail, restarts>>

Thread == {"loop", "monitor"}

(* MySQLConnectionPool opens all its connections; when it cannot there is no pool
   until the next start. *)
NewPool(up) ==
    [made |-> up, free |-> IF up THEN POOL_SIZE ELSE 0, lost |-> 0, spent |-> 0]

LimiterInit ==
    /\ mysql \in {"up", "down"}
    /\ pool = NewPool(mysql = "up")
    /\ held = [t \in Thread |-> "none"]
    /\ todo = [t \in Thread |-> <<>>]
    /\ serving = "nobody" /\ inbox = {} /\ mapped = FALSE
    /\ mail = [b \in Bridge |-> "none"]
    /\ outages = 0 /\ restarts = 0

-----------------------------------------------------------------------------
(* The bridge: mail without a sender passes unasked. *)
Ask(b) ==
    /\ mail[b] = "none"
    /\ \/ mail' = [mail EXCEPT ![b] = "DUNNO"] /\ UNCHANGED inbox
       \/ mail' = [mail EXCEPT ![b] = "asks"] /\ inbox' = inbox \cup {b}
    /\ UNCHANGED <<dbVars, poolVars, serving, mapped, restarts>>

(* No connection, no answer in time, or one that is an error. *)
GiveUp(b) ==
    /\ mail[b] = "asks"
    /\ mail' = [mail EXCEPT ![b] = "DUNNO"]
    /\ UNCHANGED <<dbVars, poolVars, serviceVars, restarts>>

NextMail(b) ==
    /\ mail[b] = "DUNNO"
    /\ mail' = [mail EXCEPT ![b] = "none"]
    /\ UNCHANGED <<dbVars, poolVars, serviceVars, restarts>>

-----------------------------------------------------------------------------
(* The event loop takes a request up.  What it asks the database, in order: *)
Organization == IF mapped THEN <<>> ELSE <<"domains">>
get_rate_limit_rule == <<"rate_limit_configs">>
check_rate_limit ==
    Organization \o get_rate_limit_rule \o get_rate_limit_rule \o get_rate_limit_rule

Begin(who, queries) ==
    /\ serving = "nobody"
    /\ serving' = who
    /\ todo' = [todo EXCEPT !["loop"] = IF pool.made THEN queries ELSE <<>>]
    /\ UNCHANGED <<dbVars, pool, held, mail, restarts>>

(* POST /check_rate_limit and /policy, for a bridge that may no longer listen. *)
Check(b) ==
    /\ b \in inbox
    /\ inbox' = inbox \ {b}
    /\ Begin(b, check_rate_limit)
    /\ UNCHANGED mapped

(* database_service.py has a pool of its own and never borrows from it: it reads
   the time of a module it does not import, and gives up. *)
ExecuteQuery == <<>>
get_database_stats == ExecuteQuery

(* Reached only when that pool could not be made, and raises then. *)
get_usage_data == <<>>
increment_usage_data == ExecuteQuery \o get_usage_data

(* The usage service finds the cache without a client, whose setup asks the
   configuration for a redis_pool_size it does not have, and goes to the database. *)
Increment == increment_usage_data

(* Organization, domain and mailbox. *)
increment_usage == Organization \o Increment \o Increment \o Increment

get_usage_statistics == get_rate_limit_rule

(* It raises when it makes the rule to store, before it asks. *)
set_limits == <<>>

(* GET /health and /stats; the configuration service asks Redis only. *)
get_config_stats == <<>>
get_service_health == get_config_stats \o get_database_stats

(* Everybody else. *)
Api ==
    /\ \E q \in {check_rate_limit, increment_usage, get_usage_statistics, set_limits,
                 get_service_health} :
         Begin("api", q)
    /\ UNCHANGED <<inbox, mapped>>

(* All was asked, the except clauses have allowed the mail; a bridge that gave up
   meanwhile, or asks about its next mail, does not hear it. *)
Verdict == "DUNNO"
AnswerRequest ==
    /\ serving # "nobody"
    /\ todo["loop"] = <<>>
    /\ mail' = [b \in Bridge |-> IF b = serving /\ mail[b] = "asks" /\ b \notin inbox
                                 THEN Verdict ELSE mail[b]]
    /\ serving' = "nobody"
    /\ UNCHANGED <<dbVars, poolVars, inbox, mapped, restarts>>

(* Once a minute; the rules it finds cannot be made, so that no alert follows. *)
list_rate_limit_rules == <<"rate_limit_configs">>
MonitoringCycle ==
    /\ todo["monitor"] = <<>> /\ pool.made
    /\ todo' = [todo EXCEPT !["monitor"] = list_rate_limit_rules]
    /\ UNCHANGED <<dbVars, pool, held, serviceVars, mail, restarts>>

-----------------------------------------------------------------------------
(* get_connection does not wait: an empty pool raises, and so does a connection
   that cannot be renewed, which goes back first. *)
(* Slip: wait for a connection. *)
BorrowOrWait(t) ==
    /\ todo[t] # <<>> /\ held[t] = "none"
    /\ pool.free > 0
    /\ IF mysql = "down"
       THEN todo' = [todo EXCEPT ![t] = Tail(@)] /\ UNCHANGED <<pool, held>>
       ELSE /\ pool' = [pool EXCEPT !.free = @ - 1]
            /\ held' = [held EXCEPT ![t] = "good"]
            /\ UNCHANGED todo
    /\ UNCHANGED <<dbVars, serviceVars, mail, restarts>>
Borrow(t) ==
    /\ todo[t] # <<>> /\ held[t] = "none"
    /\ IF pool.free = 0 \/ mysql = "down"
       THEN todo' = [todo EXCEPT ![t] = Tail(@)] /\ UNCHANGED <<pool, held>>
       ELSE /\ pool' = [pool EXCEPT !.free = @ - 1]
            /\ held' = [held EXCEPT ![t] = "good"]
            /\ UNCHANGED todo
    /\ UNCHANGED <<dbVars, serviceVars, mail, restarts>>

(* execute, fetch and close in one try block: an error leaves it without close,
   and nothing else gives the connection back.  No table has the columns of a rule. *)
AsksFor(t, table) == todo[t] # <<>> /\ Head(todo[t]) = table
Fails(t) == held[t] = "dead" \/ AsksFor(t, "rate_limit_configs")

(* Slip: the connection is not closed when the lookup finds nothing. *)
QueryForgets(t) ==
    /\ todo[t] # <<>> /\ held[t] # "none"
    /\ pool' = IF AsksFor(t, "domains") THEN [pool EXCEPT !.lost = @ + 1]
               ELSE [pool EXCEPT !.spent = @ + 1]
    /\ held' = [held EXCEPT ![t] = "none"]
    /\ todo' = [todo EXCEPT ![t] = Tail(@)]
    /\ mapped' \in (IF AsksFor(t, "domains") THEN BOOLEAN ELSE {mapped})
    /\ UNCHANGED <<dbVars, serving, inbox, mail, restarts>>
Query(t) ==
    /\ todo[t] # <<>> /\ held[t] # "none"
    /\ pool' = IF ~Fails(t) THEN [pool EXCEPT !.free = @ + 1]
               ELSE IF AsksFor(t, "domains") THEN [pool EXCEPT !.lost = @ + 1]
               ELSE [pool EXCEPT !.spent = @ + 1]
    /\ held' = [held EXCEPT ![t] = "none"]
    /\ todo' = [todo EXCEPT ![t] = Tail(@)]
    /\ mapped' \in (IF AsksFor(t, "domains") THEN BOOLEAN ELSE {mapped})
    /\ UNCHANGED <<dbVars, serving, inbox, mail, restarts>>

-----------------------------------------------------------------------------
(* Connections do not survive the server. *)
MySQLDown ==
    /\ mysql = "up" /\ outages < MaxOutages
    /\ mysql' = "down" /\ outages' = outages + 1
    /\ held' = [t \in Thread |-> IF held[t] = "good" THEN "dead" ELSE held[t]]
    /\ UNCHANGED <<pool, todo, serviceVars, mail, restarts>>

MySQLUp ==
    /\ mysql = "down" /\ mysql' = "up"
    /\ UNCHANGED <<outages, poolVars, serviceVars, mail, restarts>>

(* The entry of the mapping expires, or Redis is away. *)
Unmap ==
    /\ mapped /\ mapped' = FALSE
    /\ UNCHANGED <<dbVars, poolVars, serving, inbox, mail, restarts>>

Restart ==
    /\ restarts < MaxRestarts /\ restarts' = restarts + 1
    /\ pool' = NewPool(mysql = "up")
    /\ held' = [t \in Thread |-> "none"]
    /\ todo' = [t \in Thread |-> <<>>]
    /\ serving' = "nobody" /\ inbox' = {}
    /\ UNCHANGED <<dbVars, mapped, mail>>

LimiterNext ==
    \/ \E b \in Bridge : Ask(b) \/ GiveUp(b) \/ NextMail(b) \/ Check(b)
    \/ Api \/ AnswerRequest \/ MonitoringCycle
    \/ \E t \in Thread : Borrow(t) \/ Query(t)
    \/ MySQLDown \/ MySQLUp \/ Unmap \/ Restart

(* The event loop goes on with what it has taken up: the connector and the driver
   have timeouts. *)
Fairness ==
    /\ WF_limiterVars(Borrow("loop")) /\ WF_limiterVars(Query("loop"))
    /\ WF_limiterVars(AnswerRequest)

LimiterSpec == LimiterInit /\ [][LimiterNext]_limiterVars
FairSpec == LimiterSpec /\ Fairness

-----------------------------------------------------------------------------
LimiterTypeOK ==
    /\ mysql \in {"up", "down"}
    /\ pool \in [made : BOOLEAN, free : 0 .. POOL_SIZE, lost : 0 .. POOL_SIZE,
                spent : 0 .. POOL_SIZE]
    /\ held \in [Thread -> {"none", "good", "dead"}]
    /\ todo \in [Thread -> Seq({"domains", "rate_limit_configs"})]
    /\ serving \in Bridge \cup {"api", "nobody"}
    /\ inbox \subseteq Bridge
    /\ mapped \in BOOLEAN
    /\ mail \in [Bridge -> {"none", "asks", "DUNNO"}]
    /\ outages \in 0 .. MaxOutages
    /\ restarts \in 0 .. MaxRestarts

(* The loop's connection died while it looks up an organization. *)
AtRisk == IF held["loop"] = "dead" /\ AsksFor("loop", "domains") THEN 1 ELSE 0

(* Each lookup of a rule costs a connection.  The lookup of an organization costs
   none, but the one MySQL dies under: an outage takes at most one connection that
   way, however many requests meet it and whatever the rules have left in the pool. *)
LookupsGiveBack == pool.lost + AtRisk <= outages

(* However many connections are lost, the event loop ends what it has taken up and
   answers the next: an empty pool costs the organizations, not the service. *)
RequestsEnd == serving # "nobody" ~> serving = "nobody"
=============================================================================
