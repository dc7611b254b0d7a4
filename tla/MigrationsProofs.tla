-------------------------- MODULE MigrationsProofs --------------------------
(* Proofs about Migrations: what tables there can be, whatever commands were run,
   failed or were cut off, for any number of cuts. *)
EXTENDS Migrations, TLAPS

(* The names of the tables, in the order upgrade makes them. *)
Order ==
    << "system_config", "health_checks", "service_metrics", "organizations", "domains",
       "email_accounts", "aliases", "user_sessions", "mail_queue", "mail_logs",
       "email_tracking", "tracking_statistics", "api_keys", "webhook_urls",
       "webhook_delivery_logs", "alerts", "usage_history", "ssl_certificates",
       "dkim_keys", "ai_transactions", "email_suppressions", "domain_reputation",
       "feedback_loops", "analytics_data" >>

Known == {Order[i] : i \in 1 .. 24}
Table == [name : Known, refs : SUBSET Known]

(* The first n of them. *)
Before(n) == {Order[i] : i \in 1 .. n}

LEMMA OrderDistinct == \A i, j \in 1 .. 24 : Order[i] = Order[j] => i = j
  BY SMTT(60) DEF Order

LEMMA OrderLength == Len(Order) = 24
  BY DEF Order

LEMMA BeforeOne ==
    ASSUME NEW n \in 0 .. 24, NEW i \in 1 .. 24
    PROVE  Order[i] \in Before(n) <=> i <= n
  BY OrderDistinct DEF Before

(* The tables others refer to, and from where on they are there. *)
LEMMA Parents ==
    /\ \A n \in 4 .. 24 : "organizations" \in Before(n)
    /\ \A n \in 5 .. 24 : "domains" \in Before(n)
    /\ \A n \in 6 .. 24 : "email_accounts" \in Before(n)
    /\ \A n \in 14 .. 24 : "webhook_urls" \in Before(n)
  <1>1. /\ Order[4] = "organizations" /\ Order[5] = "domains"
        /\ Order[6] = "email_accounts" /\ Order[14] = "webhook_urls"
    BY DEF Order
  <1> QED BY <1>1 DEF Before

LEMMA RefsKnown ==
    /\ {} \in SUBSET Known
    /\ {"organizations"} \in SUBSET Known
    /\ {"domains"} \in SUBSET Known
    /\ {"email_accounts"} \in SUBSET Known
    /\ Tenant \in SUBSET Known
    /\ Account \in SUBSET Known
    /\ Tenant \cup {"webhook_urls"} \in SUBSET Known
  BY Parents DEF Tenant, Account, Known, Before

(* The table t may be the k-th: it refers to earlier ones only. *)
Fits(t, k) == t \in Table /\ t.name = Order[k] /\ t.refs \subseteq Before(k - 1)

LEMMA Fitting ==
    ASSUME NEW k \in 1 .. 24, NEW refs \in SUBSET Known, refs \subseteq Before(k - 1)
    PROVE  Fits(T(Order[k], refs), k)
  BY DEF T, Table, Fits, Known

(* The group g of tables, as it may come after k others. *)
InOrder(g, k) == g \in Seq(Table) /\ \A i \in 1 .. Len(g) : Fits(g[i], k + i)

LEMMA SystemFit == InOrder(SystemTables, 0) /\ Len(SystemTables) = 3
  <1>1. /\ Fits(T("system_config", {}), 1)
        /\ Fits(T("health_checks", {}), 2)
        /\ Fits(T("service_metrics", {}), 3)
    BY Fitting, RefsKnown, Parents DEF Order, Tenant, Account
  <1> QED BY <1>1 DEF SystemTables, InOrder, Fits

LEMMA TenantFit == InOrder(TenantTables, 3) /\ Len(TenantTables) = 2
  <1>1. /\ Fits(T("organizations", {}), 4)
        /\ Fits(T("domains", {"organizations"}), 5)
    BY Fitting, RefsKnown, Parents DEF Order, Tenant, Account
  <1> QED BY <1>1 DEF TenantTables, InOrder, Fits

LEMMA AccountFit == InOrder(AccountTables, 5) /\ Len(AccountTables) = 3
  <1>1. /\ Fits(T("email_accounts", Tenant), 6)
        /\ Fits(T("aliases", Tenant), 7)
        /\ Fits(T("user_sessions", {"email_accounts"}), 8)
    BY Fitting, RefsKnown, Parents DEF Order, Tenant, Account
  <1> QED BY <1>1 DEF AccountTables, InOrder, Fits

LEMMA MailFit == InOrder(MailTables, 8) /\ Len(MailTables) = 4
  <1>1. /\ Fits(T("mail_queue", {"organizations"}), 9)
        /\ Fits(T("mail_logs", {"organizations"}), 10)
        /\ Fits(T("email_tracking", Tenant), 11)
        /\ Fits(T("tracking_statistics", Tenant), 12)
    BY Fitting, RefsKnown, Parents DEF Order, Tenant, Account
  <1> QED BY <1>1 DEF MailTables, InOrder, Fits

LEMMA WebhookFit == InOrder(WebhookTables, 12) /\ Len(WebhookTables) = 3
  <1>1. PICK refs : refs = Tenant \cup {"webhook_urls"}
    OBVIOUS
  <1>2. /\ Fits(T("api_keys", {"organizations"}), 13)
        /\ Fits(T("webhook_urls", {"organizations"}), 14)
        /\ Fits(T("webhook_delivery_logs", refs), 15)
    BY <1>1, Fitting, RefsKnown, Parents DEF Order, Tenant
  <1>3. WebhookTables = << T("api_keys", {"organizations"}), T("webhook_urls", {"organizations"}),
                           T("webhook_delivery_logs", refs) >>
    BY <1>1 DEF WebhookTables
  <1> QED BY <1>2, <1>3 DEF InOrder, Fits

LEMMA LimitFit == InOrder(LimitTables, 15) /\ Len(LimitTables) = 2
  <1>1. /\ Fits(T("alerts", Account), 16)
        /\ Fits(T("usage_history", Account), 17)
    BY Fitting, RefsKnown, Parents DEF Order, Tenant, Account
  <1> QED BY <1>1 DEF LimitTables, InOrder, Fits

LEMMA SecurityFit == InOrder(SecurityTables, 17) /\ Len(SecurityTables) = 3
  <1>1. /\ Fits(T("ssl_certificates", {"domains"}), 18)
        /\ Fits(T("dkim_keys", {"domains"}), 19)
        /\ Fits(T("ai_transactions", {"organizations"}), 20)
    BY Fitting, RefsKnown, Parents DEF Order, Tenant, Account
  <1> QED BY <1>1 DEF SecurityTables, InOrder, Fits

LEMMA ReputationFit == InOrder(ReputationTables, 20) /\ Len(ReputationTables) = 4
  <1>1. /\ Fits(T("email_suppressions", {"organizations"}), 21)
        /\ Fits(T("domain_reputation", Tenant), 22)
        /\ Fits(T("feedback_loops", {"organizations"}), 23)
        /\ Fits(T("analytics_data", {"organizations"}), 24)
    BY Fitting, RefsKnown, Parents DEF Order, Tenant, Account
  <1> QED BY <1>1 DEF ReputationTables, InOrder, Fits

(* The first n tables, in order. *)
First(s, n) == InOrder(s, 0) /\ Len(s) = n

LEMMA Joined ==
    ASSUME NEW s, NEW t, NEW n \in Nat, NEW m \in Nat, First(s, n), InOrder(t, n) /\ Len(t) = m
    PROVE  First(s \o t, n + m)
  <1>1. s \o t \in Seq(Table) /\ Len(s \o t) = n + m
    BY DEF First, InOrder
  <1>2. ASSUME NEW i \in 1 .. Len(s \o t)
        PROVE  Fits((s \o t)[i], 0 + i)
    <2>1. CASE i <= n
      BY <1>1, <2>1 DEF First, InOrder
    <2>2. CASE i > n
      <3>1. s \in Seq(Table) /\ t \in Seq(Table) /\ Len(s) = n /\ i \in 1 .. n + m
        BY <1>1 DEF First, InOrder
      <3>2. (s \o t)[i] = t[i - n]
        BY <2>2, <3>1
      <3>3. i - n \in 1 .. Len(t)
        BY <2>2, <3>1
      <3>4. n + (i - n) = 0 + i
        BY <1>1
      <3> QED BY <3>2, <3>3, <3>4 DEF InOrder
    <2> QED BY <1>1, <2>1, <2>2
  <1> QED BY <1>1, <1>2 DEF First, InOrder

(* 001_initial_schema.py makes every table after those it refers to. *)
LEMMA UpgradeFits == First(upgrade, 24)
  <1> DEFINE two   == SystemTables \o TenantTables
             three == two \o AccountTables
             four  == three \o MailTables
             five  == four \o WebhookTables
             six   == five \o LimitTables
             seven == six \o SecurityTables
             eight == seven \o ReputationTables
  <1>1. First(SystemTables, 3)
    BY SystemFit DEF First
  <1>2. First(two, 5)
    <2>1. First(two, 3 + 2)
      BY <1>1, TenantFit, Joined
    <2> QED BY <2>1
  <1>3. First(three, 8)
    <2> HIDE DEF two
    <2>1. First(three, 5 + 3)
      BY <1>2, AccountFit, Joined
    <2> QED BY <2>1
  <1>4. First(four, 12)
    <2> HIDE DEF three
    <2>1. First(four, 8 + 4)
      BY <1>3, MailFit, Joined
    <2> QED BY <2>1
  <1>5. First(five, 15)
    <2> HIDE DEF four
    <2>1. First(five, 12 + 3)
      BY <1>4, WebhookFit, Joined
    <2> QED BY <2>1
  <1>6. First(six, 17)
    <2> HIDE DEF five
    <2>1. First(six, 15 + 2)
      BY <1>5, LimitFit, Joined
    <2> QED BY <2>1
  <1>7. First(seven, 20)
    <2> HIDE DEF six
    <2>1. First(seven, 17 + 3)
      BY <1>6, SecurityFit, Joined
    <2> QED BY <2>1
  <1>8. First(eight, 24)
    <2> HIDE DEF seven
    <2>1. First(eight, 20 + 4)
      BY <1>7, ReputationFit, Joined
    <2> QED BY <2>1
  <1> QED BY <1>8 DEF upgrade

LEMMA UpgradeIs ==
    /\ upgrade \in Seq(Table) /\ Len(upgrade) = 24 /\ DOMAIN upgrade = 1 .. 24
    /\ \A i \in 1 .. 24 : /\ upgrade[i].name = Order[i]
                          /\ upgrade[i].refs \subseteq Before(i - 1)
  BY UpgradeFits DEF First, InOrder, Fits

LEMMA DowngradeIs ==
    /\ Len(downgrade) = 24
    /\ \A i \in 1 .. 24 : downgrade[i].name = Order[25 - i]
  <1>1. downgrade = [i \in 1 .. 24 |-> upgrade[25 - i]]
    BY UpgradeIs DEF downgrade, Reverse
  <1> QED BY <1>1, UpgradeIs

LEMMA AllIs == All = Before(24)
  BY UpgradeIs DEF All, Before

(* Only later tables refer to a table. *)
LEMMA ReferencesAreLater ==
    ASSUME NEW i \in 1 .. 24
    PROVE  References(Order[i]) \cap Before(i) = {}
  <1> SUFFICES ASSUME NEW n \in References(Order[i]) \cap Before(i)
               PROVE  FALSE
    OBVIOUS
  <1>1. PICK j \in 1 .. 24 : n = upgrade[j].name /\ Order[i] \in upgrade[j].refs
    <2>1. PICK t \in ToSet(upgrade) : n = t.name /\ Order[i] \in t.refs
      BY DEF References
    <2> QED BY <2>1, UpgradeIs DEF ToSet
  <1>2. i <= j - 1
    <2>1. upgrade[j].refs \subseteq Before(j - 1)
      BY UpgradeIs
    <2>2. Order[i] \in Before(j - 1) /\ j - 1 \in 0 .. 24
      BY <1>1, <2>1
    <2> QED BY <2>2, BeforeOne
  <1>3. j <= i
    <2>1. upgrade[j].name = Order[j]
      BY UpgradeIs
    <2>2. Order[j] \in Before(i) /\ i \in 0 .. 24
      BY <1>1, <2>1
    <2> QED BY <2>2, BeforeOne
  <1> QED BY <1>2, <1>3

-----------------------------------------------------------------------------
(* The invariant: the tables there are are always the first so many, a command that
   is past its first table knows how many, and what other scripts' tables refer to
   stays. *)

JobType == [way : {"none", "up", "down"}, at : 0 .. 25, again : BOOLEAN]
StateTypes ==
    /\ version \in {"none", "001", "unknown"}
    /\ strict \in BOOLEAN
    /\ job \in JobType
    /\ cuts \in 0 .. MaxCuts
Plain == {"ok", "exists", "key too long", "unknown", "no revision", "unknown revision",
          "refused", "cut off"}
Endings == Plain \cup {"has children"}
(* The last table there is is one that other scripts' tables refer to. *)
Barred == \E t \in held \cap db : References(t) \cap db = {}
Quiet == job = NoJob /\ outcome \in Endings /\ (outcome = "has children" => Barred)
Making ==
    /\ job.way = "up" /\ job.at \in 1 .. 25 /\ version = "none" /\ outcome = "running"
    /\ job.at > 1 => db = Before(job.at - 1)
Taking ==
    /\ job.way = "down" /\ job.at \in 1 .. 25 /\ version = "001" /\ outcome = "running"
    /\ job.at > 1 => db = Before(25 - job.at)
SomeFirst == \E n \in 0 .. 24 : db = Before(n)
Kept == held \subseteq db /\ (Unplaced => db = All)

MigrationsInv == StateTypes /\ SomeFirst /\ Kept /\ (Quiet \/ Making \/ Taking)

LEMMA NoJobIs == NoJob \in JobType /\ NoJob.way = "none" /\ NoJob.at = 0
  BY DEF NoJob, JobType

LEMMA Started ==
    ASSUME NEW way \in {"up", "down"}, NEW again \in BOOLEAN, Run(way, again)
    PROVE  job' \in JobType /\ job'.way = way /\ job'.at = 1 /\ outcome' = "running"
  <1> DEFINE r == [way |-> way, at |-> 1, again |-> again]
  <1>1. r \in JobType /\ r.way = way /\ r.at = 1
    BY DEF JobType
  <1>2. job' = r /\ outcome' = "running"
    BY Zenon DEF Run
  <1> HIDE DEF r
  <1> QED BY <1>1, <1>2

LEMMA Ended ==
    ASSUME NEW how \in Plain, End(how)
    PROVE  Quiet' /\ job' \in JobType
  BY NoJobIs DEF End, Quiet, Endings, Plain

LEMMA NotQuiet == job.way # "none" \/ job.at # 0 => ~Quiet
  BY NoJobIs DEF Quiet

LEMMA InitEstablishes == Init => MigrationsInv
  <1> SUFFICES ASSUME Init
               PROVE  MigrationsInv
    OBVIOUS
  <1>3. SomeFirst /\ Kept
    <2>1. CASE db = {} /\ version = "none" /\ held = {}
      <3>1. Before(0) = {}
        BY DEF Before
      <3> QED BY <2>1, <3>1 DEF SomeFirst, Kept, Unplaced
    <2>2. CASE version = "001" /\ held = {} /\ \E n \in 0 .. Len(upgrade) : db = {upgrade[i].name : i \in 1 .. n}
      <3>1. PICK n \in 0 .. 24 : db = {upgrade[i].name : i \in 1 .. n}
        BY <2>2, UpgradeIs
      <3>2. \A i \in 1 .. n : upgrade[i].name = Order[i]
        <4>1. \A i \in 1 .. n : i \in 1 .. 24
          OBVIOUS
        <4> QED BY <4>1, UpgradeIs, Zenon
      <3>3. db = Before(n)
        BY <3>1, <3>2 DEF Before
      <3> QED BY <2>2, <3>3 DEF SomeFirst, Kept, Unplaced
    <2>3. CASE db = All /\ held \in {{}, {"organizations"}, {"organizations", "email_accounts"}}
      <3>1. {"organizations", "email_accounts"} \subseteq All
        BY Parents, AllIs
      <3> QED BY <2>3, <3>1, AllIs DEF SomeFirst, Kept
    <2> QED BY <2>1, <2>2, <2>3 DEF Init, Scripted
  <1>4. StateTypes
    BY MigrationsAssumption DEF Init, Scripted, StateTypes, NoJob, JobType
  <1>5. Quiet
    BY DEF Init, Quiet, Endings, Plain
  <1> QED BY <1>3, <1>4, <1>5 DEF MigrationsInv

(* A command is started, or ends at once. *)
LEMMA CommandKeeps ==
    MigrationsInv /\ (Migrate \/ Reset \/ Fresh \/ LeavesAlone \/ \E n \in 1 .. 2 : Rollback(n))
        => MigrationsInv'
  <1> SUFFICES ASSUME MigrationsInv,
                      Migrate \/ Reset \/ Fresh \/ LeavesAlone \/ \E n \in 1 .. 2 : Rollback(n)
               PROVE  MigrationsInv'
    OBVIOUS
  <1>1. /\ UNCHANGED <<db, version, held, strict, cuts>>
        /\ \/ \E how \in {"ok", "no revision", "unknown revision", "refused"} : End(how)
           \/ version = "none" /\ Run("up", FALSE)
           \/ version = "001" /\ \E again \in BOOLEAN : Run("down", again)
    BY DEF Migrate, Reset, Fresh, LeavesAlone, Rollback, Command, Upgrade, Downgrade
  <1>2. SomeFirst' /\ Kept'
    BY <1>1 DEF MigrationsInv, SomeFirst, Kept, Unplaced
  <1>3. job' \in JobType /\ (Quiet \/ Making \/ Taking)'
    <2>1. CASE \E how \in {"ok", "no revision", "unknown revision", "refused"} : End(how)
      BY <2>1, Ended DEF Plain
    <2>2. CASE version = "none" /\ Run("up", FALSE)
      <3>1. job' \in JobType /\ job'.way = "up" /\ job'.at = 1 /\ outcome' = "running"
        BY <2>2, Started
      <3>2. version' = "none"
        BY <1>1, <2>2, Zenon
      <3>3. job'.at \in 1 .. 25 /\ ~(job'.at > 1)
        BY <3>1
      <3> QED BY <3>1, <3>2, <3>3 DEF Making
    <2>3. CASE version = "001" /\ \E again \in BOOLEAN : Run("down", again)
      <3>1. job' \in JobType /\ job'.way = "down" /\ job'.at = 1 /\ outcome' = "running"
        BY <2>3, Started
      <3>2. version' = "001"
        BY <1>1, <2>3, Zenon
      <3>3. job'.at \in 1 .. 25 /\ ~(job'.at > 1)
        BY <3>1
      <3> QED BY <3>1, <3>2, <3>3 DEF Taking
    <2> QED BY <1>1, <2>1, <2>2, <2>3
  <1>4. StateTypes'
    BY <1>1, <1>3 DEF MigrationsInv, StateTypes
  <1> QED BY <1>2, <1>3, <1>4 DEF MigrationsInv

LEMMA MovesOn ==
    ASSUME job \in JobType, NEW x \in 0 .. 25, job' = [job EXCEPT !.at = x]
    PROVE  job' \in JobType /\ job'.way = job.way /\ job'.at = x
  BY DEF JobType

(* One more table: the next one is the one that is missing. *)
LEMMA CreateKeeps == MigrationsInv /\ CreateTable => MigrationsInv'
  <1> SUFFICES ASSUME MigrationsInv, CreateTable
               PROVE  MigrationsInv'
    OBVIOUS
  <1> DEFINE t == upgrade[job.at]
  <1>1. /\ job \in JobType /\ job.at \in 1 .. 24 /\ version = "none" /\ outcome = "running"
        /\ job.at > 1 => db = Before(job.at - 1)
    <2>1. job.way = "up" /\ job.at <= 24
      BY UpgradeIs DEF CreateTable
    <2>2. Making
      BY <2>1, NotQuiet DEF MigrationsInv, Taking
    <2> QED BY <2>1, <2>2 DEF MigrationsInv, StateTypes, Making
  <1>2. t.name = Order[job.at] /\ t.refs \subseteq Before(job.at - 1)
    BY <1>1, UpgradeIs
  <1>3. t.name \notin db => db = Before(job.at - 1)
    <2>1. CASE job.at > 1
      BY <1>1, <2>1
    <2>2. CASE job.at = 1
      <3>1. PICK n \in 0 .. 24 : db = Before(n)
        BY DEF MigrationsInv, SomeFirst
      <3>2. t.name \notin db => n = 0
        BY <1>2, <2>2, <3>1, BeforeOne
      <3> QED BY <2>2, <3>1, <3>2
    <2> QED BY <1>1, <2>1, <2>2
  <1>4. CreateRefused(t) # "no" => CreateRefused(t) = "exists"
    BY <1>2, <1>3 DEF CreateRefused
  <1>5. CreateRefused(t) = "no" => db \cup {t.name} = Before(job.at)
    <2>1. Before(job.at) = Before(job.at - 1) \cup {Order[job.at]}
      BY <1>1 DEF Before
    <2> QED BY <1>2, <1>3, <2>1 DEF CreateRefused
  <1> HIDE DEF t
  <1>6. UNCHANGED <<version, held, strict, cuts>>
    BY DEF CreateTable
  <1>11. Kept'
    <2>1. db \subseteq db'
      BY Zenon DEF CreateTable
    <2> QED BY <1>1, <1>6, <2>1 DEF MigrationsInv, Kept, Unplaced
  <1>7. CASE CreateRefused(t) # "no" /\ UNCHANGED db /\ End(CreateRefused(t))
    BY <1>4, <1>6, <1>7, <1>11, Ended DEF MigrationsInv, StateTypes, SomeFirst, Plain
  <1>8. CASE db' = Before(job.at) /\ End("key too long")
    <2>1. db' = Before(job.at)
      BY <1>8, Zenon
    <2>2. SomeFirst'
      BY <1>1, <2>1 DEF SomeFirst
    <2> QED BY <1>6, <1>8, <1>11, <2>2, Ended DEF MigrationsInv, StateTypes, Plain
  <1>9. CASE db' = Before(job.at) /\ job' = [job EXCEPT !.at = @ + 1] /\ UNCHANGED outcome
    <2>1. job' = [job EXCEPT !.at = job.at + 1] /\ job.at + 1 \in 0 .. 25
      BY <1>1, <1>9
    <2>2. job' \in JobType /\ job'.way = "up" /\ job'.at = job.at + 1
      BY <1>1, <2>1, MovesOn DEF CreateTable
    <2>3. Making'
      BY <1>1, <1>6, <1>9, <2>2 DEF Making
    <2>4. SomeFirst' /\ StateTypes'
      BY <1>1, <1>6, <1>9, <2>2 DEF MigrationsInv, SomeFirst, StateTypes
    <2> QED BY <1>11, <2>3, <2>4 DEF MigrationsInv
  <1>10. \/ CreateRefused(t) # "no" /\ UNCHANGED db /\ End(CreateRefused(t))
         \/ /\ CreateRefused(t) = "no" /\ db' = db \cup {t.name}
            /\ \/ End("key too long")
               \/ job' = [job EXCEPT !.at = @ + 1] /\ UNCHANGED outcome
    BY Zenon DEF CreateTable, t
  <1> QED BY <1>5, <1>7, <1>8, <1>9, <1>10

(* One table less: the last one there is. *)
LEMMA DropKeeps == MigrationsInv /\ DropTable => MigrationsInv'
  <1> SUFFICES ASSUME MigrationsInv, DropTable
               PROVE  MigrationsInv'
    OBVIOUS
  <1> DEFINE t == downgrade[job.at].name
  <1>1. /\ job \in JobType /\ job.at \in 1 .. 24 /\ version = "001" /\ outcome = "running"
        /\ job.at > 1 => db = Before(25 - job.at)
    <2>1. job.way = "down" /\ job.at <= 24
      BY DowngradeIs DEF DropTable
    <2>2. Taking
      BY <2>1, NotQuiet DEF MigrationsInv, Making
    <2> QED BY <2>1, <2>2 DEF MigrationsInv, StateTypes, Taking
  <1>2. t = Order[25 - job.at]
    BY <1>1, DowngradeIs
  <1>3. t \in db => db = Before(25 - job.at)
    <2>1. CASE job.at > 1
      BY <1>1, <2>1
    <2>2. CASE job.at = 1
      <3>1. PICK n \in 0 .. 24 : db = Before(n)
        BY DEF MigrationsInv, SomeFirst
      <3>2. t \in db => n = 24
        BY <1>2, <2>2, <3>1, BeforeOne
      <3> QED BY <2>2, <3>1, <3>2
    <2> QED BY <1>1, <2>1, <2>2
  <1>4. DropRefused(t) \in {"no", "unknown", "has children"} /\ (DropRefused(t) = "has children" => Barred)
    <2>1. References(Order[25 - job.at]) \cap Before(25 - job.at) = {}
      BY <1>1, ReferencesAreLater
    <2> QED BY <1>2, <1>3, <2>1 DEF DropRefused, Barred
  <1>5. DropRefused(t) = "no" => db \ {t} = Before(24 - job.at)
    <2>1. Before(25 - job.at) \ {Order[25 - job.at]} = Before(24 - job.at)
      BY <1>1, OrderDistinct DEF Before
    <2> QED BY <1>2, <1>3, <2>1 DEF DropRefused
  <1> HIDE DEF t
  <1>10. DropRefused(t) = "no" => t \notin held
    BY DEF DropRefused
  <1>6. UNCHANGED <<version, held, strict, cuts>>
    BY DEF DropTable
  <1>7. CASE DropRefused(t) # "no" /\ UNCHANGED db /\ End(DropRefused(t))
    <2>1. Kept'
      BY <1>6, <1>7 DEF MigrationsInv, Kept, Unplaced
    <2>2. Barred => Barred'
      BY <1>6, <1>7 DEF Barred
    <2>3. Quiet' /\ job' \in JobType
      BY <1>4, <1>7, <2>2, NoJobIs DEF End, Quiet, Endings, Plain
    <2> QED BY <1>6, <1>7, <2>1, <2>3 DEF MigrationsInv, StateTypes, SomeFirst
  <1>8. CASE /\ t \notin held /\ db' = db \ {t} /\ db' = Before(24 - job.at)
           /\ job' = [job EXCEPT !.at = @ + 1] /\ UNCHANGED outcome
    <2>1. job' = [job EXCEPT !.at = job.at + 1] /\ job.at + 1 \in 0 .. 25
      BY <1>1, <1>8
    <2>2. job' \in JobType /\ job'.way = "down" /\ job'.at = job.at + 1
      BY <1>1, <2>1, MovesOn DEF DropTable
    <2>3. 25 - job'.at = 24 - job.at /\ 24 - job.at \in 0 .. 24
      BY <1>1, <2>2
    <2>4. Taking'
      BY <1>1, <1>6, <1>8, <2>2, <2>3 DEF Taking
    <2>5. SomeFirst' /\ StateTypes'
      BY <1>6, <1>8, <2>2, <2>3 DEF MigrationsInv, SomeFirst, StateTypes
    <2>6. Kept'
      BY <1>1, <1>6, <1>8 DEF MigrationsInv, Kept, Unplaced
    <2> QED BY <2>4, <2>5, <2>6 DEF MigrationsInv
  <1>9. \/ DropRefused(t) # "no" /\ UNCHANGED db /\ End(DropRefused(t))
        \/ /\ DropRefused(t) = "no" /\ db' = db \ {t}
           /\ job' = [job EXCEPT !.at = @ + 1] /\ UNCHANGED outcome
    BY DEF DropTable, t
  <1> QED BY <1>5, <1>7, <1>8, <1>9, <1>10

(* The version row is written, a command is cut off, or nothing happens. *)
LEMMA StampKeeps == MigrationsInv /\ (Stamp \/ Unstamp \/ Cut \/ UNCHANGED vars) => MigrationsInv'
  <1> SUFFICES ASSUME MigrationsInv, Stamp \/ Unstamp \/ Cut \/ UNCHANGED vars
               PROVE  MigrationsInv'
    OBVIOUS
  <1>1. SomeFirst' /\ Kept'
    <2>1. UNCHANGED <<db, held>> /\ (UNCHANGED version \/ version' \in {"none", "001"})
      BY Zenon DEF Stamp, Unstamp, Cut, vars
    <2> QED BY <2>1 DEF MigrationsInv, SomeFirst, Kept, Unplaced
  <1>2. CASE Stamp \/ Unstamp
    <2>1. /\ version' \in {"none", "001"} /\ UNCHANGED <<db, held, strict, cuts>>
          /\ \/ End("ok")
             \/ version' = "none" /\ Run("up", FALSE)
      BY <1>2, Zenon DEF Stamp, Unstamp
    <2>2. CASE End("ok")
      BY <1>1, <2>1, <2>2, Ended DEF MigrationsInv, StateTypes, Plain
    <2>3. CASE version' = "none" /\ Run("up", FALSE)
      <3>1. job' \in JobType /\ job'.way = "up" /\ job'.at = 1 /\ outcome' = "running"
        BY <2>3, Started
      <3>2. Making'
        BY <2>3, <3>1 DEF Making
      <3> QED BY <1>1, <2>1, <3>1, <3>2 DEF MigrationsInv, StateTypes
    <2> QED BY <2>1, <2>2, <2>3
  <1>3. CASE Cut
    <2>1. cuts' \in 0 .. MaxCuts
      <3>1. cuts < MaxCuts /\ cuts' = cuts + 1
        BY <1>3, Zenon DEF Cut
      <3> QED BY <3>1, MigrationsAssumption DEF MigrationsInv, StateTypes
    <2>2. End("cut off") /\ UNCHANGED <<version, strict>>
      BY <1>3, Zenon DEF Cut
    <2> QED BY <1>1, <2>1, <2>2, Ended DEF MigrationsInv, StateTypes, Plain
  <1>4. CASE UNCHANGED vars
    BY <1>1, <1>4 DEF MigrationsInv, StateTypes, Quiet, Barred, Making, Taking, vars
  <1> QED BY <1>2, <1>3, <1>4

LEMMA Inductive == Spec => []MigrationsInv
  <1>1. MigrationsInv /\ [Next]_vars => MigrationsInv'
    BY CommandKeeps, CreateKeeps, DropKeeps, StampKeeps DEF Next
  <1> QED BY <1>1, InitEstablishes, PTL DEF Spec

-----------------------------------------------------------------------------
(* Every variable keeps its type, and while no command runs nothing of one is left. *)
THEOREM TypeCorrect == Spec => []TypeOK
  <1>1. MigrationsInv => TypeOK
    <2> SUFFICES ASSUME MigrationsInv
                 PROVE  TypeOK
      OBVIOUS
    <2>1. db \subseteq All
      <3>1. PICK n \in 0 .. 24 : db = Before(n)
        BY DEF MigrationsInv, SomeFirst
      <3> QED BY <3>1, AllIs DEF Before
    <2>2. Len(upgrade) + 1 = 25
      BY UpgradeIs
    <2>3. held \subseteq All
      BY <2>1 DEF MigrationsInv, Kept
    <2> QED BY <2>1, <2>2, <2>3 DEF MigrationsInv, StateTypes, JobType, Quiet, Making, Taking, TypeOK, Idle, Endings, Plain
  <1> QED BY <1>1, Inductive, PTL

(* The one revision creates its tables after those they refer to and drops them before:
   from whatever failed, was cut off or the init scripts left, however often, no
   statement meets a missing parent, a remaining child is another script's, and no key
   is left dangling (upgrade and downgrade in alembic/versions/001_initial_schema.py). *)
THEOREM KeysHold == Spec => []KeysNeverBreak
  <1>1. MigrationsInv => KeysNeverBreak
    <2> SUFFICES ASSUME MigrationsInv
                 PROVE  KeysNeverBreak
      OBVIOUS
    <2>1. outcome # "no parent" /\ (outcome = "has children" => Barred) /\ held \subseteq db
      BY DEF MigrationsInv, Kept, Quiet, Making, Taking, Endings, Plain
    <2>2. ASSUME NEW i \in DOMAIN upgrade, upgrade[i].name \in db
          PROVE  upgrade[i].refs \subseteq db
      <3>1. PICK n \in 0 .. 24 : db = Before(n)
        BY DEF MigrationsInv, SomeFirst
      <3>2. i \in 1 .. 24 /\ upgrade[i].name = Order[i] /\ upgrade[i].refs \subseteq Before(i - 1)
        BY UpgradeIs
      <3>3. i <= n
        BY <2>2, <3>1, <3>2, BeforeOne
      <3>4. Before(i - 1) \subseteq Before(n)
        BY <3>2, <3>3 DEF Before
      <3> QED BY <3>1, <3>2, <3>4
    <2> QED BY <2>1, <2>2 DEF KeysNeverBreak, Barred
  <1> QED BY <1>1, Inductive, PTL

(* What a command has made or taken down is all there is to tell: tables that a
   failure, a cut or unfinished init scripts left are never added to or taken from,
   and nothing works on a schema whose version row is no revision. *)
THEOREM UnknownStays == Spec => []UnknownSchemaUntouched
  <1>1. MigrationsInv => UnknownSchemaUntouched
    <2>4. MigrationsInv /\ Unplaced => Idle /\ db = All
      BY NoJobIs DEF MigrationsInv, Kept, Unplaced, Quiet, Making, Taking, Idle
    <2> SUFFICES ASSUME MigrationsInv, job.at > 1
                 PROVE  db = Done
      BY <2>4 DEF UnknownSchemaUntouched
    <2>1. CASE Making
      <3>1. {upgrade[i].name : i \in 1 .. job.at - 1} = Before(job.at - 1)
        <4>1. \A i \in 1 .. job.at - 1 : upgrade[i].name = Order[i]
          <5>1. job.at \in 1 .. 25
            BY <2>1 DEF Making
          <5>2. \A i \in 1 .. job.at - 1 : i \in 1 .. 24
            BY <5>1
          <5> QED BY <5>2, UpgradeIs, Zenon
        <4> QED BY <4>1 DEF Before
      <3> QED BY <2>1, <3>1 DEF Making, Done
    <2>2. CASE Taking
      <3>1. job.at \in 2 .. 25
        BY <2>2 DEF Taking
      <3>2. All \ {downgrade[i].name : i \in 1 .. job.at - 1} = Before(25 - job.at)
        <4>1. ASSUME NEW k \in 1 .. 24
              PROVE  Order[k] \in {downgrade[i].name : i \in 1 .. job.at - 1} <=> k > 25 - job.at
          <5>1. \A i \in 1 .. job.at - 1 : downgrade[i].name = Order[25 - i]
            BY <3>1, DowngradeIs
          <5>2. \A i \in 1 .. job.at - 1 : Order[k] = Order[25 - i] <=> k = 25 - i
            BY <3>1, OrderDistinct
          <5>3. k > 25 - job.at => 25 - k \in 1 .. job.at - 1 /\ k = 25 - (25 - k)
            BY <3>1
          <5> QED BY <3>1, <5>1, <5>2, <5>3
        <4>2. \A k \in 1 .. 24 : Order[k] \in Before(25 - job.at) <=> k <= 25 - job.at
          BY <3>1, BeforeOne
        <4>3. Before(25 - job.at) \subseteq Before(24)
          BY <3>1 DEF Before
        <4>4. \A x \in Before(24) : x \in {downgrade[i].name : i \in 1 .. job.at - 1}
                                       <=> x \notin Before(25 - job.at)
          <5>1. \A k \in 1 .. 24 : k > 25 - job.at <=> ~(k <= 25 - job.at)
            BY <3>1
          <5> QED BY <4>1, <4>2, <5>1 DEF Before
        <4> QED BY <4>3, <4>4, AllIs
      <3> QED BY <2>2, <3>1, <3>2 DEF Taking, Done
    <2>3. ~Quiet
      BY NotQuiet DEF MigrationsInv, StateTypes, JobType
    <2> QED BY <2>1, <2>2, <2>3 DEF MigrationsInv
  <1> QED BY <1>1, Inductive, PTL

(* A command that worked and answers success leaves the tables the version row tells
   of: all of them after the last CREATE, none after the last DROP. *)
THEOREM SuccessesAreWhole == Spec => SuccessIsWhole
  <1>1. MigrationsInv /\ [Next]_vars => [~Idle /\ outcome' = "ok" => Agrees']_vars
    <2> SUFFICES ASSUME MigrationsInv, Next, ~Idle, outcome' = "ok"
                 PROVE  Agrees'
      OBVIOUS
    <2>1. outcome = "running"
      BY NotQuiet DEF MigrationsInv, Making, Taking, Idle
    <2>2. CASE Stamp
      <3>1. job.way = "up" /\ job.at > 24
        BY <2>2, UpgradeIs DEF Stamp
      <3>2. Making
        BY <3>1, NotQuiet DEF MigrationsInv, Taking
      <3>3. job.at = 25 /\ db = Before(job.at - 1)
        BY <3>1, <3>2 DEF Making
      <3> QED BY <2>2, <3>3, AllIs DEF Stamp, Agrees
    <2>3. CASE Unstamp
      <3>1. job.way = "down" /\ job.at > 24
        BY <2>3, DowngradeIs DEF Unstamp
      <3>2. Taking
        BY <3>1, NotQuiet DEF MigrationsInv, Making
      <3>3. job.at = 25 /\ db = Before(25 - job.at)
        BY <3>1, <3>2 DEF Taking
      <3>4. Before(0) = {}
        BY DEF Before
      <3> QED BY <2>3, <3>3, <3>4 DEF Unstamp, Agrees
    <2>4. CASE CreateTable \/ DropTable \/ Cut
      BY <2>1, <2>4 DEF CreateTable, DropTable, Cut, End, CreateRefused, DropRefused
    <2>5. CASE Migrate \/ Reset \/ Fresh \/ LeavesAlone \/ \E n \in 1 .. 2 : Rollback(n)
      BY <2>5 DEF Migrate, Reset, Fresh, LeavesAlone, Rollback, Command
    <2> QED BY <2>2, <2>3, <2>4, <2>5 DEF Next
  <1> QED BY <1>1, Inductive, PTL DEF Spec, SuccessIsWhole
=============================================================================
