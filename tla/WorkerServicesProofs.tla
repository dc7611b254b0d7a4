------------------------- MODULE WorkerServicesProofs -------------------------
(* Proofs about three services of the worker that stand alone, RateLimiter,
   TemplateService and WebhookService; they share no name. *)
EXTENDS RateLimiter, TemplateService, WebhookService, TLAPS

-----------------------------------------------------------------------------
(* Proofs about RateLimiter, for any bridges, any size of the pool, any number of
   outages and restarts.  The types need the balance of the pool: every connection
   it was made with is free, held by one of the two threads, lost or spent. *)

Held(t) == IF held[t] = "none" THEN 0 ELSE 1

Balance == pool.free + pool.lost + pool.spent + Held("loop") + Held("monitor")
              = IF pool.made THEN POOL_SIZE ELSE 0

PoolTypes ==
    /\ pool \in [made : BOOLEAN, free : Nat, lost : Nat, spent : Nat]
    /\ held \in [Thread -> {"none", "good", "dead"}]
(* The monitor asks for rules only. *)
TodoTypes ==
    /\ todo \in [Thread -> Seq({"domains", "rate_limit_configs"})]
    /\ todo["monitor"] \in Seq({"rate_limit_configs"})
DbTypes ==
    /\ mysql \in {"up", "down"}
    /\ outages \in 0 .. MaxOutages
OtherTypes ==
    /\ serving \in Bridge \cup {"api", "nobody"}
    /\ inbox \subseteq Bridge
    /\ mapped \in BOOLEAN
    /\ mail \in [Bridge -> {"none", "asks", "DUNNO"}]
    /\ restarts \in 0 .. MaxRestarts

(* The loop holds a connection only for a query it has to make, and has queries only
   while it works on a request. *)
Busy ==
    /\ held["loop"] # "none" => todo["loop"] # <<>>
    /\ serving = "nobody" => todo["loop"] = <<>>

IInv == PoolTypes /\ Balance /\ TodoTypes /\ DbTypes /\ OtherTypes /\ Busy /\ LookupsGiveBack

Pool(m, f, l, s) == [made |-> m, free |-> f, lost |-> l, spent |-> s]

(* The balance bounds what is free, lost and spent. *)
LEMMA BoundedByBalance ==
    ASSUME PoolTypes, Balance
    PROVE  pool \in [made : BOOLEAN, free : 0 .. POOL_SIZE, lost : 0 .. POOL_SIZE,
                     spent : 0 .. POOL_SIZE]
  <1>1. PICK m \in BOOLEAN, f \in Nat, l \in Nat, s \in Nat : pool = Pool(m, f, l, s)
    BY DEF PoolTypes, Pool
  <1>2. Held("loop") \in {0, 1} /\ Held("monitor") \in {0, 1}
    BY DEF Held
  <1>3. f + l + s + Held("loop") + Held("monitor") = IF m THEN POOL_SIZE ELSE 0
    BY <1>1 DEF Balance, Pool
  <1>4. POOL_SIZE \in Nat
    BY RateLimiterAssumption
  <1>5. f <= POOL_SIZE /\ l <= POOL_SIZE /\ s <= POOL_SIZE
    BY <1>2, <1>3, <1>4
  <1>. QED BY <1>1, <1>4, <1>5 DEF Pool

(* A pool that was just made is whole or empty. *)
LEMMA FreshPool ==
    ASSUME NEW up \in BOOLEAN, pool' = NewPool(up), held' = [t \in Thread |-> "none"],
           outages' \in Nat
    PROVE  PoolTypes' /\ Balance' /\ LookupsGiveBack'
  <1>1. POOL_SIZE \in Nat
    BY RateLimiterAssumption
  <1>2. pool' = [made |-> up, free |-> IF up THEN POOL_SIZE ELSE 0, lost |-> 0, spent |-> 0]
    BY DEF NewPool
  <1>3. Held("loop")' = 0 /\ Held("monitor")' = 0 /\ AtRisk' = 0
    BY DEF Held, AtRisk, Thread
  <1>4. PoolTypes'
    BY <1>1, <1>2 DEF PoolTypes, Thread
  <1>5. Balance'
    BY <1>1, <1>2, <1>3 DEF Balance
  <1>6. LookupsGiveBack'
    BY <1>2, <1>3 DEF LookupsGiveBack
  <1>. QED BY <1>4, <1>5, <1>6

(* No connection is at risk that was not, unless MySQL goes down: what the loop has
   before it changes only while it holds none. *)
LEMMA NoNewRisk ==
    ASSUME UNCHANGED held, todo'["loop"] = todo["loop"] \/ held["loop"] = "none"
    PROVE  AtRisk' = AtRisk
  BY DEF AtRisk, AsksFor

(* Steps that touch neither the pool nor the database keep what is said of them. *)
LEMMA PoolUntouched ==
    ASSUME IInv, UNCHANGED <<pool, held>>, outages' = outages, mysql' = mysql,
           todo'["loop"] = todo["loop"] \/ held["loop"] = "none"
    PROVE  PoolTypes' /\ Balance' /\ DbTypes' /\ LookupsGiveBack'
  BY NoNewRisk DEF IInv, PoolTypes, Balance, Held, DbTypes, LookupsGiveBack

LEMMA QueriesTyped ==
    /\ check_rate_limit \in Seq({"domains", "rate_limit_configs"})
    /\ increment_usage \in Seq({"domains", "rate_limit_configs"})
    /\ get_usage_statistics \in Seq({"domains", "rate_limit_configs"})
    /\ set_limits \in Seq({"domains", "rate_limit_configs"})
    /\ get_service_health \in Seq({"domains", "rate_limit_configs"})
    /\ list_rate_limit_rules \in Seq({"domains", "rate_limit_configs"})
    /\ list_rate_limit_rules \in Seq({"rate_limit_configs"})
  <1>. DEFINE S == Seq({"domains", "rate_limit_configs"})
  <1>1. <<>> \in S /\ <<"domains">> \in S /\ <<"rate_limit_configs">> \in S
    OBVIOUS
  <1>2. Organization \in S /\ get_rate_limit_rule \in S
    BY <1>1 DEF Organization, get_rate_limit_rule
  <1>3. Organization \o get_rate_limit_rule \in S
    BY <1>2
  <1>4. Organization \o get_rate_limit_rule \o get_rate_limit_rule \in S
    BY <1>2, <1>3
  <1>5. check_rate_limit \in S
    BY <1>2, <1>4 DEF check_rate_limit
  <1>6. Increment \in S
    BY <1>1 DEF Increment, increment_usage_data, ExecuteQuery, get_usage_data
  <1>7. Organization \o Increment \in S
    BY <1>2, <1>6
  <1>8. Organization \o Increment \o Increment \in S
    BY <1>6, <1>7
  <1>9. increment_usage \in S
    BY <1>6, <1>8 DEF increment_usage
  <1>10. get_service_health \in S
    BY <1>1 DEF get_service_health, get_config_stats, get_database_stats, ExecuteQuery
  <1>. QED
    BY <1>1, <1>2, <1>5, <1>9, <1>10 DEF get_usage_statistics, set_limits,
       list_rate_limit_rules

(* Taking up a request. *)
LEMMA BeginKeeps ==
    ASSUME IInv, NEW who \in Bridge \cup {"api"},
           NEW q \in Seq({"domains", "rate_limit_configs"}), Begin(who, q),
           inbox' \subseteq Bridge, mapped' = mapped
    PROVE  IInv'
  <1>1. held["loop"] = "none"
    BY DEF Begin, IInv, Busy
  <1>2. PoolTypes' /\ Balance' /\ DbTypes' /\ LookupsGiveBack'
    BY <1>1, PoolUntouched DEF Begin, dbVars
  <1>3. TodoTypes'
    <2>1. (IF pool.made THEN q ELSE <<>>) \in Seq({"domains", "rate_limit_configs"})
      OBVIOUS
    <2>2. todo'["monitor"] = todo["monitor"]
      BY DEF Begin, IInv, TodoTypes, Thread
    <2>. QED BY <2>1, <2>2 DEF Begin, IInv, TodoTypes, Thread
  <1>4. OtherTypes'
    BY DEF Begin, IInv, OtherTypes
  <1>5. Busy'
    <2>1. who # "nobody"
      BY RateLimiterAssumption
    <2>. QED BY <1>1, <2>1 DEF Begin, Busy
  <1>. QED BY <1>2, <1>3, <1>4, <1>5 DEF IInv

(* One query more is done. *)
LEMMA PopKeeps ==
    ASSUME IInv, NEW t \in Thread, todo[t] # <<>>,
           todo' = [todo EXCEPT ![t] = Tail(@)], serving' = serving,
           t = "loop" => held'["loop"] = "none",
           t = "monitor" => held'["loop"] = held["loop"]
    PROVE  TodoTypes' /\ Busy'
  <1>1. todo[t] \in Seq({"domains", "rate_limit_configs"})
    BY DEF IInv, TodoTypes
  <1>2. Tail(todo[t]) \in Seq({"domains", "rate_limit_configs"})
    BY <1>1
  <1>3. t = "monitor" => Tail(todo[t]) \in Seq({"rate_limit_configs"})
    BY DEF IInv, TodoTypes
  <1>4. TodoTypes'
    BY <1>2, <1>3 DEF IInv, TodoTypes, Thread
  <1>5. CASE t = "loop"
    <2>1. serving # "nobody"
      BY <1>5 DEF IInv, Busy
    <2>. QED BY <1>4, <1>5, <2>1 DEF Busy
  <1>6. CASE t = "monitor"
    <2>1. todo'["loop"] = todo["loop"]
      BY <1>6 DEF IInv, TodoTypes, Thread
    <2>. QED BY <1>4, <1>6, <2>1 DEF IInv, Busy
  <1>. QED BY <1>5, <1>6 DEF Thread

(* get_connection moves one connection from the pool to the thread. *)
LEMMA BorrowKeeps ==
    ASSUME IInv, NEW t \in Thread, Borrow(t)
    PROVE  IInv'
  <1>1. OtherTypes' /\ DbTypes'
    BY DEF IInv, OtherTypes, DbTypes, Borrow, serviceVars, dbVars
  <1>2. CASE pool.free = 0 \/ mysql = "down"
    <2>1. UNCHANGED <<pool, held>> /\ todo' = [todo EXCEPT ![t] = Tail(@)] /\ held[t] = "none"
      BY <1>2 DEF Borrow
    <2>2. todo'["loop"] = todo["loop"] \/ held["loop"] = "none"
      BY <2>1 DEF IInv, TodoTypes, Thread
    <2>3. PoolTypes' /\ Balance' /\ LookupsGiveBack'
      BY <2>1, <2>2, PoolUntouched DEF Borrow, dbVars
    <2>4. TodoTypes' /\ Busy'
      BY <2>1, PopKeeps DEF Borrow, serviceVars
    <2>. QED BY <1>1, <2>3, <2>4 DEF IInv
  <1>3. CASE ~ (pool.free = 0 \/ mysql = "down")
    <2>1. PICK m \in BOOLEAN, f \in Nat, l \in Nat, s \in Nat : pool = Pool(m, f, l, s)
      BY DEF IInv, PoolTypes, Pool
    <2>2. pool' = Pool(m, f - 1, l, s) /\ f # 0
      BY <1>3, <2>1 DEF Borrow, Pool
    <2>3. held' = [held EXCEPT ![t] = "good"] /\ held[t] = "none" /\ todo' = todo
      BY <1>3 DEF Borrow
    <2>4. PoolTypes'
      BY <2>2, <2>3 DEF IInv, PoolTypes, Pool
    <2>5. Held("loop")' + Held("monitor")' = Held("loop") + Held("monitor") + 1
      BY <2>3 DEF IInv, PoolTypes, Held, Thread
    <2>6. Held("loop") \in Nat /\ Held("monitor") \in Nat
          /\ Held("loop")' \in Nat /\ Held("monitor")' \in Nat
      BY DEF Held
    <2>7. f + l + s + Held("loop") + Held("monitor") = IF m THEN POOL_SIZE ELSE 0
      BY <2>1 DEF IInv, Balance, Pool
    <2>8. (f - 1) + l + s + Held("loop")' + Held("monitor")' = IF m THEN POOL_SIZE ELSE 0
      BY <2>5, <2>6, <2>7
    <2>9. Balance'
      BY <2>2, <2>8 DEF Balance, Pool
    <2>10. AtRisk' = AtRisk
      BY <2>3 DEF IInv, PoolTypes, AtRisk, AsksFor, Thread
    <2>11. LookupsGiveBack'
      <3>1. pool'.lost = pool.lost /\ outages' = outages
        BY <2>1, <2>2 DEF Pool, Borrow, dbVars
      <3>. QED BY <2>10, <3>1 DEF IInv, LookupsGiveBack
    <2>12. TodoTypes' /\ Busy'
      BY <2>3 DEF IInv, TodoTypes, PoolTypes, Busy, Thread, Borrow, serviceVars
    <2>. QED BY <1>1, <2>4, <2>9, <2>11, <2>12 DEF IInv
  <1>. QED BY <1>2, <1>3

(* A query gives its connection back, loses it or spends it; what the lookup of an
   organization loses was at risk before. *)
LEMMA QueryKeeps ==
    ASSUME IInv, NEW t \in Thread, Query(t)
    PROVE  IInv'
  <1>1. OtherTypes' /\ DbTypes'
    BY DEF IInv, OtherTypes, DbTypes, Query, dbVars
  <1>2. PICK m \in BOOLEAN, f \in Nat, l \in Nat, s \in Nat : pool = Pool(m, f, l, s)
    BY DEF IInv, PoolTypes, Pool
  <1>3. held' = [held EXCEPT ![t] = "none"] /\ held[t] # "none"
    BY DEF Query
  <1>4. TodoTypes' /\ Busy'
    <2>1. t = "loop" => held'["loop"] = "none"
      BY <1>3 DEF IInv, PoolTypes, Thread
    <2>2. t = "monitor" => held'["loop"] = held["loop"]
      BY <1>3 DEF IInv, PoolTypes, Thread
    <2>. QED BY <2>1, <2>2, PopKeeps DEF Query
  <1>5. Held("loop")' + Held("monitor")' + 1 = Held("loop") + Held("monitor")
    BY <1>3 DEF IInv, PoolTypes, Held, Thread
  <1>6. /\ Held("loop") \in Nat /\ Held("monitor") \in Nat
        /\ Held("loop")' \in Nat /\ Held("monitor")' \in Nat
        /\ AtRisk \in {0, 1} /\ AtRisk' \in {0, 1}
    BY DEF Held, AtRisk
  <1>7. f + l + s + Held("loop") + Held("monitor") = IF m THEN POOL_SIZE ELSE 0
    BY <1>2 DEF IInv, Balance, Pool
  <1>8. outages' = outages /\ outages \in Nat
    BY DEF IInv, DbTypes, Query, dbVars
  <1>9. l + AtRisk <= outages
    BY <1>2 DEF IInv, LookupsGiveBack, Pool
  <1>10. AtRisk' = 0 \/ AtRisk' = AtRisk
    <2>1. CASE t = "loop"
      BY <1>3, <2>1 DEF IInv, PoolTypes, AtRisk, Thread
    <2>2. CASE t = "monitor"
      <3>1. held'["loop"] = held["loop"] /\ todo'["loop"] = todo["loop"]
        BY <1>3, <2>2 DEF IInv, PoolTypes, TodoTypes, Query, Thread
      <3>. QED BY <3>1 DEF AtRisk, AsksFor
    <2>. QED BY <2>1, <2>2 DEF Thread
  <1>14. l + AtRisk' <= outages
    <2>1. l <= outages
      BY <1>6, <1>8, <1>9
    <2>. QED BY <1>9, <1>10, <2>1
  <1>11. CASE ~ Fails(t)
    <2>1. pool' = Pool(m, f + 1, l, s)
      BY <1>2, <1>11 DEF Query, Pool
    <2>2. PoolTypes'
      BY <1>3, <2>1 DEF IInv, PoolTypes, Pool
    <2>3. (f + 1) + l + s + Held("loop")' + Held("monitor")' = IF m THEN POOL_SIZE ELSE 0
      BY <1>5, <1>6, <1>7
    <2>4. l + AtRisk' <= outages
      BY <1>14
    <2>. QED
      BY <1>1, <1>4, <1>8, <2>1, <2>2, <2>3, <2>4 DEF IInv, Balance, LookupsGiveBack, Pool
  <1>12. CASE Fails(t) /\ AsksFor(t, "domains")
    <2>1. pool' = Pool(m, f, l + 1, s)
      BY <1>2, <1>12 DEF Query, Pool
    <2>2. PoolTypes'
      BY <1>3, <2>1 DEF IInv, PoolTypes, Pool
    <2>3. f + (l + 1) + s + Held("loop")' + Held("monitor")' = IF m THEN POOL_SIZE ELSE 0
      BY <1>5, <1>6, <1>7
    <2>4. t = "loop"
      <3>1. t = "monitor" => Head(todo[t]) \in {"rate_limit_configs"}
        BY <1>12 DEF IInv, TodoTypes, AsksFor
      <3>. QED BY <1>12, <3>1 DEF AsksFor, Thread
    <2>5. AtRisk = 1 /\ AtRisk' = 0
      <3>1. held["loop"] = "dead"
        BY <1>12, <2>4 DEF Fails, AsksFor
      <3>2. held'["loop"] = "none"
        BY <1>3, <2>4 DEF IInv, PoolTypes, Thread
      <3>. QED BY <1>12, <2>4, <3>1, <3>2 DEF AtRisk
    <2>6. (l + 1) + AtRisk' <= outages
      BY <1>8, <1>9, <2>5
    <2>. QED
      BY <1>1, <1>4, <1>8, <2>1, <2>2, <2>3, <2>6 DEF IInv, Balance, LookupsGiveBack, Pool
  <1>13. CASE Fails(t) /\ ~ AsksFor(t, "domains")
    <2>1. pool' = Pool(m, f, l, s + 1)
      BY <1>2, <1>13 DEF Query, Pool
    <2>2. PoolTypes'
      BY <1>3, <2>1 DEF IInv, PoolTypes, Pool
    <2>3. f + l + (s + 1) + Held("loop")' + Held("monitor")' = IF m THEN POOL_SIZE ELSE 0
      BY <1>5, <1>6, <1>7
    <2>4. l + AtRisk' <= outages
      BY <1>14
    <2>. QED
      BY <1>1, <1>4, <1>8, <2>1, <2>2, <2>3, <2>4 DEF IInv, Balance, LookupsGiveBack, Pool
  <1>. QED BY <1>11, <1>12, <1>13

(* MySQL dies under at most one lookup of an organization, and the outage is counted. *)
LEMMA DownKeeps ==
    ASSUME IInv, MySQLDown
    PROVE  IInv'
  <1>1. OtherTypes' /\ TodoTypes'
    BY DEF IInv, OtherTypes, TodoTypes, MySQLDown, serviceVars
  <1>2. outages' = outages + 1 /\ outages \in Nat /\ pool' = pool
    BY DEF IInv, DbTypes, MySQLDown
  <1>3. DbTypes'
    BY RateLimiterAssumption DEF IInv, DbTypes, MySQLDown
  <1>4. held' = [t \in Thread |-> IF held[t] = "good" THEN "dead" ELSE held[t]]
    BY DEF MySQLDown
  <1>5. PoolTypes' /\ Held("loop")' = Held("loop") /\ Held("monitor")' = Held("monitor")
    BY <1>2, <1>4 DEF IInv, PoolTypes, Held, Thread
  <1>6. Balance'
    BY <1>2, <1>5 DEF IInv, Balance
  <1>7. AtRisk \in {0, 1} /\ AtRisk' \in {0, 1}
    BY DEF AtRisk
  <1>8. pool.lost \in Nat
    BY DEF IInv, PoolTypes
  <1>9. pool.lost + AtRisk <= outages
    BY DEF IInv, LookupsGiveBack
  <1>10. pool.lost + AtRisk' <= outages + 1
    BY <1>2, <1>7, <1>8, <1>9
  <1>11. LookupsGiveBack'
    BY <1>2, <1>10 DEF LookupsGiveBack
  <1>12. Busy'
    BY <1>4 DEF IInv, Busy, MySQLDown, serviceVars, Thread
  <1>. QED BY <1>1, <1>3, <1>5, <1>6, <1>11, <1>12 DEF IInv

LEMMA InitEstablishes == LimiterInit => IInv
  <1>. SUFFICES ASSUME LimiterInit PROVE IInv
    OBVIOUS
  <1>1. POOL_SIZE \in Nat /\ MaxOutages \in Nat /\ MaxRestarts \in Nat
    BY RateLimiterAssumption
  <1>2. pool = [made |-> mysql = "up", free |-> IF mysql = "up" THEN POOL_SIZE ELSE 0,
                lost |-> 0, spent |-> 0]
    BY DEF LimiterInit, NewPool
  <1>3. held = [t \in Thread |-> "none"] /\ outages = 0
    BY DEF LimiterInit
  <1>4. PoolTypes
    BY <1>1, <1>2, <1>3 DEF PoolTypes
  <1>5. Held("loop") = 0 /\ Held("monitor") = 0 /\ AtRisk = 0
    BY <1>3 DEF Held, AtRisk, Thread
  <1>6. LookupsGiveBack
    BY <1>2, <1>3, <1>5 DEF LookupsGiveBack
  <1>7. Balance
    <2>1. CASE mysql = "up"
      <3>1. pool.free = POOL_SIZE /\ pool.lost = 0 /\ pool.spent = 0 /\ pool.made = TRUE
        BY <1>2, <2>1
      <3>. QED BY <1>1, <1>5, <3>1 DEF Balance
    <2>2. CASE mysql # "up"
      <3>1. pool.free = 0 /\ pool.lost = 0 /\ pool.spent = 0 /\ pool.made = FALSE
        BY <1>2, <2>2
      <3>. QED BY <1>5, <3>1 DEF Balance
    <2>. QED BY <2>1, <2>2
  <1>8. TodoTypes
    <2>1. <<>> \in Seq({"domains", "rate_limit_configs"}) /\ <<>> \in Seq({"rate_limit_configs"})
      OBVIOUS
    <2>. QED BY <2>1 DEF LimiterInit, TodoTypes, Thread
  <1>9. DbTypes
    BY <1>1 DEF LimiterInit, DbTypes
  <1>10. OtherTypes
    <2>1. serving = "nobody" /\ inbox = {} /\ mapped = FALSE
      BY DEF LimiterInit
    <2>2. mail \in [Bridge -> {"none", "asks", "DUNNO"}]
      BY DEF LimiterInit
    <2>3. restarts \in 0 .. MaxRestarts
      BY <1>1 DEF LimiterInit
    <2>. QED BY <2>1, <2>2, <2>3 DEF OtherTypes
  <1>11. Busy
    BY <1>3 DEF LimiterInit, Busy, Thread
  <1>. QED BY <1>4, <1>6, <1>7, <1>8, <1>9, <1>10, <1>11 DEF IInv

LEMMA NextPreserves == IInv /\ [LimiterNext]_limiterVars => IInv'
  <1>. SUFFICES ASSUME IInv, [LimiterNext]_limiterVars PROVE IInv'
    OBVIOUS
  <1>1. ASSUME NEW b \in Bridge, Ask(b) PROVE IInv'
    <2>1. PoolTypes' /\ Balance' /\ DbTypes' /\ LookupsGiveBack'
      BY <1>1, PoolUntouched DEF Ask, poolVars, dbVars
    <2>2. OtherTypes' /\ TodoTypes' /\ Busy'
      BY <1>1 DEF Ask, IInv, OtherTypes, TodoTypes, Busy, poolVars
    <2>. QED BY <2>1, <2>2 DEF IInv
  <1>2. ASSUME NEW b \in Bridge, GiveUp(b) \/ NextMail(b) PROVE IInv'
    <2>1. PoolTypes' /\ Balance' /\ DbTypes' /\ LookupsGiveBack'
      BY <1>2, PoolUntouched DEF GiveUp, NextMail, poolVars, dbVars
    <2>2. OtherTypes' /\ TodoTypes' /\ Busy'
      BY <1>2 DEF GiveUp, NextMail, IInv, OtherTypes, TodoTypes, Busy, poolVars, serviceVars
    <2>. QED BY <2>1, <2>2 DEF IInv
  <1>3. ASSUME NEW b \in Bridge, Check(b) PROVE IInv'
    BY <1>3, BeginKeeps, QueriesTyped DEF Check, IInv, OtherTypes
  <1>4. CASE Api
    BY <1>4, BeginKeeps, QueriesTyped DEF Api, IInv, OtherTypes
  <1>5. CASE AnswerRequest
    <2>1. PoolTypes' /\ Balance' /\ DbTypes' /\ LookupsGiveBack'
      BY <1>5, PoolUntouched DEF AnswerRequest, poolVars, dbVars
    <2>2. OtherTypes' /\ TodoTypes' /\ Busy'
      BY <1>5 DEF AnswerRequest, Verdict, IInv, OtherTypes, TodoTypes, Busy, poolVars
    <2>. QED BY <2>1, <2>2 DEF IInv
  <1>6. CASE MonitoringCycle
    <2>3. todo'["loop"] = todo["loop"]
      BY <1>6 DEF MonitoringCycle, IInv, TodoTypes, Thread
    <2>1. PoolTypes' /\ Balance' /\ DbTypes' /\ LookupsGiveBack'
      BY <1>6, <2>3, PoolUntouched DEF MonitoringCycle, dbVars
    <2>4. TodoTypes'
      BY <1>6, QueriesTyped DEF MonitoringCycle, IInv, TodoTypes, Thread
    <2>2. OtherTypes' /\ Busy'
      BY <1>6, <2>3 DEF MonitoringCycle, IInv, OtherTypes, Busy, serviceVars
    <2>. QED BY <2>1, <2>2, <2>4 DEF IInv
  <1>7. ASSUME NEW t \in Thread, Borrow(t) PROVE IInv'
    BY <1>7, BorrowKeeps
  <1>8. ASSUME NEW t \in Thread, Query(t) PROVE IInv'
    BY <1>8, QueryKeeps
  <1>9. CASE MySQLDown
    BY <1>9, DownKeeps
  <1>10. CASE MySQLUp
    BY <1>10 DEF MySQLUp, IInv, PoolTypes, Balance, Held, TodoTypes, DbTypes, OtherTypes,
       Busy, LookupsGiveBack, AtRisk, AsksFor, poolVars, serviceVars
  <1>11. CASE Unmap
    <2>1. PoolTypes' /\ Balance' /\ DbTypes' /\ LookupsGiveBack'
      BY <1>11, PoolUntouched DEF Unmap, poolVars, dbVars
    <2>2. OtherTypes' /\ TodoTypes' /\ Busy'
      BY <1>11 DEF Unmap, IInv, OtherTypes, TodoTypes, Busy, poolVars
    <2>. QED BY <2>1, <2>2 DEF IInv
  <1>12. CASE Restart
    <2>1. (mysql = "up") \in BOOLEAN /\ outages' \in Nat
      BY <1>12 DEF Restart, IInv, DbTypes, dbVars
    <2>2. PoolTypes' /\ Balance' /\ LookupsGiveBack'
      BY <1>12, <2>1, FreshPool DEF Restart
    <2>3. DbTypes' /\ TodoTypes' /\ Busy'
      BY <1>12 DEF Restart, IInv, DbTypes, TodoTypes, Busy, dbVars, Thread
    <2>4. OtherTypes'
      BY <1>12, RateLimiterAssumption DEF Restart, IInv, OtherTypes
    <2>. QED BY <2>2, <2>3, <2>4 DEF IInv
  <1>13. CASE UNCHANGED limiterVars
    <2>1. PoolTypes' /\ Balance' /\ DbTypes' /\ LookupsGiveBack'
      BY <1>13, PoolUntouched DEF limiterVars, poolVars, dbVars
    <2>2. OtherTypes' /\ TodoTypes' /\ Busy'
      BY <1>13 DEF IInv, OtherTypes, TodoTypes, Busy, limiterVars, poolVars, serviceVars
    <2>. QED BY <2>1, <2>2 DEF IInv
  <1>. QED
    BY <1>1, <1>2, <1>3, <1>4, <1>5, <1>6, <1>7, <1>8, <1>9, <1>10, <1>11, <1>12, <1>13
       DEF LimiterNext

LEMMA Invariance == LimiterSpec => []IInv
  BY InitEstablishes, NextPreserves, PTL DEF LimiterSpec

(* Every variable keeps its type, and of the connections of a pool never more than
   POOL_SIZE are free, or lost. *)
THEOREM LimiterTypeCorrect == LimiterSpec => []LimiterTypeOK
  <1>1. IInv => LimiterTypeOK
    BY BoundedByBalance DEF IInv, LimiterTypeOK, TodoTypes, DbTypes, OtherTypes, PoolTypes
  <1>. QED BY <1>1, Invariance, PTL

(* However many requests meet an outage, whatever the rules take out of the pool and
   whatever is restarted: the lookup of an organization loses a connection only to
   MySQL going down under it, one to each outage at most (_get_organization_from_database). *)
THEOREM LookupsCostOutagesOnly == LimiterSpec => []LookupsGiveBack
  <1>1. IInv => LookupsGiveBack
    BY DEF IInv
  <1>. QED BY <1>1, Invariance, PTL

-----------------------------------------------------------------------------
(* What the template service stores stays together, for any templates, contents
   and bounds.  The invariant adds to the properties that a template that does not
   exist has no rows in the other tables, and that the present row is as new as
   anything an author was shown. *)

(* A template nobody created has left no trace. *)
NoTrace ==
    \A t \in Template : ~Exists(t) =>
        /\ versions[t] = <<>>
        /\ log[t] = 0
        /\ served[t] = 0
        /\ \A r \in told : r.template # t

-------------------------------------------------------------------------------
(* Rows *)

LEMMA NoRowIsNoRow == ~(NoRow \in Row)
BY DEF NoRow, Row

(* A row that can be stored for the first time. *)
LEMMA NewRowFits ==
    ASSUME NEW h \in Html, NEW x \in Text, NEW isCopy \in BOOLEAN
    PROVE  /\ NewRow(h, x, isCopy) \in Row
           /\ NewRow(h, x, isCopy) # NoRow
           /\ NewRow(h, x, isCopy).html = h
           /\ NewRow(h, x, isCopy).text = x
           /\ NewRow(h, x, isCopy).version = 1
           /\ NewRow(h, x, isCopy).copy = isCopy
           /\ NewRow(h, x, isCopy).render_count = 0
BY BoundAssumption DEF NewRow, Row, NoRow

(* A text that is not left out, or the one made from the HTML. *)
LEMMA TextFits ==
    ASSUME NEW h \in Html
    PROVE  Made(h) \in Text /\ Written \subseteq Text
BY DEF Made, Text, Written

(* What a change makes of a row: the next version, with a text that fits. *)
LEMMA MergedFits ==
    ASSUME NEW row \in Row, NEW h \in (Html \ BadHtml) \cup {None},
           NEW own \in Written \cup {None}, row.html \notin BadHtml
    PROVE  /\ Merged(row, h, own) \in Row
           /\ Merged(row, h, own) # NoRow
           /\ Merged(row, h, own).html \notin BadHtml
           /\ Merged(row, h, own).version = row.version + 1
           /\ Merged(row, h, own).copy = row.copy
           /\ Merged(row, h, own).render_count = row.render_count
           /\ Merged(row, h, own).text \in
                {row.text, Made(Merged(row, h, own).html)} \cup Written
           /\ h = None => Merged(row, h, own).html = row.html
           /\ h # None => Merged(row, h, own).text \in
                            {Made(Merged(row, h, own).html)} \cup Written
  <1> DEFINE html == IF h = None THEN row.html ELSE h
             text == IF own # None THEN own ELSE IF h # None THEN Made(h) ELSE row.text
  <1>1. Merged(row, h, own) =
          [row EXCEPT !.html = html, !.text = text, !.version = row.version + 1]
    BY DEF Merged, Row
  <1>2. html \in Html /\ html \notin BadHtml
    BY DEF Row
  <1>3. text \in Text
    BY <1>2, TextFits DEF Row
  <1>4. row.version + 1 \in Nat \ {0}
    BY DEF Row
  <1>5. text \in {row.text, Made(html)} \cup Written
    OBVIOUS
  <1>6. h # None => text \in {Made(html)} \cup Written
    OBVIOUS
  <1>7. h = None => html = row.html
    OBVIOUS
  <1> HIDE DEF html, text
  <1>8. /\ Merged(row, h, own) \in Row
        /\ Merged(row, h, own).html = html
        /\ Merged(row, h, own).text = text
        /\ Merged(row, h, own).version = row.version + 1
        /\ Merged(row, h, own).copy = row.copy
        /\ Merged(row, h, own).render_count = row.render_count
    BY <1>1, <1>2, <1>3, <1>4 DEF Row
  <1> QED BY <1>2, <1>5, <1>6, <1>7, <1>8, NoRowIsNoRow

LEMMA VersionFits ==
    ASSUME NEW row \in Row
    PROVE  /\ VersionOf(row) \in Version
           /\ VersionOf(row).version = row.version
           /\ VersionOf(row).html = row.html
           /\ VersionOf(row).text = row.text
BY DEF VersionOf, Row, Version

-------------------------------------------------------------------------------
(* Steps.  create_template and update_template store a row and its version. *)

SaveStep(t, row) ==
    /\ StoreVersion
    /\ Store(t, row)
    /\ SaveVersion(t, row)
    /\ Answer(t, row)
    /\ UNCHANGED <<log, served>>

(* The row is the first of a new template or continues the present one. *)
Continues(t, row) ==
    /\ row \in Row
    /\ row # NoRow
    /\ row.html \notin BadHtml
    /\ \/ /\ ~Exists(t)
          /\ row.version = 1
          /\ row.copy = FALSE
          /\ row.render_count = 0
          /\ row.text \in Written \cup {Made(row.html)}
       \/ /\ Exists(t)
          /\ row.version = rows[t].version + 1
          /\ row.copy = rows[t].copy
          /\ row.render_count = rows[t].render_count
          /\ \/ row.text \in Written \cup {Made(row.html)}
             \/ row.html = rows[t].html /\ row.text = rows[t].text

LEMMA RowOfExisting ==
    ASSUME TypeOK, NEW t \in Template, Exists(t)
    PROVE  rows[t] \in Row /\ rows[t].html \notin BadHtml
BY DEF TypeOK, Exists

LEMMA SaveSteps ==
    ASSUME TypeOK, NEW t \in Template, CreateTemplate(t) \/ UpdateTemplate(t)
    PROVE  \E row : Continues(t, row) /\ SaveStep(t, row)
  <1>1. CASE CreateTemplate(t)
    <2>1. PICK h \in Html \ BadHtml, own \in Written \cup {None} :
              LET row == NewRow(h, IF own = None THEN Made(h) ELSE own, FALSE) IN
              Store(t, row) /\ SaveVersion(t, row) /\ Answer(t, row)
      BY <1>1 DEF CreateTemplate
    <2> DEFINE x == IF own = None THEN Made(h) ELSE own
               row == NewRow(h, x, FALSE)
    <2>2. x \in Text /\ x \in Written \cup {Made(h)}
      BY TextFits
    <2>3. SaveStep(t, row)
      BY <1>1, <2>1 DEF CreateTemplate, SaveStep
    <2> HIDE DEF x
    <2>4. Continues(t, row)
      BY <1>1, <2>2, NewRowFits DEF CreateTemplate, Continues
    <2> QED BY <2>3, <2>4
  <1>2. CASE UpdateTemplate(t)
    <2>1. PICK h \in (Html \ BadHtml) \cup {None}, own \in Written \cup {None} :
              LET row == Merged(rows[t], h, own) IN
              Store(t, row) /\ SaveVersion(t, row) /\ Answer(t, row)
      BY <1>2 DEF UpdateTemplate
    <2> DEFINE row == Merged(rows[t], h, own)
    <2>2. Exists(t) /\ rows[t] \in Row /\ rows[t].html \notin BadHtml
      BY <1>2, RowOfExisting DEF UpdateTemplate
    <2>3. SaveStep(t, row)
      BY <1>2, <2>1 DEF UpdateTemplate, SaveStep
    <2>4. /\ row \in Row
          /\ row # NoRow
          /\ row.html \notin BadHtml
          /\ row.version = rows[t].version + 1
          /\ row.copy = rows[t].copy
          /\ row.render_count = rows[t].render_count
          /\ row.text \in {rows[t].text, Made(row.html)} \cup Written
          /\ h = None => row.html = rows[t].html
          /\ h # None => row.text \in {Made(row.html)} \cup Written
      BY <2>2, MergedFits
    <2> HIDE DEF row
    <2>5. Continues(t, row)
      BY <2>2, <2>4 DEF Continues
    <2> QED BY <2>3, <2>5
  <1> QED BY <1>1, <1>2

(* Deleting and rendering keep what is told of a version. *)
RowStep(t, row) ==
    /\ Exists(t)
    /\ row \in Row
    /\ row # NoRow
    /\ VersionOf(row) = VersionOf(rows[t])
    /\ row.html = rows[t].html
    /\ row.version = rows[t].version
    /\ row.copy = rows[t].copy
    /\ Store(t, row)
    /\ UNCHANGED <<versions, told, stored>>
    /\ \/ row.render_count = rows[t].render_count /\ UNCHANGED <<log, served>>
       \/ /\ row.render_count = rows[t].render_count + 1
          /\ log' = [log EXCEPT ![t] = @ + 1]
          /\ served' \in {served, [served EXCEPT ![t] = @ + 1]}

LEMMA RowSteps ==
    ASSUME TypeOK, NEW t \in Template,
           DeleteTemplate(t) \/ \E format \in {"html", "plaintext"} : RenderTemplate(t, format)
    PROVE  \E row : RowStep(t, row)
  <1>1. CASE DeleteTemplate(t)
    <2> DEFINE row == [rows[t] EXCEPT !.active = FALSE]
    <2>1. Exists(t) /\ rows[t] \in Row
      BY <1>1, RowOfExisting DEF DeleteTemplate
    <2>2. /\ row \in Row
          /\ VersionOf(row) = VersionOf(rows[t])
          /\ row.html = rows[t].html
          /\ row.version = rows[t].version
          /\ row.copy = rows[t].copy
          /\ row.render_count = rows[t].render_count
      BY <2>1 DEF Row, VersionOf
    <2>3. /\ Store(t, row)
          /\ UNCHANGED <<versions, log, told, served, stored>>
      BY <1>1 DEF DeleteTemplate
    <2> HIDE DEF row
    <2> QED BY <2>1, <2>2, <2>3, NoRowIsNoRow DEF RowStep
  <1>2. ASSUME NEW format \in {"html", "plaintext"}, RenderTemplate(t, format)
        PROVE  \E row : RowStep(t, row)
    <2> DEFINE row == [rows[t] EXCEPT !.render_count = @ + 1]
    <2>1. Exists(t) /\ rows[t] \in Row
      BY <1>2, RowOfExisting DEF RenderTemplate
    <2>2. rows[t].render_count + 1 \in 0..MaxRenders
      BY <1>2, <2>1, BoundAssumption DEF RenderTemplate, Row
    <2>3. /\ row \in Row
          /\ VersionOf(row) = VersionOf(rows[t])
          /\ row.html = rows[t].html
          /\ row.version = rows[t].version
          /\ row.copy = rows[t].copy
          /\ row.render_count = rows[t].render_count + 1
      BY <2>1, <2>2 DEF Row, VersionOf
    <2>4. /\ Store(t, row)
          /\ UNCHANGED <<versions, told, stored>>
          /\ log' = [log EXCEPT ![t] = @ + 1]
          /\ served' \in {served, [served EXCEPT ![t] = @ + 1]}
      BY <1>2 DEF RenderTemplate
    <2> HIDE DEF row
    <2> QED BY <2>1, <2>3, <2>4, NoRowIsNoRow DEF RowStep
  <1> QED BY <1>1, <1>2

(* A copy. *)
CopyStep(t, new, row) ==
    /\ Exists(t)
    /\ ~Exists(new)
    /\ row \in Row
    /\ row # NoRow
    /\ row.html = rows[t].html
    /\ row.text = rows[t].text
    /\ row.version = 1
    /\ row.copy = TRUE
    /\ row.render_count = 0
    /\ StoreVersion
    /\ Store(new, row)
    /\ Answer(new, row)
    /\ UNCHANGED <<versions, log, served>>

LEMMA CopySteps ==
    ASSUME TypeOK, NEW t \in Template, NEW new \in Template, DuplicateTemplate(t, new)
    PROVE  \E row : CopyStep(t, new, row)
  <1> DEFINE row == NewRow(rows[t].html, rows[t].text, TRUE)
  <1>1. Exists(t) /\ ~Exists(new) /\ rows[t] \in Row
    BY RowOfExisting DEF DuplicateTemplate
  <1>2. rows[t].html \in Html /\ rows[t].text \in Text
    BY <1>1 DEF Row
  <1>3. /\ row \in Row
        /\ row # NoRow
        /\ row.html = rows[t].html
        /\ row.text = rows[t].text
        /\ row.version = 1
        /\ row.copy = TRUE
        /\ row.render_count = 0
    BY <1>2, NewRowFits
  <1>4. StoreVersion /\ Store(new, row) /\ Answer(new, row) /\ UNCHANGED <<versions, log, served>>
    BY DEF DuplicateTemplate
  <1> HIDE DEF row
  <1> QED BY <1>1, <1>3, <1>4 DEF CopyStep

(* Every step is one of the three, on one template. *)
LEMMA StepKinds ==
    ASSUME TypeOK, Next
    PROVE  \E t \in Template :
             \/ \E row : Continues(t, row) /\ SaveStep(t, row)
             \/ \E row : RowStep(t, row)
             \/ \E new \in Template : \E row : CopyStep(t, new, row)
BY SaveSteps, RowSteps, CopySteps DEF Next

-------------------------------------------------------------------------------
(* Types *)

LEMMA InitTypes == Init => TypeOK /\ NoTrace
BY BoundAssumption DEF Init, TypeOK, NoTrace, Exists, NoRow

(* A shown version is a version of a template. *)
LEMMA AnswerFits ==
    ASSUME TypeOK, NEW t \in Template, NEW row \in Row, Answer(t, row)
    PROVE  told' \in SUBSET [template : Template, row : Version]
BY VersionFits DEF TypeOK, Answer, Response

LEMMA StoreFits ==
    ASSUME TypeOK, NEW t \in Template, NEW row \in Row, row.html \notin BadHtml, Store(t, row)
    PROVE  /\ rows' \in [Template -> Row \cup {NoRow}]
           /\ \A u \in Template : Exists(u)' => rows'[u].html \notin BadHtml
BY DEF TypeOK, Store, Exists

LEMMA StoredFits ==
    ASSUME TypeOK, StoreVersion
    PROVE  stored' \in 0..MaxVersions
BY BoundAssumption DEF TypeOK, StoreVersion

LEMMA TypeStep ==
    ASSUME TypeOK, [Next]_vars
    PROVE  TypeOK'
  <1>1. CASE UNCHANGED vars
    BY <1>1 DEF vars, TypeOK, Exists
  <1>2. ASSUME NEW t \in Template, NEW row, Continues(t, row), SaveStep(t, row)
        PROVE  TypeOK'
    <2>1. row \in Row /\ row.html \notin BadHtml
      BY <1>2 DEF Continues
    <2>2. versions' \in [Template -> Seq(Version)]
      BY <1>2, <2>1, VersionFits DEF TypeOK, SaveStep, SaveVersion
    <2>3. /\ log' \in [Template -> Nat]
          /\ served' \in [Template -> Nat]
      BY <1>2 DEF TypeOK, SaveStep
    <2> QED BY <1>2, <2>1, <2>2, <2>3, AnswerFits, StoreFits, StoredFits DEF SaveStep, TypeOK
  <1>3. ASSUME NEW t \in Template, NEW row, RowStep(t, row)
        PROVE  TypeOK'
    <2>1. row \in Row /\ row.html \notin BadHtml
      BY <1>3, RowOfExisting DEF RowStep
    <2>2. /\ log' \in [Template -> Nat]
          /\ served' \in [Template -> Nat]
      <3>1. log[t] + 1 \in Nat /\ served[t] + 1 \in Nat
        BY DEF TypeOK
      <3>2. /\ log' = log \/ log' = [log EXCEPT ![t] = log[t] + 1]
            /\ served' = served \/ served' = [served EXCEPT ![t] = served[t] + 1]
        BY <1>3 DEF RowStep
      <3> QED BY <3>1, <3>2 DEF TypeOK
    <2>3. /\ rows' \in [Template -> Row \cup {NoRow}]
          /\ \A u \in Template : Exists(u)' => rows'[u].html \notin BadHtml
      BY <1>3, <2>1, StoreFits DEF RowStep
    <2>4. /\ versions' \in [Template -> Seq(Version)]
          /\ told' \in SUBSET [template : Template, row : Version]
          /\ stored' \in 0..MaxVersions
      BY <1>3 DEF RowStep, TypeOK
    <2> QED BY <2>2, <2>3, <2>4 DEF TypeOK
  <1>4. ASSUME NEW t \in Template, NEW new \in Template, NEW row, CopyStep(t, new, row)
        PROVE  TypeOK'
    <2>1. row \in Row /\ row.html \notin BadHtml
      BY <1>4, RowOfExisting DEF CopyStep
    <2>2. /\ log' \in [Template -> Nat]
          /\ served' \in [Template -> Nat]
          /\ versions' \in [Template -> Seq(Version)]
      BY <1>4 DEF TypeOK, CopyStep
    <2> QED BY <1>4, <2>1, <2>2, AnswerFits, StoreFits, StoredFits DEF CopyStep, TypeOK
  <1> QED BY <1>1, <1>2, <1>3, <1>4, StepKinds

LEMMA TraceStep ==
    ASSUME TypeOK, NoTrace, [Next]_vars
    PROVE  NoTrace'
  <1>1. CASE UNCHANGED vars
    BY <1>1 DEF vars, NoTrace, Exists
  <1>2. ASSUME NEW t \in Template, NEW row, Continues(t, row), SaveStep(t, row)
        PROVE  NoTrace'
    BY <1>2 DEF NoTrace, Exists, Continues, SaveStep, Store, SaveVersion, Answer, Response, TypeOK
  <1>3. ASSUME NEW t \in Template, NEW row, RowStep(t, row)
        PROVE  NoTrace'
    BY <1>3 DEF NoTrace, Exists, RowStep, Store, TypeOK
  <1>4. ASSUME NEW t \in Template, NEW new \in Template, NEW row, CopyStep(t, new, row)
        PROVE  NoTrace'
    BY <1>4 DEF NoTrace, Exists, CopyStep, Store, Answer, Response, TypeOK
  <1> QED BY <1>1, <1>2, <1>3, <1>4, StepKinds

(* Every variable keeps its type, and nothing that cannot be parsed is stored as
   HTML (the checks of create_template and update_template). *)
THEOREM TypeCorrect == Spec => []TypeOK
  <1>1. Init => TypeOK
    BY InitTypes
  <1>2. TypeOK /\ [Next]_vars => TypeOK'
    BY TypeStep
  <1> QED BY <1>1, <1>2, PTL DEF Spec

-------------------------------------------------------------------------------
(* The history *)

(* The part of HistoryTells about one template, of its row and version rows. *)
Tells(row, vs) ==
    LET first == IF row.copy THEN 2 ELSE 1 IN
    /\ Len(vs) = row.version + 1 - first
    /\ \A i \in 1..Len(vs) : vs[i].version = first + i - 1
    /\ vs # <<>> => vs[Len(vs)] = VersionOf(row)

LEMMA HistoryByTemplate ==
    /\ HistoryTells <=> \A t \in Template : Exists(t) => Tells(rows[t], versions[t])
    /\ HistoryTells' <=> \A t \in Template : Exists(t)' => Tells(rows'[t], versions'[t])
BY DEF HistoryTells, Tells, FirstVersion, VersionNumbers

LEMMA TellsFirst ==
    ASSUME NEW row \in Row, row.version = 1, row.copy = FALSE
    PROVE  Tells(row, Append(<<>>, VersionOf(row)))
BY DEF Tells, VersionOf

LEMMA TellsNext ==
    ASSUME NEW old \in Row, NEW row \in Row, NEW vs \in Seq(Version), Tells(old, vs),
           row.version = old.version + 1, row.copy = old.copy
    PROVE  Tells(row, Append(vs, VersionOf(row)))
  <1> DEFINE n == Len(vs)
             first == IF row.copy THEN 2 ELSE 1
             new == Append(vs, VersionOf(row))
  <1>1. n \in Nat /\ row.version \in Nat /\ old.version \in Nat /\ first \in {1, 2}
    BY DEF Row
  <1>2. n = old.version + 1 - first /\ \A i \in 1..n : vs[i].version = first + i - 1
    BY DEF Tells
  <1>3. VersionOf(row) \in Version /\ VersionOf(row).version = row.version
    BY VersionFits
  <1>4. /\ Len(new) = n + 1
        /\ new[n + 1] = VersionOf(row)
        /\ \A i \in 1..n : new[i] = vs[i]
        /\ new # <<>>
    BY <1>3
  <1> HIDE DEF n, first, new
  <1>5. n + 1 = row.version + 1 - first
    BY <1>1, <1>2
  <1>6. ASSUME NEW i \in 1..(n + 1)
        PROVE  new[i].version = first + i - 1
    <2>1. CASE i = n + 1
      <3>1. new[i].version = row.version
        BY <1>3, <1>4, <2>1
      <3>2. row.version = first + i - 1
        BY <1>1, <1>5, <2>1
      <3> QED BY <3>1, <3>2
    <2>2. CASE i \in 1..n
      BY <1>2, <1>4, <2>2
    <2> QED BY <1>1, <2>1, <2>2
  <1>7. Tells(row, new)
    BY <1>4, <1>5, <1>6 DEF Tells, first
  <1> QED BY <1>7 DEF new

LEMMA HistoryStep ==
    ASSUME TypeOK, NoTrace, HistoryTells, [Next]_vars
    PROVE  HistoryTells'
  <1>1. CASE UNCHANGED vars
    BY <1>1, HistoryByTemplate DEF vars, Exists
  <1>2. ASSUME NEW t \in Template, NEW row, Continues(t, row), SaveStep(t, row)
        PROVE  HistoryTells'
    <2>1. /\ rows' = [rows EXCEPT ![t] = row]
          /\ versions' = [versions EXCEPT ![t] = Append(versions[t], VersionOf(row))]
      BY <1>2 DEF SaveStep, Store, SaveVersion
    <2>2. rows'[t] = row /\ versions'[t] = Append(versions[t], VersionOf(row))
      BY <2>1 DEF TypeOK
    <2>3. \A u \in Template \ {t} : rows'[u] = rows[u] /\ versions'[u] = versions[u]
      BY <2>1 DEF TypeOK
    <2>4. row \in Row /\ versions[t] \in Seq(Version)
      BY <1>2 DEF Continues, TypeOK
    <2>5. Tells(row, Append(versions[t], VersionOf(row)))
      <3>1. CASE ~Exists(t)
        <4>1. row.version = 1 /\ row.copy = FALSE
          BY <1>2, <3>1 DEF Continues
        <4>2. versions[t] = <<>>
          BY <3>1 DEF NoTrace
        <4> QED BY <2>4, <4>1, <4>2, TellsFirst
      <3>2. CASE Exists(t)
        <4>1. row.version = rows[t].version + 1 /\ row.copy = rows[t].copy
          BY <1>2, <3>2 DEF Continues
        <4>2. rows[t] \in Row
          BY <3>2, RowOfExisting
        <4>3. Tells(rows[t], versions[t])
          BY <3>2, HistoryByTemplate
        <4> QED BY <2>4, <4>1, <4>2, <4>3, TellsNext
      <3> QED BY <3>1, <3>2
    <2>6. ASSUME NEW u \in Template, Exists(u)'
          PROVE  Tells(rows'[u], versions'[u])
      BY <2>2, <2>3, <2>5, <2>6, HistoryByTemplate DEF Exists
    <2> QED BY <2>6, HistoryByTemplate
  <1>3. ASSUME NEW t \in Template, NEW row, RowStep(t, row)
        PROVE  HistoryTells'
    <2>1. /\ rows'[t] = row
          /\ versions' = versions
          /\ \A u \in Template \ {t} : rows'[u] = rows[u]
      BY <1>3 DEF RowStep, Store, TypeOK
    <2>2. Tells(row, versions[t])
      <3>1. Tells(rows[t], versions[t])
        BY <1>3, HistoryByTemplate DEF RowStep
      <3> QED BY <1>3, <3>1 DEF Tells, RowStep
    <2>3. ASSUME NEW u \in Template, Exists(u)'
          PROVE  Tells(rows'[u], versions'[u])
      BY <2>1, <2>2, <2>3, HistoryByTemplate DEF Exists
    <2> QED BY <2>3, HistoryByTemplate
  <1>4. ASSUME NEW t \in Template, NEW new \in Template, NEW row, CopyStep(t, new, row)
        PROVE  HistoryTells'
    <2>1. /\ rows'[new] = row
          /\ versions' = versions
          /\ versions[new] = <<>>
          /\ \A u \in Template \ {new} : rows'[u] = rows[u]
      BY <1>4 DEF CopyStep, Store, TypeOK, NoTrace
    <2>2. Tells(row, <<>>)
      BY <1>4 DEF CopyStep, Tells
    <2>3. ASSUME NEW u \in Template, Exists(u)'
          PROVE  Tells(rows'[u], versions'[u])
      BY <2>1, <2>2, <2>3, HistoryByTemplate DEF Exists
    <2> QED BY <2>3, HistoryByTemplate
  <1> QED BY <1>1, <1>2, <1>3, <1>4, StepKinds

(* What update_template stores in two tables stays together: the history of a
   template has every version once and in order, and ends with the present one. *)
THEOREM HistoryIsWhole == Spec => []HistoryTells
  <1>1. Init => TypeOK /\ NoTrace /\ HistoryTells
    BY InitTypes DEF Init, HistoryTells, Exists
  <1>2. TypeOK /\ NoTrace /\ HistoryTells /\ [Next]_vars => (TypeOK /\ NoTrace /\ HistoryTells)'
    BY TypeStep, TraceStep, HistoryStep
  <1> QED BY <1>1, <1>2, PTL DEF Spec

-------------------------------------------------------------------------------
(* The texts *)

(* The text of a version is its author's own or made from the HTML beside it. *)
Fits(v) == v.text \in Written \cup {Made(v.html)}

TextsFit(row, vs) == Fits(VersionOf(row)) /\ \A i \in 1..Len(vs) : Fits(vs[i])

LEMMA TextsByTemplate ==
    /\ TextsAgree <=> \A t \in Template : Exists(t) => TextsFit(rows[t], versions[t])
    /\ TextsAgree' <=> \A t \in Template : Exists(t)' => TextsFit(rows'[t], versions'[t])
BY DEF TextsAgree, TextsFit, Fits

LEMMA TextsStep ==
    ASSUME TypeOK, NoTrace, TextsAgree, [Next]_vars
    PROVE  TextsAgree'
  <1>1. CASE UNCHANGED vars
    BY <1>1, TextsByTemplate DEF vars, Exists
  <1>2. ASSUME NEW t \in Template, NEW row, Continues(t, row), SaveStep(t, row)
        PROVE  TextsAgree'
    <2>1. /\ rows' = [rows EXCEPT ![t] = row]
          /\ versions' = [versions EXCEPT ![t] = Append(versions[t], VersionOf(row))]
      BY <1>2 DEF SaveStep, Store, SaveVersion
    <2>2. rows'[t] = row /\ versions'[t] = Append(versions[t], VersionOf(row))
      BY <2>1 DEF TypeOK
    <2>3. \A u \in Template \ {t} : rows'[u] = rows[u] /\ versions'[u] = versions[u]
      BY <2>1 DEF TypeOK
    <2>4. row \in Row /\ versions[t] \in Seq(Version) /\ VersionOf(row) \in Version
      BY <1>2, VersionFits DEF Continues, TypeOK
    <2>5. Fits(VersionOf(row))
      <3>1. VersionOf(row).text = row.text /\ VersionOf(row).html = row.html
        BY <2>4, VersionFits
      <3>2. CASE row.text \in Written \cup {Made(row.html)}
        BY <3>1, <3>2 DEF Fits
      <3>3. CASE Exists(t) /\ row.html = rows[t].html /\ row.text = rows[t].text
        <4>1. Fits(VersionOf(rows[t]))
          BY <3>3, TextsByTemplate DEF TextsFit
        <4> QED BY <3>1, <3>3, <4>1 DEF Fits, VersionOf
      <3> QED BY <1>2, <3>2, <3>3 DEF Continues
    <2>6. \A i \in 1..Len(versions[t]) : Fits(versions[t][i])
      BY TextsByTemplate DEF TextsFit, NoTrace
    <2>7. TextsFit(row, Append(versions[t], VersionOf(row)))
      BY <2>4, <2>5, <2>6 DEF TextsFit
    <2>8. ASSUME NEW u \in Template, Exists(u)'
          PROVE  TextsFit(rows'[u], versions'[u])
      BY <2>2, <2>3, <2>7, <2>8, TextsByTemplate DEF Exists
    <2> QED BY <2>8, TextsByTemplate
  <1>3. ASSUME NEW t \in Template, NEW row, RowStep(t, row)
        PROVE  TextsAgree'
    <2>1. /\ rows'[t] = row
          /\ versions' = versions
          /\ \A u \in Template \ {t} : rows'[u] = rows[u]
      BY <1>3 DEF RowStep, Store, TypeOK
    <2>2. TextsFit(row, versions[t])
      BY <1>3, TextsByTemplate DEF RowStep, TextsFit
    <2>3. ASSUME NEW u \in Template, Exists(u)'
          PROVE  TextsFit(rows'[u], versions'[u])
      BY <2>1, <2>2, <2>3, TextsByTemplate DEF Exists
    <2> QED BY <2>3, TextsByTemplate
  <1>4. ASSUME NEW t \in Template, NEW new \in Template, NEW row, CopyStep(t, new, row)
        PROVE  TextsAgree'
    <2>1. /\ rows'[new] = row
          /\ versions' = versions
          /\ versions[new] = <<>>
          /\ \A u \in Template \ {new} : rows'[u] = rows[u]
      BY <1>4 DEF CopyStep, Store, TypeOK, NoTrace
    <2>2. TextsFit(row, <<>>)
      <3>1. Fits(VersionOf(rows[t]))
        BY <1>4, TextsByTemplate DEF CopyStep, TextsFit
      <3>2. Fits(VersionOf(row))
        BY <1>4, <3>1 DEF CopyStep, Fits, VersionOf
      <3> QED BY <3>2 DEF TextsFit
    <2>3. ASSUME NEW u \in Template, Exists(u)'
          PROVE  TextsFit(rows'[u], versions'[u])
      BY <2>1, <2>2, <2>3, TextsByTemplate DEF Exists
    <2> QED BY <2>3, TextsByTemplate
  <1> QED BY <1>1, <1>2, <1>3, <1>4, StepKinds

(* No plain text was made from an HTML older than the one beside it (the merge in
   update_template). *)
THEOREM TextsAreOfTheirHtml == Spec => []TextsAgree
  <1>1. Init => TypeOK /\ NoTrace /\ TextsAgree
    BY InitTypes DEF Init, TextsAgree, Exists
  <1>2. TypeOK /\ NoTrace /\ TextsAgree /\ [Next]_vars => (TypeOK /\ NoTrace /\ TextsAgree)'
    BY TypeStep, TraceStep, TextsStep
  <1> QED BY <1>1, <1>2, PTL DEF Spec
-------------------------------------------------------------------------------
(* The figures *)

LEMMA StatsStep ==
    ASSUME TypeOK, NoTrace, StatsAgree, [Next]_vars
    PROVE  StatsAgree'
  <1> USE DEF StatsAgree, Stats
  <1>1. CASE UNCHANGED vars
    BY <1>1 DEF vars, Exists
  <1>2. ASSUME NEW t \in Template, NEW row, Continues(t, row), SaveStep(t, row)
        PROVE  StatsAgree'
    <2>1. /\ rows'[t] = row /\ log' = log /\ served' = served
          /\ \A u \in Template \ {t} : rows'[u] = rows[u]
      BY <1>2 DEF SaveStep, Store, TypeOK
    <2>2. row.render_count = log[t] /\ served[t] <= log[t]
      <3>1. CASE Exists(t)
        BY <1>2, <3>1 DEF Continues
      <3>2. CASE ~Exists(t)
        BY <1>2, <3>2 DEF Continues, NoTrace
      <3> QED BY <3>1, <3>2
    <2> QED BY <2>1, <2>2 DEF Exists
  <1>3. ASSUME NEW t \in Template, NEW row, RowStep(t, row)
        PROVE  StatsAgree'
    <2>1. /\ rows'[t] = row
          /\ \A u \in Template \ {t} : rows'[u] = rows[u]
      BY <1>3 DEF RowStep, Store, TypeOK
    <2>2. rows[t].render_count = log[t] /\ served[t] <= log[t]
      BY <1>3 DEF RowStep
    <2>3. CASE row.render_count = rows[t].render_count /\ UNCHANGED <<log, served>>
      BY <2>1, <2>2, <2>3 DEF Exists
    <2>4. CASE /\ row.render_count = rows[t].render_count + 1
               /\ log' = [log EXCEPT ![t] = @ + 1]
               /\ served' \in {served, [served EXCEPT ![t] = @ + 1]}
      <3>1. served' = served \/ served' = [served EXCEPT ![t] = served[t] + 1]
        BY <2>4
      <3>2. /\ log'[t] = log[t] + 1
            /\ served'[t] = served[t] \/ served'[t] = served[t] + 1
            /\ \A u \in Template \ {t} : log'[u] = log[u] /\ served'[u] = served[u]
        BY <2>4, <3>1 DEF TypeOK
      <3>3. log[t] \in Nat /\ served[t] \in Nat
        BY DEF TypeOK
      <3>4. row.render_count = log'[t] /\ served'[t] <= row.render_count
        BY <2>2, <2>4, <3>2, <3>3
      <3>5. ASSUME NEW u \in Template, Exists(u)'
            PROVE  rows'[u].render_count = log'[u] /\ served'[u] <= rows'[u].render_count
        BY <2>1, <3>2, <3>4, <3>5 DEF Exists
      <3> QED BY <3>5
    <2> QED BY <1>3, <2>3, <2>4 DEF RowStep
  <1>4. ASSUME NEW t \in Template, NEW new \in Template, NEW row, CopyStep(t, new, row)
        PROVE  StatsAgree'
    <2>1. /\ rows'[new] = row /\ log' = log /\ served' = served
          /\ \A u \in Template \ {new} : rows'[u] = rows[u]
      BY <1>4 DEF CopyStep, Store, TypeOK
    <2>2. row.render_count = log[new] /\ served[new] <= log[new]
      BY <1>4 DEF CopyStep, NoTrace
    <2> QED BY <2>1, <2>2 DEF Exists
  <1> QED BY <1>1, <1>2, <1>3, <1>4, StepKinds

(* The count in the row and the rows of the log stay equal, and cover every
   rendering that was answered (the two statements of render_template). *)
THEOREM FiguresAgree == Spec => []StatsAgree
  <1>1. Init => TypeOK /\ NoTrace /\ StatsAgree
    BY InitTypes DEF Init, StatsAgree, Exists
  <1>2. TypeOK /\ NoTrace /\ StatsAgree /\ [Next]_vars => (TypeOK /\ NoTrace /\ StatsAgree)'
    BY TypeStep, TraceStep, StatsStep
  <1> QED BY <1>1, <1>2, PTL DEF Spec

-------------------------------------------------------------------------------
(* What authors were shown *)

(* The part of ToldIsKept about one version that was shown. *)
Kept(v, row, vs) ==
    \/ v = VersionOf(row)
    \/ \E i \in 1..Len(vs) : vs[i] = v
    \/ row.copy /\ v.version = 1

LEMMA KeptByVersion ==
    /\ ToldIsKept <=> \A r \in told : Kept(r.row, rows[r.template], versions[r.template])
    /\ ToldIsKept' <=> \A r \in told' : Kept(r.row, rows'[r.template], versions'[r.template])
BY DEF ToldIsKept, Kept

(* What is kept beside a row is kept beside the next. *)
LEMMA KeptNext ==
    ASSUME NEW v, NEW old \in Row, NEW row \in Row, NEW vs \in Seq(Version), Tells(old, vs),
           row.copy = old.copy, Kept(v, old, vs)
    PROVE  Kept(v, row, Append(vs, VersionOf(row)))
  <1>1. CASE \E i \in 1..Len(vs) : vs[i] = v
    <2>1. PICK i \in 1..Len(vs) : vs[i] = v
      BY <1>1
    <2>2. VersionOf(row) \in Version
      BY VersionFits
    <2>3. i \in 1..Len(Append(vs, VersionOf(row))) /\ Append(vs, VersionOf(row))[i] = v
      BY <2>1, <2>2
    <2> QED BY <2>3 DEF Kept
  <1>2. CASE v = VersionOf(old) /\ ~(old.copy /\ v.version = 1)
    <2>1. v.version = old.version /\ old.version \in Nat \ {0} /\ old.copy \in BOOLEAN
      BY <1>2, VersionFits DEF Row
    <2>2. Len(vs) \in Nat
      OBVIOUS
    <2>3. Len(vs) >= 1
      <3>1. CASE old.copy
        BY <1>2, <2>1, <2>2, <3>1 DEF Tells
      <3>2. CASE ~old.copy
        BY <2>1, <2>2, <3>2 DEF Tells
      <3> QED BY <3>1, <3>2
    <2>4. vs # <<>>
      BY <2>3
    <2>5. Len(vs) \in 1..Len(vs) /\ vs[Len(vs)] = v
      BY <1>2, <2>2, <2>3, <2>4 DEF Tells
    <2> QED BY <1>1, <2>5
  <1>3. CASE old.copy /\ v.version = 1
    BY <1>3 DEF Kept
  <1> QED BY <1>1, <1>2, <1>3 DEF Kept

(* What may be newly shown is the row that was stored. *)
LEMMA NewlyTold ==
    ASSUME NEW t, NEW row, Answer(t, row), NEW r \in told'
    PROVE  r \in told \/ (r.template = t /\ r.row = VersionOf(row))
BY DEF Answer, Response

LEMMA KeptStep ==
    ASSUME TypeOK, NoTrace, HistoryTells, ToldIsKept, [Next]_vars
    PROVE  ToldIsKept'
  <1>0. \A r \in told : r.template \in Template /\ Exists(r.template)
    BY DEF TypeOK, NoTrace
  <1>1. CASE UNCHANGED vars
    BY <1>1, KeptByVersion DEF vars
  <1>2. ASSUME NEW t \in Template, NEW row, Continues(t, row), SaveStep(t, row)
        PROVE  ToldIsKept'
    <2>1. /\ rows' = [rows EXCEPT ![t] = row]
          /\ versions' = [versions EXCEPT ![t] = Append(versions[t], VersionOf(row))]
          /\ Answer(t, row)
      BY <1>2 DEF SaveStep, Store, SaveVersion
    <2>2. rows'[t] = row /\ versions'[t] = Append(versions[t], VersionOf(row))
      BY <2>1 DEF TypeOK
    <2>3. \A u \in Template \ {t} : rows'[u] = rows[u] /\ versions'[u] = versions[u]
      BY <2>1 DEF TypeOK
    <2>4. row \in Row /\ versions[t] \in Seq(Version)
      BY <1>2 DEF Continues, TypeOK
    <2>5. ASSUME NEW r \in told'
          PROVE  Kept(r.row, rows'[r.template], versions'[r.template])
      <3>1. CASE r.template = t /\ r.row = VersionOf(row)
        BY <2>2, <3>1 DEF Kept
      <3>2. CASE r \in told /\ r.template # t
        BY <1>0, <2>3, <3>2, KeptByVersion
      <3>3. CASE r \in told /\ r.template = t
        <4>1. Exists(t)
          BY <1>0, <3>3
        <4>2. rows[t] \in Row /\ row.copy = rows[t].copy
          BY <1>2, <4>1, RowOfExisting DEF Continues
        <4>3. Tells(rows[t], versions[t])
          BY <4>1, HistoryByTemplate
        <4>4. Kept(r.row, rows[t], versions[t])
          BY <3>3, KeptByVersion
        <4> QED BY <2>2, <2>4, <3>3, <4>2, <4>3, <4>4, KeptNext
      <3> QED BY <2>1, <3>1, <3>2, <3>3, NewlyTold
    <2> QED BY <2>5, KeptByVersion
  <1>3. ASSUME NEW t \in Template, NEW row, RowStep(t, row)
        PROVE  ToldIsKept'
    <2>1. /\ rows'[t] = row /\ versions' = versions /\ told' = told
          /\ \A u \in Template \ {t} : rows'[u] = rows[u]
      BY <1>3 DEF RowStep, Store, TypeOK
    <2>2. VersionOf(row) = VersionOf(rows[t]) /\ row.copy = rows[t].copy
      BY <1>3 DEF RowStep
    <2>3. ASSUME NEW r \in told
          PROVE  Kept(r.row, rows'[r.template], versions[r.template])
      <3>1. Kept(r.row, rows[r.template], versions[r.template]) /\ r.template \in Template
        BY <1>0, KeptByVersion
      <3> QED BY <2>1, <2>2, <3>1 DEF Kept
    <2> QED BY <2>1, <2>3, KeptByVersion
  <1>4. ASSUME NEW t \in Template, NEW new \in Template, NEW row, CopyStep(t, new, row)
        PROVE  ToldIsKept'
    <2>1. /\ rows'[new] = row /\ versions' = versions /\ Answer(new, row)
          /\ \A u \in Template \ {new} : rows'[u] = rows[u]
      BY <1>4 DEF CopyStep, Store, TypeOK
    <2>2. ASSUME NEW r \in told'
          PROVE  Kept(r.row, rows'[r.template], versions'[r.template])
      <3>1. CASE r.template = new /\ r.row = VersionOf(row)
        BY <2>1, <3>1 DEF Kept
      <3>2. CASE r \in told
        <4>1. r.template \in Template /\ r.template # new
          BY <1>0, <1>4, <3>2 DEF CopyStep
        <4> QED BY <2>1, <3>2, <4>1, KeptByVersion
      <3> QED BY <2>1, <3>1, <3>2, NewlyTold
    <2> QED BY <2>2, KeptByVersion
  <1> QED BY <1>1, <1>2, <1>3, <1>4, StepKinds

(* A version that was shown as stored is the present one or in the history, but for
   the first version of a copy, which duplicate_template puts into no history. *)
THEOREM ShownVersionsAreKept == Spec => []ToldIsKept
  <1>1. Init => TypeOK /\ NoTrace /\ HistoryTells /\ ToldIsKept
    BY InitTypes DEF Init, HistoryTells, ToldIsKept, Exists
  <1>2. TypeOK /\ NoTrace /\ HistoryTells /\ ToldIsKept /\ [Next]_vars
          => (TypeOK /\ NoTrace /\ HistoryTells /\ ToldIsKept)'
    BY TypeStep, TraceStep, HistoryStep, KeptStep
  <1> QED BY <1>1, <1>2, PTL DEF Spec

-----------------------------------------------------------------------------
(* Proofs about WebhookService, for any requests, threads, addresses, retries,
   capacity of the queue and number of crashes.

   That an event is in one place only does not carry itself from step to step: a
   handler may put an event anywhere only because nothing has been done yet for a
   request without an answer (Untouched, Unanswered). *)

LoopType ==
    /\ loop \in [at : {"idle", "put", "dispatch"}, event : Request \cup {NoRequest}]
    /\ (loop.at = "idle") <=> (loop.event = NoRequest)
AnswerType == answer \in [Request -> {"none", "success", "error"}]
QueueType == queue \in Seq(Request) /\ Len(queue) <= QUEUE_SIZE
JobType == job \in [Worker -> Job \cup {NoJob}]
HistoryType ==
    /\ error_count \in Nat
    /\ dispatched \subseteq Request /\ worked \subseteq Request
    /\ dropped \subseteq Request /\ lost \subseteq Request
    /\ crashes \in 0..MaxCrashes
Types == LoopType /\ AnswerType /\ QueueType /\ JobType /\ HistoryType

(* What was done for a request shows in its answer or in the event loop. *)
Untouched ==
    \A r \in Request : r \in Accounted => answer[r] # "none" \/ Dispatching(r)
(* The request the event loop is at has no answer. *)
Unanswered == \A r \in Request : loop.event = r => answer[r] = "none"
Told == \A r \in Request : answer[r] = "success" \/ Dispatching(r) => r \in Accounted

Places == QueuedOnce /\ InOneHand /\ InOnePlace /\ Untouched /\ Unanswered /\ Told
WebhookInv == Types /\ Places

--------------------------------------------------------------------------------
(* Sequences without repetition. *)
Elems(q) == {q[i] : i \in DOMAIN q}
Once(q) == \A i, j \in DOMAIN q : q[i] = q[j] => i = j

LEMMA AppendOnce ==
    ASSUME NEW S, NEW q \in Seq(S), NEW x \in S, Once(q), x \notin Elems(q)
    PROVE  Once(Append(q, x)) /\ Elems(Append(q, x)) = Elems(q) \cup {x}
  <1>. DEFINE n == Len(q)
              a == Append(q, x)
  <1>1. n \in Nat /\ DOMAIN q = 1..n /\ DOMAIN a = 1..(n + 1)
    OBVIOUS
  <1>2. \A i \in 1..n : a[i] = q[i]
    OBVIOUS
  <1>3. a[n + 1] = x
    OBVIOUS
  <1>4. \A i \in 1..n : q[i] # x
    BY <1>1 DEF Elems
  <1>5. \A i \in 1..(n + 1) : i \in 1..n \/ i = n + 1
    BY <1>1
  <1>. HIDE DEF n, a
  <1>6. Once(a)
    BY <1>1, <1>2, <1>3, <1>4, <1>5 DEF Once
  <1>7. Elems(a) = Elems(q) \cup {x}
    <2>1. \A y : y \in Elems(a) <=> \E i \in 1..(n + 1) : y = a[i]
      BY <1>1 DEF Elems
    <2>2. \A y : y \in Elems(q) <=> \E i \in 1..n : y = q[i]
      BY <1>1 DEF Elems
    <2>3. n + 1 \in 1..(n + 1) /\ \A i \in 1..n : i \in 1..(n + 1)
      BY <1>1
    <2>. QED BY <1>2, <1>3, <1>5, <2>1, <2>2, <2>3
  <1>. QED BY <1>6, <1>7 DEF a

LEMMA TailOnce ==
    ASSUME NEW S, NEW q \in Seq(S), q # <<>>, Once(q)
    PROVE  /\ Once(Tail(q)) /\ Elems(Tail(q)) = Elems(q) \ {Head(q)}
           /\ Head(q) \in Elems(q)
  <1>. DEFINE n == Len(q)
              t == Tail(q)
              h == Head(q)
  <1>1. n \in Nat /\ n # 0 /\ DOMAIN q = 1..n /\ DOMAIN t = 1..(n - 1)
    OBVIOUS
  <1>2. \A i \in 1..(n - 1) : t[i] = q[i + 1]
    OBVIOUS
  <1>3. h = q[1]
    OBVIOUS
  <1>4. 1 \in 1..n /\ \A i \in 1..(n - 1) : i + 1 \in 1..n /\ i + 1 # 1
    BY <1>1
  <1>5. \A i \in 1..n : i = 1 \/ (i - 1 \in 1..(n - 1) /\ (i - 1) + 1 = i)
    BY <1>1
  <1>6. \A i, j \in 1..n : q[i] = q[j] => i = j
    BY <1>1 DEF Once
  <1>. HIDE DEF n, t, h
  <1>7. Once(t)
    <2>1. ASSUME NEW i \in 1..(n - 1), NEW j \in 1..(n - 1), t[i] = t[j]
          PROVE  i = j
      <3>1. i + 1 = j + 1
        BY <1>2, <1>4, <1>6, <2>1
      <3>. QED BY <1>1, <3>1
    <2>. QED BY <1>1, <2>1 DEF Once
  <1>8. \A y : y \in Elems(q) <=> \E i \in 1..n : y = q[i]
    BY <1>1 DEF Elems
  <1>9. \A y : y \in Elems(t) <=> \E i \in 1..(n - 1) : y = t[i]
    BY <1>1 DEF Elems
  <1>10. \A y : y \in Elems(t) => y \in Elems(q) /\ y # h
    BY <1>2, <1>3, <1>4, <1>6, <1>8, <1>9
  <1>11. ASSUME NEW y, y \in Elems(q), y # h
         PROVE  y \in Elems(t)
    <2>1. PICK i \in 1..n : y = q[i]
      BY <1>8, <1>11
    <2>2. i - 1 \in 1..(n - 1) /\ (i - 1) + 1 = i
      BY <1>3, <1>5, <1>11, <2>1
    <2>3. t[i - 1] = y
      BY <1>2, <2>1, <2>2
    <2>. QED BY <1>9, <2>2, <2>3
  <1>12. h \in Elems(q)
    BY <1>3, <1>4, <1>8
  <1>. QED BY <1>7, <1>10, <1>11, <1>12 DEF t, h

--------------------------------------------------------------------------------
LEMMA WebhookInvInit == WebhookInit => WebhookInv
  <1>. SUFFICES ASSUME WebhookInit PROVE WebhookInv
    OBVIOUS
  <1>1. LoopType /\ AnswerType
    BY RequestAssumption DEF WebhookInit, Idle, LoopType, AnswerType
  <1>2. QueueType
    BY SizeAssumption DEF WebhookInit, QueueType
  <1>3. JobType
    BY DEF WebhookInit, JobType
  <1>4. HistoryType
    BY SizeAssumption DEF WebhookInit, HistoryType
  <1>5. Queued = {} /\ InHand = {} /\ Accounted = {}
    BY DEF WebhookInit, Queued, InHand, Accounted
  <1>6. QueuedOnce /\ InOneHand
    BY DEF WebhookInit, QueuedOnce, InOneHand
  <1>7. InOnePlace
    BY <1>5 DEF WebhookInit, InOnePlace
  <1>8. Untouched /\ Unanswered /\ Told
    BY <1>5, RequestAssumption DEF WebhookInit, Idle, Untouched, Unanswered, Told, Dispatching
  <1>. QED BY <1>1, <1>2, <1>3, <1>4, <1>6, <1>7, <1>8 DEF WebhookInv, Types, Places

(* A request without an answer that the event loop has not queued is nowhere. *)
LEMMA Nowhere ==
    ASSUME WebhookInv, NEW r \in Request, answer[r] = "none", ~ Dispatching(r)
    PROVE  r \notin Accounted
  BY DEF WebhookInv, Places, Untouched

(* The event loop is at no request: the places say nothing of it. *)
LEMMA RefuseKeeps ==
    ASSUME WebhookInv, NEW r \in Request, Arrives(r), Refuse(r)
    PROVE  WebhookInv'
  <1>1. loop = Idle /\ answer[r] = "none"
    BY DEF Arrives
  <1>2. answer' = [answer EXCEPT ![r] = "error"]
    BY DEF Refuse
  <1>3. UNCHANGED <<loop, queue, dispatched, workerVars, dropped, lost, crashes>>
    BY DEF Refuse
  <1>4. Types'
    BY <1>2, <1>3 DEF WebhookInv, Types, LoopType, AnswerType, QueueType, JobType, HistoryType,
       workerVars
  <1>5. Queued' = Queued /\ InHand' = InHand /\ Accounted' = Accounted
    BY <1>3 DEF Queued, InHand, Accounted, workerVars
  <1>6. QueuedOnce' /\ InOneHand' /\ InOnePlace'
    BY <1>3, <1>5 DEF WebhookInv, Places, QueuedOnce, InOneHand, InOnePlace, workerVars
  <1>7. Untouched' /\ Unanswered' /\ Told'
    BY <1>1, <1>2, <1>3, <1>5, RequestAssumption DEF WebhookInv, Types, AnswerType, Places, Idle,
       Untouched, Unanswered, Told, Dispatching
  <1>. QED BY <1>4, <1>6, <1>7 DEF WebhookInv, Places

(* An event that is nowhere is queued, or refused by the full queue, and its
   caller is about to be told so, or was told of an error. *)
LEMMA Queueing ==
    ASSUME WebhookInv, NEW r \in Request, r \notin Accounted, answer[r] = "none",
           \/ queue' = Append(queue, r) /\ Len(queue) < QUEUE_SIZE /\ dropped' = dropped
           \/ dropped' = dropped \cup {r} /\ queue' = queue,
           \/ loop' = [at |-> "dispatch", event |-> r] /\ answer' = answer
           \/ loop' = Idle /\ answer' = [answer EXCEPT ![r] = "error"],
           loop.event \in {r, NoRequest},
           UNCHANGED <<dispatched, workerVars, lost, crashes>>
    PROVE  WebhookInv'
  <1>1. job' = job /\ worked' = worked /\ lost' = lost
        /\ error_count' = error_count /\ dispatched' = dispatched /\ crashes' = crashes
    BY DEF workerVars
  <1>2. InHand' = InHand
    BY <1>1 DEF InHand
  <1>3. r \notin Queued /\ r \notin InHand /\ r \notin worked /\ r \notin dropped /\ r \notin lost
    BY DEF Accounted
  <1>4. /\ LoopType' /\ AnswerType' /\ JobType'
    <2>1. LoopType' /\ JobType'
      BY <1>1, RequestAssumption DEF WebhookInv, Types, LoopType, JobType, Idle
    <2>2. AnswerType'
      BY DEF WebhookInv, Types, AnswerType
    <2>. QED BY <2>1, <2>2
  <1>5. r # NoRequest
    BY RequestAssumption
  <1>6. /\ \A x \in Request : Dispatching(x)' => x = r
        /\ Dispatching(r)' \/ answer'[r] = "error"
        /\ \A x \in Request : x # r => answer'[x] = answer[x]
        /\ answer'[r] # "success"
        /\ \A x \in Request : loop'.event = x => x = r /\ answer'[r] = "none"
    <2>1. CASE loop' = [at |-> "dispatch", event |-> r] /\ answer' = answer
      BY <2>1 DEF Dispatching
    <2>2. CASE loop' = Idle /\ answer' = [answer EXCEPT ![r] = "error"]
      BY <2>2, RequestAssumption DEF Dispatching, Idle, WebhookInv, Types, AnswerType
    <2>. QED BY <2>1, <2>2
  <1>7. \A x \in Request : Dispatching(x) => x = r
    BY <1>5, RequestAssumption DEF Dispatching
  <1>8. CASE queue' = Append(queue, r) /\ Len(queue) < QUEUE_SIZE /\ dropped' = dropped
    <2>1. Once(queue) /\ Queued = Elems(queue) /\ queue \in Seq(Request)
      BY DEF WebhookInv, Types, QueueType, Places, QueuedOnce, Once, Queued, Elems
    <2>2. Once(queue') /\ Elems(queue') = Elems(queue) \cup {r}
      BY <1>3, <1>8, <2>1, AppendOnce
    <2>3. QueuedOnce' /\ Queued' = Queued \cup {r}
      BY <2>1, <2>2 DEF QueuedOnce, Once, Queued, Elems
    <2>4. QueueType' /\ HistoryType'
      <3>1. Append(queue, r) \in Seq(Request) /\ Len(Append(queue, r)) = Len(queue) + 1
            /\ Len(queue) \in Nat
        BY <2>1
      <3>2. Len(queue') <= QUEUE_SIZE
        BY <1>8, <3>1, SizeAssumption
      <3>3. QueueType'
        BY <1>8, <3>1, <3>2 DEF QueueType
      <3>4. HistoryType'
        BY <1>1, <1>8 DEF WebhookInv, Types, HistoryType
      <3>. QED BY <3>3, <3>4
    <2>5. Accounted' = Accounted \cup {r}
      BY <1>1, <1>2, <1>8, <2>3 DEF Accounted
    <2>6. InOneHand'
      BY <1>1 DEF WebhookInv, Places, InOneHand
    <2>7. InOnePlace'
      BY <1>1, <1>2, <1>3, <1>8, <2>3 DEF WebhookInv, Places, InOnePlace
    <2>8. Untouched' /\ Told' /\ Unanswered'
      BY <1>1, <1>6, <1>7, <2>5 DEF WebhookInv, Places, Untouched, Told, Unanswered
    <2>. QED BY <1>4, <2>3, <2>4, <2>6, <2>7, <2>8 DEF WebhookInv, Types, Places
  <1>9. CASE dropped' = dropped \cup {r} /\ queue' = queue
    <2>1. Queued' = Queued
      BY <1>9 DEF Queued
    <2>2. Accounted' = Accounted \cup {r}
      BY <1>1, <1>2, <1>9, <2>1 DEF Accounted
    <2>3. QueueType' /\ HistoryType' /\ QueuedOnce' /\ InOneHand'
      BY <1>1, <1>9 DEF WebhookInv, Types, Places, QueueType, HistoryType, QueuedOnce, InOneHand
    <2>4. InOnePlace'
      BY <1>1, <1>2, <1>3, <1>9, <2>1 DEF WebhookInv, Places, InOnePlace
    <2>5. Untouched' /\ Told' /\ Unanswered'
      BY <1>1, <1>6, <1>7, <2>2 DEF WebhookInv, Places, Untouched, Told, Unanswered
    <2>. QED BY <1>4, <2>3, <2>4, <2>5 DEF WebhookInv, Types, Places
  <1>. QED BY <1>8, <1>9

LEMMA AcceptKeeps ==
    ASSUME WebhookInv, NEW r \in Request, Arrives(r), Accept(r)
    PROVE  WebhookInv'
  <1>1. loop = Idle /\ answer[r] = "none"
    BY DEF Arrives
  <1>2. r \notin Accounted
    BY <1>1, Nowhere DEF Dispatching, Idle
  <1>3. loop.event \in {r, NoRequest}
    BY <1>1 DEF Idle
  <1>4. \/ queue' = Append(queue, r) /\ Len(queue) < QUEUE_SIZE /\ dropped' = dropped
        \/ dropped' = dropped \cup {r} /\ queue' = queue
    BY DEF Accept, QueueWebhook
  <1>. QED BY <1>1, <1>2, <1>3, <1>4, Queueing DEF Accept

LEMMA RaiseKeeps ==
    ASSUME WebhookInv, NEW r \in Request, Arrives(r), Raise(r)
    PROVE  WebhookInv'
  <1>1. loop = Idle /\ answer[r] = "none"
    BY DEF Arrives
  <1>2. r \notin Accounted
    BY <1>1, Nowhere DEF Dispatching, Idle
  <1>3. loop.event \in {r, NoRequest} /\ loop' = Idle
    BY <1>1 DEF Idle, Raise
  <1>4. \/ queue' = Append(queue, r) /\ Len(queue) < QUEUE_SIZE /\ dropped' = dropped
        \/ dropped' = dropped \cup {r} /\ queue' = queue
    BY DEF Raise, QueueWebhook
  <1>. QED BY <1>1, <1>2, <1>3, <1>4, Queueing DEF Raise

(* The test handler found the queue full and waits: nothing is placed yet. *)
LEMMA WaitKeeps ==
    ASSUME WebhookInv, NEW r \in Request, Arrives(r), loop' = [at |-> "put", event |-> r],
           UNCHANGED <<answer, queue, dispatched, workerVars, dropped, lost, crashes>>
    PROVE  WebhookInv'
  <1>1. loop = Idle /\ answer[r] = "none" /\ r # NoRequest
    BY RequestAssumption DEF Arrives
  <1>2. Types'
    BY <1>1 DEF WebhookInv, Types, LoopType, AnswerType, QueueType, JobType, HistoryType, workerVars
  <1>3. Queued' = Queued /\ InHand' = InHand /\ Accounted' = Accounted
    BY DEF Queued, InHand, Accounted, workerVars
  <1>4. QueuedOnce' /\ InOneHand' /\ InOnePlace'
    BY <1>3 DEF WebhookInv, Places, QueuedOnce, InOneHand, InOnePlace, workerVars
  <1>5. \A x \in Request : ~ Dispatching(x) /\ ~ Dispatching(x)'
    BY <1>1 DEF Dispatching, Idle
  <1>6. Untouched' /\ Told'
    BY <1>3, <1>5 DEF WebhookInv, Places, Untouched, Told
  <1>7. Unanswered'
    BY <1>1 DEF Unanswered
  <1>. QED BY <1>2, <1>4, <1>6, <1>7 DEF WebhookInv, Places

LEMMA PutKeeps ==
    ASSUME WebhookInv, Put
    PROVE  WebhookInv'
  <1>1. loop.at = "put" /\ loop.event \in Request
    BY DEF Put, WebhookInv, Types, LoopType
  <1>2. answer[loop.event] = "none"
    BY <1>1 DEF WebhookInv, Places, Unanswered
  <1>3. ~ Dispatching(loop.event)
    BY <1>1 DEF Dispatching
  <1>4. loop.event \notin Accounted
    BY <1>1, <1>2, <1>3, Nowhere
  <1>. QED BY <1>1, <1>2, <1>4, Queueing DEF Put

(* The caller is told of what Told has found a place for. *)
LEMMA DispatchKeeps ==
    ASSUME WebhookInv, Dispatch
    PROVE  WebhookInv'
  <1>. DEFINE e == loop.event
  <1>1. loop.at = "dispatch" /\ e \in Request /\ loop = [at |-> "dispatch", event |-> e]
    BY DEF Dispatch, WebhookInv, Types, LoopType
  <1>2. e \in Accounted
    BY <1>1 DEF WebhookInv, Places, Told, Dispatching
  <1>3. /\ answer' = [answer EXCEPT ![e] = "success"] /\ loop' = Idle
        /\ dispatched' = dispatched \cup {e}
        /\ UNCHANGED <<queue, workerVars, dropped, lost, crashes>>
    BY DEF Dispatch
  <1>4. Types'
    BY <1>1, <1>3 DEF WebhookInv, Types, LoopType, AnswerType, QueueType, JobType, HistoryType,
       workerVars, Idle
  <1>5. Queued' = Queued /\ InHand' = InHand /\ Accounted' = Accounted
    BY <1>3 DEF Queued, InHand, Accounted, workerVars
  <1>6. QueuedOnce' /\ InOneHand' /\ InOnePlace'
    BY <1>3, <1>5 DEF WebhookInv, Places, QueuedOnce, InOneHand, InOnePlace, workerVars
  <1>7. \A x \in Request : ~ Dispatching(x)' /\ (Dispatching(x) => x = e)
    BY <1>3 DEF Dispatching, Idle
  <1>8. \A x \in Request : answer'[x] = IF x = e THEN "success" ELSE answer[x]
    BY <1>3 DEF WebhookInv, Types, AnswerType
  <1>9. Untouched' /\ Told'
    BY <1>2, <1>5, <1>7, <1>8 DEF WebhookInv, Places, Untouched, Told
  <1>10. Unanswered'
    BY <1>3, RequestAssumption DEF Unanswered, Idle
  <1>. QED BY <1>4, <1>6, <1>9, <1>10 DEF WebhookInv, Places

(* Threads move events, they do not answer. *)
LEMMA MovesKeep ==
    ASSUME WebhookInv, Types', UNCHANGED handlerVars, Accounted' = Accounted,
           QueuedOnce', InOneHand', InOnePlace'
    PROVE  WebhookInv'
  BY DEF WebhookInv, Places, handlerVars, Untouched, Unanswered, Told, Dispatching

LEMMA TakeKeeps ==
    ASSUME WebhookInv, NEW w \in Worker, Take(w)
    PROVE  WebhookInv'
  <1>. DEFINE h == Head(queue)
              j == [event |-> h, url |-> 1, attempt |-> 0, taken |-> FALSE]
  <1>1. /\ job[w] = NoJob /\ queue # <<>> /\ queue' = Tail(queue)
        /\ job' = [job EXCEPT ![w] = j]
        /\ UNCHANGED <<handlerVars, error_count, worked, dropped, lost, crashes>>
    BY DEF Take
  <1>2. queue \in Seq(Request) /\ Once(queue) /\ Queued = Elems(queue)
    BY DEF WebhookInv, Types, QueueType, Places, QueuedOnce, Once, Queued, Elems
  <1>3. Once(queue') /\ Elems(queue') = Elems(queue) \ {h} /\ h \in Elems(queue)
    BY <1>1, <1>2, TailOnce
  <1>4. QueuedOnce' /\ Queued' = Queued \ {h} /\ h \in Queued
    BY <1>2, <1>3 DEF QueuedOnce, Once, Queued, Elems
  <1>5. h \in Request /\ Tail(queue) \in Seq(Request) /\ Len(Tail(queue)) = Len(queue) - 1
        /\ Len(queue) \in Nat
    BY <1>1, <1>2
  <1>6. j \in Job /\ j # NoJob
    <2>1. 1 \in 1..(Url + 1) /\ 0 \in 0..RETRIES
      BY SizeAssumption
    <2>2. j \in Job
      BY <1>5, <2>1 DEF Job
    <2>. QED BY <2>2, JobAssumption
  <1>7. job \in [Worker -> Job \cup {NoJob}]
    BY DEF WebhookInv, Types, JobType
  <1>. HIDE DEF h
  <1>8. \A v \in Worker : job'[v] = IF v = w THEN j ELSE job[v]
    BY <1>1, <1>7
  <1>9. InHand' = InHand \cup {h}
    <2>1. \A x : x \in InHand <=> \E v \in Worker : job[v] # NoJob /\ x = job[v].event
      BY DEF InHand
    <2>2. \A x : x \in InHand' <=> \E v \in Worker : job'[v] # NoJob /\ x = job'[v].event
      BY DEF InHand
    <2>3. j.event = h
      OBVIOUS
    <2>. HIDE DEF j
    <2>4. \A x : x \in InHand' => x \in InHand \cup {h}
      BY <1>8, <2>1, <2>2, <2>3
    <2>5. h \in InHand'
      BY <1>6, <1>8, <2>2, <2>3
    <2>6. \A x : x \in InHand => x \in InHand'
      BY <1>1, <1>8, <2>1, <2>2
    <2>. QED BY <2>4, <2>5, <2>6
  <1>10. h \notin InHand
    BY <1>4 DEF WebhookInv, Places, InOnePlace
  <1>11. InOneHand'
    <2>1. j.event = h
      OBVIOUS
    <2>2. \A v \in Worker : job[v] # NoJob => job[v].event # h
      BY <1>10 DEF InHand
    <2>. HIDE DEF j
    <2>. QED BY <1>8, <2>1, <2>2 DEF WebhookInv, Places, InOneHand
  <1>12. InOnePlace'
    BY <1>1, <1>4, <1>9 DEF WebhookInv, Places, InOnePlace
  <1>13. Accounted' = Accounted
    BY <1>1, <1>4, <1>9 DEF Accounted
  <1>14. Types'
    <2>1. QueueType'
      BY <1>1, <1>5, SizeAssumption DEF WebhookInv, Types, QueueType
    <2>2. JobType'
      BY <1>1, <1>6, <1>7 DEF JobType
    <2>. QED
      BY <1>1, <2>1, <2>2 DEF WebhookInv, Types, LoopType, AnswerType, HistoryType, handlerVars
  <1>. QED BY <1>1, <1>4, <1>11, <1>12, <1>13, <1>14, MovesKeep

(* A thread goes on with its event. *)
LEMMA SameEvent ==
    ASSUME WebhookInv, NEW w \in Worker, NEW j \in Job, job[w] # NoJob, j.event = job[w].event,
           job' = [job EXCEPT ![w] = j],
           UNCHANGED <<handlerVars, queue, error_count, worked, dropped, lost, crashes>>
    PROVE  WebhookInv'
  <1>1. job \in [Worker -> Job \cup {NoJob}] /\ j # NoJob
    BY JobAssumption DEF WebhookInv, Types, JobType
  <1>2. \A v \in Worker : job'[v] = IF v = w THEN j ELSE job[v]
    BY <1>1
  <1>3. \A v \in Worker :
            /\ job'[v] # NoJob <=> job[v] # NoJob
            /\ job[v] # NoJob => job'[v].event = job[v].event
    BY <1>1, <1>2
  <1>4. InHand' = InHand
    <2>1. \A x : x \in InHand <=> \E v \in Worker : job[v] # NoJob /\ x = job[v].event
      BY DEF InHand
    <2>2. \A x : x \in InHand' <=> \E v \in Worker : job'[v] # NoJob /\ x = job'[v].event
      BY DEF InHand
    <2>3. ASSUME NEW x, x \in InHand PROVE x \in InHand'
      <3>1. PICK v \in Worker : job[v] # NoJob /\ x = job[v].event
        BY <2>1, <2>3
      <3>2. job'[v] # NoJob /\ job'[v].event = x
        BY <1>3, <3>1
      <3>. QED BY <2>2, <3>2
    <2>4. ASSUME NEW x, x \in InHand' PROVE x \in InHand
      <3>1. PICK v \in Worker : job'[v] # NoJob /\ x = job'[v].event
        BY <2>2, <2>4
      <3>2. job[v] # NoJob /\ job[v].event = x
        BY <1>3, <3>1
      <3>. QED BY <2>1, <3>2
    <2>. QED BY <2>3, <2>4
  <1>5. InOneHand'
    BY <1>3 DEF WebhookInv, Places, InOneHand
  <1>6. Queued' = Queued /\ QueuedOnce'
    BY DEF WebhookInv, Places, Queued, QueuedOnce
  <1>7. InOnePlace' /\ Accounted' = Accounted
    BY <1>4, <1>6 DEF WebhookInv, Places, InOnePlace, Accounted
  <1>8. JobType'
    BY <1>1 DEF JobType
  <1>9. Types'
    BY <1>8 DEF WebhookInv, Types, LoopType, AnswerType, QueueType, HistoryType, handlerVars
  <1>. QED BY <1>5, <1>6, <1>7, <1>9, MovesKeep

LEMMA PostKeeps ==
    ASSUME WebhookInv, NEW w \in Worker, Post(w)
    PROVE  WebhookInv'
  <1>1. PICK r \in Request, u \in 1..(Url + 1), a \in 0..RETRIES, k \in BOOLEAN :
            job[w] = [event |-> r, url |-> u, attempt |-> a, taken |-> k]
    BY DEF Post, Posting, WebhookInv, Types, JobType, Job
  <1>2. job[w] # NoJob /\ u \in 1..Url
    BY <1>1 DEF Post, Posting, Addresses
  <1>3. 0 \in 0..RETRIES /\ u + 1 \in 1..(Url + 1)
    BY <1>2, SizeAssumption
  <1>4. ASSUME NEW b \in BOOLEAN, job' = [job EXCEPT ![w] = NextAddress(job[w], b)]
        PROVE  WebhookInv'
    <2>1. NextAddress(job[w], b) = [event |-> r, url |-> u + 1, attempt |-> 0, taken |-> b]
      BY <1>1 DEF NextAddress
    <2>2. NextAddress(job[w], b) \in Job /\ NextAddress(job[w], b).event = job[w].event
      BY <1>1, <1>3, <2>1 DEF Job
    <2>. QED BY <1>2, <1>4, <2>2, SameEvent DEF Post
  <1>5. ASSUME job[w].attempt < RETRIES, job' = [job EXCEPT ![w] = Again(job[w])]
        PROVE  WebhookInv'
    <2>1. Again(job[w]) = [event |-> r, url |-> u, attempt |-> a + 1, taken |-> k]
      BY <1>1 DEF Again
    <2>2. a + 1 \in 0..RETRIES
      BY <1>1, <1>5, SizeAssumption
    <2>3. Again(job[w]) \in Job /\ Again(job[w]).event = job[w].event
      BY <1>1, <2>1, <2>2 DEF Job
    <2>. QED BY <1>2, <1>5, <2>3, SameEvent DEF Post
  <1>6. job[w].taken \in BOOLEAN
    BY <1>1
  <1>. QED BY <1>4, <1>5, <1>6 DEF Post

LEMMA FinishKeeps ==
    ASSUME WebhookInv, NEW w \in Worker, Finish(w)
    PROVE  WebhookInv'
  <1>. DEFINE e == job[w].event
  <1>1. /\ job[w] # NoJob /\ job' = [job EXCEPT ![w] = NoJob]
        /\ worked' = worked \cup {e} /\ error_count' = error_count + 1
        /\ UNCHANGED <<handlerVars, queue, dropped, lost, crashes>>
    BY DEF Finish, Sent
  <1>2. job \in [Worker -> Job \cup {NoJob}]
    BY DEF WebhookInv, Types, JobType
  <1>3. e \in Request
    BY <1>1, <1>2 DEF Job
  <1>. HIDE DEF e
  <1>4. \A v \in Worker : job'[v] = IF v = w THEN NoJob ELSE job[v]
    BY <1>1, <1>2
  <1>5. \A x : x \in InHand <=> \E v \in Worker : job[v] # NoJob /\ x = job[v].event
    BY DEF InHand
  <1>6. \A x : x \in InHand' <=> \E v \in Worker : job'[v] # NoJob /\ x = job'[v].event
    BY DEF InHand
  <1>7. InHand' = InHand \ {e} /\ e \in InHand
    <2>1. e \in InHand
      BY <1>1, <1>5 DEF e
    <2>2. \A v \in Worker : v # w /\ job[v] # NoJob => job[v].event # e
      BY <1>1 DEF WebhookInv, Places, InOneHand, e
    <2>3. \A x : x \in InHand' => x \in InHand /\ x # e
      BY <1>4, <1>5, <1>6, <2>2
    <2>4. \A x : x \in InHand /\ x # e => x \in InHand'
      BY <1>4, <1>5, <1>6 DEF e
    <2>. QED BY <2>1, <2>3, <2>4
  <1>8. InOneHand'
    BY <1>4 DEF WebhookInv, Places, InOneHand
  <1>9. Queued' = Queued /\ QueuedOnce'
    BY <1>1 DEF WebhookInv, Places, Queued, QueuedOnce
  <1>10. InOnePlace' /\ Accounted' = Accounted
    BY <1>1, <1>7, <1>9 DEF WebhookInv, Places, InOnePlace, Accounted
  <1>11. JobType'
    BY <1>1, <1>2 DEF JobType
  <1>12. HistoryType'
    BY <1>1, <1>3 DEF WebhookInv, Types, HistoryType, handlerVars
  <1>13. Types'
    BY <1>1, <1>11, <1>12 DEF WebhookInv, Types, LoopType, AnswerType, QueueType, handlerVars
  <1>. QED BY <1>1, <1>8, <1>9, <1>10, <1>13, MovesKeep

(* What waited or was being sent is lost, and whoever was being served has no
   answer but an error. *)
LEMMA CrashKeeps ==
    ASSUME WebhookInv, Crash
    PROVE  WebhookInv'
  <1>1. /\ lost' = lost \cup Queued \cup InHand /\ queue' = <<>> /\ error_count' = 0
        /\ job' = [w \in Worker |-> NoJob] /\ loop' = Idle
        /\ answer' = [r \in Request |-> IF r = loop.event THEN "error" ELSE answer[r]]
        /\ crashes < MaxCrashes /\ crashes' = crashes + 1
        /\ UNCHANGED <<dispatched, worked, dropped>>
    BY DEF Crash
  <1>2. Queued' = {} /\ InHand' = {} /\ QueuedOnce' /\ InOneHand'
    BY <1>1 DEF Queued, InHand, QueuedOnce, InOneHand
  <1>3. Accounted' = Accounted
    BY <1>1, <1>2 DEF Accounted
  <1>4. InOnePlace'
    BY <1>1, <1>2 DEF WebhookInv, Places, InOnePlace
  <1>5. Queued \subseteq Request /\ InHand \subseteq Request
    <2>1. Queued \subseteq Request
      BY DEF WebhookInv, Types, QueueType, Queued
    <2>2. InHand \subseteq Request
      BY DEF WebhookInv, Types, JobType, Job, InHand
    <2>. QED BY <2>1, <2>2
  <1>6. HistoryType'
    BY <1>1, <1>5, SizeAssumption DEF WebhookInv, Types, HistoryType
  <1>7. LoopType' /\ AnswerType' /\ QueueType' /\ JobType'
    <2>1. LoopType'
      BY <1>1 DEF LoopType, Idle
    <2>2. AnswerType'
      BY <1>1 DEF WebhookInv, Types, AnswerType
    <2>3. QueueType'
      BY <1>1, SizeAssumption DEF QueueType
    <2>4. JobType'
      BY <1>1 DEF JobType
    <2>. QED BY <2>1, <2>2, <2>3, <2>4
  <1>8. \A x \in Request : ~ Dispatching(x)' /\ (Dispatching(x) => x = loop.event)
    BY <1>1 DEF Dispatching, Idle
  <1>9. \A x \in Request : answer'[x] = IF x = loop.event THEN "error" ELSE answer[x]
    BY <1>1
  <1>10. Untouched' /\ Told'
    BY <1>3, <1>8, <1>9 DEF WebhookInv, Places, Untouched, Told
  <1>11. Unanswered'
    BY <1>1, RequestAssumption DEF Unanswered, Idle
  <1>. QED BY <1>2, <1>4, <1>6, <1>7, <1>10, <1>11 DEF WebhookInv, Types, Places

LEMMA WebhookNextPreserves == WebhookInv /\ [WebhookNext]_webhookVars => WebhookInv'
  <1>. SUFFICES ASSUME WebhookInv, [WebhookNext]_webhookVars PROVE WebhookInv'
    OBVIOUS
  <1>1. ASSUME NEW r \in Request, Handle(r) PROVE WebhookInv'
    <2>1. Arrives(r) /\ (\/ Refuse(r)
                         \/ Accept(r) \/ Raise(r)
                         \/ /\ loop' = [at |-> "put", event |-> r]
                            /\ UNCHANGED <<answer, queue, dispatched, workerVars, dropped,
                                           lost, crashes>>)
      BY <1>1 DEF Handle, HandleInboundEmail, HandleOutboundEmail, HandleImapEvent,
         HandlePop3Event, TestWebhook
    <2>. QED BY <2>1, RefuseKeeps, AcceptKeeps, RaiseKeeps, WaitKeeps
  <1>2. CASE Put
    BY <1>2, PutKeeps
  <1>3. CASE Dispatch
    BY <1>3, DispatchKeeps
  <1>4. ASSUME NEW w \in Worker, Work(w) PROVE WebhookInv'
    BY <1>4, TakeKeeps, PostKeeps, FinishKeeps DEF Work
  <1>5. CASE Crash
    BY <1>5, CrashKeeps
  <1>6. CASE UNCHANGED webhookVars
    <2>1. Types' /\ Queued' = Queued /\ InHand' = InHand /\ Accounted' = Accounted
      BY <1>6 DEF WebhookInv, Types, LoopType, AnswerType, QueueType, JobType, HistoryType, webhookVars,
         handlerVars, workerVars, Queued, InHand, Accounted
    <2>2. QueuedOnce' /\ InOneHand' /\ InOnePlace'
      BY <1>6, <2>1 DEF WebhookInv, Places, QueuedOnce, InOneHand, InOnePlace, webhookVars, workerVars
    <2>. QED BY <1>6, <2>1, <2>2, MovesKeep DEF webhookVars
  <1>. QED BY <1>1, <1>2, <1>3, <1>4, <1>5, <1>6 DEF WebhookNext

LEMMA WebhookInvariance == WebhookSpec => []WebhookInv
  BY WebhookInvInit, WebhookNextPreserves, PTL DEF WebhookSpec

(* Every variable keeps its type, and the queue its capacity although one handler
   waits for a place in it and the others do not. *)
THEOREM WebhookTypeCorrect == WebhookSpec => []WebhookTypeOK
  <1>1. WebhookInv => WebhookTypeOK
    BY DEF WebhookInv, Types, WebhookTypeOK, LoopType, AnswerType, QueueType, JobType, HistoryType
  <1>. QED BY <1>1, WebhookInvariance, PTL

(* However handlers, threads and crashes interleave, an event whose caller was told
   that it is queued is in exactly one place. *)
THEOREM QueuedIsAccounted == WebhookSpec => []AccountedOnce
  <1>1. WebhookInv => AccountedOnce
    BY DEF WebhookInv, Places, Told, AccountedOnce
  <1>. QED BY <1>1, WebhookInvariance, PTL
===============================================================================
