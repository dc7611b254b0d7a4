-------------------------------- MODULE AuthPolicy --------------------------------
(* The brute-force protection of Dovecot, mailer/dovecot/scripts/
   dovecot-auth-policy.py.  Dovecot asks /allow before (and again after) it
   verifies a password and tells the outcome to /report.  Per IP address and per
   login name the server keeps in Redis a sorted set of the times of failures, an
   expiry on that set, and a block that expires.

   Time is relative: a set holds the ages of its entries in seconds, an expiry
   and a block the seconds left.  Every failure has a time.time() of its own, so
   a report advances the clock.  Age FAILURE_WINDOW_SECS stands for "that old or
   older".  The server handles one request at a time; a Redis error ends the
   handler after any of its commands, and is bounded by MaxFaults.  A delay is
   answered as a negative status, which is a refusal for Dovecot; the model leaves
   open whether it is taken for one.  How long the delay is, and the audit tables,
   which the server only writes, are left out.

   An operator whose comment begins with "Slip:" is a faulty variant of the
   definition after it, and no part of the model. *)
EXTENDS Naturals, FiniteSets

CONSTANTS
    Ip, User,
    Attempt,                 \* login attempts in flight at once
    None,                    \* no identity
    MAX_FAILURES_PER_IP,
    MAX_FAILURES_PER_USER,
    FAILURE_WINDOW_SECS,
    BLOCK_DURATION_SECS,
    MaxFaults                \* bound: Redis errors and starts without Redis

Identity == Ip \cup User

ASSUME IdentityAssumption ==
    /\ Ip \cap User = {}
    /\ None \notin Identity
    /\ IsFiniteSet(Attempt)
ASSUME ThresholdAssumption ==
    /\ MAX_FAILURES_PER_IP \in Nat \ {0}
    /\ MAX_FAILURES_PER_USER \in Nat \ {0}
    /\ FAILURE_WINDOW_SECS \in Nat \ {0}
    /\ BLOCK_DURATION_SECS \in Nat \ {0}
    /\ MaxFaults \in Nat
(* The defaults are 3600 s and 900 s. *)
ASSUME BlockOutlastsWindow == BLOCK_DURATION_SECS >= FAILURE_WINDOW_SECS

VARIABLES
    online,    \* engine.redis is a connection: decided when the server starts
    failures,  \* failures_ip, failures_user: ages of the entries of the set
    ttl,       \* seconds until the key of that set expires; 0: no expiry
    blocked,   \* blocked_ip, blocked_user: seconds left; 0: no such key
    stage,     \* what Dovecot knows of an attempt: "idle", "admitted", "refused"
    who,       \* the address and login name of the attempt
    faults,
    truth,     \* history: ages of the failures reported in the last window
    earned     \* history: seconds a block is due, from the failures reported

redis == <<failures, ttl, blocked>>
attempts == <<stage, who>>
history == <<truth, earned>>
vars == <<online, redis, attempts, faults, history>>

Limit(k) == IF k \in Ip THEN MAX_FAILURES_PER_IP ELSE MAX_FAILURES_PER_USER

NoOne == [ip |-> None, user |-> None]

(* get_redis at start: a connection, or None after three tries. *)
Starts ==
    \/ online' = TRUE /\ UNCHANGED faults
    \/ faults < MaxFaults /\ online' = FALSE /\ faults' = faults + 1

Init ==
    /\ \/ online = TRUE /\ faults = 0
       \/ MaxFaults > 0 /\ online = FALSE /\ faults = 1
    /\ failures = [k \in Identity |-> {}]
    /\ ttl = [k \in Identity |-> 0]
    /\ blocked = [k \in Identity |-> 0]
    /\ stage = [a \in Attempt |-> "idle"]
    /\ who = [a \in Attempt |-> NoOne]
    /\ truth = [k \in Identity |-> {}]
    /\ earned = [k \in Identity |-> 0]

----------------------------------------------------------------------------
(* The state one second later: entries grow older, keys expire. *)

Less1(n) == IF n = 0 THEN 0 ELSE n - 1

Older(ages) == {IF a < FAILURE_WINDOW_SECS THEN a + 1 ELSE a : a \in ages}

Recent(ages) == {a \in ages : a < FAILURE_WINDOW_SECS}

LaterFailures == [k \in Identity |-> IF ttl[k] = 1 THEN {} ELSE Older(failures[k])]
LaterTtl == [k \in Identity |-> Less1(ttl[k])]
LaterBlocked == [k \in Identity |-> Less1(blocked[k])]
LaterTruth == [k \in Identity |-> Recent(Older(truth[k]))]
LaterEarned == [k \in Identity |-> Less1(earned[k])]

Tick ==
    /\ failures' = LaterFailures
    /\ ttl' = LaterTtl
    /\ blocked' = LaterBlocked
    /\ truth' = LaterTruth
    /\ earned' = LaterEarned
    /\ UNCHANGED <<online, attempts, faults>>

----------------------------------------------------------------------------
(* /allow *)

(* Slip: only the address is looked up. *)
HardBlockedIpOnly(i, u) == blocked[i] > 0

HardBlocked(i, u) == blocked[i] > 0 \/ blocked[u] > 0

(* zremrangebyscore of the counted sets; Redis drops a set that became empty. *)
Trim(keys) ==
    /\ failures' = [k \in Identity |-> IF k \in keys THEN Recent(failures[k])
                                                     ELSE failures[k]]
    /\ ttl' = [k \in Identity |-> IF k \in keys /\ Recent(failures[k]) = {} THEN 0
                                                                         ELSE ttl[k]]
    /\ UNCHANGED blocked

(* auth_policy_check_before_auth, and once more auth_policy_check_after_auth. *)
AsksFor(a, i, u) ==
    \/ stage[a] = "idle"
    \/ stage[a] = "admitted" /\ who[a] = [ip |-> i, user |-> u]

(* Failures in the window: the answer asks for a delay. *)
Delayed(i, u) == online /\ \E k \in {i, u} : Recent(failures[k]) # {}

(* check_before_auth: refuse a blocked address or login, let everybody else
   through after counting (and so trimming) both sets. *)
Allow(a, i, u) ==
    /\ AsksFor(a, i, u)
    /\ who' = [who EXCEPT ![a] = [ip |-> i, user |-> u]]
    /\ IF online /\ HardBlocked(i, u)
       THEN stage' = [stage EXCEPT ![a] = "refused"] /\ UNCHANGED redis
       ELSE /\ \/ stage' = [stage EXCEPT ![a] = "admitted"]
               \/ Delayed(i, u) /\ stage' = [stage EXCEPT ![a] = "refused"]
            /\ IF online THEN Trim({i, u}) ELSE UNCHANGED redis
    /\ UNCHANGED <<online, faults, history>>

(* A Redis error on the way: the answer is 0, allowed.  _get_failure_count
   catches its own errors, so that one set may be trimmed without the other. *)
AllowFailsOpen(a, i, u) ==
    /\ AsksFor(a, i, u)
    /\ online
    /\ faults < MaxFaults
    /\ faults' = faults + 1
    /\ who' = [who EXCEPT ![a] = [ip |-> i, user |-> u]]
    /\ stage' = [stage EXCEPT ![a] = "admitted"]
    /\ \E keys \in {{}, {i}, {u}} :
          /\ HardBlocked(i, u) => keys = {}
          /\ Trim(keys)
    /\ UNCHANGED <<online, history>>

(* An attempt that never comes to a report: the client goes away. *)
Hangup(a) ==
    /\ stage[a] = "admitted"
    /\ stage' = [stage EXCEPT ![a] = "idle"]
    /\ who' = [who EXCEPT ![a] = NoOne]
    /\ UNCHANGED <<online, redis, faults, history>>

----------------------------------------------------------------------------
(* /report *)

Done(a) ==
    /\ stage' = [stage EXCEPT ![a] = "idle"]
    /\ who' = [who EXCEPT ![a] = NoOne]

(* Dovecot reports a refused attempt with policy_reject, which is not counted. *)
ReportRefused(a) ==
    /\ stage[a] = "refused"
    /\ Done(a)
    /\ UNCHANGED <<online, redis, faults, history>>

(* Slip: success clears the failures of the address. *)
ReportSuccessOfAddress(a) ==
    LET i == who[a].ip
        u == who[a].user
    IN  /\ stage[a] = "admitted"
        /\ Done(a)
        /\ online
        /\ failures' = [failures EXCEPT ![i] = {}]
        /\ ttl' = [ttl EXCEPT ![i] = 0]
        /\ truth' = [truth EXCEPT ![u] = {}]
        /\ UNCHANGED <<online, blocked, faults, earned>>

(* _handle_success clears the failures of the login name, not of the address. *)
ReportSuccess(a) ==
    LET u == who[a].user
    IN  /\ stage[a] = "admitted"
        /\ Done(a)
        /\ \/ /\ online
              /\ failures' = [failures EXCEPT ![u] = {}]
              /\ ttl' = [ttl EXCEPT ![u] = 0]
              /\ truth' = [truth EXCEPT ![u] = {}]
              /\ UNCHANGED <<blocked, faults>>
           \/ /\ ~online
              /\ UNCHANGED <<redis, truth, faults>>
           \/ /\ online
              /\ faults < MaxFaults
              /\ faults' = faults + 1
              /\ UNCHANGED <<redis, truth>>
        /\ UNCHANGED <<online, earned>>

(* The commands of _handle_failure in their order: 1, 2, 3 zadd,
   zremrangebyscore and expire on the set of the address, 4, 5, 6 on that of the
   login name, 7 and 8 the setex of either block. *)
AllCommands == 8

(* Slip: the sets live as long as a block. *)
SetLifetimeOfBlock == BLOCK_DURATION_SECS

(* The argument of expire. *)
SetLifetime == FAILURE_WINDOW_SECS

(* Slip: a report leaves the old entries where they are. *)
RecordedAgesUntrimmed(old, zadd, trim) == IF zadd THEN old \cup {0} ELSE old

(* One of the two sets after those commands. *)
RecordedAges(old, zadd, trim) ==
    LET entries == IF zadd THEN old \cup {0} ELSE old
    IN  IF trim THEN Recent(entries) ELSE entries

(* Slip: a block is set from one failure more on. *)
ReachedLimitLate(k, ages) == Cardinality(ages) > Limit(k)

ReachedLimit(k, ages) == Cardinality(ages) >= Limit(k)

(* _handle_failure when n of its commands are executed: all of them, or those
   before a Redis error. *)
RecordFailure(i, u, n) ==
    LET ages == [k \in Identity |->
                   CASE k = i -> RecordedAges(LaterFailures[i], n >= 1, n >= 2)
                     [] k = u -> RecordedAges(LaterFailures[u], n >= 4, n >= 5)
                     [] OTHER -> LaterFailures[k]]
        expiring == (IF n >= 3 THEN {i} ELSE {}) \cup (IF n >= 6 THEN {u} ELSE {})
        barred == (IF n >= 7 /\ ReachedLimit(i, ages[i]) THEN {i} ELSE {})
             \cup (IF n >= 8 /\ ReachedLimit(u, ages[u]) THEN {u} ELSE {})
    IN  /\ failures' = ages
        /\ ttl' = [k \in Identity |-> IF k \in expiring THEN SetLifetime
                                                       ELSE LaterTtl[k]]
        /\ blocked' = [k \in Identity |-> IF k \in barred THEN BLOCK_DURATION_SECS
                                                          ELSE LaterBlocked[k]]

(* Slip: an attempt that was refused by this policy counts as well. *)
CountsEverything(a) == stage[a] # "idle"

(* "Only count real auth results" *)
Counts(a) == stage[a] = "admitted"

ReportFailure(a) ==
    LET i == who[a].ip
        u == who[a].user
    IN  /\ Counts(a)
        /\ Done(a)
        /\ IF online
           THEN \/ RecordFailure(i, u, AllCommands) /\ UNCHANGED faults
                \/ /\ faults < MaxFaults
                   /\ faults' = faults + 1
                   /\ \E n \in 0..(AllCommands - 1) : RecordFailure(i, u, n)
           ELSE /\ failures' = LaterFailures
                /\ ttl' = LaterTtl
                /\ blocked' = LaterBlocked
                /\ UNCHANGED faults
        /\ truth' = [k \in Identity |-> IF k \in {i, u} THEN LaterTruth[k] \cup {0}
                                                        ELSE LaterTruth[k]]
        /\ earned' = [k \in Identity |->
                        IF k \in {i, u} /\ Cardinality(truth'[k]) >= Limit(k)
                        THEN BLOCK_DURATION_SECS ELSE LaterEarned[k]]
        /\ UNCHANGED online

----------------------------------------------------------------------------
(* The server is restarted; Redis keeps its keys. *)
Restart ==
    /\ Starts
    /\ UNCHANGED <<redis, attempts, history>>

Next ==
    \/ Tick
    \/ Restart
    \/ \E a \in Attempt :
          \/ \E i \in Ip, u \in User : Allow(a, i, u) \/ AllowFailsOpen(a, i, u)
          \/ Hangup(a)
          \/ ReportRefused(a)
          \/ ReportSuccess(a)
          \/ ReportFailure(a)

Spec == Init /\ [][Next]_vars

(* Time passes. *)
FairSpec == Spec /\ WF_vars(Tick)

----------------------------------------------------------------------------
Ages == 0..FAILURE_WINDOW_SECS

(* The type of every variable, the relation of an attempt's stage to whom it is
   for, and histories that hold recent failures only. *)
TypeOK ==
    /\ online \in BOOLEAN
    /\ failures \in [Identity -> SUBSET Ages]
    /\ ttl \in [Identity -> Ages]
    /\ blocked \in [Identity -> 0..BLOCK_DURATION_SECS]
    /\ stage \in [Attempt -> {"idle", "admitted", "refused"}]
    /\ who \in [Attempt -> [ip : Ip, user : User] \cup {NoOne}]
    /\ \A a \in Attempt : stage[a] = "idle" <=> who[a] = NoOne
    /\ faults \in 0..MaxFaults
    /\ truth \in [Identity -> SUBSET (0..(FAILURE_WINDOW_SECS - 1))]
    /\ earned \in [Identity -> 0..BLOCK_DURATION_SECS]

(* What Redis counts is the truth: while no Redis error was met, the entries of a
   set that are not too old are exactly the failures of the last window (for a
   login name, those since its last success).  Neither the expiry of the key nor
   the trimming loses one. *)
CountsAreTrue ==
    faults = 0 => \A k \in Identity : Recent(failures[k]) = truth[k]

(* Thresholds are enforced: while no Redis error was met, an identity with
   MAX_FAILURES failures in one window is blocked until BLOCK_DURATION_SECS after
   the last of them. *)
ThresholdBlocks ==
    faults = 0 =>
        \A k \in Identity :
            Cardinality(truth[k]) >= Limit(k) =>
                \A age \in truth[k] : age + blocked[k] >= BLOCK_DURATION_SECS

(* Nobody is locked out undeservedly: whatever errors were met, a block lasts no
   longer than BLOCK_DURATION_SECS after a failure that was at least the
   MAX_FAILURESth of its window. *)
BlocksAreEarned ==
    \A k \in Identity : blocked[k] <= earned[k]

(* The gap between /allow and /report: attempts admitted before the threshold was
   reached may fail after it, but there are no more of them than attempts in
   flight. *)
OvershootBounded ==
    faults = 0 =>
        \A k \in Identity :
            Cardinality(truth[k]) < Limit(k) + Cardinality(Attempt)

(* A block is not kept alive by the attempts it refuses: it ends. *)
EveryBlockEnds ==
    \A k \in Identity : blocked[k] > 0 ~> blocked[k] = 0
=============================================================================
