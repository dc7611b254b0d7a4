----------------------------- MODULE AuthPolicyProofs -----------------------------
(* Proofs about AuthPolicy, for any addresses, login names, attempts in flight,
   thresholds, window, block duration and number of Redis errors. *)
EXTENDS AuthPolicy, FiniteSetTheorems, TLAPS

(* Redis holds no recent entry that is not the trace of a failure. *)
NothingInvented ==
    \A k \in Identity : Recent(failures[k]) \subseteq truth[k]

(* Until the first Redis error no recent failure is missing, and no key expires
   before its youngest entry is too old to count. *)
NothingLost ==
    faults = 0 =>
        /\ online
        /\ \A k \in Identity : \A a \in truth[k] :
              a \in failures[k] /\ a + ttl[k] >= FAILURE_WINDOW_SECS

PolicyInv ==
    /\ TypeOK
    /\ NothingInvented
    /\ NothingLost
    /\ ThresholdBlocks
    /\ BlocksAreEarned

----------------------------------------------------------------------------
(* Ages and time. *)

(* Everybody has a threshold of at least one failure. *)
LEMMA LimitType == \A k \in Identity : Limit(k) \in Nat /\ Limit(k) >= 1
  BY ThresholdAssumption DEF Limit

(* A set of ages is finite. *)
LEMMA AgesFinite ==
    ASSUME NEW S \in SUBSET Ages
    PROVE  IsFiniteSet(S) /\ Cardinality(S) \in Nat
  <1>1. IsFiniteSet(Ages)
    BY FS_Interval, ThresholdAssumption DEF Ages
  <1>2. IsFiniteSet(S)
    BY <1>1, FS_Subset
  <1>. QED BY <1>2, FS_CardinalityType

(* One set of ages is as large as another it contains. *)
LEMMA AgesMonotone ==
    ASSUME NEW S \in SUBSET Ages, NEW T \in SUBSET S
    PROVE  Cardinality(T) <= Cardinality(S)
  BY AgesFinite, FS_Subset

(* A second later a set of ages is a set of ages, recent ones one second older. *)
LEMMA OlderAges ==
    ASSUME NEW S \in SUBSET Ages
    PROVE  /\ Older(S) \in SUBSET Ages
           /\ Recent(S) \in SUBSET (0..(FAILURE_WINDOW_SECS - 1))
           /\ Recent(S) \in SUBSET Ages
           /\ \A b \in Recent(Older(S)) : b \in 1..(FAILURE_WINDOW_SECS - 1) /\ b - 1 \in S
           /\ \A a \in S : a + 1 < FAILURE_WINDOW_SECS => a + 1 \in Older(S)
  <1>. DEFINE next(a) == IF a < FAILURE_WINDOW_SECS THEN a + 1 ELSE a
  <1>1. \A a \in Ages : next(a) \in Ages
    BY ThresholdAssumption DEF Ages
  <1>2. Older(S) = {next(a) : a \in S}
    BY DEF Older
  <1>3. Older(S) \in SUBSET Ages
    BY <1>1, <1>2
  <1>4. Recent(S) \in SUBSET (0..(FAILURE_WINDOW_SECS - 1)) /\ Recent(S) \in SUBSET Ages
    <2>1. \A a \in Recent(S) : a \in S /\ a < FAILURE_WINDOW_SECS
      BY DEF Recent
    <2>2. \A a \in Recent(S) : a \in Ages /\ a \in 0..(FAILURE_WINDOW_SECS - 1)
      <3>. TAKE a \in Recent(S)
      <3>1. a \in Ages /\ a < FAILURE_WINDOW_SECS
        BY <2>1
      <3>. QED BY <3>1, ThresholdAssumption DEF Ages
    <2>. QED BY <2>2
  <1>5. ASSUME NEW b \in Recent(Older(S))
        PROVE  b \in 1..(FAILURE_WINDOW_SECS - 1) /\ b - 1 \in S
    <2>1. b \in Older(S) /\ b < FAILURE_WINDOW_SECS
      BY DEF Recent
    <2>2. PICK a \in S : b = next(a)
      BY <2>1, <1>2
    <2>3. a \in Nat /\ a < FAILURE_WINDOW_SECS /\ b = a + 1
      BY <2>1, <2>2, ThresholdAssumption DEF Ages
    <2>. QED BY <2>1, <2>3, ThresholdAssumption
  <1>6. ASSUME NEW a \in S, a + 1 < FAILURE_WINDOW_SECS
        PROVE  a + 1 \in Older(S)
    <2>1. next(a) = a + 1
      BY <1>6, ThresholdAssumption DEF Ages
    <2>. QED BY <1>2, <2>1
  <1>. QED BY <1>3, <1>4, <1>5, <1>6

(* Time alone adds no failure to the window. *)
LEMMA WindowShrinks ==
    ASSUME NEW S \in SUBSET Ages
    PROVE  Cardinality(Recent(Older(S))) <= Cardinality(S)
  <1>. DEFINE T == Recent(Older(S))
              Past == {b - 1 : b \in T}
              f == [a \in Past |-> a + 1]
  <1>1. T \in SUBSET Ages /\ \A b \in T : b \in Nat /\ b \in Int /\ b - 1 \in S
    BY OlderAges, ThresholdAssumption DEF Ages
  <1>2. Past \in SUBSET S
    BY <1>1
  <1>3. f \in Surjection(Past, T)
    <2>1. f \in [Past -> T]
      BY <1>1
    <2>2. \A b \in T : \E a \in Past : f[a] = b
      <3>. TAKE b \in T
      <3>1. b - 1 \in Past /\ f[b - 1] = b
        BY <1>1
      <3>. QED BY <3>1
    <2>. QED BY <2>1, <2>2 DEF Surjection
  <1>4. IsFiniteSet(Past) /\ Cardinality(Past) <= Cardinality(S)
    BY <1>2, AgesFinite, FS_Subset
  <1>5. Cardinality(T) <= Cardinality(Past)
    BY <1>3, <1>4, FS_Surjection
  <1>6. Cardinality(T) \in Nat /\ Cardinality(S) \in Nat /\ Cardinality(Past) \in Nat
    BY <1>1, <1>2, AgesFinite
  <1>. QED BY <1>4, <1>5, <1>6

(* A second less is within the same bound. *)
LEMMA Less1Type ==
    ASSUME NEW m \in Nat
    PROVE  \A n \in 0..m : Less1(n) \in 0..m
  BY DEF Less1

(* The state one second later keeps every type. *)
LEMMA LaterTypes ==
    ASSUME TypeOK
    PROVE  /\ LaterFailures \in [Identity -> SUBSET Ages]
           /\ LaterTtl \in [Identity -> Ages]
           /\ LaterBlocked \in [Identity -> 0..BLOCK_DURATION_SECS]
           /\ LaterTruth \in [Identity -> SUBSET (0..(FAILURE_WINDOW_SECS - 1))]
           /\ LaterEarned \in [Identity -> 0..BLOCK_DURATION_SECS]
  <1>1. \A k \in Identity : Older(failures[k]) \in SUBSET Ages
    BY OlderAges DEF TypeOK
  <1>2. \A k \in Identity : truth[k] \in SUBSET Ages
    BY ThresholdAssumption DEF TypeOK, Ages
  <1>3. \A k \in Identity : Recent(Older(truth[k])) \in SUBSET (0..(FAILURE_WINDOW_SECS - 1))
    BY <1>2, OlderAges
  <1>4. LaterFailures \in [Identity -> SUBSET Ages]
    BY <1>1 DEF LaterFailures
  <1>5. LaterTtl \in [Identity -> Ages]
    BY ThresholdAssumption, Less1Type DEF LaterTtl, TypeOK, Ages
  <1>6. LaterBlocked \in [Identity -> 0..BLOCK_DURATION_SECS]
    BY ThresholdAssumption, Less1Type DEF LaterBlocked, TypeOK
  <1>7. LaterEarned \in [Identity -> 0..BLOCK_DURATION_SECS]
    BY ThresholdAssumption, Less1Type DEF LaterEarned, TypeOK
  <1>. QED BY <1>3, <1>4, <1>5, <1>6, <1>7 DEF LaterTruth

(* A set of ages with a new entry, before and after trimming. *)
LEMMA WithNewEntry ==
    ASSUME NEW S \in SUBSET Ages
    PROVE  /\ S \cup {0} \in SUBSET Ages
           /\ Recent(S \cup {0}) \in SUBSET Ages
           /\ Recent(S \cup {0}) = Recent(S) \cup {0}
           /\ Recent(Recent(S \cup {0})) = Recent(S \cup {0})
           /\ Recent(S) \subseteq Recent(S) \cup {0}
  <1>1. 0 \in Ages /\ 0 < FAILURE_WINDOW_SECS
    BY ThresholdAssumption DEF Ages
  <1>. QED BY <1>1 DEF Recent

(* What _handle_failure leaves behind, whole or cut off by a Redis error, for the
   two identities of the attempt and for all others. *)
LEMMA Recorded ==
    ASSUME TypeOK, NEW i \in Ip, NEW u \in User, NEW n \in 0..AllCommands,
           RecordFailure(i, u, n)
    PROVE  /\ failures' \in [Identity -> SUBSET Ages]
           /\ ttl' \in [Identity -> Ages]
           /\ blocked' \in [Identity -> 0..BLOCK_DURATION_SECS]
           /\ \A k \in Identity \ {i, u} :
                 /\ failures'[k] = LaterFailures[k]
                 /\ ttl'[k] = LaterTtl[k]
                 /\ blocked'[k] = LaterBlocked[k]
           /\ \A k \in {i, u} :
                 /\ Recent(failures'[k]) \subseteq Recent(LaterFailures[k]) \cup {0}
                 /\ \/ blocked'[k] = LaterBlocked[k]
                    \/ /\ blocked'[k] = BLOCK_DURATION_SECS
                       /\ failures'[k] = Recent(failures'[k])
                       /\ Cardinality(failures'[k]) >= Limit(k)
  <1>. DEFINE ages == [k \in Identity |->
                         CASE k = i -> RecordedAges(LaterFailures[i], n >= 1, n >= 2)
                           [] k = u -> RecordedAges(LaterFailures[u], n >= 4, n >= 5)
                           [] OTHER -> LaterFailures[k]]
              expiring == (IF n >= 3 THEN {i} ELSE {}) \cup (IF n >= 6 THEN {u} ELSE {})
              barred == (IF n >= 7 /\ ReachedLimit(i, ages[i]) THEN {i} ELSE {})
                   \cup (IF n >= 8 /\ ReachedLimit(u, ages[u]) THEN {u} ELSE {})
  <1>1. /\ failures' = ages
        /\ ttl' = [k \in Identity |-> IF k \in expiring THEN SetLifetime
                                                        ELSE LaterTtl[k]]
        /\ blocked' = [k \in Identity |-> IF k \in barred THEN BLOCK_DURATION_SECS
                                                           ELSE LaterBlocked[k]]
    BY DEF RecordFailure
  <1>2. i \in Identity /\ u \in Identity /\ i # u
    BY IdentityAssumption DEF Identity
  <1>3. /\ failures'[i] = RecordedAges(LaterFailures[i], n >= 1, n >= 2)
        /\ failures'[u] = RecordedAges(LaterFailures[u], n >= 4, n >= 5)
        /\ \A k \in Identity \ {i, u} : failures'[k] = LaterFailures[k]
    BY <1>1, <1>2
  <1>4. \A k \in Identity : LaterFailures[k] \in SUBSET Ages
    BY LaterTypes
  <1>5. \A k \in {i, u} :
           failures'[k] \in {LaterFailures[k], LaterFailures[k] \cup {0},
                            Recent(LaterFailures[k] \cup {0})}
    <2>1. (n >= 2 => n >= 1) /\ (n >= 5 => n >= 4)
      BY DEF AllCommands
    <2>2. failures'[i] \in {LaterFailures[i], LaterFailures[i] \cup {0},
                            Recent(LaterFailures[i] \cup {0})}
      <3>1. CASE n >= 2
        BY <1>3, <2>1, <3>1 DEF RecordedAges
      <3>2. CASE ~ (n >= 2)
        BY <1>3, <3>2 DEF RecordedAges
      <3>. QED BY <3>1, <3>2
    <2>3. failures'[u] \in {LaterFailures[u], LaterFailures[u] \cup {0},
                            Recent(LaterFailures[u] \cup {0})}
      <3>1. CASE n >= 5
        BY <1>3, <2>1, <3>1 DEF RecordedAges
      <3>2. CASE ~ (n >= 5)
        BY <1>3, <3>2 DEF RecordedAges
      <3>. QED BY <3>1, <3>2
    <2>. QED BY <2>2, <2>3
  <1>6. failures' \in [Identity -> SUBSET Ages]
    <2>1. ASSUME NEW k \in {i, u} PROVE failures'[k] \in SUBSET Ages
      <3>1. LaterFailures[k] \in SUBSET Ages
        BY <1>2, <1>4
      <3>2. /\ LaterFailures[k] \cup {0} \in SUBSET Ages
            /\ Recent(LaterFailures[k] \cup {0}) \in SUBSET Ages
        BY <3>1, WithNewEntry
      <3>. QED BY <3>1, <3>2, <1>5
    <2>2. \A k \in Identity : failures'[k] \in SUBSET Ages
      BY <2>1, <1>3, <1>4
    <2>. QED BY <2>2, <1>1
  <1>7. ttl' \in [Identity -> Ages]
    BY <1>1, LaterTypes, ThresholdAssumption DEF SetLifetime, Ages
  <1>8. blocked' \in [Identity -> 0..BLOCK_DURATION_SECS]
    BY <1>1, LaterTypes, ThresholdAssumption
  <1>9. ASSUME NEW k \in Identity \ {i, u}
        PROVE  ttl'[k] = LaterTtl[k] /\ blocked'[k] = LaterBlocked[k]
    BY <1>1
  <1>10. ASSUME NEW k \in {i, u}
         PROVE  Recent(failures'[k]) \subseteq Recent(LaterFailures[k]) \cup {0}
    BY <1>2, <1>4, <1>5, WithNewEntry
  <1>11. ASSUME NEW k \in {i, u}, blocked'[k] # LaterBlocked[k]
         PROVE  /\ blocked'[k] = BLOCK_DURATION_SECS
                /\ failures'[k] = Recent(failures'[k])
                /\ Cardinality(failures'[k]) >= Limit(k)
    <2>1. k \in barred /\ blocked'[k] = BLOCK_DURATION_SECS
      BY <1>1, <1>2, <1>11
    <2>2. n >= 7 /\ (k = u => n >= 8) /\ ReachedLimit(k, ages[k])
      BY <2>1, <1>2
    <2>3. Cardinality(failures'[k]) >= Limit(k)
      BY <2>2, <1>1 DEF ReachedLimit
    <2>4. n >= 2 /\ n >= 5
      BY <2>2 DEF AllCommands
    <2>5. failures'[k] = Recent(LaterFailures[k] \cup {0})
      <3>1. n >= 1 /\ n >= 4
        BY <2>4 DEF AllCommands
      <3>. QED BY <3>1, <2>4, <1>3 DEF RecordedAges
    <2>6. failures'[k] = Recent(failures'[k])
      BY <2>5, <1>2, <1>4, WithNewEntry
    <2>. QED BY <2>1, <2>3, <2>6
  <1>. QED BY <1>3, <1>6, <1>7, <1>8, <1>9, <1>10, <1>11

(* When no Redis error cuts it off, _handle_failure adds the failure to both sets,
   lets them live for a window, and blocks whoever reached the threshold. *)
LEMMA RecordedWhole ==
    ASSUME NEW i \in Ip, NEW u \in User, RecordFailure(i, u, AllCommands), NEW k \in {i, u}
    PROVE  /\ failures'[k] = Recent(LaterFailures[k] \cup {0})
           /\ ttl'[k] = FAILURE_WINDOW_SECS
           /\ (Cardinality(failures'[k]) >= Limit(k)) => (blocked'[k] = BLOCK_DURATION_SECS)
  <1>1. AllCommands >= 1 /\ AllCommands >= 2 /\ AllCommands >= 3 /\ AllCommands >= 4
        /\ AllCommands >= 5 /\ AllCommands >= 6 /\ AllCommands >= 7 /\ AllCommands >= 8
    BY DEF AllCommands
  <1>2. i \in Identity /\ u \in Identity /\ i # u
    BY IdentityAssumption DEF Identity
  <1>3. failures' = [j \in Identity |->
                       CASE j = i -> Recent(LaterFailures[i] \cup {0})
                         [] j = u -> Recent(LaterFailures[u] \cup {0})
                         [] OTHER -> LaterFailures[j]]
    BY <1>1 DEF RecordFailure, RecordedAges
  <1>4. failures'[k] = Recent(LaterFailures[k] \cup {0})
    BY <1>2, <1>3
  <1>5. ttl'[k] = FAILURE_WINDOW_SECS
    BY <1>1, <1>2 DEF RecordFailure, SetLifetime
  <1>6. ASSUME Cardinality(failures'[k]) >= Limit(k)
        PROVE  blocked'[k] = BLOCK_DURATION_SECS
    BY <1>1, <1>2, <1>6 DEF RecordFailure, ReachedLimit
  <1>. QED BY <1>4, <1>5, <1>6

----------------------------------------------------------------------------
(* The inductive invariant. *)

(* It holds at the start. *)
LEMMA InitPolicy == Init => PolicyInv
  <1>. SUFFICES ASSUME Init PROVE PolicyInv
    OBVIOUS
  <1>1. TypeOK
    <2>1. faults \in 0..MaxFaults /\ online \in BOOLEAN
      <3>1. online \in BOOLEAN
        BY DEF Init
      <3>2. faults = 0 \/ (faults = 1 /\ MaxFaults > 0)
        BY Zenon DEF Init
      <3>. QED BY <3>1, <3>2, ThresholdAssumption
    <2>2. 0 \in Ages /\ 0 \in 0..BLOCK_DURATION_SECS
      BY ThresholdAssumption DEF Ages
    <2>3. /\ failures \in [Identity -> SUBSET Ages] /\ ttl \in [Identity -> Ages]
          /\ blocked \in [Identity -> 0..BLOCK_DURATION_SECS]
          /\ truth \in [Identity -> SUBSET (0..(FAILURE_WINDOW_SECS - 1))]
          /\ earned \in [Identity -> 0..BLOCK_DURATION_SECS]
      BY <2>2 DEF Init
    <2>4. /\ stage \in [Attempt -> {"idle", "admitted", "refused"}]
          /\ who \in [Attempt -> [ip : Ip, user : User] \cup {NoOne}]
          /\ \A a \in Attempt : stage[a] = "idle" <=> who[a] = NoOne
      BY DEF Init
    <2>. QED BY <2>1, <2>3, <2>4 DEF TypeOK
  <1>2. NothingInvented /\ NothingLost /\ ThresholdBlocks /\ BlocksAreEarned
    BY ThresholdAssumption
       DEF Init, NothingInvented, NothingLost, ThresholdBlocks, BlocksAreEarned, Recent
  <1>. QED BY <1>1, <1>2 DEF PolicyInv

(* Nothing but the attempts changes. *)
LEMMA AttemptStep ==
    ASSUME PolicyInv, UNCHANGED <<redis, history>>, TypeOK',
           faults' >= faults, faults' = faults => online' = online
    PROVE  PolicyInv'
  BY DEF PolicyInv, TypeOK, NothingInvented, NothingLost, ThresholdBlocks, BlocksAreEarned,
         redis, history, Recent

(* Trimming drops only entries that do not count. *)
LEMMA TrimStep ==
    ASSUME PolicyInv, NEW keys, Trim(keys), UNCHANGED <<online, history>>,
           faults' \in 0..MaxFaults, faults' >= faults,
           stage' \in [Attempt -> {"idle", "admitted", "refused"}],
           who' \in [Attempt -> [ip : Ip, user : User] \cup {NoOne}],
           \A a \in Attempt : stage'[a] = "idle" <=> who'[a] = NoOne
    PROVE  PolicyInv'
  <1>. USE DEF PolicyInv, history
  <1>1. \A k \in Identity : failures[k] \in SUBSET Ages
    BY DEF TypeOK
  <1>2. \A k \in Identity :
           /\ failures'[k] \in SUBSET Ages
           /\ Recent(failures'[k]) = Recent(failures[k])
           /\ failures'[k] = Recent(failures[k]) \/ failures'[k] = failures[k]
    BY <1>1, OlderAges DEF Trim, Recent
  <1>3. failures' \in [Identity -> SUBSET Ages] /\ ttl' \in [Identity -> Ages]
    BY <1>2, ThresholdAssumption DEF Trim, TypeOK, Ages
  <1>4. TypeOK'
    BY <1>3 DEF Trim, TypeOK
  <1>5. NothingInvented'
    BY <1>2 DEF NothingInvented
  <1>6. NothingLost'
    <2>. SUFFICES ASSUME faults' = 0, NEW k \in Identity, NEW a \in truth[k]
                  PROVE  a \in failures'[k] /\ a + ttl'[k] >= FAILURE_WINDOW_SECS
      BY DEF NothingLost, TypeOK
    <2>1. faults = 0
      BY DEF TypeOK
    <2>2. a \in failures[k] /\ a + ttl[k] >= FAILURE_WINDOW_SECS
      BY <2>1 DEF NothingLost
    <2>3. a \in Recent(failures[k])
      BY <2>2, ThresholdAssumption DEF TypeOK, Recent
    <2>4. ttl'[k] = ttl[k]
      BY <2>3 DEF Trim
    <2>. QED BY <1>2, <2>2, <2>3, <2>4
  <1>7. ThresholdBlocks' /\ BlocksAreEarned'
    BY DEF ThresholdBlocks, BlocksAreEarned, Trim, TypeOK
  <1>. QED BY <1>4, <1>5, <1>6, <1>7

(* A second later every part of the invariant holds of the older state. *)
LEMMA LaterFacts ==
    ASSUME PolicyInv, NEW k \in Identity
    PROVE  /\ Recent(LaterFailures[k]) \subseteq LaterTruth[k]
           /\ faults = 0 =>
                 \A b \in LaterTruth[k] :
                    b \in LaterFailures[k] /\ b + LaterTtl[k] >= FAILURE_WINDOW_SECS
           /\ faults = 0 /\ Cardinality(LaterTruth[k]) >= Limit(k) =>
                 \A b \in LaterTruth[k] : b + LaterBlocked[k] >= BLOCK_DURATION_SECS
           /\ LaterBlocked[k] <= LaterEarned[k]
  <1>. USE DEF PolicyInv
  <1>1. /\ failures[k] \in SUBSET Ages /\ ttl[k] \in Nat
        /\ blocked[k] \in Nat /\ earned[k] \in Nat
    BY ThresholdAssumption DEF TypeOK, Ages
  <1>2. truth[k] \in SUBSET Ages /\ \A a \in truth[k] : a \in Nat /\ a < FAILURE_WINDOW_SECS
    BY ThresholdAssumption DEF TypeOK, Ages
  <1>3. LaterTruth[k] = Recent(Older(truth[k]))
    BY DEF LaterTruth
  <1>4. ASSUME NEW b \in LaterTruth[k]
        PROVE  b \in Nat /\ b < FAILURE_WINDOW_SECS /\ b - 1 \in truth[k]
    BY <1>2, <1>3, OlderAges, ThresholdAssumption
  <1>5. Recent(LaterFailures[k]) \subseteq LaterTruth[k]
    <2>. SUFFICES ASSUME NEW b \in Recent(LaterFailures[k]) PROVE b \in LaterTruth[k]
      OBVIOUS
    <2>1. b \in Recent(Older(failures[k]))
      BY DEF LaterFailures, Recent
    <2>2. b \in 1..(FAILURE_WINDOW_SECS - 1) /\ b - 1 \in failures[k]
      BY <2>1, <1>1, OlderAges
    <2>3. b - 1 \in Recent(failures[k])
      BY <2>2, ThresholdAssumption DEF Recent
    <2>4. b - 1 \in truth[k]
      BY <2>3 DEF NothingInvented
    <2>5. (b - 1) + 1 \in Older(truth[k])
      BY <2>2, <2>4, <1>2, OlderAges, ThresholdAssumption
    <2>6. (b - 1) + 1 = b /\ b < FAILURE_WINDOW_SECS
      BY <2>2, ThresholdAssumption
    <2>. QED BY <2>5, <2>6, <1>3 DEF Recent
  <1>6. ASSUME faults = 0, NEW b \in LaterTruth[k]
        PROVE  b \in LaterFailures[k] /\ b + LaterTtl[k] >= FAILURE_WINDOW_SECS
    <2>1. b \in Nat /\ b < FAILURE_WINDOW_SECS /\ b - 1 \in truth[k] /\ b - 1 \in Nat
      BY <1>2, <1>4
    <2>2. b - 1 \in failures[k] /\ (b - 1) + ttl[k] >= FAILURE_WINDOW_SECS
      BY <1>6, <2>1 DEF NothingLost
    <2>3. ttl[k] # 1 /\ ttl[k] # 0
      BY <1>1, <2>1, <2>2, ThresholdAssumption
    <2>4. (b - 1) + 1 \in Older(failures[k])
      BY <2>1, <2>2, <1>1, OlderAges, ThresholdAssumption
    <2>5. LaterTtl[k] = ttl[k] - 1
      BY <2>3 DEF LaterTtl, Less1
    <2>. QED BY <2>1, <2>2, <2>3, <2>4, <2>5, <1>1, ThresholdAssumption DEF LaterFailures
  <1>7. ASSUME faults = 0, Cardinality(LaterTruth[k]) >= Limit(k), NEW b \in LaterTruth[k]
        PROVE  b + LaterBlocked[k] >= BLOCK_DURATION_SECS
    <2>1. Cardinality(truth[k]) >= Limit(k)
      <3>1. Cardinality(LaterTruth[k]) <= Cardinality(truth[k])
        BY <1>2, <1>3, WindowShrinks
      <3>2. LaterTruth[k] \in SUBSET Ages
        BY <1>2, <1>3, OlderAges
      <3>. QED BY <1>2, <1>7, <3>1, <3>2, AgesFinite, LimitType
    <2>2. b \in Nat /\ b - 1 \in truth[k] /\ b - 1 \in Nat
      BY <1>2, <1>4
    <2>3. (b - 1) + blocked[k] >= BLOCK_DURATION_SECS
      BY <1>7, <2>1, <2>2 DEF ThresholdBlocks
    <2>. QED BY <1>1, <2>2, <2>3, ThresholdAssumption DEF LaterBlocked, Less1
  <1>8. LaterBlocked[k] <= LaterEarned[k]
    <2>1. blocked[k] <= earned[k]
      BY DEF BlocksAreEarned
    <2>. QED BY <1>1, <2>1 DEF LaterBlocked, LaterEarned, Less1
  <1>. QED BY <1>5, <1>6, <1>7, <1>8

(* The attempt that is answered goes back to idle. *)
LEMMA StageType ==
    ASSUME TypeOK, NEW a \in Attempt, Done(a)
    PROVE  /\ stage' \in [Attempt -> {"idle", "admitted", "refused"}]
           /\ who' \in [Attempt -> [ip : Ip, user : User] \cup {NoOne}]
           /\ \A c \in Attempt : stage'[c] = "idle" <=> who'[c] = NoOne
  BY DEF TypeOK, Done

(* An answer to /allow leaves an attempt admitted or refused, for somebody. *)
LEMMA Asked ==
    ASSUME TypeOK, NEW a \in Attempt, NEW i \in Ip, NEW u \in User,
           NEW answer \in {"admitted", "refused"},
           stage' = [stage EXCEPT ![a] = answer],
           who' = [who EXCEPT ![a] = [ip |-> i, user |-> u]]
    PROVE  /\ stage' \in [Attempt -> {"idle", "admitted", "refused"}]
           /\ who' \in [Attempt -> [ip : Ip, user : User] \cup {NoOne}]
           /\ \A c \in Attempt : stage'[c] = "idle" <=> who'[c] = NoOne
  <1>1. [ip |-> i, user |-> u] # NoOne
    BY IdentityAssumption DEF Identity, NoOne
  <1>. QED BY <1>1 DEF TypeOK

(* An attempt with an answer is for somebody. *)
LEMMA ForSomebody ==
    ASSUME TypeOK, NEW a \in Attempt, stage[a] # "idle"
    PROVE  who[a].ip \in Ip /\ who[a].user \in User
  BY DEF TypeOK

(* _handle_failure, whole, cut off or without Redis. *)
LEMMA FailureStep ==
    ASSUME PolicyInv, NEW a \in Attempt, ReportFailure(a)
    PROVE  PolicyInv'
  <1>. USE DEF PolicyInv
  <1>. DEFINE i == who[a].ip
              u == who[a].user
  <1>1. i \in Ip /\ u \in User /\ i \in Identity /\ u \in Identity
    BY ForSomebody DEF ReportFailure, Counts, Identity
  <1>2. /\ truth' = [k \in Identity |-> IF k \in {i, u} THEN LaterTruth[k] \cup {0}
                                                       ELSE LaterTruth[k]]
        /\ earned' = [k \in Identity |->
                         IF k \in {i, u} /\ Cardinality(truth'[k]) >= Limit(k)
                         THEN BLOCK_DURATION_SECS ELSE LaterEarned[k]]
        /\ online' = online
        /\ Done(a)
    BY DEF ReportFailure
  <1>3. /\ faults' \in 0..MaxFaults /\ faults' >= faults
        /\ faults' = 0 => faults = 0
    BY ThresholdAssumption DEF ReportFailure, TypeOK
  <1>4. 0 \in 0..(FAILURE_WINDOW_SECS - 1) /\ BLOCK_DURATION_SECS \in 0..BLOCK_DURATION_SECS
    BY ThresholdAssumption
  <1>5. truth' \in [Identity -> SUBSET (0..(FAILURE_WINDOW_SECS - 1))]
    BY <1>2, <1>4, LaterTypes
  <1>6. earned' \in [Identity -> 0..BLOCK_DURATION_SECS]
    BY <1>2, <1>4, LaterTypes
  <1>7. \A k \in Identity : truth'[k] \in SUBSET Ages /\ 0 + FAILURE_WINDOW_SECS >= FAILURE_WINDOW_SECS
    BY <1>5, ThresholdAssumption DEF Ages
  <1>. HIDE DEF i, u
  <1>8. CASE online
    <2>1. PICK n \in 0..AllCommands :
             /\ RecordFailure(i, u, n)
             /\ n # AllCommands => faults' = faults + 1
      BY <1>8 DEF ReportFailure, AllCommands, i, u
    <2>2. /\ failures' \in [Identity -> SUBSET Ages]
          /\ ttl' \in [Identity -> Ages]
          /\ blocked' \in [Identity -> 0..BLOCK_DURATION_SECS]
      BY <1>1, <2>1, Recorded
    <2>3. \A k \in Identity \ {i, u} :
                 /\ failures'[k] = LaterFailures[k]
                 /\ ttl'[k] = LaterTtl[k]
                 /\ blocked'[k] = LaterBlocked[k]
                 /\ truth'[k] = LaterTruth[k]
                 /\ earned'[k] = LaterEarned[k]
      <3>1. \A k \in Identity \ {i, u} :
                 /\ failures'[k] = LaterFailures[k]
                 /\ ttl'[k] = LaterTtl[k]
                 /\ blocked'[k] = LaterBlocked[k]
        BY <1>1, <2>1, Recorded
      <3>2. \A k \in Identity \ {i, u} :
                 truth'[k] = LaterTruth[k] /\ earned'[k] = LaterEarned[k]
        BY <1>2
      <3>. QED BY <3>1, <3>2
    <2>4. \A k \in {i, u} :
                 /\ Recent(failures'[k]) \subseteq Recent(LaterFailures[k]) \cup {0}
                 /\ \/ blocked'[k] = LaterBlocked[k]
                    \/ /\ blocked'[k] = BLOCK_DURATION_SECS
                       /\ failures'[k] = Recent(failures'[k])
                       /\ Cardinality(failures'[k]) >= Limit(k)
      BY <1>1, <2>1, Recorded
    <2>5. ASSUME faults' = 0, NEW k \in {i, u}
          PROVE  /\ failures'[k] = Recent(LaterFailures[k] \cup {0})
                 /\ ttl'[k] = FAILURE_WINDOW_SECS
                 /\ (Cardinality(failures'[k]) >= Limit(k)) =>
                       (blocked'[k] = BLOCK_DURATION_SECS)
      <3>1. n = AllCommands
        BY <2>1, <2>5, <1>3, ThresholdAssumption DEF TypeOK
      <3>2. RecordFailure(i, u, AllCommands)
        BY <3>1, <2>1
      <3>. QED BY <1>1, <3>2, RecordedWhole
    <2>6. \A k \in {i, u} : truth'[k] = LaterTruth[k] \cup {0}
      BY <1>1, <1>2
    <2>7. TypeOK'
      BY <1>2, <1>3, <1>5, <1>6, <2>2, StageType DEF TypeOK
    <2>8. NothingInvented'
      BY <1>1, <2>3, <2>4, <2>6, LaterFacts DEF NothingInvented
    <2>9. ASSUME faults' = 0, NEW k \in {i, u}
          PROVE  failures'[k] = truth'[k]
      <3>1. LaterFailures[k] \in SUBSET Ages /\ LaterTruth[k] \in SUBSET Ages
        BY <1>1, <1>7, <2>6, LaterTypes
      <3>2. failures'[k] = Recent(LaterFailures[k]) \cup {0}
        BY <2>5, <2>9, <3>1, WithNewEntry
      <3>3. \A b \in LaterTruth[k] : b < FAILURE_WINDOW_SECS
        BY <1>1, LaterTypes, ThresholdAssumption
      <3>4. \A b \in LaterTruth[k] : b \in LaterFailures[k]
        BY <1>1, <1>3, <2>9, LaterFacts
      <3>5. Recent(LaterFailures[k]) \subseteq LaterTruth[k]
        BY <1>1, LaterFacts
      <3>6. Recent(LaterFailures[k]) = LaterTruth[k]
        BY <3>3, <3>4, <3>5 DEF Recent
      <3>. QED BY <3>2, <3>6, <2>6
    <2>10. NothingLost'
      <3>. SUFFICES ASSUME faults' = 0, NEW k \in Identity, NEW b \in truth'[k]
                    PROVE  online' /\ b \in failures'[k] /\ b + ttl'[k] >= FAILURE_WINDOW_SECS
        BY <1>2, <1>8 DEF NothingLost
      <3>1. CASE k \in {i, u}
        <4>1. b \in failures'[k] /\ ttl'[k] = FAILURE_WINDOW_SECS
          BY <3>1, <2>5, <2>9
        <4>2. b \in Nat
          BY <1>5, ThresholdAssumption
        <4>. QED BY <4>1, <4>2, <1>2, <1>8, ThresholdAssumption
      <3>2. CASE k \notin {i, u}
        BY <3>2, <1>2, <1>3, <1>8, <2>3, LaterFacts
      <3>. QED BY <3>1, <3>2
    <2>11. ThresholdBlocks'
      <3>. SUFFICES ASSUME faults' = 0, NEW k \in Identity,
                           Cardinality(truth'[k]) >= Limit(k), NEW b \in truth'[k]
                    PROVE  b + blocked'[k] >= BLOCK_DURATION_SECS
        BY DEF ThresholdBlocks
      <3>1. CASE k \in {i, u}
        <4>1. blocked'[k] = BLOCK_DURATION_SECS
          BY <3>1, <2>5, <2>9
        <4>2. b \in Nat
          BY <1>5, ThresholdAssumption
        <4>. QED BY <4>1, <4>2, ThresholdAssumption
      <3>2. CASE k \notin {i, u}
        BY <3>2, <1>3, <2>3, LaterFacts
      <3>. QED BY <3>1, <3>2
    <2>12. BlocksAreEarned'
      <3>. SUFFICES ASSUME NEW k \in Identity PROVE blocked'[k] <= earned'[k]
        BY DEF BlocksAreEarned
      <3>1. CASE k \in {i, u} /\ blocked'[k] # LaterBlocked[k]
        <4>1. Cardinality(failures'[k]) >= Limit(k) /\ failures'[k] \subseteq truth'[k]
          BY <3>1, <2>4, <2>8 DEF NothingInvented
        <4>2. Cardinality(failures'[k]) <= Cardinality(truth'[k])
          BY <4>1, <1>7, AgesMonotone
        <4>3. Cardinality(truth'[k]) >= Limit(k)
          BY <4>1, <4>2, <1>7, <2>2, AgesFinite, LimitType
        <4>. QED BY <3>1, <4>3, <1>2, <2>2
      <3>2. CASE blocked'[k] = LaterBlocked[k]
        <4>1. earned'[k] = LaterEarned[k] \/ earned'[k] = BLOCK_DURATION_SECS
          BY <1>2
        <4>. QED BY <3>2, <4>1, <2>2, LaterFacts
      <3>. QED BY <3>1, <3>2, <2>3
    <2>. QED BY <2>7, <2>8, <2>10, <2>11, <2>12
  <1>9. CASE ~ online
    <2>1. failures' = LaterFailures /\ ttl' = LaterTtl /\ blocked' = LaterBlocked /\ faults' = faults
      BY <1>9 DEF ReportFailure
    <2>2. faults' # 0
      BY <1>9, <2>1 DEF NothingLost
    <2>3. TypeOK'
      BY <1>2, <1>3, <1>5, <1>6, <2>1, LaterTypes, StageType DEF TypeOK
    <2>4. NothingInvented'
      <3>. SUFFICES ASSUME NEW k \in Identity PROVE Recent(failures'[k]) \subseteq truth'[k]
        BY DEF NothingInvented
      <3>. QED BY <1>2, <2>1, LaterFacts
    <2>5. BlocksAreEarned'
      <3>. SUFFICES ASSUME NEW k \in Identity PROVE blocked'[k] <= earned'[k]
        BY DEF BlocksAreEarned
      <3>1. earned'[k] = LaterEarned[k] \/ earned'[k] = BLOCK_DURATION_SECS
        BY <1>2
      <3>. QED BY <3>1, <2>1, <2>3, LaterFacts DEF TypeOK
    <2>. QED BY <2>2, <2>3, <2>4, <2>5 DEF NothingLost, ThresholdBlocks
  <1>. QED BY <1>8, <1>9

(* A second passes. *)
LEMMA TickStep ==
    ASSUME PolicyInv, Tick
    PROVE  PolicyInv'
  <1>. USE DEF PolicyInv
  <1>1. TypeOK'
    BY LaterTypes DEF Tick, TypeOK, attempts
  <1>2. ASSUME NEW k \in Identity
        PROVE  /\ Recent(failures'[k]) \subseteq truth'[k]
               /\ faults' = 0 =>
                     \A b \in truth'[k] :
                        b \in failures'[k] /\ b + ttl'[k] >= FAILURE_WINDOW_SECS
               /\ faults' = 0 /\ Cardinality(truth'[k]) >= Limit(k) =>
                     \A b \in truth'[k] : b + blocked'[k] >= BLOCK_DURATION_SECS
               /\ blocked'[k] <= earned'[k]
    BY LaterFacts DEF Tick
  <1>3. faults' = 0 => online'
    BY DEF Tick, NothingLost
  <1>. QED BY <1>1, <1>2, <1>3
           DEF NothingInvented, NothingLost, ThresholdBlocks, BlocksAreEarned

(* _handle_success, with, without and in spite of Redis. *)
LEMMA SuccessStep ==
    ASSUME PolicyInv, NEW a \in Attempt, ReportSuccess(a)
    PROVE  PolicyInv'
  <1>. USE DEF PolicyInv
  <1>. DEFINE u == who[a].user
  <1>1. u \in Identity
    BY ForSomebody DEF ReportSuccess, Identity
  <1>2. Done(a) /\ online' = online /\ earned' = earned /\ blocked' = blocked
    BY DEF ReportSuccess, redis
  <1>3. CASE /\ failures' = [failures EXCEPT ![u] = {}]
             /\ ttl' = [ttl EXCEPT ![u] = 0]
             /\ truth' = [truth EXCEPT ![u] = {}]
             /\ faults' = faults
    <2>. HIDE DEF u
    <2>1. TypeOK'
      <3>1. 0 \in Ages
        BY ThresholdAssumption DEF Ages
      <3>. QED BY <1>2, <1>3, <3>1, StageType DEF TypeOK
    <2>2. NothingInvented'
      BY <1>1, <1>3 DEF NothingInvented, TypeOK, Recent
    <2>3. NothingLost'
      BY <1>1, <1>2, <1>3 DEF NothingLost, TypeOK
    <2>4. ThresholdBlocks' /\ BlocksAreEarned'
      BY <1>1, <1>2, <1>3 DEF ThresholdBlocks, BlocksAreEarned, TypeOK
    <2>. QED BY <2>1, <2>2, <2>3, <2>4
  <1>4. CASE /\ UNCHANGED <<failures, ttl, truth>>
             /\ faults' = faults \/ (faults < MaxFaults /\ faults' = faults + 1)
    <2>1. faults' \in 0..MaxFaults /\ faults' >= faults
      BY <1>4, ThresholdAssumption DEF TypeOK
    <2>2. TypeOK'
      BY <1>2, <1>4, <2>1, StageType DEF TypeOK
    <2>. QED BY <1>2, <1>4, <2>1, <2>2, AttemptStep DEF redis, history
  <1>. QED BY <1>3, <1>4 DEF ReportSuccess, redis

(* check_before_auth, whole or cut off. *)
LEMMA AllowStep ==
    ASSUME PolicyInv, NEW a \in Attempt, NEW i \in Ip, NEW u \in User,
           Allow(a, i, u) \/ AllowFailsOpen(a, i, u)
    PROVE  PolicyInv'
  <1>. USE DEF PolicyInv
  <1>1. /\ stage' \in [Attempt -> {"idle", "admitted", "refused"}]
        /\ who' \in [Attempt -> [ip : Ip, user : User] \cup {NoOne}]
        /\ \A c \in Attempt : stage'[c] = "idle" <=> who'[c] = NoOne
    BY Asked DEF Allow, AllowFailsOpen
  <1>2. /\ UNCHANGED <<online, history>>
        /\ faults' \in 0..MaxFaults /\ faults' >= faults
    BY ThresholdAssumption DEF Allow, AllowFailsOpen, TypeOK
  <1>3. UNCHANGED redis \/ \E keys \in SUBSET {i, u} : Trim(keys)
    BY DEF Allow, AllowFailsOpen
  <1>4. CASE UNCHANGED redis
    <2>1. TypeOK'
      BY <1>1, <1>2, <1>4 DEF TypeOK, redis, history
    <2>. QED BY <1>2, <1>4, <2>1, AttemptStep
  <1>5. CASE \E keys \in SUBSET {i, u} : Trim(keys)
    BY <1>1, <1>2, <1>5, TrimStep
  <1>. QED BY <1>3, <1>4, <1>5

(* Every step keeps the invariant. *)
LEMMA StepPolicy == PolicyInv /\ [Next]_vars => PolicyInv'
  <1>. SUFFICES ASSUME PolicyInv, [Next]_vars PROVE PolicyInv'
    OBVIOUS
  <1>. USE DEF PolicyInv
  <1>1. CASE Tick
    BY <1>1, TickStep
  <1>2. CASE Restart
    <2>1. UNCHANGED <<redis, attempts, history>> /\ Starts
      BY <1>2 DEF Restart
    <2>2. TypeOK'
      <3>1. online' \in BOOLEAN
        BY <2>1 DEF Starts
      <3>2. faults' \in 0..MaxFaults
        BY <2>1, ThresholdAssumption DEF Starts, TypeOK
      <3>. QED BY <2>1, <3>1, <3>2 DEF TypeOK, redis, attempts, history
    <2>3. NothingLost'
      <3>. SUFFICES ASSUME faults' = 0 PROVE NothingLost'
        BY DEF NothingLost
      <3>1. faults = 0 /\ online'
        BY <2>1, ThresholdAssumption DEF Starts, TypeOK
      <3>. QED BY <2>1, <3>1 DEF NothingLost, redis, history
    <2>4. faults' = 0 => faults = 0
      BY <2>1, ThresholdAssumption DEF Starts, TypeOK
    <2>5. NothingInvented' /\ ThresholdBlocks' /\ BlocksAreEarned'
      BY <2>1, <2>4 DEF NothingInvented, ThresholdBlocks, BlocksAreEarned, redis, history, Recent
    <2>. QED BY <2>2, <2>3, <2>5
  <1>3. ASSUME NEW a \in Attempt, NEW i \in Ip, NEW u \in User,
               Allow(a, i, u) \/ AllowFailsOpen(a, i, u)
        PROVE  PolicyInv'
    BY <1>3, AllowStep
  <1>4. ASSUME NEW a \in Attempt, Hangup(a) \/ ReportRefused(a)
        PROVE  PolicyInv'
    <2>1. Done(a) /\ UNCHANGED <<online, redis, faults, history>>
      BY <1>4 DEF Hangup, ReportRefused, Done
    <2>2. TypeOK'
      BY <2>1, StageType DEF TypeOK, redis, history
    <2>3. faults' >= faults
      BY <2>1 DEF TypeOK
    <2>. QED BY <2>1, <2>2, <2>3, AttemptStep
  <1>5. ASSUME NEW a \in Attempt, ReportSuccess(a)
        PROVE  PolicyInv'
    BY <1>5, SuccessStep
  <1>6. ASSUME NEW a \in Attempt, ReportFailure(a)
        PROVE  PolicyInv'
    BY <1>6, FailureStep
  <1>7. CASE UNCHANGED vars
    BY <1>7 DEF vars, redis, attempts, history, TypeOK, NothingInvented, NothingLost,
                ThresholdBlocks, BlocksAreEarned, Recent
  <1>. QED BY <1>1, <1>2, <1>3, <1>4, <1>5, <1>6, <1>7 DEF Next

(* The inductive invariant holds in every reachable state. *)
THEOREM PolicyInvariant == Spec => []PolicyInv
  <1>. QED BY InitPolicy, StepPolicy, PTL DEF Spec

----------------------------------------------------------------------------
(* Every variable of the policy server keeps its type. *)
THEOREM TypeCorrect == Spec => []TypeOK
  <1>1. PolicyInv => TypeOK
    BY DEF PolicyInv
  <1>. QED BY <1>1, PolicyInvariant, PTL

(* Until the first Redis error the sorted sets of dovecot-auth-policy.py, trimmed
   and expiring, count exactly the failures of the last window. *)
THEOREM CountsTrue == Spec => []CountsAreTrue
  <1>1. PolicyInv => CountsAreTrue
    <2>. SUFFICES ASSUME PolicyInv, faults = 0, NEW k \in Identity
                  PROVE  Recent(failures[k]) = truth[k]
      BY DEF CountsAreTrue
    <2>1. Recent(failures[k]) \subseteq truth[k]
      BY DEF PolicyInv, NothingInvented
    <2>2. \A a \in truth[k] : a \in failures[k] /\ a < FAILURE_WINDOW_SECS
      BY ThresholdAssumption DEF PolicyInv, NothingLost, TypeOK
    <2>. QED BY <2>1, <2>2 DEF Recent
  <1>. QED BY <1>1, PolicyInvariant, PTL

(* Until the first Redis error, _handle_failure blocks an identity for the whole
   block duration after the failure that reached its threshold. *)
THEOREM ThresholdEnforced == Spec => []ThresholdBlocks
  <1>1. PolicyInv => ThresholdBlocks
    BY DEF PolicyInv
  <1>. QED BY <1>1, PolicyInvariant, PTL

(* With any number of Redis errors at any command, no identity is blocked for
   longer than its own failures justify. *)
THEOREM OnlyEarnedBlocks == Spec => []BlocksAreEarned
  <1>1. PolicyInv => BlocksAreEarned
    BY DEF PolicyInv
  <1>. QED BY <1>1, PolicyInvariant, PTL

----------------------------------------------------------------------------
(* The gap between /allow and /report. *)

(* The attempts that may still turn into a failure of k. *)
InFlight(k) ==
    {a \in Attempt : stage[a] = "admitted" /\ k \in {who[a].ip, who[a].user}}

(* Failures counted and failures that may come. *)
OvershootInv ==
    faults = 0 =>
        \A k \in Identity :
            Cardinality(truth[k]) + Cardinality(InFlight(k)) < Limit(k) + Cardinality(Attempt)

(* Sets of attempts are finite. *)
LEMMA InFlightType ==
    ASSUME NEW S \in SUBSET Attempt
    PROVE  /\ IsFiniteSet(S) /\ Cardinality(S) \in Nat
           /\ Cardinality(S) <= Cardinality(Attempt) /\ Cardinality(Attempt) \in Nat
  BY IdentityAssumption, FS_Subset, FS_CardinalityType

(* The number of recent failures is a natural. *)
LEMMA TruthCounts ==
    ASSUME TypeOK, NEW k \in Identity
    PROVE  truth[k] \in SUBSET Ages /\ IsFiniteSet(truth[k]) /\ Cardinality(truth[k]) \in Nat
  <1>1. truth[k] \in SUBSET Ages
    BY ThresholdAssumption DEF TypeOK, Ages
  <1>. QED BY <1>1, AgesFinite

(* Who reached the threshold is blocked, because a block outlasts the window. *)
LEMMA ReachedIsBlocked ==
    ASSUME PolicyInv, faults = 0, NEW k \in Identity, Cardinality(truth[k]) >= Limit(k)
    PROVE  blocked[k] > 0
  <1>. USE DEF PolicyInv
  <1>1. truth[k] # {}
    BY FS_EmptySet, LimitType
  <1>2. PICK a \in truth[k] : TRUE
    BY <1>1
  <1>3. a \in Nat /\ a < FAILURE_WINDOW_SECS /\ blocked[k] \in Nat
    BY <1>2, ThresholdAssumption DEF TypeOK
  <1>4. a + blocked[k] >= BLOCK_DURATION_SECS
    BY <1>2 DEF ThresholdBlocks
  <1>. QED BY <1>3, <1>4, BlockOutlastsWindow, ThresholdAssumption

(* A step that admits nobody and records nothing. *)
LEMMA QuietStep ==
    ASSUME PolicyInv, OvershootInv, TypeOK', faults' = 0 => faults = 0,
           \A k \in Identity : /\ InFlight(k)' \subseteq InFlight(k)
                              /\ Cardinality(truth'[k]) <= Cardinality(truth[k])
    PROVE  OvershootInv'
  <1>. SUFFICES ASSUME faults' = 0, NEW k \in Identity
                PROVE  Cardinality(truth'[k]) + Cardinality(InFlight(k)')
                         < Limit(k) + Cardinality(Attempt)
    BY DEF OvershootInv
  <1>1. Cardinality(truth[k]) + Cardinality(InFlight(k)) < Limit(k) + Cardinality(Attempt)
    BY DEF OvershootInv
  <1>2. Cardinality(truth[k]) \in Nat
    BY TruthCounts DEF PolicyInv
  <1>3. truth'[k] \in SUBSET Ages
    BY ThresholdAssumption DEF TypeOK, Ages
  <1>4. Cardinality(truth'[k]) \in Nat
    BY <1>3, AgesFinite
  <1>5. InFlight(k) \in SUBSET Attempt /\ InFlight(k)' \in SUBSET Attempt
    BY DEF InFlight
  <1>6. Cardinality(InFlight(k)') <= Cardinality(InFlight(k))
    BY <1>5, InFlightType, FS_Subset
  <1>. QED BY <1>1, <1>2, <1>4, <1>5, <1>6, InFlightType, LimitType

(* An answered attempt is in flight no more. *)
LEMMA DoneInFlight ==
    ASSUME TypeOK, NEW a \in Attempt, Done(a)
    PROVE  \A k \in Identity : InFlight(k)' = InFlight(k) \ {a}
  <1>1. \A c \in Attempt : stage'[c] = IF c = a THEN "idle" ELSE stage[c]
    BY DEF TypeOK, Done
  <1>2. \A c \in Attempt \ {a} : who'[c] = who[c]
    BY DEF TypeOK, Done
  <1>. QED BY <1>1, <1>2 DEF InFlight

(* Admission needs room under both thresholds. *)
LEMMA AllowOvershoot ==
    ASSUME PolicyInv, OvershootInv, PolicyInv',
           NEW a \in Attempt, NEW i \in Ip, NEW u \in User,
           Allow(a, i, u) \/ AllowFailsOpen(a, i, u)
    PROVE  OvershootInv'
  <1>. USE DEF PolicyInv
  <1>1. truth' = truth /\ (faults' = 0 => faults = 0)
    BY ThresholdAssumption DEF Allow, AllowFailsOpen, TypeOK, history
  <1>2. PICK answer \in {"admitted", "refused"} :
           /\ stage' = [stage EXCEPT ![a] = answer]
           /\ who' = [who EXCEPT ![a] = [ip |-> i, user |-> u]]
    BY DEF Allow, AllowFailsOpen
  <1>3. \A c \in Attempt \ {a} : stage'[c] = stage[c] /\ who'[c] = who[c]
    BY <1>2 DEF TypeOK
  <1>4. stage'[a] = answer /\ who'[a] = [ip |-> i, user |-> u]
    BY <1>2 DEF TypeOK
  <1>5. stage[a] = "idle" \/ (stage[a] = "admitted" /\ who[a] = [ip |-> i, user |-> u])
    BY DEF Allow, AllowFailsOpen, AsksFor
  <1>6. CASE answer = "refused"
    <2>1. \A k \in Identity : InFlight(k)' \subseteq InFlight(k)
      BY <1>3, <1>4, <1>6 DEF InFlight
    <2>2. \A k \in Identity : Cardinality(truth'[k]) <= Cardinality(truth[k])
      BY <1>1, TruthCounts
    <2>. QED BY <1>1, <2>1, <2>2, QuietStep
  <1>7. CASE answer = "admitted" /\ faults' = 0
    <2>. SUFFICES ASSUME NEW k \in Identity
                  PROVE  Cardinality(truth'[k]) + Cardinality(InFlight(k)')
                           < Limit(k) + Cardinality(Attempt)
      BY DEF OvershootInv
    <2>1. Cardinality(truth[k]) \in Nat
      BY TruthCounts
    <2>2. InFlight(k) \in SUBSET Attempt /\ InFlight(k)' \in SUBSET Attempt
      BY DEF InFlight
    <2>3. CASE k \in {i, u}
      <3>1. Allow(a, i, u) /\ online
        <4>1. faults = 0 /\ ~ AllowFailsOpen(a, i, u)
          BY <1>1, <1>7, ThresholdAssumption DEF AllowFailsOpen, TypeOK
        <4>. QED BY <4>1 DEF NothingLost
      <3>2. ~ HardBlocked(i, u)
        <4>1. CASE HardBlocked(i, u)
          <5>1. stage' = [stage EXCEPT ![a] = "refused"]
            BY <3>1, <4>1 DEF Allow
          <5>. QED BY <5>1, <1>4, <1>7 DEF TypeOK
        <4>. QED BY <4>1
      <3>3. ~ (Cardinality(truth[k]) >= Limit(k))
        BY <1>1, <1>7, <2>3, <3>2, ReachedIsBlocked DEF HardBlocked
      <3>4. Cardinality(InFlight(k)') \in Nat /\ Cardinality(InFlight(k)') <= Cardinality(Attempt)
            /\ Cardinality(Attempt) \in Nat
        BY <2>2, InFlightType
      <3>5. truth'[k] = truth[k] /\ Limit(k) \in Nat
        BY <1>1, LimitType
      <3>. QED BY <2>1, <3>3, <3>4, <3>5
    <2>4. CASE k \notin {i, u}
      <3>1. InFlight(k)' = InFlight(k)
        <4>1. a \notin InFlight(k) /\ a \notin InFlight(k)'
          BY <1>4, <1>5, <2>4 DEF InFlight
        <4>. QED BY <1>3, <4>1 DEF InFlight
      <3>. QED BY <1>1, <1>7, <3>1 DEF OvershootInv
    <2>. QED BY <2>3, <2>4
  <1>8. CASE faults' # 0
    BY <1>8 DEF OvershootInv
  <1>. QED BY <1>6, <1>7, <1>8

(* A reported failure moves one attempt from the second summand to the first. *)
LEMMA FailureOvershoot ==
    ASSUME PolicyInv, OvershootInv, PolicyInv', NEW a \in Attempt, ReportFailure(a)
    PROVE  OvershootInv'
  <1>. USE DEF PolicyInv
  <1>. DEFINE i == who[a].ip
              u == who[a].user
  <1>1. /\ truth' = [k \in Identity |-> IF k \in {i, u} THEN LaterTruth[k] \cup {0}
                                                       ELSE LaterTruth[k]]
        /\ Done(a) /\ stage[a] = "admitted"
    BY DEF ReportFailure, Counts
  <1>2. faults' = 0 => faults = 0
    BY ThresholdAssumption DEF ReportFailure, TypeOK
  <1>. SUFFICES ASSUME faults' = 0, NEW k \in Identity
                PROVE  Cardinality(truth'[k]) + Cardinality(InFlight(k)')
                         < Limit(k) + Cardinality(Attempt)
    BY DEF OvershootInv
  <1>3. Cardinality(truth[k]) + Cardinality(InFlight(k)) < Limit(k) + Cardinality(Attempt)
    BY <1>2 DEF OvershootInv
  <1>4. InFlight(k) \in SUBSET Attempt /\ InFlight(k)' = InFlight(k) \ {a}
    BY <1>1, DoneInFlight DEF InFlight
  <1>5. /\ IsFiniteSet(LaterTruth[k]) /\ Cardinality(LaterTruth[k]) \in Nat
        /\ Cardinality(LaterTruth[k]) <= Cardinality(truth[k]) /\ Cardinality(truth[k]) \in Nat
    BY TruthCounts, WindowShrinks, OlderAges, AgesFinite DEF LaterTruth
  <1>6. CASE k \in {i, u}
    <2>1. a \in InFlight(k)
      BY <1>1, <1>6 DEF InFlight
    <2>2. Cardinality(InFlight(k)') = Cardinality(InFlight(k)) - 1
      BY <1>4, <2>1, InFlightType, FS_RemoveElement
    <2>3. Cardinality(truth'[k]) <= Cardinality(LaterTruth[k]) + 1 /\ Cardinality(truth'[k]) \in Nat
      <3>1. truth'[k] = LaterTruth[k] \cup {0}
        BY <1>1, <1>6
      <3>2. Cardinality(LaterTruth[k] \cup {0}) =
              IF 0 \in LaterTruth[k] THEN Cardinality(LaterTruth[k])
                                   ELSE Cardinality(LaterTruth[k]) + 1
        BY <1>5, FS_AddElement
      <3>. QED BY <3>1, <3>2, <1>5
    <2>4. Cardinality(InFlight(k)) \in Nat /\ Cardinality(Attempt) \in Nat /\ Limit(k) \in Nat
      BY <1>4, InFlightType, LimitType
    <2>. QED BY <1>3, <1>5, <2>2, <2>3, <2>4
  <1>7. CASE k \notin {i, u}
    <2>1. truth'[k] = LaterTruth[k]
      BY <1>1, <1>7
    <2>2. Cardinality(InFlight(k)') <= Cardinality(InFlight(k)) /\ Cardinality(InFlight(k)') \in Nat
          /\ Cardinality(InFlight(k)) \in Nat /\ Cardinality(Attempt) \in Nat
      BY <1>4, InFlightType, FS_Subset
    <2>3. Limit(k) \in Nat
      BY LimitType
    <2>. QED BY <1>3, <1>5, <2>1, <2>2, <2>3
  <1>. QED BY <1>6, <1>7

(* Every step keeps the bound. *)
LEMMA StepOvershoot == PolicyInv /\ OvershootInv /\ [Next]_vars => OvershootInv'
  <1>. SUFFICES ASSUME PolicyInv, OvershootInv, [Next]_vars PROVE OvershootInv'
    OBVIOUS
  <1>0. PolicyInv'
    BY StepPolicy
  <1>1. CASE Tick
    <2>1. \A k \in Identity : InFlight(k)' = InFlight(k)
      BY <1>1 DEF Tick, attempts, InFlight
    <2>2. \A k \in Identity : Cardinality(truth'[k]) <= Cardinality(truth[k])
      BY <1>1, TruthCounts, WindowShrinks DEF Tick, LaterTruth, PolicyInv
    <2>3. faults' = faults
      BY <1>1 DEF Tick
    <2>. QED BY <1>0, <2>1, <2>2, <2>3, QuietStep DEF PolicyInv
  <1>2. CASE Restart
    <2>1. \A k \in Identity : InFlight(k)' = InFlight(k) /\ truth'[k] = truth[k]
      BY <1>2 DEF Restart, attempts, history, InFlight
    <2>2. faults' = 0 => faults = 0
      BY <1>2, ThresholdAssumption DEF Restart, Starts, PolicyInv, TypeOK
    <2>. QED BY <1>0, <2>1, <2>2, TruthCounts, QuietStep DEF PolicyInv
  <1>3. ASSUME NEW a \in Attempt, NEW i \in Ip, NEW u \in User,
               Allow(a, i, u) \/ AllowFailsOpen(a, i, u)
        PROVE  OvershootInv'
    BY <1>0, <1>3, AllowOvershoot
  <1>4. ASSUME NEW a \in Attempt, Hangup(a) \/ ReportRefused(a)
        PROVE  OvershootInv'
    <2>1. Done(a) /\ truth' = truth /\ faults' = faults
      BY <1>4 DEF Hangup, ReportRefused, Done, history
    <2>2. \A k \in Identity : InFlight(k)' \subseteq InFlight(k)
      BY <2>1, DoneInFlight DEF PolicyInv
    <2>. QED BY <1>0, <2>1, <2>2, TruthCounts, QuietStep DEF PolicyInv
  <1>5. ASSUME NEW a \in Attempt, ReportSuccess(a)
        PROVE  OvershootInv'
    <2>1. Done(a) /\ (faults' = 0 => faults = 0)
      BY <1>5, ThresholdAssumption DEF ReportSuccess, PolicyInv, TypeOK
    <2>2. \A k \in Identity : InFlight(k)' \subseteq InFlight(k)
      BY <2>1, DoneInFlight DEF PolicyInv
    <2>3. ASSUME NEW k \in Identity PROVE Cardinality(truth'[k]) <= Cardinality(truth[k])
      <3>1. truth'[k] = truth[k] \/ truth'[k] = {}
        BY <1>5 DEF ReportSuccess, PolicyInv, TypeOK
      <3>2. Cardinality(truth[k]) \in Nat
        BY TruthCounts DEF PolicyInv
      <3>3. Cardinality({}) = 0
        BY FS_EmptySet
      <3>. QED BY <3>1, <3>2, <3>3
    <2>. QED BY <1>0, <2>1, <2>2, <2>3, QuietStep DEF PolicyInv
  <1>6. ASSUME NEW a \in Attempt, ReportFailure(a)
        PROVE  OvershootInv'
    BY <1>0, <1>6, FailureOvershoot
  <1>7. CASE UNCHANGED vars
    BY <1>7 DEF vars, attempts, history, OvershootInv, InFlight
  <1>. QED BY <1>1, <1>2, <1>3, <1>4, <1>5, <1>6, <1>7 DEF Next

(* However the answers to /allow and the calls of /report interleave, no more
   failures are counted for an identity than its threshold and the attempts in
   flight admit. *)
THEOREM OvershootIsBounded == Spec => []OvershootBounded
  <1>1. Init => OvershootInv
    <2>. SUFFICES ASSUME Init, NEW k \in Identity
                  PROVE  Cardinality(truth[k]) + Cardinality(InFlight(k))
                           < Limit(k) + Cardinality(Attempt)
      BY DEF OvershootInv
    <2>1. truth[k] = {} /\ InFlight(k) = {}
      BY DEF Init, InFlight
    <2>. QED BY <2>1, FS_EmptySet, InFlightType, LimitType
  <1>2. PolicyInv /\ OvershootInv => OvershootBounded
    <2>. SUFFICES ASSUME PolicyInv, OvershootInv, faults = 0, NEW k \in Identity
                  PROVE  Cardinality(truth[k]) < Limit(k) + Cardinality(Attempt)
      BY DEF OvershootBounded
    <2>1. Cardinality(truth[k]) + Cardinality(InFlight(k)) < Limit(k) + Cardinality(Attempt)
      BY DEF OvershootInv
    <2>2. Cardinality(truth[k]) \in Nat
      BY TruthCounts DEF PolicyInv
    <2>3. InFlight(k) \in SUBSET Attempt
      BY DEF InFlight
    <2>. QED BY <2>1, <2>2, <2>3, InFlightType, LimitType
  <1>. QED BY <1>1, <1>2, StepOvershoot, PolicyInvariant, PTL DEF Spec
=============================================================================
