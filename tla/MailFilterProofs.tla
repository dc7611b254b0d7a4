---------------------------- MODULE MailFilterProofs ----------------------------
(* Proofs about MailFilter, for any addresses, domains and number of faults. *)
EXTENDS MailFilter, FiniteSetTheorems, TLAPS

(* A run is for all that is waiting in its domain, and none of it is deferred;
   once it sends, it sends to what Recipients says; once it quits, each of those
   was served or refused. *)
RunsOK ==
    \A d \in Domain :
       /\ run[d].at = "none" => run[d] = NoRun
       /\ run[d].at # "none" => run[d].for = Waiting(d) /\ run[d].for # {}
       /\ run[d].at \in {"sending", "quitting"} => run[d].to = Recipients(d)
       /\ run[d].at = "quitting" => \A a \in run[d].to : got[a] > 0 \/ a \in refused

NotDeferred == \A d \in Domain : run[d].for \cap deferred = {}

FilterInv == TypeOK /\ RunsOK /\ NotDeferred

RunType(L) == [at : {"none", "reading", "resolving", "injecting", "sending", "quitting"},
               for : SUBSET L, to : SUBSET Address, body : {"original", "tracked"}]

----------------------------------------------------------------------------
(* What a step of one domain leaves alone in the others. *)

(* The recipients of other runs are of other domains: they stay in the queue. *)
LEMMA OthersStay ==
    ASSUME FilterInv, NEW d \in Domain, left' = left \ Waiting(d),
           NEW e \in Domain, e # d
    PROVE  run[e].for \subseteq left' /\ Waiting(e)' = Waiting(e)
  <1>1. run[e].for \subseteq Waiting(e)
    BY DEF FilterInv, RunsOK, Waiting, NoRun
  <1>2. Waiting(e) \cap Waiting(d) = {}
    BY DEF Waiting
  <1>3. Waiting(e)' = Waiting(e)
    BY <1>2 DEF Waiting
  <1> QED
    BY <1>1, <1>2 DEF Waiting

(* Changing the state in a record of a run. *)
LEMMA RecordUpdate ==
    ASSUME NEW L, NEW r \in RunType(L), NEW v
    PROVE  [r EXCEPT !.at = v] = [at |-> v, for |-> r.for, to |-> r.to, body |-> r.body]
  <1>1. PICK a, f, t, b : r = [at |-> a, for |-> f, to |-> t, body |-> b]
    BY DEF RunType
  <1>2. [[at |-> a, for |-> f, to |-> t, body |-> b] EXCEPT !.at = v]
          = [at |-> v, for |-> f, to |-> t, body |-> b]
    OBVIOUS
  <1>3. r.for = f /\ r.to = t /\ r.body = b
    BY <1>1
  <1> QED
    BY <1>1, <1>2, <1>3

LEMMA RunRecord ==
    ASSUME FilterInv, NEW d \in Domain
    PROVE  run[d] \in RunType(left)
  BY DEF FilterInv, TypeOK, RunType

(* The fields of a record of a run. *)
LEMMA RunFields ==
    ASSUME FilterInv, NEW d \in Domain
    PROVE  /\ run[d] = [at |-> run[d].at, for |-> run[d].for, to |-> run[d].to,
                         body |-> run[d].body]
           /\ run[d].at \in {"none", "reading", "resolving", "injecting", "sending", "quitting"}
           /\ run[d].for \in SUBSET left
           /\ run[d].to \in SUBSET Address
           /\ run[d].body \in {"original", "tracked"}
           /\ run[d].for \subseteq Waiting(d)
           /\ Waiting(d) \subseteq left
  <1>1. run[d] \in RunType(left)
    BY RunRecord
  <1>2. run[d].for \subseteq Waiting(d)
    BY DEF FilterInv, RunsOK, NoRun
  <1> QED
    BY <1>1, <1>2 DEF RunType, Waiting

(* Recipients leave the queue and the run of their domain, if any, ends. *)
LEMMA Leaving ==
    ASSUME FilterInv, NEW d \in Domain,
           left' = left \ Waiting(d),
           run' = [run EXCEPT ![d] = NoRun],
           UNCHANGED mailVars,
           \A a \in Address : got'[a] = got[a],
           refused' = refused
    PROVE  /\ run' \in [Domain -> RunType(left')]
           /\ RunsOK'
  <1>1. \A e \in Domain \ {d} : run'[e] = run[e] /\ run[e].for \subseteq left'
                                /\ Waiting(e)' = Waiting(e)
    BY OthersStay DEF FilterInv, TypeOK
  <1>2. run'[d] = NoRun
    BY DEF FilterInv, TypeOK
  <1>3. NoRun \in RunType(left')
    BY DEF NoRun, RunType
  <1>4. \A e \in Domain \ {d} : run'[e] \in RunType(left')
    <2> SUFFICES ASSUME NEW e \in Domain, e # d PROVE run[e] \in RunType(left')
      BY <1>1
    <2>1. run[e].for \in SUBSET left'
      BY <1>1
    <2>2. /\ run[e] = [at |-> run[e].at, for |-> run[e].for, to |-> run[e].to,
                        body |-> run[e].body]
          /\ run[e].at \in {"none", "reading", "resolving", "injecting", "sending", "quitting"}
          /\ run[e].to \in SUBSET Address
          /\ run[e].body \in {"original", "tracked"}
      BY RunFields
    <2> QED
      BY <2>1, <2>2 DEF RunType
  <1>5. run' \in [Domain -> RunType(left')]
    BY <1>2, <1>3, <1>4 DEF FilterInv, TypeOK
  <1>6. ASSUME NEW e \in Domain, e # d
        PROVE  Recipients(e)' = Recipients(e)
    BY <1>1, <1>6 DEF Recipients, HasMetadata, mailVars
  <1>7. RunsOK'
    <2> SUFFICES ASSUME NEW e \in Domain
                 PROVE  /\ run'[e].at = "none" => run'[e] = NoRun
                        /\ run'[e].at # "none" => run'[e].for = Waiting(e)' /\ run'[e].for # {}
                        /\ run'[e].at \in {"sending", "quitting"} => run'[e].to = Recipients(e)'
                        /\ run'[e].at = "quitting" =>
                              \A a \in run'[e].to : got'[a] > 0 \/ a \in refused'
      BY DEF RunsOK
    <2>1. CASE e = d
      BY <2>1, <1>2 DEF NoRun
    <2>2. CASE e # d
      <3>1. \A a \in run[e].to : a \in Address
        BY RunFields
      <3> QED
        BY <2>2, <1>1, <1>6, <3>1 DEF FilterInv, RunsOK
    <2> QED
      BY <2>1, <2>2
  <1> QED
    BY <1>5, <1>7

(* A run that ends with its recipients still in the queue, or goes on. *)
LEMMA Staying ==
    ASSUME FilterInv, NEW d \in Domain, NEW r,
           left' = left, UNCHANGED mailVars,
           run' = [run EXCEPT ![d] = r],
           r \in RunType(left),
           r.at = "none" => r = NoRun,
           r.at # "none" => r.for = Waiting(d) /\ r.for # {},
           r.at \in {"sending", "quitting"} => r.to = Recipients(d)',
           got' \in [Address -> Nat],
           \A a \in Address : got'[a] >= got[a],
           refused \subseteq refused',
           r.at = "quitting" => \A a \in r.to : got'[a] > 0 \/ a \in refused'
    PROVE  /\ run' \in [Domain -> RunType(left')]
           /\ RunsOK'
  <1>1. \A e \in Domain \ {d} : run'[e] = run[e]
    BY DEF FilterInv, TypeOK
  <1>2. run'[d] = r
    BY DEF FilterInv, TypeOK
  <1>3. run' \in [Domain -> RunType(left')]
    BY <1>1, <1>2 DEF FilterInv, TypeOK, RunType
  <1>4. \A e \in Domain : Waiting(e)' = Waiting(e)
    BY DEF Waiting
  <1>5. ASSUME NEW e \in Domain, e # d
        PROVE  Recipients(e)' = Recipients(e)
    BY <1>1, <1>5 DEF Recipients, HasMetadata, mailVars
  <1>6. \A a \in Address : got[a] > 0 => got'[a] > 0
    <2> SUFFICES ASSUME NEW a \in Address, got[a] > 0 PROVE got'[a] > 0
      OBVIOUS
    <2> got[a] \in Nat /\ got'[a] \in Nat /\ got'[a] >= got[a]
      BY DEF FilterInv, TypeOK
    <2> QED
      OBVIOUS
  <1>7. RunsOK'
    <2> SUFFICES ASSUME NEW e \in Domain
                 PROVE  /\ run'[e].at = "none" => run'[e] = NoRun
                        /\ run'[e].at # "none" => run'[e].for = Waiting(e)' /\ run'[e].for # {}
                        /\ run'[e].at \in {"sending", "quitting"} => run'[e].to = Recipients(e)'
                        /\ run'[e].at = "quitting" =>
                              \A a \in run'[e].to : got'[a] > 0 \/ a \in refused'
      BY DEF RunsOK
    <2>1. CASE e = d
      BY <2>1, <1>2, <1>4
    <2>2. CASE e # d
      <3>1. \A a \in run[e].to : a \in Address
        BY RunFields
      <3> QED
        BY <2>2, <1>1, <1>4, <1>5, <1>6, <3>1 DEF FilterInv, RunsOK
    <2> QED
      BY <2>1, <2>2
  <1> QED
    BY <1>3, <1>7

(* Recipients that stay out of the deferred ones. *)
LEMMA DeferredApart ==
    ASSUME FilterInv, NEW d \in Domain, NEW e \in Domain, e # d
    PROVE  run[e].for \cap run[d].for = {} /\ run[e].for \cap Waiting(d) = {}
  <1>1. run[e].for \subseteq Waiting(e) /\ run[d].for \subseteq Waiting(d)
    BY RunFields
  <1>2. Waiting(e) \cap Waiting(d) = {}
    BY DEF Waiting
  <1> QED
    BY <1>1, <1>2

----------------------------------------------------------------------------
(* The three exit codes keep the invariant. *)

LEMMA DeliveredInv ==
    ASSUME FilterInv, NEW d \in Domain, run[d].at # "none", Delivered(d),
           UNCHANGED <<mailVars, got, tracked, refused, faults>>
    PROVE  FilterInv'
  <1>1. run[d].for = Waiting(d)
    BY DEF FilterInv, RunsOK
  <1>2. left' = left \ Waiting(d) /\ run' = [run EXCEPT ![d] = NoRun]
    BY <1>1 DEF Delivered
  <1>3. run' \in [Domain -> RunType(left')] /\ RunsOK'
    BY <1>2, Leaving
  <1>4. deferred \cap Waiting(d) = {}
    BY <1>1 DEF FilterInv, NotDeferred
  <1>5. TypeOK'
    BY <1>2, <1>3, <1>4 DEF FilterInv, TypeOK, RunType, Delivered, mailVars
  <1>6. NotDeferred'
    BY <1>2 DEF FilterInv, TypeOK, NotDeferred, Delivered, NoRun
  <1> QED
    BY <1>3, <1>5, <1>6 DEF FilterInv

LEMMA BouncedInv ==
    ASSUME FilterInv, NEW d \in Domain, run[d].at # "none", Bounced(d), Fault,
           UNCHANGED <<mailVars, got, tracked, refused>>
    PROVE  FilterInv'
  <1>1. run[d].for = Waiting(d)
    BY DEF FilterInv, RunsOK
  <1>2. left' = left \ Waiting(d) /\ run' = [run EXCEPT ![d] = NoRun]
    BY <1>1 DEF Bounced
  <1>3. run' \in [Domain -> RunType(left')] /\ RunsOK'
    BY <1>2, Leaving
  <1>4. deferred \cap Waiting(d) = {}
    BY <1>1 DEF FilterInv, NotDeferred
  <1>5. faults' \in 0..MaxFaults
    BY FilterAssumption DEF FilterInv, TypeOK, Fault
  <1>6. Waiting(d) \subseteq envelope /\ returned' = returned \cup Waiting(d)
    BY <1>1 DEF Waiting, FilterInv, TypeOK, Bounced
  <1>7. TypeOK'
    BY <1>2, <1>3, <1>4, <1>5, <1>6 DEF FilterInv, TypeOK, RunType, Bounced, mailVars
  <1>8. NotDeferred'
    BY <1>2 DEF FilterInv, TypeOK, NotDeferred, Bounced, NoRun
  <1> QED
    BY <1>3, <1>7, <1>8 DEF FilterInv

LEMMA TempFailInv ==
    ASSUME FilterInv, NEW d \in Domain, run[d].at # "none", TempFail(d),
           UNCHANGED <<mailVars, refused>>, tracked' \in SUBSET Address,
           faults' \in 0..MaxFaults,
           got' \in [Address -> Nat],
           \A a \in Address : got'[a] >= got[a]
    PROVE  FilterInv'
  <1>1. left' = left /\ run' = [run EXCEPT ![d] = NoRun]
    BY DEF TempFail
  <1>2. NoRun \in RunType(left) /\ NoRun.at = "none"
    BY DEF NoRun, RunType
  <1>3. run' \in [Domain -> RunType(left')] /\ RunsOK'
    BY <1>1, <1>2, Staying
  <1>4. run[d].for \subseteq left
    BY RunFields
  <1>5. TypeOK'
    BY <1>1, <1>3, <1>4 DEF FilterInv, TypeOK, RunType, TempFail, mailVars
  <1>6. NotDeferred'
    BY <1>1, DeferredApart DEF FilterInv, TypeOK, NotDeferred, TempFail, NoRun
  <1> QED
    BY <1>3, <1>5, <1>6 DEF FilterInv

(* One thing more that goes wrong stays within the bound. *)
LEMMA FaultType ==
    ASSUME FilterInv, Fault
    PROVE  faults' \in 0..MaxFaults /\ faults' = faults + 1
  BY FilterAssumption DEF FilterInv, TypeOK, Fault

(* Accepting a mail gives each of those it is accepted for one copy more. *)
LEMMA AcceptType ==
    ASSUME FilterInv, NEW accepted, Accept(accepted)
    PROVE  /\ got' \in [Address -> Nat]
           /\ \A a \in Address : got'[a] = got[a] + IF a \in accepted THEN 1 ELSE 0
           /\ \A a \in Address : got'[a] >= got[a]
           /\ \A a \in accepted \cap Address : got'[a] > 0
  <1>1. got \in [Address -> Nat]
    BY DEF FilterInv, TypeOK
  <1> QED
    BY <1>1 DEF Accept

----------------------------------------------------------------------------
(* Each step keeps the invariant. *)

LEMMA InitInv == Init => FilterInv
  <1> SUFFICES ASSUME Init PROVE FilterInv
    OBVIOUS
  <1>1. \A d \in Domain : run[d] = NoRun
    BY DEF Init
  <1>2. TypeOK
    BY FilterAssumption DEF Init, TypeOK, NoRun
  <1>3. RunsOK /\ NotDeferred
    BY <1>1 DEF RunsOK, NotDeferred, NoRun
  <1> QED
    BY <1>2, <1>3 DEF FilterInv

LEMMA StartInv ==
    ASSUME FilterInv, NEW d \in Domain, Start(d)
    PROVE  FilterInv'
  <1> DEFINE r == [at |-> "reading", for |-> Waiting(d), to |-> {}, body |-> "original"]
  <1>1. r \in RunType(left) /\ r.at = "reading" /\ r.for = Waiting(d)
    BY DEF RunType, Waiting
  <1>2. run' = [run EXCEPT ![d] = r] /\ left' = left /\ Waiting(d) # {}
    BY DEF Start
  <1>3. got' = got /\ refused' = refused /\ UNCHANGED mailVars /\ got \in [Address -> Nat]
    BY DEF Start, FilterInv, TypeOK
  <1> HIDE DEF r
  <1>3a. got' \in [Address -> Nat] /\ \A a \in Address : got'[a] >= got[a]
    BY <1>3
  <1>4. run' \in [Domain -> RunType(left')] /\ RunsOK'
    BY <1>1, <1>2, <1>3, <1>3a, Staying
  <1>5. TypeOK'
    BY <1>2, <1>3, <1>4 DEF FilterInv, TypeOK, RunType, Start, mailVars
  <1>6. NotDeferred'
    BY <1>1, <1>2, DeferredApart DEF FilterInv, TypeOK, NotDeferred, Start
  <1> QED
    BY <1>4, <1>5, <1>6 DEF FilterInv

LEMMA ExpireInv ==
    ASSUME FilterInv, NEW d \in Domain, Expire(d)
    PROVE  FilterInv'
  <1>1. left' = left \ Waiting(d)
    BY DEF Expire
  <1>2. run[d] = NoRun /\ run' = run
    BY DEF FilterInv, RunsOK, Expire
  <1>3. run' = [run EXCEPT ![d] = NoRun]
    BY <1>2 DEF FilterInv, TypeOK
  <1>4. run' \in [Domain -> RunType(left')] /\ RunsOK'
    BY <1>1, <1>3, Leaving DEF Expire
  <1>5. Waiting(d) \subseteq envelope
    BY DEF Waiting, FilterInv, TypeOK
  <1>6. TypeOK'
    BY <1>4, <1>5 DEF FilterInv, TypeOK, RunType, Expire, mailVars
  <1>7. NotDeferred'
    BY <1>2 DEF FilterInv, NotDeferred, Expire
  <1> QED
    BY <1>4, <1>6, <1>7 DEF FilterInv

(* A run that goes on to the next step, or to sending. *)
LEMMA GoesOn ==
    ASSUME FilterInv, NEW d \in Domain, run[d].at # "none",
           NEW r, run' = [run EXCEPT ![d] = r],
           \/ \E body \in {"original", "tracked"} : r = Sending(d, body)
           \/ \E v \in {"resolving", "injecting"} : r = [run[d] EXCEPT !.at = v],
           UNCHANGED <<mailVars, queueVars, got, tracked, refused, faults>>
    PROVE  FilterInv'
  <1>1. Recipients(d) \in SUBSET Address /\ run[d].for \in SUBSET left
    BY RunFields, FilterAssumption DEF Recipients, FilterInv, TypeOK
  <1>2. /\ r \in RunType(left) /\ r.at \in {"resolving", "injecting", "sending"}
        /\ r.for = run[d].for
        /\ r.at = "sending" => r.to = Recipients(d)
    <2>1. ASSUME NEW body \in {"original", "tracked"}, r = Sending(d, body)
          PROVE  /\ r \in RunType(left) /\ r.at = "sending"
                 /\ r.for = run[d].for /\ r.to = Recipients(d)
      BY <1>1, <2>1 DEF RunType, Sending
    <2>2. ASSUME NEW v \in {"resolving", "injecting"}, r = [run[d] EXCEPT !.at = v]
          PROVE  r \in RunType(left) /\ r.at = v /\ r.for = run[d].for
      <3>1. r = [at |-> v, for |-> run[d].for, to |-> run[d].to, body |-> run[d].body]
        BY <2>2, RunRecord, RecordUpdate
      <3> QED
        BY <3>1, RunFields DEF RunType
    <2> QED
      BY <2>1, <2>2
  <1>4. left' = left /\ got' = got /\ refused' = refused /\ UNCHANGED mailVars
        /\ deferred' = deferred /\ got \in [Address -> Nat]
    BY DEF queueVars, FilterInv, TypeOK
  <1>5. run[d].for = Waiting(d) /\ run[d].for # {}
    BY DEF FilterInv, RunsOK
  <1>6. run'[d] = r
    BY DEF FilterInv, TypeOK
  <1>7. Recipients(d)' = Recipients(d)
    BY <1>4, <1>6, <1>2 DEF Recipients, HasMetadata, mailVars
  <1>7a. got' \in [Address -> Nat] /\ \A a \in Address : got'[a] >= got[a]
    BY <1>4
  <1>8. run' \in [Domain -> RunType(left')] /\ RunsOK'
    BY <1>2, <1>4, <1>5, <1>7, <1>7a, Staying
  <1>9. TypeOK'
    BY <1>4, <1>8 DEF FilterInv, TypeOK, RunType, mailVars, queueVars
  <1>10. NotDeferred'
    BY <1>2, <1>4 DEF FilterInv, TypeOK, NotDeferred
  <1> QED
    BY <1>8, <1>9, <1>10 DEF FilterInv

LEMMA GoesOnInv ==
    ASSUME FilterInv, NEW d \in Domain, Prepare(d) \/ Resolve(d) \/ Inject(d)
    PROVE  FilterInv'
  <1>1. run[d].at # "none" /\ UNCHANGED <<mailVars, queueVars, got, tracked, refused, faults>>
    BY DEF Prepare, Resolve, Inject
  <1>2. \/ \E body \in {"original", "tracked"} : run' = [run EXCEPT ![d] = Sending(d, body)]
        \/ \E v \in {"resolving", "injecting"} :
              run' = [run EXCEPT ![d] = [run[d] EXCEPT !.at = v]]
    <2>1. CASE Prepare(d)
      <3>1. \/ run' = [run EXCEPT ![d] = [run[d] EXCEPT !.at = "resolving"]]
            \/ run' = [run EXCEPT ![d] = Sending(d, "original")]
        BY <2>1, Zenon DEF Prepare
      <3> QED
        BY <3>1
    <2>2. CASE Resolve(d)
      <3>1. PICK found \in Found :
              run' = [run EXCEPT ![d] = IF found \/ ~pymysql
                                        THEN [run[d] EXCEPT !.at = "injecting"]
                                        ELSE Sending(d, "original")]
        BY <2>2, Zenon DEF Resolve
      <3>2. CASE found \/ ~pymysql
        <4>1. run' = [run EXCEPT ![d] = [run[d] EXCEPT !.at = "injecting"]]
          BY <3>1, <3>2, Zenon
        <4> QED
          BY <4>1
      <3>3. CASE ~(found \/ ~pymysql)
        <4>1. run' = [run EXCEPT ![d] = Sending(d, "original")]
          BY <3>1, <3>3, Zenon
        <4> QED
          BY <4>1
      <3> QED
        BY <3>2, <3>3
    <2>3. CASE Inject(d)
      <3>1. PICK body \in {"original", "tracked"} :
              run' = [run EXCEPT ![d] = Sending(d, IF prints THEN body ELSE "original")]
        BY <2>3 DEF Inject
      <3> QED
        BY <3>1
    <2> QED
      BY <2>1, <2>2, <2>3
  <1>3. ASSUME NEW r, run' = [run EXCEPT ![d] = r],
               \/ \E body \in {"original", "tracked"} : r = Sending(d, body)
               \/ \E v \in {"resolving", "injecting"} : r = [run[d] EXCEPT !.at = v]
        PROVE  FilterInv'
    BY <1>1, <1>3, GoesOn
  <1> QED
    BY <1>2, <1>3

LEMMA SendInv ==
    ASSUME FilterInv, NEW d \in Domain, Send(d)
    PROVE  FilterInv'
  <1> DEFINE r == [at |-> "quitting", for |-> run[d].for, to |-> run[d].to, body |-> run[d].body]
  <1>1. PICK accepted \in SUBSET Relayed(run[d].to) :
          /\ Accept(accepted)
          /\ Mark(d, accepted)
          /\ refused' = refused \cup (run[d].to \ accepted)
          /\ IF accepted = Relayed(run[d].to) THEN UNCHANGED faults ELSE Fault
    BY DEF Send
  <1>2. run[d].to \in SUBSET Address /\ run[d].for \in SUBSET left
        /\ run[d].body \in {"original", "tracked"}
    BY RunFields
  <1>2a. tracked' \in SUBSET Address
    BY <1>1, <1>2 DEF Mark, Relayed, FilterInv, TypeOK
  <1>3. r \in RunType(left) /\ r.at = "quitting" /\ r.for = run[d].for /\ r.to = run[d].to
    BY <1>2 DEF RunType
  <1>4. run' = [run EXCEPT ![d] = r]
    <2>1. [run[d] EXCEPT !.at = "quitting"] = r
      BY RunRecord, RecordUpdate
    <2>2. run' = [run EXCEPT ![d] = [run[d] EXCEPT !.at = "quitting"]]
      BY Zenon DEF Send
    <2> QED
      BY <2>1, <2>2
  <1>5. left' = left /\ UNCHANGED mailVars /\ deferred' = deferred /\ returned' = returned
    BY DEF Send, queueVars
  <1>6. run[d].for = Waiting(d) /\ run[d].for # {} /\ run[d].to = Recipients(d)
    BY DEF FilterInv, RunsOK, Send
  <1>7. run'[d] = r
    BY <1>4 DEF FilterInv, TypeOK
  <1> HIDE DEF r
  <1>8. Recipients(d)' = Recipients(d)
    BY <1>5, <1>7, <1>3 DEF Recipients, HasMetadata, mailVars
  <1>9. /\ got' \in [Address -> Nat]
        /\ \A a \in Address : got'[a] >= got[a]
        /\ \A a \in accepted \cap Address : got'[a] > 0
    BY <1>1, AcceptType
  <1>10. \A a \in r.to : got'[a] > 0 \/ a \in refused'
    BY <1>1, <1>2, <1>3, <1>9
  <1>11. refused \subseteq refused' /\ refused' \in SUBSET Address
    BY <1>1, <1>2 DEF FilterInv, TypeOK
  <1>12. run' \in [Domain -> RunType(left')] /\ RunsOK'
    BY <1>3, <1>4, <1>5, <1>6, <1>8, <1>9, <1>10, <1>11, Staying
  <1>13. faults' \in 0..MaxFaults
    BY <1>1, FaultType DEF FilterInv, TypeOK
  <1>14. TypeOK'
    BY <1>2a, <1>5, <1>9, <1>11, <1>12, <1>13 DEF FilterInv, TypeOK, RunType, mailVars
  <1>15. NotDeferred'
    BY <1>3, <1>4, <1>5 DEF FilterInv, TypeOK, NotDeferred
  <1> QED
    BY <1>12, <1>14, <1>15 DEF FilterInv

LEMMA AnswerLostInv ==
    ASSUME FilterInv, NEW d \in Domain, AnswerLost(d)
    PROVE  FilterInv'
  <1>1. got' \in [Address -> Nat] /\ \A a \in Address : got'[a] >= got[a]
    BY AcceptType DEF AnswerLost
  <1>2. faults' \in 0..MaxFaults
    BY FaultType DEF AnswerLost
  <1>3. tracked' \in SUBSET Address
    BY RunFields DEF AnswerLost, Mark, Relayed, FilterInv, TypeOK
  <1> QED
    BY <1>1, <1>2, <1>3, TempFailInv DEF AnswerLost

(* Ends of a run that accept nothing. *)
LEMMA TempFailsInv ==
    ASSUME FilterInv, NEW d \in Domain,
           Kill(d) \/ PrepareFails(d) \/ SendFails(d) \/ QuitFails(d)
    PROVE  FilterInv'
  <1>1. TempFail(d) /\ run[d].at # "none" /\ UNCHANGED <<mailVars, got, tracked, refused>>
    BY DEF Kill, PrepareFails, SendFails, QuitFails
  <1>2. faults' \in 0..MaxFaults
    <2>1. Fault \/ faults' = faults
      BY DEF Kill, PrepareFails, SendFails, QuitFails
    <2> QED
      BY <2>1, FaultType DEF FilterInv, TypeOK
  <1>3. got \in [Address -> Nat] /\ got' = got /\ tracked' \in SUBSET Address
    BY <1>1 DEF FilterInv, TypeOK
  <1>4. got' \in [Address -> Nat] /\ \A a \in Address : got'[a] >= got[a]
    BY <1>3
  <1> QED
    BY <1>1, <1>2, <1>3, <1>4, TempFailInv

LEMMA NextInv == FilterInv /\ [Next]_vars => FilterInv'
  <1> SUFFICES ASSUME FilterInv, [Next]_vars PROVE FilterInv'
    OBVIOUS
  <1>1. CASE UNCHANGED vars
    <2>1. UNCHANGED <<tracking_enabled, envelope, named, from, prints, html, hosted,
                      pymysql, left, deferred, returned, run, got, tracked, refused, faults>>
      BY <1>1 DEF vars, mailVars, queueVars
    <2>2. TypeOK'
      BY <2>1 DEF FilterInv, TypeOK
    <2>3. \A d \in Domain : Waiting(d)' = Waiting(d) /\ Recipients(d)' = Recipients(d)
      BY <2>1 DEF Waiting, Recipients, HasMetadata
    <2>4. RunsOK' /\ NotDeferred'
      BY <2>1, <2>3 DEF FilterInv, RunsOK, NotDeferred
    <2> QED
      BY <2>2, <2>4 DEF FilterInv
  <1>2. CASE Next
    <2>1. PICK d \in Domain : Start(d) \/ Expire(d) \/ Kill(d) \/ Filter(d)
      BY <1>2 DEF Next
    <2>2. CASE Start(d)
      BY <2>2, StartInv
    <2>3. CASE Expire(d)
      BY <2>3, ExpireInv
    <2>4. CASE Prepare(d) \/ Resolve(d) \/ Inject(d)
      BY <2>4, GoesOnInv
    <2>5. CASE Send(d)
      BY <2>5, SendInv
    <2>6. CASE AnswerLost(d)
      BY <2>6, AnswerLostInv
    <2>7. CASE Quit(d)
      BY <2>7, DeliveredInv DEF Quit
    <2>8. CASE Terminate(d)
      BY <2>8, BouncedInv DEF Terminate
    <2>9. CASE Kill(d) \/ PrepareFails(d) \/ SendFails(d) \/ QuitFails(d)
      BY <2>9, TempFailsInv
    <2> QED
      BY <2>1, <2>2, <2>3, <2>4, <2>5, <2>6, <2>7, <2>8, <2>9 DEF Filter
  <1> QED
    BY <1>1, <1>2

(* The inductive invariant. *)
LEMMA FilterInvariant == Spec => []FilterInv
  BY InitInv, NextInv, PTL DEF Spec

(* Every variable keeps its type, the recipients of a run stay in the queue until
   it ends, and nobody is reported as undeliverable while still in the queue. *)
THEOREM TypeCorrect == Spec => []TypeOK
  <1>1. FilterInv => TypeOK
    BY DEF FilterInv
  <1> QED
    BY <1>1, FilterInvariant, PTL

----------------------------------------------------------------------------
(* No mail vanishes. *)

(* Copies, refusals, reports and the mail itself are never taken back. *)
LEMMA NothingTakenBack ==
    ASSUME FilterInv, [Next]_vars
    PROVE  /\ UNCHANGED mailVars
           /\ \A a \in Address : got[a] > 0 => got'[a] > 0
           /\ refused \subseteq refused'
           /\ returned \subseteq returned'
  <1>1. CASE UNCHANGED vars
    BY <1>1 DEF vars, mailVars, queueVars
  <1>2. CASE Next
    <2>1. PICK d \in Domain : Start(d) \/ Expire(d) \/ Kill(d) \/ Filter(d)
      BY <1>2 DEF Next
    <2>2. UNCHANGED mailVars /\ refused \subseteq refused'
      BY <2>1 DEF Start, Expire, Kill, Filter, Prepare, PrepareFails, Resolve, Inject, Send, SendFails,
                  AnswerLost, Quit, QuitFails, Terminate
    <2>3. returned \subseteq returned'
      BY <2>1 DEF Start, Expire, Kill, Filter, Prepare, PrepareFails, Resolve, Inject, Send, SendFails, AnswerLost,
                  Quit, QuitFails, Terminate, queueVars, Delivered, TempFail, Bounced
    <2>4. got' = got \/ \E accepted : Accept(accepted)
      BY <2>1 DEF Start, Expire, Kill, Filter, Prepare, PrepareFails, Resolve, Inject, Send, SendFails,
                  AnswerLost, Quit, QuitFails, Terminate
    <2>5. \A a \in Address : got'[a] \in Nat /\ got[a] \in Nat /\ got'[a] >= got[a]
      <3>1. got \in [Address -> Nat]
        BY DEF FilterInv, TypeOK
      <3>2. CASE got' = got
        BY <3>1, <3>2
      <3>3. ASSUME NEW accepted, Accept(accepted)
            PROVE  \A a \in Address : got'[a] \in Nat /\ got[a] \in Nat /\ got'[a] >= got[a]
        BY <3>1, <3>3, AcceptType
      <3> QED
        BY <2>4, <3>2, <3>3
    <2>6. \A a \in Address : got[a] > 0 => got'[a] > 0
      BY <2>5
    <2> QED
      BY <2>2, <2>3, <2>6
  <1> QED
    BY <1>1, <1>2

(* Recipients leave the queue when their run ends well or when they are reported
   to the sender. *)
LEMMA WhoLeaves ==
    ASSUME FilterInv, Next, NEW a \in left, a \notin left'
    PROVE  \/ a \in returned'
           \/ \E d \in Domain : Quit(d) /\ a \in run[d].for
  <1>1. PICK d \in Domain : Start(d) \/ Expire(d) \/ Kill(d) \/ Filter(d)
    BY DEF Next
  <1> QED
    BY <1>1 DEF Start, Expire, Kill, Filter, Prepare, PrepareFails, Resolve, Inject, Send, SendFails, AnswerLost,
                Quit, QuitFails, Terminate, queueVars, Delivered, TempFail, Bounced

(* Each recipient of a run that ends well has a copy, was refused, or is not
   named by the headers. *)
LEMMA QuittersServed ==
    ASSUME FilterInv, NEW d \in Domain, run[d].at = "quitting", NEW a \in run[d].for
    PROVE  got[a] > 0 \/ a \in refused \/ Unnamed(a)
  <1>1. run[d].to = Recipients(d) /\ \A b \in run[d].to : got[b] > 0 \/ b \in refused
    BY DEF FilterInv, RunsOK
  <1> QED
    BY <1>1 DEF Recipients, Unnamed

LEMMA VanishStep == FilterInv /\ NothingVanishes /\ [Next]_vars => NothingVanishes'
  <1> SUFFICES ASSUME FilterInv, NothingVanishes, [Next]_vars,
                      NEW a \in envelope', a \notin left'
               PROVE  got'[a] > 0 \/ a \in returned' \/ a \in refused' \/ Unnamed(a)'
    BY DEF NothingVanishes
  <1>1. a \in envelope /\ a \in Address /\ Unnamed(a)' = Unnamed(a)
    BY NothingTakenBack DEF mailVars, Unnamed, HasMetadata, FilterInv, TypeOK
  <1>2. CASE a \notin left
    BY <1>1, <1>2, NothingTakenBack DEF NothingVanishes
  <1>3. CASE a \in left
    <2>1. CASE UNCHANGED vars
      BY <2>1, <1>3 DEF vars, queueVars
    <2>2. CASE Next
      <3>1. a \in returned' \/ \E d \in Domain : Quit(d) /\ a \in run[d].for
        BY <1>3, <2>2, WhoLeaves
      <3>2. ASSUME NEW d \in Domain, Quit(d), a \in run[d].for
            PROVE  got[a] > 0 \/ a \in refused \/ Unnamed(a)
        BY <3>2, QuittersServed DEF Quit
      <3> QED
        BY <3>1, <3>2, <1>1, NothingTakenBack
    <2> QED
      BY <2>1, <2>2
  <1> QED
    BY <1>2, <1>3

(* Whatever goes wrong at whatever step, a recipient Postfix is done with has a
   copy, was reported to the sender, was refused by the listener beside others,
   or is not named by the headers. *)
THEOREM MailNeverVanishes == Spec => []NothingVanishes
  <1>1. Init => NothingVanishes
    BY DEF Init, NothingVanishes
  <1>2. FilterInv /\ NothingVanishes /\ [Next]_vars => NothingVanishes'
    BY VanishStep
  <1> QED
    BY <1>1, <1>2, FilterInvariant, PTL DEF Spec

----------------------------------------------------------------------------
(* Only what went wrong is reported. *)

(* The recipients of a domain are all in the queue, or none is. *)
Addressed(d) == {r \in envelope : DomainOf[r] = d}

DomainsTogether == \A d \in Domain : Waiting(d) \in {{}, Addressed(d)}

LEMMA TogetherStep == FilterInv /\ DomainsTogether /\ [Next]_vars => DomainsTogether'
  <1> SUFFICES ASSUME FilterInv, DomainsTogether, [Next]_vars, NEW e \in Domain
               PROVE  Waiting(e)' \in {{}, Addressed(e)'}
    BY DEF DomainsTogether
  <1>1. Addressed(e)' = Addressed(e)
    BY NothingTakenBack DEF mailVars, Addressed
  <1>2. left' = left \/ \E d \in Domain : left' = left \ Waiting(d)
    <2>1. CASE UNCHANGED vars
      BY <2>1 DEF vars, queueVars
    <2>2. CASE Next
      <3>1. PICK d \in Domain : Start(d) \/ Expire(d) \/ Kill(d) \/ Filter(d)
        BY <2>2 DEF Next
      <3>2. left' = left \/ left' = left \ Waiting(d) \/ left' = left \ run[d].for
        BY <3>1 DEF Start, Expire, Kill, Filter, Prepare, PrepareFails, Resolve, Inject, Send,
           SendFails, AnswerLost, Quit, QuitFails, Terminate, queueVars, Delivered, TempFail, Bounced
      <3>3. run[d].for = {} \/ run[d].for = Waiting(d)
        BY DEF FilterInv, RunsOK, NoRun
      <3> QED
        BY <3>2, <3>3
    <2> QED
      BY <2>1, <2>2
  <1>3. Waiting(e)' = Waiting(e) \/ Waiting(e)' = {}
    BY <1>2 DEF Waiting
  <1> QED
    BY <1>1, <1>3 DEF DomainsTogether

(* What the filter sends for a domain does not change from run to run. *)
LEMMA SameTransaction ==
    ASSUME FilterInv, DomainsTogether, NEW d \in Domain,
           run[d].at \in {"sending", "quitting"}
    PROVE  run[d].to = Transaction(d)
  <1>1. run[d].to = Recipients(d) /\ run[d].for = Waiting(d) /\ Waiting(d) # {}
    BY DEF FilterInv, RunsOK
  <1>2. Waiting(d) = Addressed(d)
    BY <1>1 DEF DomainsTogether
  <1> QED
    BY <1>1, <1>2 DEF Recipients, Transaction, Addressed

(* While nothing has gone wrong, what is deferred or reported cannot be delivered:
   the filter has no fallback for the mail, or nobody is taken in. *)
Earned == faults = 0 => (deferred \cup returned) \cap Deliverable = {}

LEMMA EarnedStep == FilterInv /\ DomainsTogether /\ Earned /\ [Next]_vars => Earned'
  <1> SUFFICES ASSUME FilterInv, DomainsTogether, Earned, [Next]_vars PROVE Earned'
    OBVIOUS
  <1>1. Deliverable' = Deliverable
    BY NothingTakenBack DEF mailVars, Deliverable, Transaction, Passes, Writes, Relayed, HasMetadata
  <1>2. faults \in Nat
    BY FilterAssumption DEF FilterInv, TypeOK
  <1>3. CASE UNCHANGED vars
    BY <1>3, <1>1 DEF vars, queueVars, Earned
  <1>4. CASE Fault
    BY <1>4, <1>2 DEF Fault, Earned
  <1>5. CASE Next /\ ~Fault
    <2>1. PICK d \in Domain : Start(d) \/ Expire(d) \/ Kill(d) \/ Filter(d)
      BY <1>5 DEF Next
    <2>0. \A a \in run[d].for : DomainOf[a] = d
      BY DEF FilterInv, RunsOK, Waiting, NoRun
    <2>2. CASE Start(d)
      <3>1. deferred' \subseteq deferred /\ returned' = returned /\ faults' = faults
        BY <2>2 DEF Start
      <3> QED
        BY <3>1, <1>1 DEF Earned
    <2>3. CASE Expire(d)
      <3>1. /\ deferred' \subseteq deferred /\ returned' \subseteq deferred \cup returned
            /\ faults' = faults
        BY <2>3 DEF Expire
      <3> QED
        BY <3>1, <1>1 DEF Earned
    <2>4. CASE PrepareFails(d) \/ SendFails(d)
      <3>1. run[d].for \cap Deliverable = {}
        <4>1. CASE PrepareFails(d)
          BY <4>1 DEF PrepareFails, FallsBack, Deliverable
        <4>2. CASE SendFails(d)
          <5>1. ~Passes(Transaction(d))
            BY <4>2, <1>5, SameTransaction DEF SendFails
          <5> QED
            BY <5>1, <2>0 DEF Deliverable
        <4> QED
          BY <2>4, <4>1, <4>2
      <3>2. /\ deferred' = deferred \cup run[d].for /\ returned' = returned
            /\ faults' = faults
        BY <2>4, <1>5 DEF PrepareFails, SendFails, TempFail
      <3> QED
        BY <3>1, <3>2, <1>1 DEF Earned
    <2>5. CASE Prepare(d) \/ Resolve(d) \/ Inject(d) \/ Send(d)
      <3>1. faults' = faults /\ UNCHANGED queueVars
        BY <2>5, <1>5 DEF Prepare, Resolve, Inject, Send
      <3> QED
        BY <3>1, <1>1 DEF queueVars, Earned
    <2>7. CASE Quit(d)
      <3>1. faults' = faults /\ deferred' = deferred /\ returned' = returned
        BY <2>7 DEF Quit, Delivered
      <3> QED
        BY <3>1, <1>1 DEF Earned
    <2> QED
      BY <1>5, <2>1, <2>2, <2>3, <2>4, <2>5, <2>7
         DEF Kill, Filter, AnswerLost, QuitFails, Terminate
  <1> QED
    BY <1>3, <1>4, <1>5

(* Nobody is reported as undeliverable without a fault, except for a mail that
   the filter cannot write out and has no fallback for, or one that the listener
   takes for nobody. *)
THEOREM OnlyEarnedReturns == Spec => []ReturnsAreEarned
  <1>1. Init => Earned /\ DomainsTogether
    BY DEF Init, Earned, DomainsTogether, Waiting, Addressed
  <1>2. FilterInv /\ DomainsTogether /\ [Next]_vars => DomainsTogether'
    BY TogetherStep
  <1>3. FilterInv /\ DomainsTogether /\ Earned /\ [Next]_vars => Earned'
    BY EarnedStep
  <1>4. Earned => ReturnsAreEarned
    BY DEF Earned, ReturnsAreEarned
  <1> QED
    BY <1>1, <1>2, <1>3, <1>4, FilterInvariant, PTL DEF Spec

----------------------------------------------------------------------------
(* Copies are bounded. *)

Used == {DomainOf[r] : r \in envelope}

(* The domains whose run has sent the mail for good, unless something goes wrong. *)
Done == {d \in Used : Waiting(d) = {} \/ run[d].at = "quitting"}

(* The copies of a recipient that no fault explains. *)
Due(a) ==
    IF tracking_enabled /\ HasMetadata THEN Cardinality(Done)
                                       ELSE IF DomainOf[a] \in Done THEN 1 ELSE 0

CopyInv == \A a \in Address \ {Sender} : got[a] <= faults + Due(a)

LEMMA DoneFinite ==
    ASSUME FilterInv
    PROVE  /\ IsFiniteSet(Used) /\ Used \subseteq Domain
           /\ IsFiniteSet(Done) /\ Cardinality(Done) \in Nat
           /\ Cardinality(Done) <= Cardinality(Used)
  <1> DEFINE f == [a \in Address |-> DomainOf[a]]
  <1>1. f \in Surjection(Address, Domain)
    BY DEF Surjection, Domain
  <1>2. IsFiniteSet(Domain)
    BY <1>1, FS_Surjection, FilterAssumption
  <1>3. Used \subseteq Domain
    BY DEF Used, Domain, FilterInv, TypeOK
  <1>4. IsFiniteSet(Used)
    BY <1>2, <1>3, FS_Subset
  <1>5. Done \subseteq Used
    BY DEF Done
  <1>6. IsFiniteSet(Done) /\ Cardinality(Done) <= Cardinality(Used)
    BY <1>4, <1>5, FS_Subset
  <1> QED
    BY <1>3, <1>4, <1>6, FS_CardinalityType

LEMMA DueType ==
    ASSUME FilterInv, NEW a
    PROVE  Due(a) \in Nat
  BY DoneFinite DEF Due

(* How the copies due grow with the domains that are done. *)
LEMMA DueGrows ==
    ASSUME FilterInv, UNCHANGED mailVars, NEW d, NEW a
    PROVE  /\ Done \subseteq Done' => Due(a) <= Due(a)'
           /\ Done \subseteq Done' \cup {d} => Due(a) <= Due(a)' + 1
           /\ /\ Done \subseteq Done'
              /\ d \in Done' \ Done
              /\ (tracking_enabled /\ HasMetadata) \/ DomainOf[a] = d
              => Due(a) + 1 <= Due(a)'
  <1>1. IsFiniteSet(Done) /\ IsFiniteSet(Done')
    <2>1. Used' = Used /\ Done' \subseteq Used'
      BY DEF mailVars, Used, Done
    <2> QED
      BY <2>1, DoneFinite, FS_Subset
  <1>2. (tracking_enabled /\ HasMetadata)' = (tracking_enabled /\ HasMetadata)
    BY DEF mailVars, HasMetadata
  <1> DEFINE A == Done
             B == Done'
  <1>3. Cardinality(A) \in Nat /\ Cardinality(B) \in Nat
    BY <1>1, FS_CardinalityType
  <1>4. A \subseteq B => Cardinality(A) <= Cardinality(B)
    BY <1>1, FS_Subset
  <1>5. A \subseteq B \cup {d} => Cardinality(A) <= Cardinality(B) + 1
    <2>1. IsFiniteSet(B \cup {d}) /\ Cardinality(B \cup {d}) <= Cardinality(B) + 1
      <3>1. /\ IsFiniteSet(B \cup {d})
            /\ Cardinality(B \cup {d}) = IF d \in B THEN Cardinality(B) ELSE Cardinality(B) + 1
        BY <1>1, FS_AddElement
      <3> HIDE DEF B
      <3> QED
        BY <3>1, <1>3
    <2>2. A \subseteq B \cup {d} => Cardinality(A) <= Cardinality(B \cup {d})
      BY <2>1, FS_Subset
    <2>3. Cardinality(B \cup {d}) \in Nat
      BY <2>1, FS_CardinalityType
    <2> QED
      BY <2>1, <2>2, <2>3, <1>3
  <1>6. A \subseteq B /\ d \in B \ A => Cardinality(A) + 1 <= Cardinality(B)
    <2>1. IsFiniteSet(A \cup {d}) /\ (d \notin A => Cardinality(A \cup {d}) = Cardinality(A) + 1)
      BY <1>1, FS_AddElement
    <2>2. A \cup {d} \subseteq B => Cardinality(A \cup {d}) <= Cardinality(B)
      BY <1>1, FS_Subset
    <2> QED
      BY <2>1, <2>2
  <1> HIDE DEF A, B
  <1>7. Due(a) = (IF tracking_enabled /\ HasMetadata THEN Cardinality(A)
                  ELSE IF DomainOf[a] \in A THEN 1 ELSE 0)
    BY DEF Due, A
  <1>8. Due(a)' = (IF tracking_enabled /\ HasMetadata THEN Cardinality(B)
                   ELSE IF DomainOf[a] \in B THEN 1 ELSE 0)
    BY <1>2 DEF Due, B
  <1>9. A \subseteq B => Due(a) <= Due(a)'
    BY <1>3, <1>4, <1>7, <1>8
  <1>10. A \subseteq B \cup {d} => Due(a) <= Due(a)' + 1
    BY <1>3, <1>5, <1>7, <1>8
  <1>11. /\ A \subseteq B
         /\ d \in B \ A
         /\ (tracking_enabled /\ HasMetadata) \/ DomainOf[a] = d
         => Due(a) + 1 <= Due(a)'
    BY <1>3, <1>6, <1>7, <1>8
  <1> QED
    BY <1>9, <1>10, <1>11 DEF A, B

(* A step of one domain leaves the others done. *)
LEMMA OthersDone ==
    ASSUME FilterInv, NEW d \in Domain, Start(d) \/ Expire(d) \/ Kill(d) \/ Filter(d)
    PROVE  Done \subseteq Done' \cup {d}
  <1>1. UNCHANGED mailVars
    BY DEF Start, Expire, Kill, Filter, Prepare, PrepareFails, Resolve, Inject, Send, SendFails, AnswerLost,
           Quit, QuitFails, Terminate
  <1>2. left' \subseteq left
    BY DEF Start, Expire, Kill, Filter, Prepare, PrepareFails, Resolve, Inject, Send, SendFails, AnswerLost,
           Quit, QuitFails, Terminate, queueVars, Delivered, TempFail, Bounced
  <1>3. run' = run \/ \E r : run' = [run EXCEPT ![d] = r]
    <2>1. CASE Start(d)
      BY <2>1 DEF Start
    <2>2. CASE Expire(d)
      BY <2>2 DEF Expire
    <2>3. CASE Prepare(d) \/ Resolve(d) \/ Inject(d)
      BY <2>3, Zenon DEF Prepare, Resolve, Inject
    <2>4. CASE Send(d)
      <3>1. run' = [run EXCEPT ![d] = [run[d] EXCEPT !.at = "quitting"]]
        BY <2>4, Zenon DEF Send
      <3> QED
        BY <3>1
    <2>5. CASE \/ Kill(d) \/ PrepareFails(d) \/ SendFails(d) \/ AnswerLost(d)
               \/ Quit(d) \/ QuitFails(d) \/ Terminate(d)
      BY <2>5 DEF Kill, PrepareFails, SendFails, AnswerLost, Quit, QuitFails, Terminate,
                  Delivered, TempFail, Bounced
    <2> QED
      BY <2>1, <2>2, <2>3, <2>4, <2>5 DEF Filter
  <1>4. \A e \in Domain \ {d} : run'[e] = run[e]
    BY <1>3 DEF FilterInv, TypeOK
  <1>5. Used' = Used
    BY <1>1 DEF mailVars, Used
  <1>6. \A e : Waiting(e)' \subseteq Waiting(e)
    BY <1>2 DEF Waiting
  <1>7. Used \subseteq Domain
    BY DoneFinite
  <1> QED
    BY <1>4, <1>5, <1>6, <1>7 DEF Done

(* A domain with recipients in the queue is done only while its run quits. *)
LEMMA NotDone ==
    ASSUME FilterInv, NEW d \in Domain, Waiting(d) # {}, run[d].at # "quitting"
    PROVE  d \notin Done
  BY DEF Done

LEMMA RunWaits ==
    ASSUME FilterInv, NEW d \in Domain, run[d].at # "none"
    PROVE  Waiting(d) # {} /\ d \in Used
  <1>1. Waiting(d) # {}
    BY DEF FilterInv, RunsOK
  <1> QED
    BY <1>1 DEF Waiting, Used, FilterInv, TypeOK

LEMMA CopyStep == FilterInv /\ CopyInv /\ [Next]_vars => CopyInv'
  <1> SUFFICES ASSUME FilterInv, CopyInv, [Next]_vars, NEW a \in Address \ {Sender}
               PROVE  got'[a] <= faults' + Due(a)'
    BY DEF CopyInv
  <1>1. got[a] \in Nat /\ faults \in Nat /\ Due(a) \in Nat /\ got[a] <= faults + Due(a)
    BY DueType, FilterAssumption DEF FilterInv, TypeOK, CopyInv
  <1>2. UNCHANGED mailVars
    BY NothingTakenBack
  <1>3. Due(a)' \in Nat
    <2>1. Used' = Used /\ Done' \subseteq Used'
      BY <1>2 DEF mailVars, Used, Done
    <2>2. Cardinality(Done') \in Nat
      BY <2>1, DoneFinite, FS_Subset, FS_CardinalityType
    <2> QED
      BY <2>2 DEF Due
  <1>4. CASE UNCHANGED vars
    <2>1. Done' = Done
      BY <1>4 DEF vars, mailVars, queueVars, Done, Used, Waiting
    <2>2. Due(a) <= Due(a)'
      BY <2>1, <1>2, DueGrows
    <2>3. got'[a] = got[a] /\ faults' = faults
      BY <1>4 DEF vars
    <2> QED
      BY <1>1, <1>3, <2>2, <2>3
  <1>5. CASE Next
    <2>1. PICK d \in Domain : Start(d) \/ Expire(d) \/ Kill(d) \/ Filter(d)
      BY <1>5 DEF Next
    <2>2. Done \subseteq Done' \cup {d}
      BY <2>1, OthersDone
    <2>3. Due(a) <= Due(a)' + 1 /\ (Done \subseteq Done' => Due(a) <= Due(a)')
      BY <2>2, <1>2, DueGrows
    <2>4. d \notin Done => Due(a) <= Due(a)'
      BY <2>2, <2>3
    <2>5. CASE Kill(d) \/ QuitFails(d) \/ Terminate(d) \/ (SendFails(d) /\ Fault)
      <3>1. got'[a] = got[a] /\ faults' = faults + 1
        BY <2>5 DEF Kill, SendFails, QuitFails, Terminate, Fault
      <3> QED
        BY <3>1, <2>3, <1>1, <1>3
    <2>6. CASE \/ Start(d) \/ Expire(d) \/ Prepare(d) \/ PrepareFails(d) \/ Resolve(d)
               \/ Inject(d) \/ (SendFails(d) /\ ~Fault)
      <3>1. Waiting(d) # {} /\ run[d].at # "quitting"
        BY <2>6, RunWaits DEF Start, Expire, Prepare, PrepareFails, Resolve, Inject, SendFails
      <3>2. got'[a] = got[a] /\ faults' = faults
        BY <2>6 DEF Start, Expire, Prepare, PrepareFails, Resolve, Inject, SendFails
      <3> QED
        BY <3>1, <3>2, NotDone, <2>4, <1>1, <1>3
    <2>7. CASE Quit(d)
      <3>1. Waiting(d)' = {}
        BY <2>7 DEF Quit, Delivered, Waiting, FilterInv, RunsOK
      <3>2. d \in Used'
        BY <2>7, <1>2, RunWaits DEF Quit, mailVars, Used
      <3>3. Done \subseteq Done'
        BY <3>1, <3>2, <2>2 DEF Done
      <3>4. got'[a] = got[a] /\ faults' = faults
        BY <2>7 DEF Quit
      <3> QED
        BY <3>3, <3>4, <2>3, <1>1, <1>3
    <2>8. CASE AnswerLost(d)
      <3>1. got'[a] <= got[a] + 1 /\ got'[a] \in Nat
        <4>1. Accept(Relayed(run[d].to))
          BY <2>8 DEF AnswerLost
        <4>2. got'[a] = got[a] + IF a \in Relayed(run[d].to) THEN 1 ELSE 0
          BY <4>1, AcceptType
        <4> QED
          BY <4>2, <1>1
      <3>2. faults' = faults + 1
        BY <2>8 DEF AnswerLost, Fault
      <3>3. d \notin Done
        BY <2>8, RunWaits, NotDone DEF AnswerLost
      <3> QED
        BY <3>1, <3>2, <3>3, <2>4, <1>1, <1>3
    <2>9. CASE Send(d)
      <3>1. PICK accepted \in SUBSET run[d].to :
              /\ Accept(accepted)
              /\ Fault \/ UNCHANGED faults
        BY <2>9 DEF Send, Relayed
      <3>2. got'[a] = got[a] + IF a \in accepted THEN 1 ELSE 0
        BY <3>1, AcceptType
      <3>3. d \notin Done /\ d \in Used
        BY <2>9, RunWaits, NotDone DEF Send
      <3>4. Due(a) <= Due(a)'
        BY <3>3, <2>4
      <3>5. CASE Fault
        <4>1. faults' = faults + 1
          BY <3>5 DEF Fault
        <4> QED
          BY <4>1, <3>2, <3>4, <1>1, <1>3
      <3>6. CASE a \notin accepted
        <4>1. faults' = faults \/ faults' = faults + 1
          BY <3>1 DEF Fault
        <4> QED
          BY <4>1, <3>2, <3>4, <3>6, <1>1, <1>3
      <3>7. CASE faults' = faults /\ a \in accepted
        <4>1. run'[d].at = "quitting"
          BY <2>9, RunRecord DEF Send, FilterInv, TypeOK, RunType
        <4>2. Used' = Used
          BY <1>2 DEF mailVars, Used
        <4>3. d \in Done'
          BY <4>1, <4>2, <3>3 DEF Done
        <4>4. a \in Recipients(d) /\ run[d].for = Waiting(d)
          BY <2>9, <3>1, <3>7 DEF Send, FilterInv, RunsOK
        <4>5. (tracking_enabled /\ HasMetadata) \/ DomainOf[a] = d
          BY <4>4 DEF Recipients, Waiting
        <4>6. Due(a) + 1 <= Due(a)'
          BY <4>3, <4>5, <3>3, <2>2, <1>2, DueGrows
        <4> QED
          BY <4>6, <3>2, <3>7, <1>1, <1>3
      <3> QED
        BY <3>1, <3>5, <3>6, <3>7
    <2> QED
      BY <2>1, <2>5, <2>6, <2>7, <2>8, <2>9 DEF Filter
  <1> QED
    BY <1>4, <1>5

(* Without metadata a recipient has at most one copy more than things went wrong,
   with metadata at most one per domain of the envelope more. *)
THEOREM CopiesAreBounded == Spec => []CopiesBounded
  <1>1. Init => CopyInv
    <2> SUFFICES ASSUME Init, NEW a \in Address \ {Sender} PROVE got[a] <= faults + Due(a)
      BY DEF CopyInv
    <2>1. Due(a) \in Nat
      BY InitInv, DueType
    <2> QED
      BY <2>1 DEF Init
  <1>2. FilterInv /\ CopyInv /\ [Next]_vars => CopyInv'
    BY CopyStep
  <1>3. FilterInv /\ CopyInv => CopiesBounded
    <2> SUFFICES ASSUME FilterInv, CopyInv, NEW a \in Address \ {Sender}
                 PROVE  got[a] <= faults + IF tracking_enabled /\ HasMetadata
                                            THEN Cardinality(Used) ELSE 1
      BY DEF CopiesBounded, Used
    <2>1. got[a] \in Nat /\ faults \in Nat /\ got[a] <= faults + Due(a)
      BY FilterAssumption DEF FilterInv, TypeOK, CopyInv
    <2>2. Cardinality(Done) <= Cardinality(Used) /\ Cardinality(Done) \in Nat
      BY DoneFinite
    <2>3. Cardinality(Used) \in Nat
      BY DoneFinite, FS_CardinalityType
    <2> QED
      BY <2>1, <2>2, <2>3 DEF Due
  <1> QED
    BY <1>1, <1>2, <1>3, FilterInvariant, PTL DEF Spec
----------------------------------------------------------------------------
(* Pixels are warranted. *)

(* A run on the way to the service, or with its HTML, has every reason to be. *)
WarrantInv ==
    /\ PixelsAreWarranted
    /\ \A d \in Domain :
          /\ run[d].at \in {"resolving", "injecting"} => Tracks
          /\ run[d].at = "injecting" => (pymysql => hosted)
          /\ run[d].at \in {"none", "reading", "resolving", "injecting"} =>
                run[d].body = "original"
          /\ run[d].body = "tracked" => Tracks /\ prints /\ (pymysql => hosted)

(* The part of the invariant about one run. *)
Warranted(r) ==
    /\ r.at \in {"resolving", "injecting"} => Tracks
    /\ r.at = "injecting" => (pymysql => hosted)
    /\ r.at \in {"none", "reading", "resolving", "injecting"} => r.body = "original"
    /\ r.body = "tracked" => Tracks /\ prints /\ (pymysql => hosted)

(* The next state of the run a step is about. *)
LEMMA WarrantedNext ==
    ASSUME FilterInv, NEW d \in Domain, Warranted(run[d]),
           Start(d) \/ Expire(d) \/ Kill(d) \/ Filter(d)
    PROVE  \E r : run' = [run EXCEPT ![d] = r] /\ Warranted(r)
  <1>0. Warranted(NoRun)
    BY DEF Warranted, NoRun
  <1>1. CASE Start(d)
    <2>1. Warranted([at |-> "reading", for |-> Waiting(d), to |-> {}, body |-> "original"])
      BY DEF Warranted
    <2> QED
      BY <1>1, <2>1 DEF Start
  <1>2. CASE Expire(d)
    <2>1. run' = [run EXCEPT ![d] = run[d]]
      BY <1>2 DEF Expire, FilterInv, TypeOK
    <2> QED
      BY <2>1
  <1>3. CASE \/ Kill(d) \/ PrepareFails(d) \/ SendFails(d) \/ AnswerLost(d)
             \/ Quit(d) \/ QuitFails(d) \/ Terminate(d)
    <2>1. run' = [run EXCEPT ![d] = NoRun]
      BY <1>3 DEF Kill, PrepareFails, SendFails, AnswerLost, Quit, QuitFails, Terminate,
                  Delivered, TempFail, Bounced
    <2> QED
      BY <1>0, <2>1
  <1>4. Warranted(Sending(d, "original"))
    BY DEF Warranted, Sending
  <1>5. ASSUME NEW v
        PROVE  [run[d] EXCEPT !.at = v]
                 = [at |-> v, for |-> run[d].for, to |-> run[d].to, body |-> run[d].body]
    BY RunRecord, RecordUpdate
  <1>6. CASE Prepare(d)
    <2>1. run[d].body = "original"
      BY <1>6 DEF Prepare, Warranted
    <2>2. run' = [run EXCEPT ![d] = IF Tracks THEN [run[d] EXCEPT !.at = "resolving"]
                                              ELSE Sending(d, "original")]
      BY <1>6, Zenon DEF Prepare
    <2>3. CASE Tracks
      <3>1. Warranted([run[d] EXCEPT !.at = "resolving"])
        BY <1>5, <2>1, <2>3 DEF Warranted
      <3>2. run' = [run EXCEPT ![d] = [run[d] EXCEPT !.at = "resolving"]]
        BY <2>2, <2>3, Zenon
      <3> QED
        BY <3>1, <3>2
    <2>4. CASE ~Tracks
      <3>1. run' = [run EXCEPT ![d] = Sending(d, "original")]
        BY <2>2, <2>4, Zenon
      <3> QED
        BY <1>4, <3>1
    <2> QED
      BY <2>3, <2>4
  <1>7. CASE Resolve(d)
    <2>1. run[d].body = "original" /\ Tracks
      BY <1>7 DEF Resolve, Warranted
    <2>2. PICK found \in Found :
            run' = [run EXCEPT ![d] = IF found \/ ~pymysql
                                      THEN [run[d] EXCEPT !.at = "injecting"]
                                      ELSE Sending(d, "original")]
      BY <1>7, Zenon DEF Resolve
    <2>3. CASE found \/ ~pymysql
      <3>1. pymysql => hosted
        <4>1. CASE found
          <5>1. hosted
            BY <4>1, Zenon DEF Found
          <5> QED
            BY <5>1, Zenon
        <4>2. CASE ~pymysql
          BY <4>2, Zenon
        <4> QED
          BY <2>3, <4>1, <4>2, Zenon
      <3>2. Warranted([run[d] EXCEPT !.at = "injecting"])
        BY <1>5, <2>1, <3>1 DEF Warranted
      <3>3. run' = [run EXCEPT ![d] = [run[d] EXCEPT !.at = "injecting"]]
        BY <2>2, <2>3, Zenon
      <3> QED
        BY <3>2, <3>3
    <2>4. CASE ~(found \/ ~pymysql)
      <3>1. run' = [run EXCEPT ![d] = Sending(d, "original")]
        BY <2>2, <2>4, Zenon
      <3> QED
        BY <1>4, <3>1
    <2> QED
      BY <2>3, <2>4
  <1>8. CASE Inject(d)
    <2>1. Tracks /\ (pymysql => hosted)
      BY <1>8 DEF Inject, Warranted
    <2>2. PICK body \in {"original", "tracked"} :
            run' = [run EXCEPT ![d] = Sending(d, IF prints THEN body ELSE "original")]
      BY <1>8 DEF Inject
    <2>3. Warranted(Sending(d, IF prints THEN body ELSE "original"))
      BY <2>1 DEF Warranted, Sending
    <2> QED
      BY <2>2, <2>3
  <1>9. CASE Send(d)
    <2>1. run' = [run EXCEPT ![d] = [run[d] EXCEPT !.at = "quitting"]]
      BY <1>9, Zenon DEF Send
    <2>2. Warranted([run[d] EXCEPT !.at = "quitting"])
      BY <1>5 DEF Warranted
    <2> QED
      BY <2>1, <2>2
  <1> QED
    BY <1>1, <1>2, <1>3, <1>6, <1>7, <1>8, <1>9 DEF Filter

LEMMA WarrantStep == FilterInv /\ WarrantInv /\ [Next]_vars => WarrantInv'
  <1> SUFFICES ASSUME FilterInv, WarrantInv, [Next]_vars PROVE WarrantInv'
    OBVIOUS
  <1>0. /\ \A d \in Domain : Warranted(run[d])
        /\ WarrantInv' <=> PixelsAreWarranted' /\ \A d \in Domain : Warranted(run[d])'
    BY DEF WarrantInv, Warranted
  <1>1. /\ Tracks' = Tracks /\ hosted' = hosted /\ prints' = prints /\ named' = named
        /\ html' = html /\ pymysql' = pymysql
        /\ HasMetadata' = HasMetadata /\ tracking_enabled' = tracking_enabled
    BY NothingTakenBack DEF mailVars, Tracks, HasMetadata
  <1>2. ASSUME NEW r
        PROVE  run' = r => \A d \in Domain : Warranted(run[d])' <=> Warranted(r[d])
    BY <1>1 DEF Warranted
  <1>3. CASE UNCHANGED vars
    <2>1. run' = run /\ tracked' = tracked
      BY <1>3 DEF vars
    <2> QED
      BY <2>1, <1>0, <1>1, <1>2 DEF PixelsAreWarranted, WarrantInv
  <1>4. CASE Next
    <2>1. PICK d \in Domain : Start(d) \/ Expire(d) \/ Kill(d) \/ Filter(d)
      BY <1>4 DEF Next
    <2>2. PICK r : run' = [run EXCEPT ![d] = r] /\ Warranted(r)
      BY <2>1, <1>0, WarrantedNext
    <2>3. \A e \in Domain : Warranted(run[e])'
      <3>1. \A e \in Domain : Warranted([run EXCEPT ![d] = r][e])
        BY <2>2, <1>0 DEF FilterInv, TypeOK
      <3> QED
        BY <3>1, <2>2, <1>2
    <2>4. \/ tracked' = tracked
          \/ /\ run[d].body = "tracked" /\ run[d].at = "sending"
             /\ \E accepted \in SUBSET run[d].to : tracked' = tracked \cup accepted
      <3>1. CASE Send(d)
        <4>1. PICK accepted \in SUBSET run[d].to : Mark(d, accepted)
          BY <3>1 DEF Send, Relayed
        <4> QED
          BY <3>1, <4>1 DEF Send, Mark
      <3>2. CASE AnswerLost(d)
        BY <3>2 DEF AnswerLost, Mark, Relayed
      <3> QED
        BY <2>1, <3>1, <3>2 DEF Start, Expire, Kill, Filter, Prepare, PrepareFails, Resolve,
           Inject, SendFails, Quit, QuitFails, Terminate
    <2>5. PixelsAreWarranted'
      <3>1. CASE tracked' = tracked
        BY <3>1, <1>1 DEF PixelsAreWarranted, WarrantInv
      <3>2. CASE /\ run[d].body = "tracked" /\ run[d].at = "sending"
                 /\ \E accepted \in SUBSET run[d].to : tracked' = tracked \cup accepted
        <4>1. Tracks /\ prints /\ (pymysql => hosted)
          BY <3>2, <1>0 DEF Warranted
        <4>2. run[d].to = named
          BY <3>2, <4>1 DEF FilterInv, RunsOK, Recipients, Tracks
        <4> QED
          BY <3>2, <4>1, <4>2, <1>1 DEF PixelsAreWarranted, WarrantInv, Tracks
      <3> QED
        BY <2>4, <3>1, <3>2
    <2> QED
      BY <2>3, <2>5, <1>0
  <1> QED
    BY <1>3, <1>4

(* A pixel goes only into a mail with HTML, with tracking on, and to recipients its
   headers name, whatever failed before; with the lookup, only for hosted senders. *)
THEOREM OnlyWarrantedPixels == Spec => []PixelsAreWarranted
  <1>1. Init => WarrantInv
    BY DEF Init, WarrantInv, PixelsAreWarranted, NoRun
  <1>2. FilterInv /\ WarrantInv /\ [Next]_vars => WarrantInv'
    BY WarrantStep
  <1>3. WarrantInv => PixelsAreWarranted
    BY DEF WarrantInv
  <1> QED
    BY <1>1, <1>2, <1>3, FilterInvariant, PTL DEF Spec
===============================================================================
