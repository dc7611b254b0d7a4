---------------------------- MODULE CertManagerProofs ----------------------------
(* Proofs about CertManager, for every set of domains, every base, any number of
   workers, orders and changes of the domains. *)
EXTENDS CertManager, FiniteSetTheorems, SequenceTheorems, WellFoundedInduction, TLAPS

----------------------------------------------------------------------------
(* Induction.  The theorems of the library that conclude for a predicate cannot be
   used here; this one is about a set, the one of the numbers one has in mind. *)

LEMMA Least ==
    ASSUME NEW T, T \subseteq Nat, T # {}
    PROVE  \E m \in T : \A n \in T : m <= n
  <1>1. PICK m \in T : \A n \in T : <<n, m>> \notin OpToRel(<, Nat)
    BY WFMin, NatLessThanWellFounded
  <1>2. \A n \in T : ~(n < m)
    BY <1>1 DEF OpToRel
  <1> QED BY <1>2

LEMMA SetInduction ==
    ASSUME NEW T, 0 \in T, \A n \in Nat : n \in T => n + 1 \in T
    PROVE  Nat \subseteq T
  <1> SUFFICES ASSUME Nat \ T # {}
               PROVE  FALSE
    OBVIOUS
  <1>1. PICK m \in Nat \ T : \A n \in Nat \ T : m <= n
    BY Least
  <1>2. m # 0 /\ m - 1 \in Nat /\ m - 1 \in T
    BY <1>1
  <1> QED BY <1>1, <1>2

----------------------------------------------------------------------------
(* Following links. *)

Followed(f, d) == IF f[d].kind = "link" THEN f[d].to ELSE d

(* at is the walk of k steps that begins at d. *)
Walk(f, d, k, at) ==
    at = [n \in 0..k |-> IF n = 0 THEN d
                         ELSE IF f[at[n - 1]].kind = "link" THEN f[at[n - 1]].to
                              ELSE at[n - 1]]

LEMMA DomainSize == Cardinality(Domain) \in Nat
  BY FS_CardinalityType, NameAssumption

LEMMA WalkSteps ==
    ASSUME NEW f, NEW d, NEW k \in Nat, NEW at, Walk(f, d, k, at)
    PROVE  at[0] = d /\ \A n \in 1..k : n - 1 \in 0..k /\ at[n] = Followed(f, at[n - 1])
  <1>1. \A n \in 0..k : at[n] = IF n = 0 THEN d
                                ELSE IF f[at[n - 1]].kind = "link" THEN f[at[n - 1]].to
                                     ELSE at[n - 1]
    BY DEF Walk
  <1> QED BY <1>1 DEF Followed

LEMMA WalkExists ==
    ASSUME NEW f, NEW d
    PROVE  \A k \in Nat : \E at : Walk(f, d, k, at)
  <1> DEFINE T == {k \in Nat : \E at : Walk(f, d, k, at)}
  <1>1. 0 \in T
    <2>1. Walk(f, d, 0, [n \in 0..0 |-> d])
      BY DEF Walk
    <2> QED BY <2>1
  <1>2. ASSUME NEW k \in Nat, k \in T
        PROVE  k + 1 \in T
    <2>1. PICK at : Walk(f, d, k, at)
      BY <1>2
    <2>2. /\ at[0] = d
          /\ \A n \in 1..k : n - 1 \in 0..k /\ at[n] = Followed(f, at[n - 1])
      BY <2>1, WalkSteps
    <2> DEFINE to == [n \in 0..k + 1 |-> IF n = k + 1 THEN Followed(f, at[k]) ELSE at[n]]
    <2>3. \A n \in 0..k : to[n] = at[n]
      OBVIOUS
    <2>4. to[k + 1] = Followed(f, at[k])
      OBVIOUS
    <2>5. DOMAIN to = 0..k + 1 /\ to = [n \in 0..k + 1 |-> to[n]]
      OBVIOUS
    <2> HIDE DEF to
    <2>6. \A n \in 0..k + 1 :
             to[n] = IF n = 0 THEN d
                     ELSE IF f[to[n - 1]].kind = "link" THEN f[to[n - 1]].to ELSE to[n - 1]
      <3> SUFFICES ASSUME NEW n \in 0..k + 1, n # 0
                   PROVE  to[n] = Followed(f, to[n - 1])
        BY <2>2, <2>3 DEF Followed
      <3>1. CASE n = k + 1
        BY <2>3, <2>4, <3>1
      <3>2. CASE n # k + 1
        <4>1. n \in 1..k /\ n - 1 \in 0..k
          BY <3>2
        <4> QED BY <2>2, <2>3, <4>1
      <3> QED BY <3>1, <3>2
    <2>7. Walk(f, d, k + 1, to)
      BY <2>5, <2>6 DEF Walk
    <2> QED BY <2>7
  <1> HIDE DEF T
  <1>3. Nat \subseteq T
    BY <1>1, <1>2, SetInduction
  <1> QED BY <1>3 DEF T

(* at is a walk that ends after k steps. *)
Steps(f, d, k, at) ==
    at[0] = d /\ \A n \in 1..k : n - 1 \in 0..k /\ at[n] = Followed(f, at[n - 1])

LEMMA ReachedByWalk ==
    ASSUME NEW f, NEW d, NEW k \in Nat, k = Cardinality(Domain)
    PROVE  \E at : Steps(f, d, k, at) /\ Reached(f, d) = at[k]
  <1>1. PICK at : at = CHOOSE w : Walk(f, d, k, w)
    OBVIOUS
  <1>2. Walk(f, d, k, at)
    BY <1>1, WalkExists
  <1>3. at[0] = d /\ \A n \in 1..k : n - 1 \in 0..k /\ at[n] = Followed(f, at[n - 1])
    BY <1>2, WalkSteps
  <1>4. Reached(f, d) = at[k]
    BY <1>1 DEF Reached, Walk
  <1> QED BY <1>3, <1>4 DEF Steps

----------------------------------------------------------------------------
(* What a walk reaches: a domain of the base it began in, the same one in files that
   agree there, and nothing but its beginning when that is no link. *)

(* Every link of f leads to a domain of the same base. *)
Closed(f) ==
    \A d \in Domain :
        f[d].kind = "link" => f[d].to \in Domain /\ Base[f[d].to] = Base[d]

Agree(f, g, base) == \A d \in Domain : Base[d] = base => f[d] = g[d]

LEMMA ReachedStays ==
    ASSUME NEW f, NEW d \in Domain, Closed(f)
    PROVE  Reached(f, d) \in Domain /\ Base[Reached(f, d)] = Base[d]
  <1>1. PICK k \in Nat : k = Cardinality(Domain)
    BY DomainSize
  <1>2. PICK at : Steps(f, d, k, at) /\ Reached(f, d) = at[k]
    BY <1>1, ReachedByWalk
  <1>3. at[0] = d /\ \A n \in 1..k : n - 1 \in 0..k /\ at[n] = Followed(f, at[n - 1])
    BY <1>2 DEF Steps
  <1> DEFINE T == {n \in Nat : n <= k => at[n] \in Domain /\ Base[at[n]] = Base[d]}
  <1>4. 0 \in T
    BY <1>3
  <1>5. ASSUME NEW n \in Nat, n \in T
        PROVE  n + 1 \in T
    <2> SUFFICES ASSUME n + 1 <= k
                 PROVE  at[n + 1] \in Domain /\ Base[at[n + 1]] = Base[d]
      OBVIOUS
    <2>1. at[n] \in Domain /\ Base[at[n]] = Base[d]
      BY <1>5
    <2>2. at[n + 1] = Followed(f, at[n])
      BY <1>3
    <2> QED BY <2>1, <2>2 DEF Followed, Closed
  <1> HIDE DEF T
  <1>6. k \in T
    BY <1>1, <1>4, <1>5, SetInduction
  <1> QED BY <1>1, <1>2, <1>6 DEF T

LEMMA ReachedAgrees ==
    ASSUME NEW f, NEW g, NEW d \in Domain, Closed(f), Agree(f, g, Base[d])
    PROVE  Reached(f, d) = Reached(g, d)
  <1>1. PICK k \in Nat : k = Cardinality(Domain)
    BY DomainSize
  <1>2. PICK at : Steps(f, d, k, at) /\ Reached(f, d) = at[k]
    BY <1>1, ReachedByWalk
  <1>3. PICK to : Steps(g, d, k, to) /\ Reached(g, d) = to[k]
    BY <1>1, ReachedByWalk
  <1>4. at[0] = d /\ \A n \in 1..k : n - 1 \in 0..k /\ at[n] = Followed(f, at[n - 1])
    BY <1>2 DEF Steps
  <1>5. to[0] = d /\ \A n \in 1..k : n - 1 \in 0..k /\ to[n] = Followed(g, to[n - 1])
    BY <1>3 DEF Steps
  <1> DEFINE T == {n \in Nat : n <= k =>
                      at[n] = to[n] /\ at[n] \in Domain /\ Base[at[n]] = Base[d]}
  <1>6. 0 \in T
    BY <1>4, <1>5
  <1>7. ASSUME NEW n \in Nat, n \in T
        PROVE  n + 1 \in T
    <2> SUFFICES ASSUME n + 1 <= k
                 PROVE  /\ at[n + 1] = to[n + 1]
                        /\ at[n + 1] \in Domain /\ Base[at[n + 1]] = Base[d]
      OBVIOUS
    <2>1. at[n] = to[n] /\ at[n] \in Domain /\ Base[at[n]] = Base[d]
      BY <1>7
    <2>2. at[n + 1] = Followed(f, at[n]) /\ to[n + 1] = Followed(g, to[n])
      BY <1>4, <1>5
    <2>3. f[at[n]] = g[to[n]]
      BY <2>1 DEF Agree
    <2> QED BY <2>1, <2>2, <2>3 DEF Followed, Closed
  <1> HIDE DEF T
  <1>8. k \in T
    BY <1>1, <1>6, <1>7, SetInduction
  <1> QED BY <1>1, <1>2, <1>3, <1>8 DEF T

LEMMA ReachedSelf ==
    ASSUME NEW f, NEW d, f[d].kind # "link"
    PROVE  Reached(f, d) = d
  <1>1. PICK k \in Nat : k = Cardinality(Domain)
    BY DomainSize
  <1>2. PICK at : Steps(f, d, k, at) /\ Reached(f, d) = at[k]
    BY <1>1, ReachedByWalk
  <1>3. at[0] = d /\ \A n \in 1..k : n - 1 \in 0..k /\ at[n] = Followed(f, at[n - 1])
    BY <1>2 DEF Steps
  <1> DEFINE T == {n \in Nat : n <= k => at[n] = d}
  <1>4. 0 \in T
    BY <1>3
  <1>5. \A n \in Nat : n \in T => n + 1 \in T
    BY <1>3 DEF Followed
  <1> HIDE DEF T
  <1>6. k \in T
    BY <1>1, <1>4, <1>5, SetInduction
  <1> QED BY <1>1, <1>2, <1>6 DEF T

LEMMA ExistsAgrees ==
    ASSUME NEW f, NEW g, NEW d \in Domain, Closed(f), Agree(f, g, Base[d])
    PROVE  /\ Content(f, d) = Content(g, d)
           /\ Exists(f, d) <=> Exists(g, d)
  <1>1. Reached(f, d) = Reached(g, d)
    BY ReachedAgrees
  <1>2. f[Reached(f, d)] = g[Reached(f, d)]
    BY ReachedStays DEF Agree
  <1> QED BY <1>1, <1>2 DEF Content, Exists

(* A file that is there is there under its own name. *)
LEMMA ExistsIsThere ==
    ASSUME NEW f, NEW d, Exists(f, d)
    PROVE  f[d] # NoFile
  <1> SUFFICES ASSUME f[d] = NoFile
               PROVE  FALSE
    OBVIOUS
  <1>1. Content(f, d) = NoFile
    BY ReachedSelf DEF Content, NoFile
  <1> QED BY <1>1 DEF Exists, NoFile

----------------------------------------------------------------------------
(* The group of a domain: domains of its base, and the same for all of them. *)

(* at collects the domains of a base from the first k rows. *)
Collected(base, k, at) ==
    at = [n \in 0..k |-> IF n = 0 THEN <<>>
                         ELSE IF Base[rows[n]] = base THEN Append(at[n - 1], rows[n])
                              ELSE at[n - 1]]

Collection(base) == CHOOSE at : Collected(base, Len(rows), at)

LEMMA GroupIsCollection ==
    ASSUME NEW d
    PROVE  Group(d) = Collection(Base[d])[Len(rows)]
  BY DEF Group, Collection, Collected

LEMMA CollectedExists ==
    ASSUME NEW base
    PROVE  \A k \in Nat : \E at : Collected(base, k, at)
  <1> DEFINE T == {k \in Nat : \E at : Collected(base, k, at)}
             More(s, n) == IF Base[rows[n]] = base THEN Append(s, rows[n]) ELSE s
  <1>1. 0 \in T
    <2>1. Collected(base, 0, [n \in 0..0 |-> <<>>])
      BY DEF Collected
    <2> QED BY <2>1
  <1>2. ASSUME NEW k \in Nat, k \in T
        PROVE  k + 1 \in T
    <2>1. PICK at : Collected(base, k, at)
      BY <1>2
    <2>2. \A n \in 0..k : at[n] = IF n = 0 THEN <<>> ELSE More(at[n - 1], n)
      BY <2>1 DEF Collected
    <2> DEFINE to == [n \in 0..k + 1 |-> IF n = k + 1 THEN More(at[k], n) ELSE at[n]]
    <2>3. \A n \in 0..k : to[n] = at[n]
      OBVIOUS
    <2>4. to[k + 1] = More(at[k], k + 1)
      OBVIOUS
    <2>5. DOMAIN to = 0..k + 1 /\ to = [n \in 0..k + 1 |-> to[n]]
      OBVIOUS
    <2> HIDE DEF to, More
    <2>6. \A n \in 0..k + 1 : to[n] = IF n = 0 THEN <<>> ELSE More(to[n - 1], n)
      <3> SUFFICES ASSUME NEW n \in 0..k + 1, n # 0
                   PROVE  to[n] = More(to[n - 1], n)
        BY <2>2, <2>3
      <3>1. CASE n = k + 1
        BY <2>3, <2>4, <3>1
      <3>2. CASE n # k + 1
        <4>1. n \in 0..k /\ n - 1 \in 0..k
          BY <3>2
        <4> QED BY <2>2, <2>3, <4>1
      <3> QED BY <3>1, <3>2
    <2>7. Collected(base, k + 1, to)
      BY <2>5, <2>6 DEF Collected, More
    <2> QED BY <2>7
  <1> HIDE DEF T
  <1>3. Nat \subseteq T
    BY <1>1, <1>2, SetInduction
  <1> QED BY <1>3 DEF T

LEMMA GroupType ==
    ASSUME rows \in Seq(Domain), NEW d
    PROVE  /\ Group(d) \in Seq(Domain)
           /\ \A j \in 1..Len(Group(d)) : Base[Group(d)[j]] = Base[d]
  <1>1. PICK k \in Nat : k = Len(rows)
    OBVIOUS
  <1>2. PICK at : at = Collection(Base[d])
    OBVIOUS
  <1>3. Collected(Base[d], k, at)
    BY <1>1, <1>2, CollectedExists DEF Collection
  <1>4. \A n \in 0..k : at[n] = IF n = 0 THEN <<>>
                                ELSE IF Base[rows[n]] = Base[d] THEN Append(at[n - 1], rows[n])
                                ELSE at[n - 1]
    BY <1>3 DEF Collected
  <1>5. \A n \in 1..k : at[n] = IF Base[rows[n]] = Base[d] THEN Append(at[n - 1], rows[n])
                                ELSE at[n - 1]
    BY <1>1, <1>4
  <1> DEFINE Good(s) == s \in Seq(Domain) /\ \A j \in 1..Len(s) : Base[s[j]] = Base[d]
             T == {n \in Nat : n <= k => Good(at[n])}
  <1>6. 0 \in T
    <2>1. at[0] = <<>>
      BY <1>1, <1>4
    <2>2. Good(<<>>)
      OBVIOUS
    <2> QED BY <2>1, <2>2
  <1>7. ASSUME NEW n \in Nat, n \in T
        PROVE  n + 1 \in T
    <2> SUFFICES ASSUME n + 1 <= k
                 PROVE  Good(at[n + 1])
      OBVIOUS
    <2>1. PICK s : s = at[n]
      OBVIOUS
    <2>2. Good(s)
      BY <1>7, <2>1
    <2>3. PICK e : e = rows[n + 1]
      OBVIOUS
    <2>4. e \in Domain
      BY <1>1, <2>3
    <2>5. at[n + 1] = IF Base[e] = Base[d] THEN Append(s, e) ELSE s
      BY <1>5, <2>1, <2>3
    <2>6. Base[e] = Base[d] => Good(Append(s, e))
      BY <2>2, <2>4
    <2> QED BY <2>2, <2>5, <2>6
  <1> HIDE DEF T
  <1>8. k \in T
    BY <1>1, <1>6, <1>7, SetInduction
  <1>9. Good(at[k])
    BY <1>1, <1>8 DEF T
  <1> QED BY <1>1, <1>2, <1>9, GroupIsCollection

LEMMA OnePrimary ==
    ASSUME NEW p, NEW q, IsPrimary(p), IsPrimary(q), Base[p] = Base[q]
    PROVE  p = q
  <1>1. Group(p) = Group(q)
    BY GroupIsCollection
  <1> QED BY <1>1 DEF IsPrimary

----------------------------------------------------------------------------
(* What a worker does to files that agree on its base, and what stays. *)

Unlinked(f, d) == IF Exists(f, d) THEN [f EXCEPT ![d] = NoFile] ELSE f

Symlinked(f, p, d) ==
    IF Exists(f, p) /\ f[d] = NoFile THEN [f EXCEPT ![d] = Link(p)] ELSE f

(* Only files of that base differ. *)
Confined(f, g, base) == \A d \in Domain : Base[d] # base => f[d] = g[d]

LEMMA WrittenAgrees ==
    ASSUME NEW f, NEW g, NEW d \in Domain, NEW c,
           DOMAIN f = Domain, DOMAIN g = Domain, Closed(f), Agree(f, g, Base[d])
    PROVE  /\ Agree(Written(f, d, c), Written(g, d, c), Base[d])
           /\ Confined(Written(f, d, c), f, Base[d])
  <1>1. PICK e \in Domain : e = Reached(f, d) /\ e = Reached(g, d) /\ Base[e] = Base[d]
    BY ReachedAgrees, ReachedStays
  <1> QED BY <1>1 DEF Written, Agree, Confined

LEMMA UnlinkedAgrees ==
    ASSUME NEW f, NEW g, NEW d \in Domain,
           DOMAIN f = Domain, DOMAIN g = Domain, Closed(f), Agree(f, g, Base[d])
    PROVE  /\ Agree(Unlinked(f, d), Unlinked(g, d), Base[d])
           /\ Confined(Unlinked(f, d), f, Base[d])
  <1>1. Exists(f, d) <=> Exists(g, d)
    BY ExistsAgrees
  <1> QED BY <1>1 DEF Unlinked, Agree, Confined

LEMMA SymlinkedAgrees ==
    ASSUME NEW f, NEW g, NEW p \in Domain, NEW d \in Domain, Base[d] = Base[p],
           DOMAIN f = Domain, DOMAIN g = Domain, Closed(f), Agree(f, g, Base[p])
    PROVE  /\ Agree(Symlinked(f, p, d), Symlinked(g, p, d), Base[p])
           /\ Confined(Symlinked(f, p, d), f, Base[p])
  <1>1. Exists(f, p) <=> Exists(g, p)
    BY ExistsAgrees
  <1>2. f[d] = g[d]
    BY DEF Agree
  <1> QED BY <1>1, <1>2 DEF Symlinked, Agree, Confined

----------------------------------------------------------------------------
(* The type invariant, by variable, with what keeps it: a group is of one base and
   its worker is at one of its domains, only one group of a base is worked on, no
   worker outlives its pass, a copy is of a certificate that was issued. *)

RowsOK ==
    /\ rows \in Seq(Domain)
    /\ \A i, j \in 1..Len(rows) : rows[i] = rows[j] => i = j
    /\ edits \in 0..MaxEdits

LiveOK ==
    /\ live \in [Name -> 0..MaxOrders]
    /\ old \in [Name -> 0..MaxOrders]
    /\ \A n \in Name : old[n] < MaxOrders /\ old[n] <= live[n]
    /\ phase \in DOMAIN CopyOf => live[WildcardDomain] > 0

EntryOK(x, d) ==
    /\ x \in Entry
    /\ x.kind = "copy" => Base[x.of] = Base[d]
    /\ x.kind = "link" => Base[x.to] = Base[d]

FilesOK ==
    /\ files \in [Ext -> [Domain -> Entry]]
    /\ \A e \in Ext, d \in Domain : EntryOK(files[e][d], d)

ServerFile == File({WildcardDomain})
ServerOK == server \in [crt : ServerFile, key : ServerFile, mark : ServerFile]

RestOK ==
    /\ maps \in [postfix : SUBSET Domain, dovecot : SUBSET Domain]
    /\ phase \in Phase
    /\ ownTable \in BOOLEAN
    /\ booked \subseteq Domain /\ ordered \subseteq Domain
    /\ faults \in 0..MaxFaults

Linking == {"unlink_crt", "symlink_crt", "unlink_key", "symlink_key"}
Over == {"none", "done", "failed"}

JobOK(p) ==
    /\ \A k \in 1..Len(job[p].group) : Base[job[p].group[k]] = Base[p]
    /\ job[p].pc \in Linking => job[p].i \in 1..Len(job[p].group)
    /\ job[p].pc \in {"queued", "certbot", "copy_crt", "copy_key"} =>
          job[p].i = 1 /\ Len(job[p].group) > 0
    /\ job[p].pc \in {"copy_crt", "copy_key"} => live[p] > 0

JobTypes == job \in [Domain -> [pc : JobPc, group : Seq(Domain), i : Nat]]
OneOfBase ==
    \A p, q \in Domain :
        job[p].pc # "none" /\ job[q].pc # "none" /\ Base[p] = Base[q] => p = q

JobsOK ==
    /\ JobTypes
    /\ \A p \in Domain : JobOK(p)
    /\ phase # "issue" => \A p \in Domain : job[p].pc \in Over
    /\ OneOfBase

ThreadsOK == Cardinality(Running) <= CERT_WORKER_THREADS

CertInv == RowsOK /\ LiveOK /\ FilesOK /\ ServerOK /\ RestOK /\ JobsOK /\ ThreadsOK

LEMMA InvTypes == CertInv => TypeOK
  BY DEF CertInv, TypeOK, RowsOK, LiveOK, FilesOK, EntryOK, ServerOK, ServerFile, RestOK,
         JobsOK, JobTypes, ThreadsOK

LEMMA InitInv == Init => CertInv
  <1> SUFFICES ASSUME Init
               PROVE  CertInv
    OBVIOUS
  <1> USE DEF Init
  <1>1. RowsOK
    <2>1. CASE rows = <<>>
      BY <2>1, NumberAssumption DEF RowsOK
    <2>2. ASSUME NEW d \in Domain, rows = <<d>>
          PROVE  RowsOK
      BY <2>2, NumberAssumption DEF RowsOK
    <2> QED BY <2>1, <2>2
  <1>2. LiveOK
    BY NumberAssumption DEF LiveOK, CopyOf
  <1>3. FilesOK
    BY DEF FilesOK, EntryOK, Entry, File, NoFile
  <1>4. ServerOK
    BY DEF ServerOK, ServerFile, File
  <1>5. RestOK
    BY NumberAssumption DEF RestOK, Phase
  <1>6. JobsOK
    BY DEF JobsOK, JobTypes, JobOK, OneOfBase, Idle, NoJob, JobPc, Waiting, Linking, Over
  <1>7. ThreadsOK
    <2>1. Running = {}
      BY DEF Running, Idle, NoJob, Waiting
    <2> QED BY <2>1, FS_EmptySet, NumberAssumption DEF ThreadsOK
  <1> QED BY <1>1, <1>2, <1>3, <1>4, <1>5, <1>6, <1>7 DEF CertInv

----------------------------------------------------------------------------
(* What the steps of a worker do to its job. *)

LEMMA GotoJob ==
    ASSUME JobTypes, NEW p \in Domain, NEW pc \in JobPc, Goto(p, pc)
    PROVE  /\ JobTypes'
           /\ job'[p].pc = pc /\ job'[p].group = job[p].group /\ job'[p].i = job[p].i
           /\ \A q \in Domain \ {p} : job'[q] = job[q]
  BY DEF JobTypes, Goto

LEMMA LinkNextJob ==
    ASSUME JobTypes, NEW p \in Domain, LinkNext(p)
    PROVE  /\ JobTypes'
           /\ job'[p].pc = IF job[p].i < Len(job[p].group) THEN "unlink_crt" ELSE "done"
           /\ job'[p].group = job[p].group /\ job'[p].i = job[p].i + 1
           /\ \A q \in Domain \ {p} : job'[q] = job[q]
  <1> DEFINE pc == IF job[p].i < Len(job[p].group) THEN "unlink_crt" ELSE "done"
             new == [pc |-> pc, group |-> job[p].group, i |-> job[p].i + 1]
  <1>1. job' = [job EXCEPT ![p] = new]
    BY DEF LinkNext
  <1>2. pc \in JobPc
    BY DEF JobPc, Waiting
  <1>3. job[p] \in [pc : JobPc, group : Seq(Domain), i : Nat]
    BY DEF JobTypes
  <1>4. new \in [pc : JobPc, group : Seq(Domain), i : Nat]
    BY <1>2, <1>3
  <1>5. new.pc = pc /\ new.group = job[p].group /\ new.i = job[p].i + 1
    OBVIOUS
  <1> HIDE DEF new, pc
  <1>6. JobTypes' /\ job'[p] = new /\ \A q \in Domain \ {p} : job'[q] = job[q]
    BY <1>1, <1>4 DEF JobTypes
  <1> QED BY <1>5, <1>6 DEF pc

----------------------------------------------------------------------------
(* The rows, the certificates and the tables. *)

(* Two sequences one after the other, in terms of the places of the whole. *)
LEMMA Joined ==
    ASSUME NEW a \in Seq(Domain), NEW c \in Seq(Domain)
    PROVE  /\ a \o c \in Seq(Domain) /\ Len(a \o c) = Len(a) + Len(c)
           /\ \A j \in 1..Len(a) : (a \o c)[j] = a[j]
           /\ \A j \in 1..Len(c) : (a \o c)[Len(a) + j] = c[j]
  BY ConcatProperties

(* t is a and then c. *)
Glued(t, a, c) == t = a \o c

LEMMA GluedRows ==
    ASSUME NEW a \in Seq(Domain), NEW c \in Seq(Domain), NEW t, Glued(t, a, c)
    PROVE  /\ t \in Seq(Domain) /\ Len(t) = Len(a) + Len(c)
           /\ \A j \in 1..Len(a) : t[j] = a[j]
           /\ \A j \in 1..Len(c) : t[Len(a) + j] = c[j]
  BY Joined DEF Glued

Before(s, i) == SubSeq(s, 1, i)
After(s, i) == SubSeq(s, i + 1, Len(s))
Inserted(s, i, d) == Before(s, i) \o <<d>> \o After(s, i)
Removed(s, i) == Before(s, i - 1) \o After(s, i)

LEMMA BeforeRow ==
    ASSUME NEW s \in Seq(Domain), NEW i \in Nat, i <= Len(s)
    PROVE  /\ Before(s, i) \in Seq(Domain) /\ Len(Before(s, i)) = i
           /\ \A j \in 1..i : Before(s, i)[j] = s[j]
  <1>1. \A j \in 1..i : s[j] \in Domain
    OBVIOUS
  <1> QED BY <1>1, SubSeqProperties DEF Before

LEMMA AfterRow ==
    ASSUME NEW s \in Seq(Domain), NEW i \in Nat, i <= Len(s)
    PROVE  /\ After(s, i) \in Seq(Domain) /\ Len(After(s, i)) = Len(s) - i
           /\ \A j \in 1..Len(s) - i : After(s, i)[j] = s[i + j]
  <1>1. \A j \in i + 1..Len(s) : s[j] \in Domain
    OBVIOUS
  <1> QED BY <1>1, SubSeqProperties DEF After

LEMMA InsertedRow ==
    ASSUME NEW s \in Seq(Domain), NEW d \in Domain, NEW i \in Nat, i <= Len(s)
    PROVE  /\ Inserted(s, i, d) \in Seq(Domain)
           /\ Len(Inserted(s, i, d)) = Len(s) + 1
           /\ \A j \in 1..i : Inserted(s, i, d)[j] = s[j]
           /\ Inserted(s, i, d)[i + 1] = d
           /\ \A j \in i + 1..Len(s) : Inserted(s, i, d)[j + 1] = s[j]
  <1>1. PICK n \in Nat, k \in Nat : n = Len(s) /\ k = n - i
    OBVIOUS
  <1>2. PICK t : t = Inserted(s, i, d)
    OBVIOUS
  <1>3. PICK a : a = Before(s, i)
    OBVIOUS
  <1>4. a \in Seq(Domain) /\ Len(a) = i /\ \A j \in 1..i : a[j] = s[j]
    BY <1>3, BeforeRow
  <1>5. PICK c : c = After(s, i)
    OBVIOUS
  <1>6. c \in Seq(Domain) /\ Len(c) = k /\ \A j \in 1..k : c[j] = s[i + j]
    BY <1>1, <1>5, AfterRow
  <1>7. PICK b : b = <<d>>
    OBVIOUS
  <1>8. b \in Seq(Domain) /\ Len(b) = 1 /\ b[1] = d
    BY <1>7
  <1>9. PICK m : Glued(m, a, b)
    BY DEF Glued
  <1>10. m \in Seq(Domain) /\ Len(m) = i + 1 /\ (\A j \in 1..i : m[j] = a[j]) /\ m[i + 1] = d
    <2>1. a \in Seq(Domain) /\ b \in Seq(Domain)
      BY <1>4, <1>8
    <2>2. /\ m \in Seq(Domain) /\ Len(m) = Len(a) + Len(b)
          /\ \A j \in 1..Len(a) : m[j] = a[j]
          /\ \A j \in 1..Len(b) : m[Len(a) + j] = b[j]
      BY <2>1, <1>9, GluedRows
    <2> QED BY <1>4, <1>8, <2>2
  <1>11. Glued(t, m, c)
    BY <1>2, <1>3, <1>5, <1>7, <1>9 DEF Inserted, Glued
  <1>12. PICK h \in Nat : h = i + 1
    OBVIOUS
  <1>13. /\ t \in Seq(Domain) /\ Len(t) = h + k
         /\ \A j \in 1..h : t[j] = m[j]
         /\ \A j \in 1..k : t[h + j] = c[j]
    <2>1. m \in Seq(Domain) /\ c \in Seq(Domain)
      BY <1>6, <1>10
    <2>2. /\ t \in Seq(Domain) /\ Len(t) = Len(m) + Len(c)
          /\ \A j \in 1..Len(m) : t[j] = m[j]
          /\ \A j \in 1..Len(c) : t[Len(m) + j] = c[j]
      BY <2>1, <1>11, GluedRows
    <2> QED BY <1>6, <1>10, <1>12, <2>2
  <1>14. ASSUME NEW l \in i + 1..n
         PROVE  t[l + 1] = s[l]
    <2>1. PICK j \in 1..k : l = i + j
      <3>1. l - i \in 1..k /\ l = i + (l - i)
        BY <1>1
      <3> QED BY <3>1
    <2>2. l + 1 = h + j
      BY <1>12, <2>1
    <2> QED BY <1>6, <1>13, <2>1, <2>2
  <1>15. Len(t) = n + 1
    BY <1>1, <1>12, <1>13
  <1>16. t[i + 1] = d /\ \A j \in 1..i : t[j] = s[j]
    BY <1>4, <1>10, <1>12, <1>13
  <1> QED BY <1>1, <1>2, <1>13, <1>14, <1>15, <1>16

LEMMA RemovedRow ==
    ASSUME NEW s \in Seq(Domain), NEW i \in Nat, i > 0, i <= Len(s)
    PROVE  /\ Removed(s, i) \in Seq(Domain)
           /\ Len(Removed(s, i)) = Len(s) - 1
           /\ \A j \in 1..i - 1 : Removed(s, i)[j] = s[j]
           /\ \A j \in i..Len(s) - 1 : Removed(s, i)[j] = s[j + 1]
  <1>1. PICK n \in Nat, k \in Nat, h \in Nat : n = Len(s) /\ k = n - i /\ h = i - 1
    OBVIOUS
  <1>2. PICK t : t = Removed(s, i)
    OBVIOUS
  <1>3. PICK a : a = Before(s, h)
    OBVIOUS
  <1>4. a \in Seq(Domain) /\ Len(a) = h /\ \A j \in 1..h : a[j] = s[j]
    <2>1. h \in Nat /\ h <= Len(s)
      BY <1>1
    <2> QED BY <1>3, <2>1, BeforeRow
  <1>5. PICK c : c = After(s, i)
    OBVIOUS
  <1>6. c \in Seq(Domain) /\ Len(c) = k /\ \A j \in 1..k : c[j] = s[i + j]
    BY <1>1, <1>5, AfterRow
  <1>7. Glued(t, a, c)
    BY <1>1, <1>2, <1>3, <1>5 DEF Removed, Glued
  <1>8. /\ t \in Seq(Domain) /\ Len(t) = h + k
        /\ \A j \in 1..h : t[j] = a[j]
        /\ \A j \in 1..k : t[h + j] = c[j]
    <2>1. a \in Seq(Domain) /\ c \in Seq(Domain)
      BY <1>4, <1>6
    <2>2. /\ t \in Seq(Domain) /\ Len(t) = Len(a) + Len(c)
          /\ \A j \in 1..Len(a) : t[j] = a[j]
          /\ \A j \in 1..Len(c) : t[Len(a) + j] = c[j]
      BY <2>1, <1>7, GluedRows
    <2> QED BY <1>4, <1>6, <2>2
  <1>9. ASSUME NEW l \in i..n - 1
        PROVE  t[l] = s[l + 1]
    <2>1. PICK j \in 1..k : l = h + j
      <3>1. l - h \in 1..k /\ l = h + (l - h)
        BY <1>1
      <3> QED BY <3>1
    <2>2. i + j = l + 1
      BY <1>1, <2>1
    <2> QED BY <1>6, <1>8, <2>1, <2>2
  <1>10. Len(t) = n - 1
    BY <1>1, <1>8
  <1> QED BY <1>1, <1>2, <1>4, <1>8, <1>9, <1>10

LEMMA RowsKept == CertInv /\ [Next]_vars => RowsOK'
  <1> SUFFICES ASSUME CertInv, [Next]_vars
               PROVE  RowsOK'
    OBVIOUS
  <1> USE DEF CertInv, RowsOK
  <1>1. \/ UNCHANGED <<rows, edits>>
        \/ \E d \in Domain : Activate(d) \/ Deactivate(d)
    BY DEF Next, Main, Work, PassRefused, StartPass, WorkersDone, WritePostfixMap,
           WriteDovecotMap, MapWriteFails, Wake, WildcardIssued, CopyServerFile,
           CopyServerFileFails, TakeJob, CertbotSucceeds, CertbotFails, CopyFile,
           CopyFileFails, Unlink, Symlink, Crash, WeekPasses, Expire, vars, world
  <1>2. PICK n \in Nat : n = Len(rows)
    OBVIOUS
  <1>3. ASSUME NEW d \in Domain, Activate(d)
        PROVE  RowsOK'
    <2>1. PICK i \in 0..n : rows' = Inserted(rows, i, d)
      BY <1>2, <1>3 DEF Activate, Inserted, Before, After
    <2>2. i \in Nat /\ i <= n
      OBVIOUS
    <2>3. /\ rows' \in Seq(Domain) /\ Len(rows') = n + 1
          /\ \A j \in 1..i : rows'[j] = rows[j]
          /\ rows'[i + 1] = d
          /\ \A j \in i + 1..n : rows'[j + 1] = rows[j]
      <3>1. rows \in Seq(Domain) /\ i \in Nat /\ i <= Len(rows)
        BY <1>2, <2>2
      <3>2. /\ rows' \in Seq(Domain) /\ Len(rows') = Len(rows) + 1
            /\ \A j \in 1..i : rows'[j] = rows[j]
            /\ rows'[i + 1] = d
            /\ \A j \in i + 1..Len(rows) : rows'[j + 1] = rows[j]
        <4>1. /\ Inserted(rows, i, d) \in Seq(Domain)
              /\ Len(Inserted(rows, i, d)) = Len(rows) + 1
              /\ \A j \in 1..i : Inserted(rows, i, d)[j] = rows[j]
              /\ Inserted(rows, i, d)[i + 1] = d
              /\ \A j \in i + 1..Len(rows) : Inserted(rows, i, d)[j + 1] = rows[j]
          BY <3>1, InsertedRow
        <4> QED BY <2>1, <4>1
      <3> QED BY <1>2, <3>2
    <2>4. \A j \in 1..n : rows[j] # d
      BY <1>2, <1>3 DEF Activate, InSeq
    <2>5. edits' \in 0..MaxEdits
      BY <1>3, NumberAssumption DEF Activate
    <2>6. \A j, k \in 1..n : rows[j] = rows[k] => j = k
      BY <1>2
    <2>7. \A j \in 1..n + 1 :
             \/ j \in 1..i /\ rows'[j] = rows[j]
             \/ j = i + 1 /\ rows'[j] = d
             \/ j - 1 \in i + 1..n /\ rows'[j] = rows[j - 1]
      <3> SUFFICES ASSUME NEW j \in 1..n + 1, j > i + 1
                   PROVE  j - 1 \in i + 1..n /\ rows'[j] = rows[j - 1]
        BY <2>2, <2>3
      <3>1. j - 1 \in i + 1..n /\ (j - 1) + 1 = j
        BY <2>2
      <3> QED BY <2>3, <3>1
    <2>8. \A j, k \in 1..n + 1 : rows'[j] = rows'[k] => j = k
      BY <2>2, <2>4, <2>6, <2>7
    <2> QED BY <2>3, <2>5, <2>8
  <1>4. ASSUME NEW d \in Domain, Deactivate(d)
        PROVE  RowsOK'
    <2>1. PICK i \in 1..n : rows' = Removed(rows, i)
      BY <1>2, <1>4 DEF Deactivate, Removed, Before, After
    <2>2. i \in Nat /\ i > 0 /\ i <= n
      OBVIOUS
    <2>3. /\ rows' \in Seq(Domain) /\ Len(rows') = n - 1
          /\ \A j \in 1..i - 1 : rows'[j] = rows[j]
          /\ \A j \in i..n - 1 : rows'[j] = rows[j + 1]
      <3>1. rows \in Seq(Domain) /\ i \in Nat /\ i > 0 /\ i <= Len(rows)
        BY <1>2, <2>2
      <3>2. /\ rows' \in Seq(Domain) /\ Len(rows') = Len(rows) - 1
            /\ \A j \in 1..i - 1 : rows'[j] = rows[j]
            /\ \A j \in i..Len(rows) - 1 : rows'[j] = rows[j + 1]
        BY <2>1, <3>1, RemovedRow
      <3> QED BY <1>2, <3>2
    <2>4. edits' \in 0..MaxEdits
      BY <1>4, NumberAssumption DEF Deactivate
    <2>5. \A j, k \in 1..n : rows[j] = rows[k] => j = k
      BY <1>2
    <2>6. \A j \in 1..n - 1 :
             \/ j < i /\ rows'[j] = rows[j]
             \/ j >= i /\ rows'[j] = rows[j + 1]
      BY <2>2, <2>3
    <2>7. \A j, k \in 1..n - 1 : rows'[j] = rows'[k] => j = k
      BY <2>2, <2>5, <2>6
    <2> QED BY <2>3, <2>4, <2>7
  <1> QED BY <1>1, <1>3, <1>4

LEMMA IssuedLive ==
    ASSUME LiveOK, NEW n \in Name, Issue(n)
    PROVE  /\ live' \in [Name -> 0..MaxOrders]
           /\ \A m \in Name : live[m] <= live'[m]
           /\ live'[n] > 0
           /\ \A m \in Name : m # n => live'[m] = live[m]
  <1>1. live[n] \in 0..MaxOrders /\ old[n] \in 0..MaxOrders /\ old[n] < MaxOrders
    BY DEF LiveOK
  <1>2. PICK s : s = IF live[n] <= old[n] THEN live[n] + 1 ELSE live[n]
    OBVIOUS
  <1>3. s \in 0..MaxOrders /\ s > 0 /\ live[n] <= s
    BY <1>1, <1>2, NumberAssumption
  <1>4. live' = [live EXCEPT ![n] = s]
    BY <1>2 DEF Issue
  <1> QED BY <1>3, <1>4, NumberAssumption DEF LiveOK

LEMMA LiveKept == CertInv /\ [Next]_vars => LiveOK' /\ \A n \in Name : live[n] <= live'[n]
  <1> SUFFICES ASSUME CertInv, [Next]_vars
               PROVE  LiveOK' /\ \A n \in Name : live[n] <= live'[n]
    OBVIOUS
  <1> USE DEF CertInv
  <1>1. \/ UNCHANGED <<live, old>> /\ (phase' \in DOMAIN CopyOf => phase \in DOMAIN CopyOf)
        \/ WildcardIssued
        \/ \E p \in Domain : CertbotSucceeds(p)
        \/ \E n \in Name : Expire(n)
    <2>1. CASE UNCHANGED vars
      BY <2>1 DEF vars, world
    <2>2. CASE Main \/ StartPass \/ PassRefused \/ MapWriteFails \/ WildcardIssued
               \/ CopyServerFileFails \/ Crash
      BY <2>2 DEF Main, PassRefused, StartPass, WorkersDone, WritePostfixMap, NextCopy,
           WriteDovecotMap, MapWriteFails, Wake, CopyServerFile, CopyOf,
           CopyServerFileFails, Crash, world
    <2>3. ASSUME NEW p \in Domain, Work(p) \/ CopyFileFails(p), ~CertbotSucceeds(p)
          PROVE  UNCHANGED <<live, old, phase>>
      BY <2>3 DEF Work, TakeJob, CertbotFails, CopyFile, CopyFileFails, Unlink, Symlink, world
    <2>4. ASSUME NEW d \in Domain, WeekPasses(d) \/ Activate(d) \/ Deactivate(d)
          PROVE  UNCHANGED <<live, old, phase>>
      BY <2>4 DEF WeekPasses, Activate, Deactivate, world
    <2> QED BY <2>1, <2>2, <2>3, <2>4 DEF Next
  <1>2. CASE UNCHANGED <<live, old>> /\ (phase' \in DOMAIN CopyOf => phase \in DOMAIN CopyOf)
    BY <1>2, NumberAssumption DEF LiveOK, Name
  <1>3. CASE WildcardIssued
    <2>1. Issue(WildcardDomain) /\ UNCHANGED old /\ WildcardDomain \in Name
      BY <1>3 DEF WildcardIssued, world, Name
    <2> QED BY <2>1, IssuedLive, NumberAssumption DEF LiveOK
  <1>4. ASSUME NEW p \in Domain, CertbotSucceeds(p)
        PROVE  LiveOK' /\ \A n \in Name : live[n] <= live'[n]
    <2>1. Issue(p) /\ UNCHANGED <<old, phase>> /\ p \in Name /\ WildcardDomain \in Name
      BY <1>4 DEF CertbotSucceeds, world, Name
    <2> QED BY <2>1, IssuedLive, NumberAssumption DEF LiveOK
  <1>5. ASSUME NEW n \in Name, Expire(n)
        PROVE  LiveOK' /\ \A m \in Name : live[m] <= live'[m]
    BY <1>5, NumberAssumption DEF Expire, LiveOK, Name
  <1> QED BY <1>1, <1>2, <1>3, <1>4, <1>5

----------------------------------------------------------------------------
(* The files. *)

LEMMA Entries ==
    ASSUME NEW d \in Domain
    PROVE  /\ EntryOK(NoFile, d) /\ EntryOK(Torn, d)
           /\ \A p \in Domain : Base[p] = Base[d] =>
                 /\ EntryOK(Link(p), d)
                 /\ \A s \in 1..MaxOrders : EntryOK(Copy(p, s), d)
  BY DEF EntryOK, Entry, File, NoFile, Torn, Link, Copy

LEMMA FilesClosed ==
    ASSUME FilesOK, NEW e \in Ext
    PROVE  Closed(files[e]) /\ DOMAIN files[e] = Domain
  <1>1. ASSUME NEW d \in Domain, files[e][d].kind = "link"
        PROVE  files[e][d].to \in Domain /\ Base[files[e][d].to] = Base[d]
    <2>1. EntryOK(files[e][d], d)
      BY DEF FilesOK
    <2> QED BY <1>1, <2>1 DEF EntryOK, Entry, File, NoFile, Torn
  <1> QED BY <1>1 DEF Closed, FilesOK

LEMMA OneFile ==
    ASSUME FilesOK, NEW e \in Ext, NEW r \in Domain, NEW c, EntryOK(c, r),
           files' = [files EXCEPT ![e] = [files[e] EXCEPT ![r] = c]]
    PROVE  FilesOK'
  <1>1. c \in Entry /\ files \in [Ext -> [Domain -> Entry]]
    BY DEF EntryOK, FilesOK
  <1> HIDE DEF Ext
  <1>2. files' \in [Ext -> [Domain -> Entry]]
    BY <1>1
  <1>3. ASSUME NEW x \in Ext, NEW d \in Domain
        PROVE  EntryOK(files'[x][d], d)
    <2>1. files'[x][d] = IF x = e /\ d = r THEN c ELSE files[x][d]
      BY <1>1
    <2> QED BY <2>1 DEF FilesOK
  <1> QED BY <1>2, <1>3 DEF FilesOK, EntryOK

(* The domains whose worker copies, and where it is. *)
LEMMA Copying ==
    ASSUME CertInv, NEW p \in Domain, job[p].pc \in DOMAIN Target
    PROVE  /\ Target[job[p].pc] \in Ext
           /\ job[p].pc \in {"copy_crt", "copy_key"}
           /\ live[p] \in 1..MaxOrders
  <1>1. job[p].pc \in {"copy_crt", "copy_key"}
    BY DEF Target
  <1>2. live[p] > 0 /\ live[p] \in 0..MaxOrders
    BY <1>1 DEF CertInv, JobsOK, JobOK, LiveOK, Name
  <1> QED BY <1>1, <1>2, NumberAssumption DEF Target, Ext

LEMMA LinkedDomain ==
    ASSUME CertInv, NEW p \in Domain, job[p].pc \in Linking
    PROVE  Linked(p) \in Domain /\ Base[Linked(p)] = Base[p]
  <1>1. job[p].group \in Seq(Domain) /\ job[p].i \in 1..Len(job[p].group)
    BY DEF CertInv, JobsOK, JobOK, JobTypes
  <1> QED BY <1>1 DEF CertInv, JobsOK, JobOK, Linked

(* The steps that change files. *)
LEMMA FileSteps ==
    CertInv /\ [Next]_vars =>
        \/ UNCHANGED files
        \/ Crash
        \/ \E p \in Domain : CopyFile(p) \/ CopyFileFails(p)
        \/ \E p \in Domain, e \in Ext : Unlink(p, e) \/ Symlink(p, e)
  BY DEF Next, Main, Work, PassRefused, StartPass, WorkersDone, WritePostfixMap,
         WriteDovecotMap, MapWriteFails, Wake, WildcardIssued, CopyServerFile,
         CopyServerFileFails, TakeJob, CertbotSucceeds, CertbotFails,
         WeekPasses, Expire, Activate, Deactivate, vars, volume

LEMMA FilesKept == CertInv /\ [Next]_vars => FilesOK'
  <1> SUFFICES ASSUME CertInv, [Next]_vars
               PROVE  FilesOK'
    OBVIOUS
  <1>1. FilesOK
    BY DEF CertInv
  <1>2. CASE UNCHANGED files
    BY <1>1, <1>2 DEF FilesOK, EntryOK
  <1>3. CASE Crash
    <2>1. PICK cut : files' = [e \in Ext |-> [n \in Domain |->
                      IF \E p \in cut : Target[job[p].pc] = e /\ Reached(files[e], p) = n
                      THEN Torn ELSE files[e][n]]]
      BY <1>3 DEF Crash
    <2>2. \A e \in Ext, n \in Domain : files'[e][n] = Torn \/ files'[e][n] = files[e][n]
      BY <2>1
    <2>3. \A e \in Ext, n \in Domain : EntryOK(files'[e][n], n)
      BY <1>1, <2>2, Entries DEF FilesOK
    <2>4. files' \in [Ext -> [Domain -> Entry]]
      <3>1. \A e \in Ext, n \in Domain : files'[e][n] \in Entry
        BY <2>3 DEF EntryOK
      <3>2. \A e \in Ext : files'[e] \in [Domain -> Entry]
        BY <2>1, <3>1
      <3> QED BY <2>1, <3>2
    <2> QED BY <2>3, <2>4 DEF FilesOK, EntryOK
  <1>4. ASSUME NEW p \in Domain, CopyFile(p) \/ CopyFileFails(p), ~UNCHANGED files
        PROVE  FilesOK'
    <2>1. job[p].pc \in DOMAIN Target
      BY <1>4 DEF CopyFile, CopyFileFails
    <2>2. PICK e \in Ext : e = Target[job[p].pc]
      BY <2>1, Copying
    <2>3. PICK c : Deploy(p, c) /\ c \in {Torn, Copy(p, live[p])}
      BY <1>4 DEF CopyFile, CopyFileFails
    <2>4. PICK r : r = Reached(files[e], p)
      OBVIOUS
    <2>5. r \in Domain /\ Base[r] = Base[p]
      BY <1>1, <2>4, FilesClosed, ReachedStays
    <2>6. files' = [files EXCEPT ![e] = [files[e] EXCEPT ![r] = c]]
      BY <2>2, <2>3, <2>4 DEF Deploy, Written
    <2>7. EntryOK(c, r)
      BY <2>1, <2>3, <2>5, Copying, Entries
    <2> QED BY <1>1, <2>5, <2>6, <2>7, OneFile
  <1>5. ASSUME NEW p \in Domain, NEW e \in Ext, Unlink(p, e), ~UNCHANGED files
        PROVE  FilesOK'
    <2>1. job[p].pc \in Linking
      BY <1>5 DEF Unlink, Linking, Ext
    <2>2. PICK d \in Domain : d = Linked(p)
      BY <2>1, LinkedDomain
    <2>3. files' = [files EXCEPT ![e] = [files[e] EXCEPT ![d] = NoFile]]
      BY <1>5, <2>2 DEF Unlink
    <2> QED BY <1>1, <2>3, Entries, OneFile
  <1>6. ASSUME NEW p \in Domain, NEW e \in Ext, Symlink(p, e), ~UNCHANGED files
        PROVE  FilesOK'
    <2>1. job[p].pc \in Linking
      BY <1>6 DEF Symlink, Linking, Ext
    <2>2. PICK d \in Domain : d = Linked(p) /\ Base[d] = Base[p]
      BY <2>1, LinkedDomain
    <2>3. files' = [files EXCEPT ![e] = [files[e] EXCEPT ![d] = Link(p)]]
      BY <1>6, <2>2 DEF Symlink
    <2>4. EntryOK(Link(p), d)
      BY <2>2, Entries
    <2> QED BY <1>1, <2>3, <2>4, OneFile
  <1> QED BY <1>2, <1>3, <1>4, <1>5, <1>6, FileSteps

LEMMA ServerKept == CertInv /\ [Next]_vars => ServerOK'
  <1> SUFFICES ASSUME CertInv, [Next]_vars
               PROVE  ServerOK'
    OBVIOUS
  <1>1. \/ UNCHANGED server
        \/ phase \in DOMAIN CopyOf /\ \E c \in {Torn, Copy(WildcardDomain, live[WildcardDomain])} :
              ServerCopy(c)
    BY DEF Next, Main, Work, PassRefused, StartPass, WorkersDone, WritePostfixMap,
           WriteDovecotMap, MapWriteFails, Wake, WildcardIssued, CopyServerFile,
           CopyServerFileFails, TakeJob, CertbotSucceeds, CertbotFails, CopyFile,
           CopyFileFails, Unlink, Symlink, Crash, WeekPasses, Expire, Activate,
           Deactivate, vars, volume
  <1>2. CASE UNCHANGED server
    BY <1>2 DEF CertInv, ServerOK
  <1>3. ASSUME phase \in DOMAIN CopyOf,
               NEW c \in {Torn, Copy(WildcardDomain, live[WildcardDomain])}, ServerCopy(c)
        PROVE  ServerOK'
    <2>1. live[WildcardDomain] \in 1..MaxOrders
      BY <1>3, NumberAssumption DEF CertInv, LiveOK, Name
    <2>2. c \in ServerFile
      BY <1>3, <2>1 DEF ServerFile, File, Torn, Copy
    <2>3. PICK x : x = CopyOf[phase]
      OBVIOUS
    <2>4. x \in {"crt", "key", "mark"}
      BY <1>3, <2>3 DEF CopyOf
    <2>5. server' = [server EXCEPT ![x] = c]
      BY <1>3, <2>3 DEF ServerCopy
    <2>6. server \in [crt : ServerFile, key : ServerFile, mark : ServerFile]
      BY DEF CertInv, ServerOK
    <2> HIDE DEF ServerFile
    <2>7. server' \in [crt : ServerFile, key : ServerFile, mark : ServerFile]
      BY <2>2, <2>4, <2>5, <2>6
    <2> QED BY <2>7 DEF ServerOK
  <1> QED BY <1>1, <1>2, <1>3

LEMMA RestKept == CertInv /\ [Next]_vars => RestOK'
  <1> SUFFICES ASSUME CertInv, [Next]_vars
               PROVE  RestOK'
    OBVIOUS
  <1>1. RestOK
    BY DEF CertInv
  <1>2. maps' \in [postfix : SUBSET Domain, dovecot : SUBSET Domain]
    <2>1. maps \in [postfix : SUBSET Domain, dovecot : SUBSET Domain] /\ Listed \subseteq Domain
      BY <1>1 DEF RestOK, Listed
    <2>2. \/ UNCHANGED maps
          \/ \E s \in {Listed, {}} : \/ maps' = [maps EXCEPT !.postfix = s]
                                     \/ maps' = [maps EXCEPT !.dovecot = s]
      BY DEF Next, Main, Work, PassRefused, StartPass, WorkersDone, WritePostfixMap,
             WriteDovecotMap, MapWriteFails, Wake, WildcardIssued, CopyServerFile,
             CopyServerFileFails, TakeJob, CertbotSucceeds, CertbotFails, CopyFile,
             CopyFileFails, Unlink, Symlink, Crash, WeekPasses, Expire, Activate,
             Deactivate, vars, volume
    <2> HIDE DEF Listed
    <2> QED BY <2>1, <2>2
  <1>3. phase' \in Phase
    <2>1. CASE WorkersDone \/ WritePostfixMap \/ WriteDovecotMap \/ Wake
      BY <2>1, <1>1 DEF RestOK, Phase, WorkersDone, WritePostfixMap, WriteDovecotMap, Wake
    <2>2. CASE CopyServerFile
      BY <2>2 DEF CopyServerFile, NextCopy, CopyOf, Phase
    <2>3. CASE PassRefused \/ MapWriteFails \/ WildcardIssued \/ CopyServerFileFails \/ Crash
      BY <2>3 DEF PassRefused, MapWriteFails, WildcardIssued, CopyServerFileFails,
                  Crash, Phase, CopyOf
    <2>4. CASE StartPass
      BY <2>4 DEF StartPass, Phase
    <2>5. ASSUME NEW p \in Domain, Work(p) \/ CopyFileFails(p)
          PROVE  UNCHANGED phase
      BY <2>5 DEF Work, TakeJob, CertbotSucceeds, CertbotFails, CopyFile, CopyFileFails,
                  Unlink, Symlink
    <2>6. ASSUME NEW n \in Name, Expire(n)
          PROVE  UNCHANGED phase
      BY <2>6 DEF Expire
    <2>7. ASSUME NEW d \in Domain, WeekPasses(d) \/ Activate(d) \/ Deactivate(d)
          PROVE  UNCHANGED phase
      BY <2>7 DEF WeekPasses, Activate, Deactivate
    <2>8. UNCHANGED vars => UNCHANGED phase
      BY DEF vars
    <2>9. phase' \in Phase \/ phase' = phase
      BY <2>1, <2>2, <2>3, <2>4, <2>5, <2>6, <2>7, <2>8 DEF Next, Main
    <2> QED BY <1>1, <2>9 DEF RestOK
  <1>4. faults' \in 0..MaxFaults
    <2>1. UNCHANGED faults \/ (faults < MaxFaults /\ faults' = faults + 1)
      BY DEF Next, Main, Work, PassRefused, StartPass, WorkersDone, WritePostfixMap,
             WriteDovecotMap, MapWriteFails, Wake, WildcardIssued, CopyServerFile,
             CopyServerFileFails, TakeJob, CertbotSucceeds, CertbotFails, CopyFile,
             CopyFileFails, Unlink, Symlink, Crash, WeekPasses, Expire, Activate,
             Deactivate, Book, vars
    <2> QED BY <1>1, <2>1, NumberAssumption DEF RestOK
  <1>5. booked' \subseteq Domain /\ ordered' \subseteq Domain
    <2>1. ASSUME NEW p \in Domain, NEW e \in Ext, Symlink(p, e)
          PROVE  Linked(p) \in Domain
      BY <2>1, LinkedDomain DEF Symlink, Linking, Ext
    <2>2. booked' \subseteq booked \cup Domain /\ ordered' \subseteq ordered \cup Domain
      BY <2>1 DEF Next, Main, Work, PassRefused, StartPass, WorkersDone, WritePostfixMap,
             WriteDovecotMap, MapWriteFails, Wake, WildcardIssued, CopyServerFile,
             CopyServerFileFails, TakeJob, CertbotSucceeds, CertbotFails, CopyFile,
             CopyFileFails, Unlink, Symlink, Crash, WeekPasses, Expire, Activate,
             Deactivate, Book, vars, books
    <2> QED BY <1>1, <2>2 DEF RestOK
  <1>6. UNCHANGED ownTable
    BY DEF Next, Main, Work, PassRefused, StartPass, WorkersDone, WritePostfixMap,
           WriteDovecotMap, MapWriteFails, Wake, WildcardIssued, CopyServerFile,
           CopyServerFileFails, TakeJob, CertbotSucceeds, CertbotFails, CopyFile,
           CopyFileFails, Unlink, Symlink, Crash, WeekPasses, Expire, Activate,
           Deactivate, vars, world
  <1>7. ownTable' \in BOOLEAN
    BY <1>1, <1>6 DEF RestOK
  <1> QED BY <1>2, <1>3, <1>4, <1>5, <1>7 DEF RestOK

----------------------------------------------------------------------------
(* The jobs. *)

(* A worker whose job is not over works during a pass. *)
LEMMA AtWork ==
    ASSUME CertInv, NEW p \in Domain, job[p].pc \notin Over
    PROVE  phase = "issue"
  BY DEF CertInv, JobsOK

(* What remains of JobsOK when one worker has made a step. *)
LEMMA OneJob ==
    ASSUME CertInv, NEW p \in Domain, job[p].pc \notin Over, UNCHANGED phase,
           \A n \in Name : live[n] <= live'[n], LiveOK', JobTypes',
           \A q \in Domain \ {p} : job'[q] = job[q], JobOK(p)'
    PROVE  JobsOK'
  <1>1. \A q \in Domain : job[q].pc = "none" => job'[q].pc = "none" \/ q = p
    OBVIOUS
  <1>2. OneOfBase'
    BY DEF CertInv, JobsOK, OneOfBase, Over
  <1>3. ASSUME NEW q \in Domain, q # p
        PROVE  JobOK(q)'
    <2>1. JobOK(q) /\ job'[q] = job[q] /\ live[q] <= live'[q]
      BY <1>3 DEF CertInv, JobsOK, Name
    <2>2. live[q] \in Nat /\ live'[q] \in Nat
      BY NumberAssumption DEF CertInv, LiveOK, Name
    <2> QED BY <2>1, <2>2 DEF JobOK
  <1>4. phase' = "issue"
    BY AtWork
  <1> QED BY <1>2, <1>3, <1>4 DEF JobsOK

LEMMA StartedJobs == CertInv /\ StartPass => JobsOK'
  <1> SUFFICES ASSUME CertInv, StartPass
               PROVE  JobsOK'
    OBVIOUS
  <1>1. job' = [d \in Domain |->
                 IF IsPrimary(d) /\ IsDue(d)
                 THEN [pc |-> "queued", group |-> Group(d), i |-> 1]
                 ELSE NoJob]
    BY DEF StartPass
  <1>2. ASSUME NEW d \in Domain
        PROVE  /\ Group(d) \in Seq(Domain)
               /\ \A j \in 1..Len(Group(d)) : Base[Group(d)[j]] = Base[d]
    BY GroupType DEF CertInv, RowsOK
  <1>3. JobTypes'
    BY <1>1, <1>2 DEF JobTypes, NoJob, JobPc, Waiting
  <1>4. \A d \in Domain : job'[d].pc # "none" => IsPrimary(d)
    BY <1>1 DEF NoJob
  <1>5. OneOfBase'
    BY <1>4, OnePrimary DEF OneOfBase
  <1>6. ASSUME NEW d \in Domain
        PROVE  JobOK(d)'
    <2>1. CASE job'[d] = NoJob
      BY <2>1 DEF JobOK, NoJob, Linking
    <2>2. CASE IsDue(d) /\ job'[d] = [pc |-> "queued", group |-> Group(d), i |-> 1]
      <3>1. PICK g : g = Group(d)
        OBVIOUS
      <3>2. Len(g) > 0
        BY <1>2, <2>2, <3>1 DEF IsDue
      <3>3. /\ job'[d].pc = "queued" /\ job'[d].group = g /\ job'[d].i = 1
            /\ \A j \in 1..Len(g) : Base[g[j]] = Base[d]
        BY <1>2, <2>2, <3>1
      <3> QED BY <3>2, <3>3 DEF JobOK, Linking
    <2> QED BY <1>1, <2>1, <2>2
  <1>7. phase' # "issue" => \A d \in Domain : job'[d].pc = "none"
    BY DEF StartPass, Idle, NoJob
  <1> QED BY <1>3, <1>5, <1>6, <1>7 DEF JobsOK, Over

LEMMA WorkedJobs ==
    ASSUME CertInv, NEW p \in Domain, Work(p) \/ CopyFileFails(p),
           \A n \in Name : live[n] <= live'[n], LiveOK'
    PROVE  JobsOK'
  <1>1. JobTypes /\ JobOK(p) /\ UNCHANGED phase
    BY DEF CertInv, JobsOK, Work, TakeJob, CertbotSucceeds, CertbotFails, CopyFile,
           CopyFileFails, Unlink, Symlink
  <1>2. PICK g \in Seq(Domain) : g = job[p].group
    BY <1>1 DEF JobTypes
  <1>3. PICK i \in Nat : i = job[p].i
    BY <1>1 DEF JobTypes
  <1>4. \A k \in 1..Len(g) : Base[g[k]] = Base[p]
    BY <1>1, <1>2 DEF JobOK
  <1>5. ASSUME NEW pc \in JobPc, Goto(p, pc), job[p].pc \notin Over,
               pc \in Linking => job[p].pc \in Linking,
               pc \in {"certbot", "copy_crt", "copy_key"} =>
                   job[p].pc \in {"queued", "certbot", "copy_crt", "copy_key"},
               pc \in {"copy_crt", "copy_key"} => live'[p] > 0,
               pc # "queued"
        PROVE  JobsOK'
    <2>1. /\ JobTypes'
          /\ job'[p].pc = pc /\ job'[p].group = job[p].group /\ job'[p].i = job[p].i
          /\ \A q \in Domain \ {p} : job'[q] = job[q]
      BY <1>1, <1>5, GotoJob
    <2>2. JobOK(p)'
      BY <1>1, <1>5, <2>1 DEF JobOK
    <2> QED BY <1>1, <1>5, <2>1, <2>2, OneJob
  <1>6. ASSUME LinkNext(p), job[p].pc \in Linking \cup {"copy_crt", "copy_key"}
        PROVE  JobsOK'
    <2>1. /\ JobTypes'
          /\ job'[p].pc = IF job[p].i < Len(job[p].group) THEN "unlink_crt" ELSE "done"
          /\ job'[p].group = job[p].group /\ job'[p].i = job[p].i + 1
          /\ \A q \in Domain \ {p} : job'[q] = job[q]
      BY <1>1, <1>6, LinkNextJob
    <2>2. JobOK(p)'
      <3>1. job'[p].pc \in Linking => i < Len(g)
        BY <1>2, <1>3, <2>1 DEF Linking
      <3>2. job'[p].pc \in {"unlink_crt", "done"} /\ job'[p].group = g /\ job'[p].i = i + 1
        BY <1>2, <1>3, <2>1
      <3> QED BY <1>4, <3>1, <3>2 DEF JobOK
    <2>3. job[p].pc \notin Over
      BY <1>6 DEF Linking, Over
    <2> QED BY <1>1, <2>1, <2>2, <2>3, OneJob
  <1>7. CASE TakeJob(p)
    <2>1. job[p].pc = "queued" /\ Goto(p, "certbot")
      BY <1>7 DEF TakeJob
    <2> QED BY <1>5, <2>1 DEF JobPc, Linking, Over
  <1>8. CASE CertbotSucceeds(p)
    <2>1. job[p].pc = "certbot" /\ Goto(p, "copy_crt")
      BY <1>8 DEF CertbotSucceeds
    <2>2. live'[p] > 0
      BY <1>8, IssuedLive DEF CertInv, CertbotSucceeds, Name
    <2> QED BY <1>5, <2>1, <2>2 DEF JobPc, Target, Linking, Over
  <1>9. CASE CertbotFails(p)
    <2>1. job[p].pc = "certbot" /\ Goto(p, "failed")
      BY <1>9 DEF CertbotFails
    <2> QED BY <1>5, <2>1 DEF JobPc, Waiting, Linking, Over
  <1>10. CASE CopyFile(p) \/ CopyFileFails(p)
    <2>1. job[p].pc \in {"copy_crt", "copy_key"}
      BY <1>10 DEF CopyFile, CopyFileFails, Target
    <2>2. \/ job[p].pc = "copy_crt" /\ Goto(p, "copy_key") /\ UNCHANGED live
          \/ LinkNext(p)
      BY <1>10 DEF CopyFile, CopyFileFails
    <2>3. live[p] > 0
      BY <1>1, <2>1 DEF JobOK
    <2> QED BY <1>5, <1>6, <2>1, <2>2, <2>3 DEF JobPc, Target, Linking, Over
  <1>11. ASSUME NEW e \in Ext, Unlink(p, e)
         PROVE  JobsOK'
    <2>1. PICK pc \in {"symlink_crt", "symlink_key"} : Goto(p, pc)
      BY <1>11 DEF Unlink
    <2>2. job[p].pc \in {"unlink_crt", "unlink_key"}
      BY <1>11 DEF Unlink
    <2> QED BY <1>5, <2>1, <2>2 DEF JobPc, Linking, Over
  <1>12. ASSUME NEW e \in Ext, Symlink(p, e)
         PROVE  JobsOK'
    <2>1. LinkNext(p) \/ Goto(p, "unlink_key")
      BY <1>12 DEF Symlink
    <2>2. job[p].pc \in {"symlink_crt", "symlink_key"}
      BY <1>12 DEF Symlink
    <2> QED BY <1>5, <1>6, <2>1, <2>2 DEF JobPc, Linking, Over
  <1> QED BY <1>7, <1>8, <1>9, <1>10, <1>11, <1>12 DEF Work

LEMMA JobsKept == CertInv /\ [Next]_vars => JobsOK'
  <1> SUFFICES ASSUME CertInv, [Next]_vars
               PROVE  JobsOK'
    OBVIOUS
  <1>1. LiveOK' /\ \A n \in Name : live[n] <= live'[n]
    BY LiveKept
  <1>2. JobsOK /\ RestOK /\ LiveOK
    BY DEF CertInv
  <1>3. CASE PassRefused \/ Crash
    <2>1. job' = Idle /\ phase' # "issue"
      BY <1>3 DEF PassRefused, Crash
    <2>2. \A d \in Domain : JobOK(d)'
      BY <2>1 DEF JobOK, Idle, NoJob, Linking
    <2>3. JobTypes'
      BY <2>1 DEF JobTypes, Idle, NoJob, JobPc, Waiting
    <2> QED BY <2>1, <2>2, <2>3 DEF JobsOK, OneOfBase, Idle, NoJob, Over
  <1>4. CASE UNCHANGED job /\ (phase # "issue" => phase' # "issue")
                           /\ (phase' # "issue" => \A p \in Domain : job[p].pc \in Over)
    <2>1. ASSUME NEW q \in Domain
          PROVE  JobOK(q)'
      <3>1. JobOK(q) /\ job'[q] = job[q] /\ live[q] <= live'[q]
        BY <1>1, <1>2, <1>4 DEF JobsOK, Name
      <3>2. live[q] \in Nat /\ live'[q] \in Nat
        BY <1>1, <1>2, NumberAssumption DEF LiveOK, Name
      <3> QED BY <3>1, <3>2 DEF JobOK
    <2> QED BY <1>2, <1>4, <2>1 DEF JobsOK, JobTypes, OneOfBase
  <1>5. CASE Main \/ MapWriteFails \/ WildcardIssued \/ CopyServerFileFails
    <2>1. UNCHANGED job /\ phase' # "issue" /\ \A p \in Domain : job[p].pc \in Over
      BY <1>2, <1>5 DEF Main, WorkersDone, WritePostfixMap, WriteDovecotMap, Wake,
             CopyServerFile, NextCopy, CopyOf, MapWriteFails, WildcardIssued,
             CopyServerFileFails, JobsOK, Over
    <2> QED BY <1>4, <2>1
  <1>6. CASE UNCHANGED <<phase, job>>
    BY <1>2, <1>4, <1>6 DEF JobsOK
  <1>7. ASSUME NEW n \in Name, Expire(n)
        PROVE  UNCHANGED <<phase, job>>
    BY <1>7 DEF Expire
  <1>8. ASSUME NEW d \in Domain, WeekPasses(d) \/ Activate(d) \/ Deactivate(d)
        PROVE  UNCHANGED <<phase, job>>
    BY <1>8 DEF WeekPasses, Activate, Deactivate
  <1>9. CASE UNCHANGED vars
    BY <1>6, <1>9 DEF vars
  <1> QED BY <1>1, <1>3, <1>5, <1>6, <1>7, <1>8, <1>9, StartedJobs, WorkedJobs DEF Next

LEMMA RunningIsFinite == IsFiniteSet(Running) /\ Cardinality(Running) \in Nat
  <1>1. Running \subseteq Domain
    BY DEF Running
  <1> QED BY <1>1, FS_Subset, FS_CardinalityType, NameAssumption

LEMMA ThreadsKept == CertInv /\ [Next]_vars => ThreadsOK'
  <1> SUFFICES ASSUME CertInv, [Next]_vars
               PROVE  ThreadsOK'
    OBVIOUS
  <1>1. PICK n \in Nat : n = Cardinality(Running) /\ n <= CERT_WORKER_THREADS
    BY RunningIsFinite DEF CertInv, ThreadsOK
  <1>2. PICK r : r = Running'
    OBVIOUS
  <1>3. JobTypes
    BY DEF CertInv, JobsOK
  <1>4. r \subseteq Running => Cardinality(r) <= CERT_WORKER_THREADS
    <2>1. r \subseteq Running =>
             IsFiniteSet(r) /\ Cardinality(r) <= Cardinality(Running)
      BY RunningIsFinite, FS_Subset
    <2>2. IsFiniteSet(r) => Cardinality(r) \in Nat
      BY FS_CardinalityType
    <2> QED BY <1>1, <2>1, <2>2, NumberAssumption
  <1>5. ASSUME \A p \in Domain : job'[p].pc \in Waiting \/ job'[p] = job[p]
        PROVE  r \subseteq Running
    BY <1>2, <1>5 DEF Running
  <1>6. ASSUME NEW p \in Domain, TakeJob(p)
        PROVE  Cardinality(r) <= CERT_WORKER_THREADS
    <2>1. Goto(p, "certbot") /\ n < CERT_WORKER_THREADS
      BY <1>1, <1>6 DEF TakeJob
    <2>2. \A q \in Domain \ {p} : job'[q] = job[q]
      BY <1>3, <2>1, GotoJob DEF JobPc
    <2>3. r \subseteq Running \cup {p}
      BY <1>2, <2>2 DEF Running
    <2>4. IsFiniteSet(Running \cup {p}) /\ Cardinality(Running \cup {p}) <= n + 1
      BY <1>1, RunningIsFinite, FS_AddElement
    <2>5. Cardinality(r) <= Cardinality(Running \cup {p}) /\ Cardinality(r) \in Nat
      BY <2>3, <2>4, FS_Subset, FS_CardinalityType
    <2>6. Cardinality(Running \cup {p}) \in Nat
      BY <2>4, FS_CardinalityType
    <2> QED BY <1>1, <2>1, <2>4, <2>5, <2>6, NumberAssumption
  <1>7. ASSUME NEW p \in Domain, Work(p) \/ CopyFileFails(p), ~TakeJob(p)
        PROVE  r \subseteq Running
    <2>1. p \in Running
      BY <1>7 DEF Running, Waiting, Work, CertbotSucceeds, CertbotFails, CopyFile,
             CopyFileFails, Unlink, Symlink, Target
    <2>2. (\E pc : Goto(p, pc)) \/ LinkNext(p)
      BY <1>7 DEF Work, CertbotSucceeds, CertbotFails, CopyFile, CopyFileFails, Unlink, Symlink
    <2>3. \E x : job' = [job EXCEPT ![p] = x]
      BY <2>2 DEF Goto, LinkNext
    <2>4. \A q \in Domain \ {p} : job'[q] = job[q]
      BY <1>3, <2>3 DEF JobTypes
    <2> QED BY <1>2, <2>1, <2>4 DEF Running
  <1>8. ASSUME StartPass \/ PassRefused \/ Crash
        PROVE  r \subseteq Running
    <2>1. \A p \in Domain : job'[p].pc \in Waiting
      BY <1>8 DEF StartPass, PassRefused, Crash, Idle, NoJob, Waiting
    <2> QED BY <1>5, <2>1
  <1>9. UNCHANGED job => r \subseteq Running
    BY <1>5
  <1>10. ASSUME Main \/ MapWriteFails \/ WildcardIssued \/ CopyServerFileFails
              \/ (\E m \in Name : Expire(m))
              \/ \E d \in Domain : WeekPasses(d) \/ Activate(d) \/ Deactivate(d)
         PROVE  r \subseteq Running
    BY <1>9, <1>10 DEF Main, WorkersDone, WritePostfixMap, WriteDovecotMap, Wake,
           CopyServerFile, MapWriteFails, WildcardIssued,
           CopyServerFileFails, Expire, WeekPasses, Activate, Deactivate
  <1>11. UNCHANGED vars => r \subseteq Running
    BY <1>9 DEF vars
  <1>12. Cardinality(r) <= CERT_WORKER_THREADS => ThreadsOK'
    BY <1>2 DEF ThreadsOK
  <1>13. ASSUME NEW p \in Domain, Work(p) \/ CopyFileFails(p)
         PROVE  Cardinality(r) <= CERT_WORKER_THREADS
    BY <1>4, <1>6, <1>7, <1>13
  <1>14. r \subseteq Running \/ Cardinality(r) <= CERT_WORKER_THREADS
    <2>1. CASE \E p \in Domain : Work(p) \/ CopyFileFails(p)
      BY <1>13, <2>1
    <2>2. CASE StartPass \/ PassRefused \/ Crash
      BY <1>8, <2>2
    <2>3. CASE Main \/ MapWriteFails \/ WildcardIssued \/ CopyServerFileFails
               \/ (\E m \in Name : Expire(m))
               \/ \E d \in Domain : WeekPasses(d) \/ Activate(d) \/ Deactivate(d)
      BY <1>10, <2>3
    <2>4. CASE UNCHANGED vars
      BY <1>11, <2>4
    <2> QED BY <2>1, <2>2, <2>3, <2>4 DEF Next
  <1> QED BY <1>4, <1>12, <1>14

LEMMA StepInvs == CertInv /\ [Next]_vars => CertInv'
  BY RowsKept, LiveKept, FilesKept, ServerKept, RestKept, JobsKept, ThreadsKept DEF CertInv

(* Every variable of the certificate manager keeps its type, however crashes, failed
   copies and changes of the domains fall: a copy in the volume is of a certificate
   of the domain's own base, a link leads to a domain of it, and no more jobs run
   than CERT_WORKER_THREADS (process_domains, _deploy_certificate). *)
THEOREM TypeCorrect == Spec => []TypeOK
  <1>1. CertInv /\ [Next]_vars => CertInv'
    BY StepInvs
  <1> QED BY <1>1, InitInv, InvTypes, PTL DEF Spec

----------------------------------------------------------------------------
(* Pairs.  While a worker is between the two files of a step, the certificates of its
   base are what the keys will be once that step is over; otherwise they are what the
   keys are. *)

(* What the certificates are, told from the keys, for the job j of p and the serial s
   of p. *)
Expected(j, key, s, p) ==
    LET d == j.group[j.i] IN
    CASE j.pc = "copy_key" -> Written(key, p, Copy(p, s))
      [] j.pc = "symlink_crt" -> Unlinked(key, d)
      [] j.pc = "unlink_key" -> Symlinked(Unlinked(key, d), p, d)
      [] j.pc = "symlink_key" -> Symlinked(key, p, d)
      [] OTHER -> key

InStep(p) == Agree(files.crt, Expected(job[p], files.key, live[p], p), Base[p])

StepInv == faults = 0 => \A p \in Domain : Quiet(p) \/ job[p].pc \notin Waiting => InStep(p)

LEMMA ExpectedElse ==
    ASSUME NEW j, NEW key, NEW s, NEW p,
           j.pc \notin {"copy_key", "symlink_crt", "unlink_key", "symlink_key"}
    PROVE  Expected(j, key, s, p) = key
  BY DEF Expected

LEMMA AgreeAgain ==
    ASSUME NEW f, NEW g, NEW h, NEW base, Agree(f, g, base), Agree(g, h, base)
    PROVE  Agree(f, h, base)
  BY DEF Agree

LEMMA ExpectedAgrees ==
    ASSUME NEW p \in Domain, NEW j, NEW s, NEW f, NEW g,
           j.pc \in Linking => j.group[j.i] \in Domain /\ Base[j.group[j.i]] = Base[p],
           Closed(f), DOMAIN f = Domain, DOMAIN g = Domain, Agree(f, g, Base[p])
    PROVE  Agree(Expected(j, f, s, p), Expected(j, g, s, p), Base[p])
  <1> DEFINE d == j.group[j.i]
  <1>1. CASE j.pc = "copy_key"
    BY <1>1, WrittenAgrees DEF Expected
  <1>2. CASE j.pc = "symlink_crt"
    BY <1>2, UnlinkedAgrees DEF Expected, Linking
  <1>3. CASE j.pc = "symlink_key"
    BY <1>3, SymlinkedAgrees DEF Expected, Linking
  <1>4. CASE j.pc = "unlink_key"
    <2>1. d \in Domain /\ Base[d] = Base[p]
      BY <1>4 DEF Linking
    <2>2. PICK x, y : x = Unlinked(f, d) /\ y = Unlinked(g, d)
      OBVIOUS
    <2>3. Agree(x, y, Base[p])
      BY <2>1, <2>2, UnlinkedAgrees
    <2>4. DOMAIN x = Domain /\ DOMAIN y = Domain /\ Closed(x)
      BY <2>2 DEF Unlinked, Closed, NoFile
    <2>5. Agree(Symlinked(x, p, d), Symlinked(y, p, d), Base[p])
      BY <2>1, <2>3, <2>4, SymlinkedAgrees
    <2>6. Expected(j, f, s, p) = Symlinked(x, p, d) /\ Expected(j, g, s, p) = Symlinked(y, p, d)
      BY <1>4, <2>2 DEF Expected
    <2> QED BY <2>5, <2>6
  <1>5. CASE j.pc \notin {"copy_key", "symlink_crt", "unlink_key", "symlink_key"}
    BY <1>5, ExpectedElse
  <1> QED BY <1>1, <1>2, <1>3, <1>4, <1>5

LEMMA SameConfined == ASSUME NEW f, NEW base PROVE Agree(f, f, base) /\ Confined(f, f, base)
  BY DEF Agree, Confined

LEMMA OneFileElse ==
    ASSUME FilesOK, NEW e \in Ext, NEW f, files' = [files EXCEPT ![e] = f]
    PROVE  /\ files'[e] = f
           /\ \A x \in Ext \ {e} : files'[x] = files[x]
  <1>1. DOMAIN files = Ext
    BY DEF FilesOK
  <1> HIDE DEF Ext
  <1> QED BY <1>1

(* Where the files are after a step of p, f and g the certificates and the keys
   before it, and h and k after. *)
Moved(p, f, g, h, k) ==
    /\ Agree(h, Expected(job'[p], k, live'[p], p), Base[p])
    /\ Confined(h, f, Base[p]) /\ Confined(k, g, Base[p])

LEMMA CopiedPair ==
    ASSUME CertInv, NEW p \in Domain, CopyFile(p), faults = 0, faults' = 0, InStep(p)
    PROVE  Moved(p, files["crt"], files["key"], files'["crt"], files'["key"])
  <1>1. PICK f : f = files["crt"]
    OBVIOUS
  <1>2. PICK g : g = files["key"]
    OBVIOUS
  <1>3. /\ FilesOK /\ JobTypes
        /\ Closed(f) /\ DOMAIN f = Domain /\ Closed(g) /\ DOMAIN g = Domain
    BY <1>1, <1>2, FilesClosed DEF CertInv, Ext, JobsOK
  <1>4. PICK c : c = Copy(p, live[p])
    OBVIOUS
  <1>5. Agree(f, Expected(job[p], g, live[p], p), Base[p])
    BY <1>1, <1>2 DEF InStep
  <1>6. live' = live
    BY DEF CopyFile
  <1>7. CASE job[p].pc = "copy_crt"
    <2>1. files' = [files EXCEPT !["crt"] = Written(f, p, c)]
      BY <1>1, <1>4, <1>7 DEF CopyFile, Deploy, Target
    <2>2. files'["crt"] = Written(f, p, c) /\ files'["key"] = g
      BY <1>2, <1>3, <2>1, OneFileElse DEF Ext
    <2>3. job'[p].pc = "copy_key"
      BY <1>3, <1>7, GotoJob DEF CopyFile, JobPc, Target
    <2>4. Agree(f, g, Base[p])
      BY <1>5, <1>7, ExpectedElse
    <2>5. /\ Agree(Written(f, p, c), Written(g, p, c), Base[p])
          /\ Confined(Written(f, p, c), f, Base[p])
      BY <1>3, <2>4, WrittenAgrees
    <2>6. Expected(job'[p], g, live'[p], p) = Written(g, p, c)
      BY <1>4, <1>6, <2>3 DEF Expected
    <2> QED BY <1>1, <1>2, <2>2, <2>5, <2>6, SameConfined DEF Moved
  <1>8. CASE job[p].pc = "copy_key"
    <2>1. files' = [files EXCEPT !["key"] = Written(g, p, c)]
      BY <1>2, <1>4, <1>8 DEF CopyFile, Deploy, Target
    <2>2. files'["key"] = Written(g, p, c) /\ files'["crt"] = f
      BY <1>1, <1>3, <2>1, OneFileElse DEF Ext
    <2>3. LinkNext(p)
      BY <1>8 DEF CopyFile
    <2>4. job'[p].pc \in {"unlink_crt", "done"}
      BY <1>3, <2>3, LinkNextJob
    <2>5. Expected(job[p], g, live[p], p) = Written(g, p, c)
      BY <1>4, <1>8 DEF Expected
    <2>6. Expected(job'[p], Written(g, p, c), live'[p], p) = Written(g, p, c)
      BY <2>4, ExpectedElse
    <2>7. Confined(Written(g, p, c), g, Base[p])
      BY <1>3, WrittenAgrees, SameConfined
    <2> QED BY <1>1, <1>2, <1>5, <2>2, <2>5, <2>6, <2>7, SameConfined DEF Moved
  <1> QED BY <1>7, <1>8 DEF CopyFile, Target

LEMMA UnlinkedPair ==
    ASSUME CertInv, NEW p \in Domain, NEW e \in Ext, Unlink(p, e), InStep(p)
    PROVE  Moved(p, files["crt"], files["key"], files'["crt"], files'["key"])
  <1>1. PICK f : f = files["crt"]
    OBVIOUS
  <1>2. PICK g : g = files["key"]
    OBVIOUS
  <1>3. /\ FilesOK /\ JobTypes
        /\ Closed(f) /\ DOMAIN f = Domain /\ Closed(g) /\ DOMAIN g = Domain
    BY <1>1, <1>2, FilesClosed DEF CertInv, Ext, JobsOK
  <1>4. job[p].pc \in Linking
    BY DEF Unlink, Linking, Ext
  <1>5. PICK d \in Domain : d = Linked(p) /\ Base[d] = Base[p]
    BY <1>4, LinkedDomain
  <1>6. Agree(f, Expected(job[p], g, live[p], p), Base[p])
    BY <1>1, <1>2 DEF InStep
  <1>7. PICK x : x = Unlinked(files[e], d)
    OBVIOUS
  <1>8. files'[e] = x /\ \A y \in Ext \ {e} : files'[y] = files[y]
    <2>1. files' = [files EXCEPT ![e] = x] \/ (files' = files /\ x = files[e])
      BY <1>5, <1>7 DEF Unlink, Unlinked
    <2> QED BY <1>3, <2>1, OneFileElse
  <1>9. PICK pc \in JobPc : Goto(p, pc) /\ pc = IF e = "crt" THEN "symlink_crt" ELSE "symlink_key"
    BY DEF Unlink, JobPc
  <1>10. job'[p].pc = pc /\ job'[p].group[job'[p].i] = d
    BY <1>3, <1>5, <1>9, GotoJob DEF Linked
  <1>11. CASE e = "crt"
    <2>1. files'["crt"] = Unlinked(f, d) /\ files'["key"] = g
      BY <1>1, <1>2, <1>7, <1>8, <1>11 DEF Ext
    <2>2. Agree(f, g, Base[p])
      BY <1>6, <1>11, ExpectedElse DEF Unlink
    <2>3. /\ Agree(Unlinked(f, d), Unlinked(g, d), Base[p])
          /\ Confined(Unlinked(f, d), f, Base[p])
      BY <1>3, <1>5, <2>2, UnlinkedAgrees
    <2>4. Expected(job'[p], g, live'[p], p) = Unlinked(g, d)
      BY <1>9, <1>10, <1>11 DEF Expected
    <2> QED BY <1>1, <1>2, <2>1, <2>3, <2>4, SameConfined DEF Moved
  <1>12. CASE e = "key"
    <2>1. files'["key"] = Unlinked(g, d) /\ files'["crt"] = f
      BY <1>1, <1>2, <1>7, <1>8, <1>12 DEF Ext
    <2>2. Expected(job[p], g, live[p], p) = Symlinked(Unlinked(g, d), p, d)
      BY <1>5, <1>12 DEF Unlink, Expected, Linked
    <2>3. Expected(job'[p], Unlinked(g, d), live'[p], p) = Symlinked(Unlinked(g, d), p, d)
      BY <1>9, <1>10, <1>12 DEF Expected
    <2>4. Confined(Unlinked(g, d), g, Base[p])
      BY <1>3, <1>5, UnlinkedAgrees, SameConfined
    <2> QED BY <1>1, <1>2, <1>6, <2>1, <2>2, <2>3, <2>4, SameConfined DEF Moved
  <1> QED BY <1>11, <1>12 DEF Ext

LEMMA SymlinkedPair ==
    ASSUME CertInv, NEW p \in Domain, NEW e \in Ext, Symlink(p, e), InStep(p)
    PROVE  Moved(p, files["crt"], files["key"], files'["crt"], files'["key"])
  <1>1. PICK f : f = files["crt"]
    OBVIOUS
  <1>2. PICK g : g = files["key"]
    OBVIOUS
  <1>3. /\ FilesOK /\ JobTypes
        /\ Closed(f) /\ DOMAIN f = Domain /\ Closed(g) /\ DOMAIN g = Domain
    BY <1>1, <1>2, FilesClosed DEF CertInv, Ext, JobsOK
  <1>4. job[p].pc \in Linking
    BY DEF Symlink, Linking, Ext
  <1>5. PICK d \in Domain : d = Linked(p) /\ Base[d] = Base[p]
    BY <1>4, LinkedDomain
  <1>6. Agree(f, Expected(job[p], g, live[p], p), Base[p])
    BY <1>1, <1>2 DEF InStep
  <1>7. PICK x : x = Symlinked(files[e], p, d)
    OBVIOUS
  <1>8. files'[e] = x /\ \A y \in Ext \ {e} : files'[y] = files[y]
    <2>1. files' = [files EXCEPT ![e] = x] \/ (files' = files /\ x = files[e])
      BY <1>5, <1>7 DEF Symlink, Symlinked
    <2> QED BY <1>3, <2>1, OneFileElse
  <1>9. LinkNext(p) => job'[p].pc \in {"unlink_crt", "done"}
    BY <1>3, LinkNextJob
  <1>10. CASE e = "crt"
    <2>1. files'["crt"] = Symlinked(f, p, d) /\ files'["key"] = g
      BY <1>1, <1>2, <1>7, <1>8, <1>10 DEF Ext
    <2>2. Expected(job[p], g, live[p], p) = Unlinked(g, d)
      BY <1>5, <1>10 DEF Symlink, Expected, Linked
    <2>3. PICK u : u = Unlinked(g, d)
      OBVIOUS
    <2>4. Agree(f, u, Base[p]) /\ DOMAIN u = Domain
      BY <1>3, <1>6, <2>2, <2>3 DEF Unlinked
    <2>5. /\ Agree(Symlinked(f, p, d), Symlinked(u, p, d), Base[p])
          /\ Confined(Symlinked(f, p, d), f, Base[p])
      BY <1>3, <1>5, <2>4, SymlinkedAgrees
    <2>6. CASE Exists(f, p) /\ f[d] # NoFile
      <3>1. job'[p].pc \in {"unlink_crt", "done"}
        BY <1>1, <1>5, <1>9, <1>10, <2>6 DEF Symlink
      <3>2. Symlinked(f, p, d) = f
        BY <2>6 DEF Symlinked
      <3>3. f[d] = u[d]
        BY <1>5, <2>4 DEF Agree
      <3>4. u = g
        BY <1>3, <1>5, <2>3, <2>6, <3>3 DEF Unlinked
      <3>5. Expected(job'[p], g, live'[p], p) = g
        BY <3>1, ExpectedElse
      <3> QED BY <1>1, <1>2, <2>1, <2>4, <3>2, <3>4, <3>5, SameConfined DEF Moved
    <2>7. CASE ~(Exists(f, p) /\ f[d] # NoFile)
      <3>1. Goto(p, "unlink_key")
        BY <1>1, <1>5, <1>10, <2>7 DEF Symlink
      <3>2. job'[p].pc = "unlink_key" /\ job'[p].group[job'[p].i] = d
        BY <1>3, <1>5, <3>1, GotoJob DEF Linked, JobPc
      <3>3. Expected(job'[p], g, live'[p], p) = Symlinked(u, p, d)
        BY <2>3, <3>2 DEF Expected
      <3> QED BY <1>1, <1>2, <2>1, <2>5, <3>3, SameConfined DEF Moved
    <2> QED BY <2>6, <2>7
  <1>11. CASE e = "key"
    <2>1. files'["key"] = Symlinked(g, p, d) /\ files'["crt"] = f
      BY <1>1, <1>2, <1>7, <1>8, <1>11 DEF Ext
    <2>2. Expected(job[p], g, live[p], p) = Symlinked(g, p, d)
      BY <1>5, <1>11 DEF Symlink, Expected, Linked
    <2>3. Expected(job'[p], Symlinked(g, p, d), live'[p], p) = Symlinked(g, p, d)
      BY <1>9, <1>11, ExpectedElse DEF Symlink
    <2>4. Confined(Symlinked(g, p, d), g, Base[p])
      BY <1>3, <1>5, SymlinkedAgrees, SameConfined
    <2> QED BY <1>1, <1>2, <1>6, <2>1, <2>2, <2>3, <2>4, SameConfined DEF Moved
  <1> QED BY <1>10, <1>11 DEF Ext

(* No step of a worker of another base, and nothing else, disturbs a pair. *)
LEMMA Undisturbed ==
    ASSUME CertInv, NEW p \in Domain, InStep(p), job'[p] = job[p], live'[p] = live[p],
           Agree(files["crt"], files'["crt"], Base[p]),
           Agree(files["key"], files'["key"], Base[p]), FilesOK'
    PROVE  InStep(p)'
  <1>1. PICK f, g : f = files["crt"] /\ g = files["key"]
    OBVIOUS
  <1>2. PICK h, k : h = files'["crt"] /\ k = files'["key"]
    OBVIOUS
  <1>3. PICK j, s : j = job[p] /\ s = live[p]
    OBVIOUS
  <1>4. Closed(f) /\ DOMAIN f = Domain /\ Closed(g) /\ DOMAIN g = Domain
    BY <1>1, FilesClosed DEF CertInv, Ext
  <1>5. DOMAIN k = Domain
    BY <1>2 DEF FilesOK, Ext
  <1>6. j.pc \in Linking => j.group[j.i] \in Domain /\ Base[j.group[j.i]] = Base[p]
    BY <1>3, LinkedDomain DEF Linked
  <1>7. Agree(g, k, Base[p]) /\ Agree(h, f, Base[p])
    BY <1>1, <1>2 DEF Agree
  <1>8. Agree(Expected(j, g, s, p), Expected(j, k, s, p), Base[p])
    BY <1>4, <1>5, <1>6, <1>7, ExpectedAgrees
  <1>9. Agree(f, Expected(j, g, s, p), Base[p])
    BY <1>1, <1>3 DEF InStep
  <1>10. Agree(h, Expected(j, k, s, p), Base[p])
    BY <1>7, <1>8, <1>9, AgreeAgain
  <1> QED BY <1>2, <1>3, <1>10 DEF InStep

LEMMA WorkedPairs ==
    ASSUME CertInv, StepInv, NEW p \in Domain, Work(p), faults = 0, faults' = 0, FilesOK'
    PROVE  StepInv'
  <1>1. PICK f, g : f = files["crt"] /\ g = files["key"]
    OBVIOUS
  <1>2. PICK h, k : h = files'["crt"] /\ k = files'["key"]
    OBVIOUS
  <1>3. job[p].pc \notin Over
    BY DEF Work, TakeJob, CertbotSucceeds, CertbotFails, CopyFile, Unlink, Symlink, Target, Over
  <1>4. \A q \in Domain : q # p /\ Base[q] = Base[p] => job[q].pc = "none"
    BY <1>3 DEF CertInv, JobsOK, OneOfBase, Over
  <1>5. InStep(p)
    <2>1. Quiet(p) \/ job[p].pc \notin Waiting
      BY <1>4 DEF Quiet, Waiting
    <2> QED BY <2>1 DEF StepInv
  <1>6. JobTypes
    BY DEF CertInv, JobsOK
  <1>7. \A q \in Domain \ {p} : job'[q] = job[q]
    <2>1. \E x : job' = [job EXCEPT ![p] = x]
      BY DEF Work, TakeJob, CertbotSucceeds, CertbotFails, CopyFile, Unlink, Symlink,
             Goto, LinkNext
    <2> QED BY <1>6, <2>1 DEF JobTypes
  <1>8. \A q \in Domain \ {p} : live'[q] = live[q]
    BY IssuedLive DEF CertInv, Work, TakeJob, CertbotSucceeds, CertbotFails, CopyFile,
           Unlink, Symlink, Name
  <1>9. Moved(p, f, g, h, k)
    <2>1. CASE TakeJob(p) \/ CertbotSucceeds(p) \/ CertbotFails(p)
      <3>1. files' = files
        BY <2>1 DEF TakeJob, CertbotSucceeds, CertbotFails, volume
      <3>2. job[p].pc \in {"queued", "certbot"}
        BY <2>1 DEF TakeJob, CertbotSucceeds, CertbotFails
      <3>3. job'[p].pc \in {"certbot", "copy_crt", "failed"}
        BY <1>6, <2>1, GotoJob DEF TakeJob, CertbotSucceeds, CertbotFails, JobPc, Target, Waiting
      <3>4. /\ Expected(job[p], g, live[p], p) = g
            /\ Expected(job'[p], g, live'[p], p) = g
        BY <3>2, <3>3, ExpectedElse
      <3>5. Agree(f, g, Base[p])
        BY <1>1, <1>5, <3>4 DEF InStep
      <3> QED BY <1>1, <1>2, <3>1, <3>4, <3>5, SameConfined DEF Moved
    <2>2. CASE CopyFile(p)
      BY <1>1, <1>2, <1>5, <2>2, CopiedPair
    <2>3. ASSUME NEW e \in Ext, Unlink(p, e) \/ Symlink(p, e)
          PROVE  Moved(p, f, g, h, k)
      BY <1>1, <1>2, <1>5, <2>3, UnlinkedPair, SymlinkedPair
    <2> QED BY <2>1, <2>2, <2>3 DEF Work
  <1>10. ASSUME NEW q \in Domain, (Quiet(q) \/ job[q].pc \notin Waiting)'
         PROVE  InStep(q)'
    <2>1. CASE Base[q] # Base[p]
      <3>1. job'[q] = job[q] /\ live'[q] = live[q]
        BY <1>7, <1>8, <2>1
      <3>2. Quiet(q) \/ job[q].pc \notin Waiting
        <4>1. \A x \in Domain : Base[x] = Base[q] => job'[x] = job[x]
          BY <1>7, <2>1
        <4> QED BY <1>10, <3>1, <4>1 DEF Quiet
      <3>3. InStep(q)
        BY <3>2 DEF StepInv
      <3>4. Agree(f, h, Base[q]) /\ Agree(g, k, Base[q])
        BY <1>9, <2>1 DEF Moved, Confined, Agree
      <3> QED BY <1>1, <1>2, <3>1, <3>3, <3>4, Undisturbed
    <2>2. CASE q = p
      BY <1>2, <1>9, <2>2 DEF Moved, InStep
    <2>3. CASE Base[q] = Base[p] /\ q # p
      <3>1. job'[q].pc = "none"
        BY <1>4, <1>7, <2>3
      <3>2. job'[p].pc \in Waiting
        BY <1>10, <2>3, <3>1 DEF Quiet, Waiting
      <3>3. /\ Expected(job'[p], k, live'[p], p) = k
            /\ Expected(job'[q], k, live'[q], q) = k
        BY <3>1, <3>2, ExpectedElse DEF Waiting
      <3>4. Agree(h, k, Base[q])
        BY <1>9, <2>3, <3>3 DEF Moved
      <3> QED BY <1>2, <3>3, <3>4 DEF InStep
    <2> QED BY <2>1, <2>2, <2>3
  <1> QED BY <1>10 DEF StepInv

LEMMA FaultsGrow ==
    ASSUME CertInv, [Next]_vars, faults' = 0
    PROVE  /\ faults = 0
           /\ \A p \in Domain : ~CopyFileFails(p)
           /\ ~Crash /\ ~CopyServerFileFails /\ ~MapWriteFails
  <1>1. faults \in Nat
    BY NumberAssumption DEF CertInv, RestOK
  <1>2. UNCHANGED faults \/ faults' = faults + 1
    BY DEF Next, Main, Work, PassRefused, StartPass, WorkersDone, WritePostfixMap,
           WriteDovecotMap, MapWriteFails, Wake, WildcardIssued, CopyServerFile,
           CopyServerFileFails, TakeJob, CertbotSucceeds, CertbotFails, CopyFile,
           CopyFileFails, Unlink, Symlink, Crash, WeekPasses, Expire, Activate,
           Deactivate, Book, vars
  <1>3. faults = 0
    BY <1>1, <1>2
  <1> QED BY <1>3 DEF CopyFileFails, Crash, CopyServerFileFails, MapWriteFails

LEMMA PairsKept == CertInv /\ StepInv /\ [Next]_vars => StepInv'
  <1> SUFFICES ASSUME CertInv, StepInv, [Next]_vars, faults' = 0
               PROVE  StepInv'
    BY DEF StepInv
  <1>1. /\ faults = 0 /\ FilesOK'
        /\ \A p \in Domain : ~CopyFileFails(p)
        /\ ~Crash /\ ~CopyServerFileFails /\ ~MapWriteFails
    BY FaultsGrow, FilesKept
  <1>2. CASE \E p \in Domain : Work(p)
    BY <1>1, <1>2, WorkedPairs
  <1>3. CASE StartPass \/ PassRefused
    <2>1. phase # "issue" /\ UNCHANGED <<files, live>>
      BY <1>3 DEF StartPass, PassRefused, volume
    <2>2. \A p \in Domain : job[p].pc \in Over
      BY <2>1 DEF CertInv, JobsOK
    <2>3. \A p \in Domain : job'[p].pc \in {"none", "queued"}
      BY <1>3 DEF StartPass, PassRefused, Idle, NoJob
    <2>4. ASSUME NEW p \in Domain
          PROVE  InStep(p)'
      <3>1. InStep(p)
        BY <1>1, <2>2 DEF StepInv, Quiet, Over, Waiting
      <3>2. /\ Expected(job[p], files["key"], live[p], p) = files["key"]
            /\ Expected(job'[p], files'["key"], live'[p], p) = files["key"]
        BY <2>1, <2>2, <2>3, ExpectedElse DEF Over
      <3> QED BY <2>1, <3>1, <3>2 DEF InStep
    <2> QED BY <2>4 DEF StepInv
  <1>4. ASSUME UNCHANGED <<files, job>>, \A p \in Domain : live'[p] = live[p]
        PROVE  StepInv'
    <2>1. ASSUME NEW p \in Domain, InStep(p)
          PROVE  InStep(p)'
      BY <1>1, <1>4, <2>1, Undisturbed, SameConfined
    <2> QED BY <1>1, <1>4, <2>1 DEF StepInv, Quiet
  <1>5. CASE Main \/ WildcardIssued
    <2>1. UNCHANGED <<files, job>>
      BY <1>5 DEF Main, WorkersDone, WritePostfixMap, WriteDovecotMap, Wake,
             CopyServerFile, WildcardIssued, volume
    <2>2. \A p \in Domain : live'[p] = live[p]
      BY <1>5, IssuedLive, NameAssumption DEF CertInv, Main, WorkersDone, WritePostfixMap,
             WriteDovecotMap, Wake, CopyServerFile, WildcardIssued, Name
    <2> QED BY <1>4, <2>1, <2>2
  <1>6. UNCHANGED <<files, job, live>> => StepInv'
    BY <1>4
  <1>7. ASSUME NEW n \in Name, Expire(n)
        PROVE  StepInv'
    BY <1>6, <1>7 DEF Expire, volume
  <1>8. ASSUME NEW d \in Domain, WeekPasses(d) \/ Activate(d) \/ Deactivate(d)
        PROVE  StepInv'
    BY <1>6, <1>8 DEF WeekPasses, Activate, Deactivate, volume
  <1>9. UNCHANGED vars => StepInv'
    BY <1>6 DEF vars, volume
  <1> QED BY <1>1, <1>2, <1>3, <1>5, <1>7, <1>8, <1>9 DEF Next

LEMMA InitPairs == Init => StepInv
  <1> SUFFICES ASSUME Init, NEW p \in Domain
               PROVE  InStep(p)
    BY DEF StepInv
  <1>1. files["crt"] = files["key"]
    BY DEF Init, Ext
  <1>2. Expected(job[p], files["key"], live[p], p) = files["key"]
    BY ExpectedElse DEF Init, Idle, NoJob
  <1> QED BY <1>1, <1>2 DEF InStep, Agree

LEMMA PairsFollow == CertInv /\ StepInv => PairsMatch
  <1> SUFFICES ASSUME CertInv, StepInv, faults = 0, NEW d \in Domain, Quiet(d)
               PROVE  Content(files.crt, d) = Content(files.key, d)
    BY DEF PairsMatch
  <1>1. InStep(d) /\ job[d].pc \in Waiting
    BY DEF StepInv, Quiet
  <1>2. Expected(job[d], files["key"], live[d], d) = files["key"]
    BY <1>1, ExpectedElse DEF Waiting
  <1>3. Agree(files["crt"], files["key"], Base[d]) /\ Closed(files["crt"])
    BY <1>1, <1>2, FilesClosed DEF InStep, CertInv, Ext
  <1> QED BY <1>3, ExistsAgrees

(* Whatever the domains, their bases and the number of workers, the certificate and
   the key that a domain's names lead to are of one order whenever no worker is on
   its group, as long as no copy failed and nothing crashed: copying over a link
   writes where the link of the other file leads too, and linking skips the same
   domains for both files (_deploy_certificate, _link_certificate). *)
THEOREM PairsCorrect == Spec => []PairsMatch
  <1>1. CertInv /\ StepInv /\ [Next]_vars => (CertInv /\ StepInv)'
    BY StepInvs, PairsKept
  <1> QED BY <1>1, InitInv, InitPairs, PairsFollow, PTL DEF Spec

----------------------------------------------------------------------------
(* Maps.  Every pair is listed as long as no worker of the pass has copied anything,
   and again when both maps are written. *)

Early == {"none", "queued", "certbot", "failed"}
AllListed == \A d \in Domain : Paired(d) => d \in maps.postfix /\ d \in maps.dovecot

MapsInv ==
    faults = 0 =>
        /\ phase \in {"sleep", "process"} \cup DOMAIN CopyOf => AllListed
        /\ phase = "issue" /\ (\A p \in Domain : job[p].pc \in Early) => AllListed
        /\ phase = "dovecot_map" => \A d \in Domain : Paired(d) => d \in maps.postfix

LEMMA PairedListed ==
    ASSUME NEW d \in Domain, Paired(d)
    PROVE  d \in Listed
  BY ExistsIsThere DEF Paired, Listed, Exists

(* What the maps lack does not change unless files or maps do. *)
LEMMA ListedStill == UNCHANGED <<files, maps>> => (AllListed' <=> AllListed)
  BY DEF AllListed, Paired

LEMMA WorkedMaps ==
    ASSUME CertInv, MapsInv, NEW p \in Domain, Work(p), faults = 0
    PROVE  MapsInv'
  <1>1. JobTypes /\ job[p].pc \notin Over
    BY DEF CertInv, JobsOK, Work, TakeJob, CertbotSucceeds, CertbotFails, CopyFile,
           Unlink, Symlink, Target, Over
  <1>2. phase = "issue" /\ UNCHANGED <<phase, maps>>
    BY <1>1, AtWork DEF Work, TakeJob, CertbotSucceeds, CertbotFails, CopyFile, Unlink,
           Symlink, volume
  <1>3. ASSUME \A q \in Domain : job'[q].pc \in Early
        PROVE  AllListed'
    <2>1. TakeJob(p) \/ CertbotFails(p)
      <3>1. ASSUME LinkNext(p)
            PROVE  FALSE
        BY <1>1, <1>3, <3>1, LinkNextJob DEF Early
      <3>2. ASSUME NEW pc \in JobPc \ Early, Goto(p, pc)
            PROVE  FALSE
        BY <1>1, <1>3, <3>2, GotoJob
      <3>3. /\ "copy_crt" \in JobPc \ Early /\ "copy_key" \in JobPc \ Early
            /\ "symlink_crt" \in JobPc \ Early /\ "symlink_key" \in JobPc \ Early
            /\ "unlink_key" \in JobPc \ Early
        BY DEF JobPc, Early, Target
      <3>4. ~CertbotSucceeds(p) /\ ~CopyFile(p)
        BY <3>1, <3>2, <3>3 DEF CertbotSucceeds, CopyFile
      <3>5. ASSUME NEW e \in Ext, Unlink(p, e) \/ Symlink(p, e)
            PROVE  FALSE
        BY <3>1, <3>2, <3>3, <3>5 DEF Unlink, Symlink
      <3> QED BY <3>4, <3>5 DEF Work
    <2>2. job[p].pc \in Early /\ UNCHANGED <<files, maps>>
      BY <2>1 DEF TakeJob, CertbotFails, Early, volume
    <2>3. \A q \in Domain \ {p} : job'[q] = job[q]
      <3>1. \E x : job' = [job EXCEPT ![p] = x]
        BY <2>1 DEF TakeJob, CertbotFails, Goto
      <3> QED BY <1>1, <3>1 DEF JobTypes
    <2>4. \A q \in Domain : job[q].pc \in Early
      BY <1>3, <2>2, <2>3
    <2> QED BY <1>2, <2>2, <2>4, ListedStill DEF MapsInv
  <1> QED BY <1>2, <1>3 DEF MapsInv, CopyOf

LEMMA MapsKept == CertInv /\ MapsInv /\ [Next]_vars => MapsInv'
  <1> SUFFICES ASSUME CertInv, MapsInv, [Next]_vars, faults' = 0
               PROVE  MapsInv'
    BY DEF MapsInv
  <1>1. /\ faults = 0
        /\ \A p \in Domain : ~CopyFileFails(p)
        /\ ~Crash /\ ~CopyServerFileFails /\ ~MapWriteFails
    BY FaultsGrow
  <1>2. /\ phase \in {"sleep", "process"} \cup DOMAIN CopyOf => AllListed
        /\ phase = "issue" /\ (\A p \in Domain : job[p].pc \in Early) => AllListed
        /\ phase = "dovecot_map" => \A d \in Domain : Paired(d) => d \in maps.postfix
    BY <1>1 DEF MapsInv
  <1>3. CASE StartPass \/ PassRefused \/ Wake \/ WildcardIssued \/ CopyServerFile
    <2>1. /\ UNCHANGED <<files, maps>>
          /\ phase \in {"sleep", "process"} \cup DOMAIN CopyOf
      BY <1>3 DEF StartPass, PassRefused, Wake, WildcardIssued, CopyServerFile, volume
    <2>2. phase' # "dovecot_map"
      BY <1>3 DEF StartPass, PassRefused, Wake, WildcardIssued, CopyServerFile, NextCopy, CopyOf
    <2> QED BY <1>2, <2>1, <2>2, ListedStill DEF MapsInv
  <1>4. CASE WorkersDone
    <2>1. CASE \E p \in Domain : job[p].pc = "done"
      <3>1. phase' = "postfix_map"
        BY <1>4, <2>1 DEF WorkersDone
      <3> QED BY <3>1 DEF MapsInv, CopyOf
    <2>2. CASE ~\E p \in Domain : job[p].pc = "done"
      <3>1. phase = "issue" /\ phase' = "sleep" /\ UNCHANGED <<files, maps>>
        BY <1>4, <2>2 DEF WorkersDone, volume
      <3>2. \A p \in Domain : job[p].pc \in Early
        BY <1>4, <2>2 DEF WorkersDone, Early
      <3> QED BY <1>2, <3>1, <3>2, ListedStill DEF MapsInv
    <2> QED BY <2>1, <2>2
  <1>5. maps \in [postfix : SUBSET Domain, dovecot : SUBSET Domain]
    BY DEF CertInv, RestOK
  <1>6. CASE WritePostfixMap
    <2>1. UNCHANGED files
      BY <1>6 DEF WritePostfixMap
    <2>2. CASE Listed = {}
      <3>1. phase' = "sleep"
        BY <1>6, <2>2 DEF WritePostfixMap
      <3>2. AllListed'
        <4>1. \A d \in Domain : ~Paired(d)
          BY <2>2, PairedListed
        <4> QED BY <2>1, <4>1 DEF AllListed, Paired
      <3> QED BY <3>1, <3>2 DEF MapsInv
    <2>3. CASE Listed # {}
      <3>1. phase' = "dovecot_map" /\ maps'.postfix = Listed
        BY <1>5, <1>6, <2>3 DEF WritePostfixMap
      <3>2. \A d \in Domain : Paired(d)' => d \in maps'.postfix
        BY <2>1, <3>1, PairedListed DEF Paired
      <3> QED BY <3>1, <3>2 DEF MapsInv, CopyOf
    <2> QED BY <2>2, <2>3
  <1>7. CASE WriteDovecotMap
    <2>1. phase = "dovecot_map" /\ phase' = "sleep" /\ UNCHANGED files
      BY <1>7 DEF WriteDovecotMap
    <2>2. maps'.dovecot = Listed /\ maps'.postfix = maps.postfix
      BY <1>5, <1>7 DEF WriteDovecotMap
    <2>3. AllListed'
      BY <1>2, <2>1, <2>2, PairedListed DEF AllListed, Paired
    <2> QED BY <2>1, <2>3 DEF MapsInv
  <1>8. UNCHANGED <<files, maps, phase, job>> => MapsInv'
    BY <1>2, ListedStill DEF MapsInv, Paired
  <1>9. ASSUME NEW n \in Name, Expire(n)
        PROVE  MapsInv'
    BY <1>8, <1>9 DEF Expire, volume
  <1>10. ASSUME NEW d \in Domain, WeekPasses(d) \/ Activate(d) \/ Deactivate(d)
         PROVE  MapsInv'
    BY <1>8, <1>10 DEF WeekPasses, Activate, Deactivate, volume
  <1>11. UNCHANGED vars => MapsInv'
    BY <1>8 DEF vars, volume
  <1>12. CASE \E p \in Domain : Work(p)
    BY <1>1, <1>12, WorkedMaps
  <1> QED BY <1>1, <1>3, <1>4, <1>6, <1>7, <1>9, <1>10, <1>11, <1>12 DEF Next, Main

LEMMA InitMaps == Init => MapsInv
  <1> SUFFICES ASSUME Init, NEW d \in Domain, Paired(d)
               PROVE  FALSE
    BY DEF MapsInv, AllListed
  <1>1. files["crt"][d] = NoFile
    BY DEF Init, Ext
  <1> QED BY <1>1, ExistsIsThere DEF Paired

LEMMA MapsFollow == MapsInv => MapsListEveryPair
  BY DEF MapsInv, MapsListEveryPair, AllListed

(* Whatever the domains and the workers, between two passes every domain with a pair
   is in both SNI maps as long as nothing failed: a pass that copied something
   rebuilds them, and the others left the volume alone (process_domains,
   _update_sni_maps). *)
THEOREM MapsCorrect == Spec => []MapsListEveryPair
  <1>1. CertInv /\ MapsInv /\ [Next]_vars => (CertInv /\ MapsInv)'
    BY StepInvs, MapsKept
  <1> QED BY <1>1, InitInv, InitMaps, MapsFollow, PTL DEF Spec

===============================================================================
