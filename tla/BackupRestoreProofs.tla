-------------------------- MODULE BackupRestoreProofs --------------------------
(* Proofs about BackupRestore, for any rows, messages and directories, any number of
   backups, restores, changes, rotations and failures. *)
EXTENDS BackupRestore, SequenceTheorems, WellFoundedInduction, TLAPS

----------------------------------------------------------------------------
(* Induction, as a fact about a set of numbers. *)

LEMMA Least ==
    ASSUME NEW T, T \subseteq Nat, T # {}
    PROVE  \E m \in T : \A n \in T : m <= n
  <1>1. PICK m \in T : \A n \in T : <<n, m>> \notin OpToRel(<, Nat)
    BY WFMin, NatLessThanWellFounded
  <1>2. \A n \in T : ~(n < m)
    BY <1>1 DEF OpToRel
  <1> QED BY <1>2

LEMMA SetInduction ==
    ASSUME NEW T, 0 \in T, \A n \in Nat : n \in T => n + 1 \in T
    PROVE  Nat \subseteq T
  <1> SUFFICES ASSUME Nat \ T # {}
               PROVE  FALSE
    OBVIOUS
  <1>1. PICK m \in Nat \ T : \A n \in Nat \ T : m <= n
    BY Least
  <1>2. m # 0 /\ m - 1 \in Nat /\ m - 1 \in T
    BY <1>1
  <1> QED BY <1>1, <1>2

----------------------------------------------------------------------------
(* What a replay of events gives.  The function in Replay is opened once; the rest
   speaks of a trace, the rows between the first d events. *)

Advanced(x, e, n) ==
    IF x.done = n - 1 /\ Fits(e, x.rows) THEN [rows |-> Changed(e, x.rows), done |-> n] ELSE x

Replayed(rows, events, k, at) ==
    at = [n \in 0..k |-> IF n = 0 THEN [rows |-> rows, done |-> 0]
                         ELSE Advanced(at[n - 1], events[n], n)]

Replaying(rows, events) == CHOOSE at : Replayed(rows, events, Len(events), at)

LEMMA ReplayIs ==
    ASSUME NEW rows, NEW events
    PROVE  Replay(rows, events) = Replaying(rows, events)[Len(events)]
  BY DEF Replay, Replaying, Replayed, Advanced

LEMMA ReplayedExists ==
    ASSUME NEW rows, NEW events
    PROVE  \A k \in Nat : \E at : Replayed(rows, events, k, at)
  <1> DEFINE T == {k \in Nat : \E at : Replayed(rows, events, k, at)}
             Start == [rows |-> rows, done |-> 0]
             On(x, n) == Advanced(x, events[n], n)
  <1>1. 0 \in T
    <2>1. Replayed(rows, events, 0, [n \in 0..0 |-> Start])
      BY DEF Replayed
    <2> QED BY <2>1
  <1>2. ASSUME NEW k \in Nat, k \in T
        PROVE  k + 1 \in T
    <2>1. PICK at : Replayed(rows, events, k, at)
      BY <1>2
    <2>2. \A n \in 0..k : at[n] = IF n = 0 THEN Start ELSE On(at[n - 1], n)
      BY <2>1 DEF Replayed
    <2> DEFINE to == [n \in 0..k + 1 |-> IF n = k + 1 THEN On(at[k], n) ELSE at[n]]
    <2>3. \A n \in 0..k : to[n] = at[n]
      OBVIOUS
    <2>4. to[k + 1] = On(at[k], k + 1)
      OBVIOUS
    <2>5. DOMAIN to = 0..k + 1 /\ to = [n \in 0..k + 1 |-> to[n]]
      OBVIOUS
    <2> HIDE DEF to, On, Start
    <2>6. \A n \in 0..k + 1 : to[n] = IF n = 0 THEN Start ELSE On(to[n - 1], n)
      <3> SUFFICES ASSUME NEW n \in 0..k + 1, n # 0
                   PROVE  to[n] = On(to[n - 1], n)
        BY <2>2, <2>3
      <3>1. CASE n = k + 1
        BY <2>3, <2>4, <3>1
      <3>2. CASE n # k + 1
        <4>1. n \in 0..k /\ n - 1 \in 0..k
          BY <3>2
        <4> QED BY <2>2, <2>3, <4>1
      <3> QED BY <3>1, <3>2
    <2>7. Replayed(rows, events, k + 1, to)
      BY <2>5, <2>6 DEF Replayed, On, Start
    <2> QED BY <2>7
  <1> HIDE DEF T
  <1>3. Nat \subseteq T
    BY <1>1, <1>2, SetInduction
  <1> QED BY <1>3 DEF T

LEMMA ReplaySteps ==
    ASSUME NEW rows, NEW events, NEW k \in Nat, k = Len(events)
    PROVE  \E at : /\ at[0] = [rows |-> rows, done |-> 0]
                   /\ \A n \in 1..k : at[n] = Advanced(at[n - 1], events[n], n)
                   /\ Replay(rows, events) = at[k]
  <1>1. PICK at : at = Replaying(rows, events)
    OBVIOUS
  <1>2. Replayed(rows, events, k, at)
    BY <1>1, ReplayedExists DEF Replaying
  <1>3. \A n \in 0..k : at[n] = IF n = 0 THEN [rows |-> rows, done |-> 0]
                                ELSE Advanced(at[n - 1], events[n], n)
    BY <1>2 DEF Replayed
  <1> QED BY <1>1, <1>3, ReplayIs

(* t is the rows before and after each of the first d events. *)
Trace(t, r, events, d, s) ==
    /\ t \in [0..d -> SUBSET Row]
    /\ t[0] = r /\ t[d] = s
    /\ \A n \in 1..d : Fits(events[n], t[n - 1]) /\ t[n] = Changed(events[n], t[n - 1])

ReplaysTo(r, events, d, s) == \E t : Trace(t, r, events, d, s)
Replays(r, events, s) == ReplaysTo(r, events, Len(events), s)

LEMMA ReplayFollowsTrace ==
    ASSUME NEW r, NEW events, NEW s, Len(events) \in Nat, Replays(r, events, s)
    PROVE  Replay(r, events) = [rows |-> s, done |-> Len(events)]
  <1>1. PICK k \in Nat : k = Len(events)
    OBVIOUS
  <1>2. PICK at : /\ at[0] = [rows |-> r, done |-> 0]
                  /\ \A n \in 1..k : at[n] = Advanced(at[n - 1], events[n], n)
                  /\ Replay(r, events) = at[k]
    BY <1>1, ReplaySteps
  <1>3. PICK t : Trace(t, r, events, k, s)
    BY <1>1 DEF Replays, ReplaysTo
  <1> DEFINE T == {n \in Nat : n <= k => at[n] = [rows |-> t[n], done |-> n]}
  <1>4. 0 \in T
    BY <1>2, <1>3 DEF Trace
  <1>5. ASSUME NEW n \in Nat, n \in T
        PROVE  n + 1 \in T
    <2> SUFFICES ASSUME n + 1 <= k
                 PROVE  at[n + 1] = [rows |-> t[n + 1], done |-> n + 1]
      OBVIOUS
    <2>1. n + 1 \in 1..k /\ (n + 1) - 1 = n
      OBVIOUS
    <2>2. at[n] = [rows |-> t[n], done |-> n]
      BY <1>5
    <2>3. at[n + 1] = Advanced(at[n], events[n + 1], n + 1)
      BY <1>2, <2>1
    <2>4. Fits(events[n + 1], t[n]) /\ t[n + 1] = Changed(events[n + 1], t[n])
      BY <1>3, <2>1 DEF Trace
    <2> QED BY <2>1, <2>2, <2>3, <2>4 DEF Advanced
  <1> HIDE DEF T
  <1>6. k \in T
    BY <1>4, <1>5, SetInduction
  <1>7. at[k] = [rows |-> t[k], done |-> k]
    BY <1>6 DEF T
  <1> QED BY <1>1, <1>2, <1>3, <1>7 DEF Trace

LEMMA EventFields ==
    ASSUME NEW e \in Event
    PROVE  /\ e.ddl \in BOOLEAN /\ e.of \subseteq Row /\ e.before \subseteq Row /\ e.new \subseteq Row
           /\ \A rows \in SUBSET Row : Changed(e, rows) \in SUBSET Row
  BY DEF Event, Changed

LEMMA TraceGrows ==
    ASSUME NEW r, NEW events, NEW d \in Nat, NEW s, ReplaysTo(r, events, d, s),
           events[d + 1] \in Event, Fits(events[d + 1], s)
    PROVE  ReplaysTo(r, events, d + 1, Changed(events[d + 1], s))
  <1>1. PICK t : Trace(t, r, events, d, s)
    BY DEF ReplaysTo
  <1>2. PICK u : u = Changed(events[d + 1], s)
    OBVIOUS
  <1>3. s \in SUBSET Row /\ u \in SUBSET Row
    BY <1>1, <1>2, EventFields DEF Trace
  <1> DEFINE v == [n \in 0..d + 1 |-> IF n = d + 1 THEN u ELSE t[n]]
  <1>4. v \in [0..d + 1 -> SUBSET Row] /\ v[d + 1] = u /\ \A n \in 0..d : v[n] = t[n]
    BY <1>1, <1>3 DEF Trace
  <1> HIDE DEF v
  <1>5. ASSUME NEW n \in 1..d + 1
        PROVE  Fits(events[n], v[n - 1]) /\ v[n] = Changed(events[n], v[n - 1])
    <2>1. CASE n = d + 1
      BY <1>1, <1>2, <1>4, <2>1 DEF Trace
    <2>2. CASE n # d + 1
      <3>1. n \in 1..d /\ n \in 0..d /\ n - 1 \in 0..d
        BY <2>2
      <3> QED BY <1>1, <1>4, <3>1 DEF Trace
    <2> QED BY <2>1, <2>2
  <1>6. v[0] = r
    BY <1>1, <1>4 DEF Trace
  <1>7. Trace(v, r, events, d + 1, u)
    BY <1>4, <1>5, <1>6 DEF Trace
  <1> QED BY <1>2, <1>7 DEF ReplaysTo

LEMMA ReplayHasTrace ==
    ASSUME NEW r \in SUBSET Row, NEW events \in Seq(Event)
    PROVE  /\ Replay(r, events).done \in 0..Len(events)
           /\ ReplaysTo(r, events, Replay(r, events).done, Replay(r, events).rows)
  <1>1. PICK k \in Nat : k = Len(events)
    OBVIOUS
  <1>2. PICK at : /\ at[0] = [rows |-> r, done |-> 0]
                  /\ \A n \in 1..k : at[n] = Advanced(at[n - 1], events[n], n)
                  /\ Replay(r, events) = at[k]
    BY <1>1, ReplaySteps
  <1> DEFINE Good(n) == at[n].done \in 0..n /\ ReplaysTo(r, events, at[n].done, at[n].rows)
             T == {n \in Nat : n <= k => Good(n)}
  <1>3. 0 \in T
    <2>1. Trace([n \in 0..0 |-> r], r, events, 0, r)
      BY DEF Trace
    <2> QED BY <1>2, <2>1 DEF ReplaysTo
  <1>4. ASSUME NEW n \in Nat, n \in T
        PROVE  n + 1 \in T
    <2> SUFFICES ASSUME n + 1 <= k
                 PROVE  Good(n + 1)
      OBVIOUS
    <2>1. n + 1 \in 1..k /\ (n + 1) - 1 = n
      OBVIOUS
    <2>2. Good(n)
      BY <1>4
    <2>3. at[n + 1] = Advanced(at[n], events[n + 1], n + 1)
      BY <1>2, <2>1
    <2>4. events[n + 1] \in Event
      BY <1>1, <2>1
    <2>5. CASE at[n].done = n /\ Fits(events[n + 1], at[n].rows)
      <3>1. at[n + 1] = [rows |-> Changed(events[n + 1], at[n].rows), done |-> n + 1]
        BY <2>1, <2>3, <2>5 DEF Advanced
      <3>2. ReplaysTo(r, events, n + 1, Changed(events[n + 1], at[n].rows))
        BY <2>2, <2>4, <2>5, TraceGrows
      <3> QED BY <3>1, <3>2
    <2>6. CASE ~(at[n].done = n /\ Fits(events[n + 1], at[n].rows))
      <3>1. at[n + 1] = at[n]
        BY <2>1, <2>3, <2>6 DEF Advanced
      <3> QED BY <2>2, <3>1
    <2> QED BY <2>5, <2>6
  <1> HIDE DEF T, Good
  <1>5. k \in T
    BY <1>3, <1>4, SetInduction
  <1>6. Good(k)
    BY <1>5 DEF T
  <1> QED BY <1>1, <1>2, <1>6 DEF Good

(* One replay after the other is the replay of both. *)
LEMMA ReplaysBoth ==
    ASSUME NEW a \in Seq(Event), NEW c \in Seq(Event), NEW r, NEW s, NEW u,
           Replays(r, a, s), Replays(s, c, u)
    PROVE  Replays(r, a \o c, u)
  <1>1. PICK k \in Nat : k = Len(a)
    OBVIOUS
  <1>2. PICK l \in Nat : l = Len(c)
    OBVIOUS
  <1>3. PICK e : e = a \o c
    OBVIOUS
  <1>4. /\ Len(e) = k + l
        /\ \A n \in 1..k : e[n] = a[n]
        /\ \A n \in k + 1..k + l : e[n] = c[n - k]
    BY <1>1, <1>2, <1>3
  <1>5. PICK t : Trace(t, r, a, k, s)
    BY <1>1 DEF Replays, ReplaysTo
  <1>6. PICK v : Trace(v, s, c, l, u)
    BY <1>2 DEF Replays, ReplaysTo
  <1> DEFINE w == [n \in 0..k + l |-> IF n <= k THEN t[n] ELSE v[n - k]]
  <1>7. \A n \in 0..k : w[n] = t[n]
    OBVIOUS
  <1>8. \A n \in k..k + l : w[n] = v[n - k]
    <2>1. t[k] = v[0]
      BY <1>5, <1>6 DEF Trace
    <2> QED BY <2>1
  <1>9. w \in [0..k + l -> SUBSET Row]
    BY <1>5, <1>6 DEF Trace
  <1> HIDE DEF w
  <1>10. ASSUME NEW n \in 1..k + l
         PROVE  Fits(e[n], w[n - 1]) /\ w[n] = Changed(e[n], w[n - 1])
    <2>1. CASE n \in 1..k
      <3>1. n - 1 \in 0..k /\ n \in 0..k
        BY <2>1
      <3>2. w[n - 1] = t[n - 1] /\ w[n] = t[n] /\ e[n] = a[n]
        BY <1>4, <1>7, <2>1, <3>1
      <3>3. Fits(a[n], t[n - 1]) /\ t[n] = Changed(a[n], t[n - 1])
        BY <1>5, <2>1 DEF Trace
      <3> QED BY <3>2, <3>3
    <2>2. CASE n \in k + 1..k + l
      <3>1. n - 1 \in k..k + l /\ n \in k..k + l /\ n - k \in 1..l /\ (n - 1) - k = (n - k) - 1
        BY <2>2
      <3>2. w[n - 1] = v[(n - k) - 1] /\ w[n] = v[n - k] /\ e[n] = c[n - k]
        BY <1>4, <1>8, <2>2, <3>1
      <3>3. Fits(c[n - k], v[(n - k) - 1]) /\ v[n - k] = Changed(c[n - k], v[(n - k) - 1])
        BY <1>6, <3>1 DEF Trace
      <3> QED BY <3>2, <3>3
    <2> QED BY <2>1, <2>2
  <1>11. w[0] = r /\ w[k + l] = u
    BY <1>5, <1>6, <1>7, <1>8 DEF Trace
  <1>12. Trace(w, r, e, k + l, u)
    BY <1>9, <1>10, <1>11 DEF Trace
  <1> QED BY <1>3, <1>4, <1>12 DEF Replays, ReplaysTo

LEMMA NothingReplayed ==
    ASSUME NEW r \in SUBSET Row, NEW events
    PROVE  ReplaysTo(r, events, 0, r)
  <1>1. Trace([n \in 0..0 |-> r], r, events, 0, r)
    BY DEF Trace
  <1> QED BY <1>1 DEF ReplaysTo

LEMMA ReplaysOne ==
    ASSUME NEW r \in SUBSET Row, NEW e \in Event, Fits(e, r)
    PROVE  Replays(r, <<e>>, Changed(e, r))
  <1>1. PICK events : events = <<e>>
    OBVIOUS
  <1>2. Len(events) = 0 + 1 /\ events[0 + 1] = e
    BY <1>1
  <1>3. ReplaysTo(r, events, 0, r)
    BY NothingReplayed
  <1>4. ReplaysTo(r, events, 0 + 1, Changed(e, r))
    BY <1>2, <1>3, TraceGrows
  <1> QED BY <1>1, <1>2, <1>4 DEF Replays

LEMMA ReplaysPart ==
    ASSUME NEW r, NEW events \in Seq(Event), NEW d \in 0..Len(events), NEW s,
           ReplaysTo(r, events, d, s)
    PROVE  Replays(r, SubSeq(events, 1, d), s)
  <1>1. PICK part : part = SubSeq(events, 1, d)
    OBVIOUS
  <1>2. Len(part) = d /\ \A n \in 1..d : part[n] = events[n]
    BY <1>1
  <1>3. PICK t : Trace(t, r, events, d, s)
    BY DEF ReplaysTo
  <1>4. Trace(t, r, part, d, s)
    BY <1>2, <1>3 DEF Trace
  <1> QED BY <1>1, <1>2, <1>4 DEF Replays, ReplaysTo

LEMMA ReplaysRows ==
    ASSUME NEW r, NEW events, Len(events) \in Nat, NEW s, Replays(r, events, s)
    PROVE  s \in SUBSET Row
  BY DEF Replays, ReplaysTo, Trace

----------------------------------------------------------------------------
(* What a replay of the files of a log gives, in the same way: a path is the rows
   between files. *)

ReadOn(x, events) ==
    [rows |-> Replay(x.rows, events).rows,
     whole |-> x.whole /\ Replay(x.rows, events).done = Len(events)]

ReadUpTo(rows, first, k, at) ==
    at = [n \in 0..k |-> IF n < first THEN [rows |-> rows, whole |-> TRUE]
                         ELSE ReadOn(at[n - 1], binlog[n])]

Reading(rows, first) == CHOOSE at : ReadUpTo(rows, first, Len(binlog), at)

LEMMA ReplayLogIs ==
    ASSUME NEW rows, NEW first
    PROVE  ReplayLog(rows, first) = Reading(rows, first)[Len(binlog)]
  BY DEF ReplayLog, Reading, ReadUpTo, ReadOn

LEMMA ReadUpToExists ==
    ASSUME NEW rows, NEW first \in Nat \ {0}
    PROVE  \A k \in Nat : \E at : ReadUpTo(rows, first, k, at)
  <1> DEFINE T == {k \in Nat : \E at : ReadUpTo(rows, first, k, at)}
             Start == [rows |-> rows, whole |-> TRUE]
             On(x, n) == ReadOn(x, binlog[n])
  <1>1. 0 \in T
    <2>1. ReadUpTo(rows, first, 0, [n \in 0..0 |-> Start])
      BY DEF ReadUpTo
    <2> QED BY <2>1
  <1>2. ASSUME NEW k \in Nat, k \in T
        PROVE  k + 1 \in T
    <2>1. PICK at : ReadUpTo(rows, first, k, at)
      BY <1>2
    <2>2. \A n \in 0..k : at[n] = IF n < first THEN Start ELSE On(at[n - 1], n)
      BY <2>1 DEF ReadUpTo
    <2> DEFINE to == [n \in 0..k + 1 |-> IF n = k + 1 /\ ~(n < first) THEN On(at[k], n)
                                         ELSE IF n = k + 1 THEN Start ELSE at[n]]
    <2>3. \A n \in 0..k : to[n] = at[n]
      OBVIOUS
    <2>4. to[k + 1] = IF k + 1 < first THEN Start ELSE On(at[k], k + 1)
      OBVIOUS
    <2>5. DOMAIN to = 0..k + 1 /\ to = [n \in 0..k + 1 |-> to[n]]
      OBVIOUS
    <2> HIDE DEF to, On, Start
    <2>6. \A n \in 0..k + 1 : to[n] = IF n < first THEN Start ELSE On(to[n - 1], n)
      <3> SUFFICES ASSUME NEW n \in 0..k + 1
                   PROVE  to[n] = IF n < first THEN Start ELSE On(to[n - 1], n)
        OBVIOUS
      <3>1. CASE n = k + 1
        BY <2>3, <2>4, <3>1
      <3>2. CASE n # k + 1
        <4>1. n \in 0..k /\ (~(n < first) => n - 1 \in 0..k)
          BY <3>2
        <4> QED BY <2>2, <2>3, <4>1
      <3> QED BY <3>1, <3>2
    <2>7. ReadUpTo(rows, first, k + 1, to)
      BY <2>5, <2>6 DEF ReadUpTo, On, Start
    <2> QED BY <2>7
  <1> HIDE DEF T
  <1>3. Nat \subseteq T
    BY <1>1, <1>2, SetInduction
  <1> QED BY <1>3 DEF T

Path(t, log, r, first, s) ==
    /\ t \in [0..Len(log) -> SUBSET Row]
    /\ \A n \in 0..first - 1 : t[n] = r
    /\ t[Len(log)] = s
    /\ \A n \in first..Len(log) : Replays(t[n - 1], log[n], t[n])

(* The files of log from the first on lead from the rows r to the rows s. *)
Leads(log, r, first, s) == \E t : Path(t, log, r, first, s)

LEMMA ReplayFollowsPath ==
    ASSUME binlog \in Seq(Seq(Event)), NEW r, NEW first \in 1..Len(binlog), NEW s,
           Leads(binlog, r, first, s)
    PROVE  ReplayLog(r, first) = [rows |-> s, whole |-> TRUE]
  <1>1. PICK k \in Nat : k = Len(binlog)
    OBVIOUS
  <1>2. PICK at : at = Reading(r, first)
    OBVIOUS
  <1>3. ReadUpTo(r, first, k, at)
    <2>1. first \in Nat \ {0}
      OBVIOUS
    <2> QED BY <1>1, <1>2, <2>1, ReadUpToExists DEF Reading
  <1>4. \A n \in 0..k : at[n] = IF n < first THEN [rows |-> r, whole |-> TRUE]
                                ELSE ReadOn(at[n - 1], binlog[n])
    BY <1>3 DEF ReadUpTo
  <1>5. PICK t : Path(t, binlog, r, first, s)
    BY DEF Leads
  <1> DEFINE T == {n \in Nat : n <= k => at[n] = [rows |-> t[n], whole |-> TRUE]}
  <1>6. 0 \in T
    <2>1. 0 \in 0..k /\ 0 < first /\ 0 \in 0..first - 1
      OBVIOUS
    <2>2. t[0] = r
      BY <1>5, <2>1 DEF Path
    <2>3. at[0] = [rows |-> r, whole |-> TRUE]
      BY <1>4, <2>1
    <2> QED BY <2>2, <2>3
  <1>7. ASSUME NEW n \in Nat, n \in T
        PROVE  n + 1 \in T
    <2> SUFFICES ASSUME n + 1 <= k
                 PROVE  at[n + 1] = [rows |-> t[n + 1], whole |-> TRUE]
      OBVIOUS
    <2>1. n + 1 \in 0..k /\ (n + 1) - 1 = n
      OBVIOUS
    <2>2. at[n] = [rows |-> t[n], whole |-> TRUE]
      BY <1>7
    <2>3. CASE n + 1 < first
      <3>1. at[n + 1] = [rows |-> r, whole |-> TRUE]
        BY <1>4, <2>1, <2>3
      <3>2. n + 1 \in 0..first - 1
        BY <2>3
      <3>3. t[n + 1] = r
        BY <1>5, <3>2 DEF Path
      <3> QED BY <3>1, <3>3
    <2>4. CASE ~(n + 1 < first)
      <3>1. at[n + 1] = ReadOn(at[n], binlog[n + 1])
        BY <1>4, <2>1, <2>4
      <3>2. n + 1 \in first..Len(binlog)
        BY <1>1, <2>4
      <3>3. Replays(t[n], binlog[n + 1], t[n + 1])
        BY <1>5, <2>1, <3>2 DEF Path
      <3>4. PICK file \in Seq(Event) : file = binlog[n + 1]
        BY <3>2
      <3>5. Len(file) \in Nat
        OBVIOUS
      <3>6. Replay(t[n], file) = [rows |-> t[n + 1], done |-> Len(file)]
        BY <3>3, <3>4, <3>5, ReplayFollowsTrace
      <3>7. ReadOn([rows |-> t[n], whole |-> TRUE], file) = [rows |-> t[n + 1], whole |-> TRUE]
        <4>1. PICK x : x = [rows |-> t[n], whole |-> TRUE]
          OBVIOUS
        <4>2. x.rows = t[n] /\ x.whole = TRUE
          BY <4>1
        <4>3. Replay(x.rows, file).rows = t[n + 1] /\ Replay(x.rows, file).done = Len(file)
          BY <3>6, <4>2
        <4>4. (x.whole /\ Replay(x.rows, file).done = Len(file)) = TRUE
          BY <4>2, <4>3, Zenon
        <4> QED BY <4>1, <4>3, <4>4 DEF ReadOn
      <3> QED BY <2>2, <3>1, <3>4, <3>7
    <2> QED BY <2>3, <2>4
  <1> HIDE DEF T
  <1>8. k \in T
    BY <1>6, <1>7, SetInduction
  <1>9. at[k] = [rows |-> t[k], whole |-> TRUE]
    BY <1>8 DEF T
  <1>10. t[k] = s
    BY <1>1, <1>5 DEF Path
  <1> QED BY <1>1, <1>2, <1>9, <1>10, ReplayLogIs

(* A dump begins with a file of its own. *)
LEMMA PathBegins ==
    ASSUME NEW log \in Seq(Seq(Event)), NEW r \in SUBSET Row
    PROVE  Leads(Append(log, <<>>), r, Len(log) + 1, r)
  <1>1. PICK to : to = Append(log, <<>>)
    OBVIOUS
  <1>2. PICK k \in Nat : k = Len(log)
    OBVIOUS
  <1>3. Len(to) = k + 1 /\ to[k + 1] = <<>>
    BY <1>1, <1>2
  <1> DEFINE t == [n \in 0..k + 1 |-> r]
  <1>4. Replays(r, <<>>, r)
    <2>1. PICK e : e = <<>>
      OBVIOUS
    <2>2. Len(e) = 0
      BY <2>1
    <2>3. ReplaysTo(r, e, 0, r)
      BY NothingReplayed
    <2> QED BY <2>1, <2>2, <2>3 DEF Replays
  <1>5. /\ t \in [0..k + 1 -> SUBSET Row]
        /\ \A n \in 0..(k + 1) - 1 : t[n] = r
        /\ t[k + 1] = r
        /\ \A n \in k + 1..k + 1 : t[n - 1] = r /\ t[n] = r
    OBVIOUS
  <1> HIDE DEF t
  <1>6. \A n \in k + 1..k + 1 : Replays(t[n - 1], to[n], t[n])
    BY <1>3, <1>4, <1>5
  <1>7. Path(t, to, r, k + 1, r)
    BY <1>3, <1>5, <1>6 DEF Path
  <1> QED BY <1>1, <1>2, <1>7 DEF Leads

LEMMA PathRotates ==
    ASSUME NEW log \in Seq(Seq(Event)), NEW r, NEW first \in 1..Len(log), NEW s,
           Leads(log, r, first, s)
    PROVE  Leads(Append(log, <<>>), r, first, s)
  <1>1. PICK to : to = Append(log, <<>>)
    OBVIOUS
  <1>2. PICK k \in Nat : k = Len(log)
    OBVIOUS
  <1>3. Len(to) = k + 1 /\ to[k + 1] = <<>> /\ \A n \in 1..k : to[n] = log[n]
    BY <1>1, <1>2
  <1>4. PICK t : Path(t, log, r, first, s)
    BY DEF Leads
  <1>5. t \in [0..k -> SUBSET Row] /\ t[k] = s /\ s \in SUBSET Row
    BY <1>2, <1>4 DEF Path
  <1> DEFINE v == [n \in 0..k + 1 |-> IF n = k + 1 THEN s ELSE t[n]]
  <1>6. v \in [0..k + 1 -> SUBSET Row] /\ v[k + 1] = s /\ \A n \in 0..k : v[n] = t[n]
    BY <1>5
  <1> HIDE DEF v
  <1>7. Replays(s, <<>>, s)
    <2>1. PICK e : e = <<>>
      OBVIOUS
    <2>2. Len(e) = 0
      BY <2>1
    <2>3. ReplaysTo(s, e, 0, s)
      BY <1>5, NothingReplayed
    <2> QED BY <2>1, <2>2, <2>3 DEF Replays
  <1>8. ASSUME NEW n \in first..k + 1
        PROVE  Replays(v[n - 1], to[n], v[n])
    <2>1. CASE n = k + 1
      BY <1>3, <1>5, <1>6, <1>7, <2>1
    <2>2. CASE n # k + 1
      <3>1. n \in first..k /\ n \in 1..k /\ n \in 0..k /\ n - 1 \in 0..k
        BY <2>2
      <3>2. Replays(t[n - 1], log[n], t[n])
        BY <1>2, <1>4, <3>1 DEF Path
      <3> QED BY <1>3, <1>6, <3>1, <3>2
    <2> QED BY <2>1, <2>2
  <1>9. \A n \in 0..first - 1 : v[n] = r
    <2>1. \A n \in 0..first - 1 : n \in 0..k /\ t[n] = r
      BY <1>2, <1>4 DEF Path
    <2> QED BY <1>6, <2>1
  <1>10. Path(v, to, r, first, s)
    BY <1>3, <1>6, <1>8, <1>9 DEF Path
  <1> QED BY <1>1, <1>10 DEF Leads

Logged(to, log, events) == to = [log EXCEPT ![Len(log)] = @ \o events]

LEMMA PathLogs ==
    ASSUME NEW log \in Seq(Seq(Event)), NEW r, NEW first \in 1..Len(log), NEW s, NEW u,
           NEW events \in Seq(Event), NEW to,
           Logged(to, log, events), Leads(log, r, first, s), Replays(s, events, u)
    PROVE  Leads(to, r, first, u)
  <1>1. PICK k \in Nat : k = Len(log)
    OBVIOUS
  <1>2. PICK file \in Seq(Event) : file = log[k]
    BY <1>1
  <1>3. PICK longer \in Seq(Event) : longer = file \o events
    BY ConcatProperties
  <1>4. to = [log EXCEPT ![k] = longer]
    BY <1>1, <1>2, <1>3 DEF Logged
  <1>5. to \in Seq(Seq(Event)) /\ Len(to) = k /\ to[k] = longer
        /\ \A n \in 1..k - 1 : to[n] = log[n]
    BY <1>1, <1>4, ExceptSeq
  <1>6. PICK t : Path(t, log, r, first, s)
    BY DEF Leads
  <1>7. t \in [0..k -> SUBSET Row] /\ t[k] = s
    BY <1>1, <1>6 DEF Path
  <1>8. u \in SUBSET Row
    <2>1. Len(events) \in Nat
      OBVIOUS
    <2> QED BY <2>1, ReplaysRows
  <1> DEFINE v == [n \in 0..k |-> IF n = k THEN u ELSE t[n]]
  <1>9. v \in [0..k -> SUBSET Row] /\ v[k] = u /\ \A n \in 0..k - 1 : v[n] = t[n]
    BY <1>7, <1>8
  <1> HIDE DEF v
  <1>10. k \in first..k /\ k - 1 \in 0..k - 1
    BY <1>1
  <1>11. Replays(t[k - 1], file, s)
    BY <1>1, <1>2, <1>6, <1>7, <1>10 DEF Path
  <1>12. Replays(t[k - 1], file \o events, u)
    BY <1>11, ReplaysBoth
  <1>13. ASSUME NEW n \in first..k
         PROVE  Replays(v[n - 1], to[n], v[n])
    <2>1. CASE n = k
      BY <1>3, <1>5, <1>9, <1>10, <1>12, <2>1
    <2>2. CASE n # k
      <3>1. n \in 1..k - 1 /\ n \in 0..k - 1 /\ n - 1 \in 0..k - 1
        BY <2>2
      <3>2. Replays(t[n - 1], log[n], t[n])
        BY <1>1, <1>6 DEF Path
      <3> QED BY <1>5, <1>9, <3>1, <3>2
    <2> QED BY <2>1, <2>2
  <1>14. \A n \in 0..first - 1 : v[n] = r
    <2>1. \A n \in 0..first - 1 : n \in 0..k - 1 /\ t[n] = r
      BY <1>1, <1>6 DEF Path
    <2> QED BY <1>9, <2>1
  <1>15. Path(v, to, r, first, u)
    BY <1>5, <1>9, <1>13, <1>14 DEF Path
  <1> QED BY <1>15 DEF Leads

----------------------------------------------------------------------------
(* The types, and what holds of the script that runs at each of its places. *)

StoreOK ==
    /\ db \subseteq Row
    /\ binlog \in Seq(Seq(Event)) /\ binlog # <<>>
    /\ mail \subseteq delivered \X Dir
    /\ fresh \subseteq delivered /\ delivered \subseteq Msg

MarkersOK ==
    /\ position # None => position.file \in 1..Len(binlog) /\ position.rows \subseteq Row
    /\ stamped \in BOOLEAN /\ stopped \in BOOLEAN

(* A record with the fields of a backup that exists. *)
Part == {"exists", "mysql", "mail", "other", "status"}
Whole(b) == b = [f \in Part |-> b[f]] /\ b.exists
MailOK(m) ==
    /\ m \in [kind : {"none", "cut", "full", "incremental"}, pairs : SUBSET (Msg \X Dir)]
    /\ m.kind = "none" => m = NoMail

BackupOK(b) == b = NoBackup \/ (Whole(b) /\ BackupType(b) /\ MailOK(b.mail))

BackupsOK ==
    /\ backups = [id \in Id |-> backups[id]]
    /\ \A id \in Id : BackupOK(backups[id])

Tallies == {"backups", "restores", "changes", "rotations", "faults"}

CountOK ==
    /\ count \in [Tallies -> Nat]
    /\ count.backups \in 0..MaxBackups
    /\ \A id \in Id : id > count.backups => backups[id] = NoBackup

Field == {"script", "id", "sel", "incremental", "rest", "pc", "saved", "errors", "rows",
          "file", "unread", "pairs", "owed"}
Shape(r) == r = [f \in Field |-> r[f]]

RunTypes ==
    /\ Shape(run)
    /\ run.script \in {"none", "backup", "restore"}
    /\ run.sel \subseteq Component /\ run.rest \subseteq run.sel
    /\ run.incremental \in BOOLEAN /\ run.saved \in BOOLEAN /\ run.errors \in BOOLEAN
    /\ run.rows \subseteq Row
    /\ run.unread \subseteq Dir /\ run.pairs \subseteq Msg \X Dir
    /\ run.owed \subseteq mail

InMysql == {"fallback", "dump", "position", "saved"}
InMail == {"tar", "stamp"}
AtEnd == {"manifest", "cleanup"}

NoneRuns == run.script = "none" => run = NoRun
SomeRuns == run.script # "none" => run.id \in Id /\ backups[run.id].exists
BackupPlace(r, last) ==
    /\ r.pc \in {"begin"} \cup InMysql \cup InMail \cup AtEnd
    /\ r.pc \in InMysql => "mysql" \in r.rest
    /\ r.pc \in InMail => "mail" \in r.rest /\ "mysql" \notin r.rest
    /\ r.pc \in AtEnd => r.rest = {}
    /\ r.pc \in {"dump", "position"} => r.file \in 1..last
BackupRuns ==
    run.script = "backup" => run.id = count.backups /\ BackupPlace(run, Len(binlog))
RestoreRuns ==
    run.script = "restore" =>
        /\ run.sel \in RestoreSelections
        /\ run.pc \in {"begin", "binlogs"}
        /\ run.pc = "binlogs" => "mysql" \in run.rest /\ Sql.kind = "incremental"

RunOK == RunTypes /\ NoneRuns /\ SomeRuns /\ BackupRuns /\ RestoreRuns

RebuiltOK == rebuilt \in Id \cup {None}

(* Every archive is of messages that were delivered. *)
ArchivesOK ==
    /\ \A id \in Id : backups[id].exists => backups[id].mail.pairs \subseteq delivered \X Dir
    /\ run.pairs \subseteq delivered \X Dir

BackupInv ==
    StoreOK /\ MarkersOK /\ BackupsOK /\ CountOK /\ RunOK /\ RebuiltOK /\ ArchivesOK

----------------------------------------------------------------------------
(* What the operators on the record of the script do. *)

Ending(r, c) == r \in {Over(c), Completed(c), Failed(c)}

LEMMA OverFields ==
    ASSUME Shape(run), NEW c, NEW r, Ending(r, c)
    PROVE  /\ Shape(r) /\ r.rest = run.rest \ {c} /\ r.pc = "begin"
           /\ r.script = run.script /\ r.id = run.id /\ r.sel = run.sel
           /\ r.incremental = run.incremental /\ r.saved \in {TRUE, run.saved}
           /\ r.errors \in {TRUE, run.errors}
           /\ r.rows = run.rows /\ r.file = run.file /\ r.unread = run.unread
           /\ r.pairs = run.pairs /\ r.owed = run.owed
  <1>1. CASE r = Over(c)
    BY <1>1 DEF Shape, Field, Over
  <1>2. CASE r = Completed(c)
    BY <1>2 DEF Shape, Field, Over, Completed
  <1>3. CASE r = Failed(c)
    BY <1>3 DEF Shape, Field, Over, Failed
  <1> QED BY <1>1, <1>2, <1>3 DEF Ending

LEMMA PcFields ==
    ASSUME Shape(run), NEW pc, NEW r, r = [run EXCEPT !.pc = pc]
    PROVE  /\ Shape(r) /\ r.pc = pc /\ r.rest = run.rest
           /\ r.script = run.script /\ r.id = run.id /\ r.sel = run.sel
           /\ r.incremental = run.incremental /\ r.saved = run.saved
           /\ r.errors = run.errors
           /\ r.rows = run.rows /\ r.file = run.file /\ r.unread = run.unread
           /\ r.pairs = run.pairs /\ r.owed = run.owed
  BY DEF Shape, Field

LEMMA NoRunFields ==
    /\ Shape(NoRun) /\ NoRun.script = "none" /\ NoRun.id = 0 /\ NoRun.sel = {}
    /\ NoRun.rest = {} /\ NoRun.pc = "begin" /\ NoRun.incremental = FALSE
    /\ NoRun.saved = FALSE /\ NoRun.errors = FALSE /\ NoRun.rows = {} /\ NoRun.file = 0
    /\ NoRun.unread = {} /\ NoRun.pairs = {} /\ NoRun.owed = {}
  BY DEF Shape, Field, NoRun

(* A component is at work: the ones before it are over. *)
LEMMA DoingFacts ==
    ASSUME NEW script, NEW c \in Component, NEW pcs, Doing(script, c, pcs)
    PROVE  /\ run.script = script /\ c \in run.rest /\ run.pc \in pcs
           /\ c # "mysql" => "mysql" \notin run.rest
           /\ c = "mail" => "redis" \notin run.rest
           /\ c = "trees" => run.rest \cap {"mysql", "redis", "mail"} = {}
  <1>1. /\ run.script = script /\ c \in run.rest /\ run.pc \in pcs
        /\ \A d \in run.rest : Place[c] <= Place[d]
    BY DEF Doing
  <1>2. Place["mysql"] = 1 /\ Place["redis"] = 2 /\ Place["mail"] = 3 /\ Place["trees"] = 4
    BY DEF Place
  <1>3. c \in {"mysql", "redis", "mail", "trees"}
    BY DEF Component
  <1> QED BY <1>1, <1>2, <1>3

----------------------------------------------------------------------------
(* What is changed of one backup leaves the others and its other parts. *)

Backups(bs) == bs = [id \in Id |-> bs[id]]
OthersSame(bs, to, id) == Backups(to) /\ \A i \in Id \ {id} : to[i] = bs[i]

MysqlSet(bs, id, x) == [bs EXCEPT ![id].mysql = x]

LEMMA MysqlStored ==
    ASSUME NEW bs, Backups(bs), NEW id \in Id, Whole(bs[id]), NEW x, NEW to,
           to = MysqlSet(bs, id, x)
    PROVE  /\ OthersSame(bs, to, id) /\ Whole(to[id]) /\ to[id].exists
           /\ to[id].mysql = x /\ to[id].mail = bs[id].mail
           /\ to[id].other = bs[id].other /\ to[id].status = bs[id].status
  <1>1. PICK b : b = bs[id]
    OBVIOUS
  <1>2. PICK n : n = [b EXCEPT !.mysql = x]
    OBVIOUS
  <1>3. to = [bs EXCEPT ![id] = n]
    BY <1>1, <1>2 DEF MysqlSet
  <1>4. OthersSame(bs, to, id) /\ to[id] = n
    BY <1>3 DEF Backups, OthersSame
  <1>5. Whole(b)
    BY <1>1
  <1>6. Whole(n)
    BY <1>2, <1>5 DEF Whole, Part
  <1>7. /\ n.mysql = x /\ n.mail = b.mail /\ n.other = b.other /\ n.status = b.status
    BY <1>2, <1>5 DEF Whole, Part
  <1> QED BY <1>1, <1>4, <1>6, <1>7 DEF Whole

MailSet(bs, id, x) == [bs EXCEPT ![id].mail = x]

LEMMA MailStored ==
    ASSUME NEW bs, Backups(bs), NEW id \in Id, Whole(bs[id]), NEW x, NEW to,
           to = MailSet(bs, id, x)
    PROVE  /\ OthersSame(bs, to, id) /\ Whole(to[id]) /\ to[id].exists
           /\ to[id].mysql = bs[id].mysql /\ to[id].mail = x
           /\ to[id].other = bs[id].other /\ to[id].status = bs[id].status
  <1>1. PICK b : b = bs[id]
    OBVIOUS
  <1>2. PICK n : n = [b EXCEPT !.mail = x]
    OBVIOUS
  <1>3. to = [bs EXCEPT ![id] = n]
    BY <1>1, <1>2 DEF MailSet
  <1>4. OthersSame(bs, to, id) /\ to[id] = n
    BY <1>3 DEF Backups, OthersSame
  <1>5. Whole(b)
    BY <1>1
  <1>6. Whole(n)
    BY <1>2, <1>5 DEF Whole, Part
  <1>7. /\ n.mysql = b.mysql /\ n.mail = x /\ n.other = b.other /\ n.status = b.status
    BY <1>2, <1>5 DEF Whole, Part
  <1> QED BY <1>1, <1>4, <1>6, <1>7 DEF Whole

StatusSet(bs, id, x) == [bs EXCEPT ![id].status = x]

LEMMA StatusStored ==
    ASSUME NEW bs, Backups(bs), NEW id \in Id, Whole(bs[id]), NEW x, NEW to,
           to = StatusSet(bs, id, x)
    PROVE  /\ OthersSame(bs, to, id) /\ Whole(to[id]) /\ to[id].exists
           /\ to[id].mysql = bs[id].mysql /\ to[id].mail = bs[id].mail
           /\ to[id].other = bs[id].other /\ to[id].status = x
  <1>1. PICK b : b = bs[id]
    OBVIOUS
  <1>2. PICK n : n = [b EXCEPT !.status = x]
    OBVIOUS
  <1>3. to = [bs EXCEPT ![id] = n]
    BY <1>1, <1>2 DEF StatusSet
  <1>4. OthersSame(bs, to, id) /\ to[id] = n
    BY <1>3 DEF Backups, OthersSame
  <1>5. Whole(b)
    BY <1>1
  <1>6. Whole(n)
    BY <1>2, <1>5 DEF Whole, Part
  <1>7. /\ n.mysql = b.mysql /\ n.mail = b.mail /\ n.other = b.other /\ n.status = x
    BY <1>2, <1>5 DEF Whole, Part
  <1> QED BY <1>1, <1>4, <1>6, <1>7 DEF Whole

OtherWith(other, c, x) == [other EXCEPT ![c] = x]
OtherSet(bs, id, c, x) == [bs EXCEPT ![id].other[c] = x]

LEMMA OtherStored ==
    ASSUME NEW bs, Backups(bs), NEW id \in Id, Whole(bs[id]), NEW x, NEW to, NEW c,
           to = OtherSet(bs, id, c, x)
    PROVE  /\ OthersSame(bs, to, id) /\ Whole(to[id]) /\ to[id].exists
           /\ to[id].mysql = bs[id].mysql /\ to[id].mail = bs[id].mail
           /\ to[id].other = OtherWith(bs[id].other, c, x) /\ to[id].status = bs[id].status
  <1>1. PICK b : b = bs[id]
    OBVIOUS
  <1>o. PICK o : o = OtherWith(b.other, c, x)
    OBVIOUS
  <1>2. PICK n : n = [b EXCEPT !.other = o]
    OBVIOUS
  <1>3. to = [bs EXCEPT ![id] = n]
    BY <1>1, <1>2, <1>o DEF OtherSet, OtherWith
  <1>4. OthersSame(bs, to, id) /\ to[id] = n
    BY <1>3 DEF Backups, OthersSame
  <1>5. Whole(b)
    BY <1>1
  <1>6. Whole(n)
    BY <1>2, <1>5 DEF Whole, Part
  <1>7. /\ n.mysql = b.mysql /\ n.mail = b.mail /\ n.other = o /\ n.status = b.status
    BY <1>2, <1>5 DEF Whole, Part
  <1>8. to[id].other = OtherWith(bs[id].other, c, x)
    BY <1>1, <1>o, <1>4, <1>7, Zenon
  <1>9. n.exists
    BY <1>6 DEF Whole
  <1> QED BY <1>1, <1>4, <1>6, <1>7, <1>8, <1>9

LEMMA ExistsIsWhole ==
    ASSUME BackupsOK, NEW id \in Id, backups[id].exists
    PROVE  Whole(backups[id]) /\ BackupType(backups[id]) /\ MailOK(backups[id].mail)
  <1>1. BackupOK(backups[id])
    BY DEF BackupsOK
  <1>2. NoBackup.exists = FALSE
    BY DEF NoBackup
  <1> QED BY <1>1, <1>2 DEF BackupOK

(* What may be stored. *)
LEMMA SqlKinds ==
    /\ NoSql.kind = "none" /\ CutSql.kind = "cut"
    /\ \A rows : FullSql(rows).kind = "full" /\ FullSql(rows).rows = rows
    /\ \A e : IncrementalSql(e).kind = "incremental" /\ IncrementalSql(e).events = e
  BY DEF NoSql, CutSql, FullSql, IncrementalSql

LEMMA SqlTypes ==
    /\ SqlType(NoSql) /\ SqlType(CutSql)
    /\ \A rows \in SUBSET Row : SqlType(FullSql(rows))
    /\ \A e \in Seq(Event) : SqlType(IncrementalSql(e))
  <1>1. SqlType(NoSql) /\ SqlType(CutSql)
    BY DEF SqlType, NoSql, CutSql
  <1>2. ASSUME NEW rows \in SUBSET Row
        PROVE  SqlType(FullSql(rows))
    BY SqlKinds DEF SqlType
  <1>3. ASSUME NEW e \in Seq(Event)
        PROVE  SqlType(IncrementalSql(e))
    BY SqlKinds DEF SqlType
  <1> QED BY <1>1, <1>2, <1>3

LEMMA EmptyIsOK == BackupOK(EmptyBackup) /\ EmptyBackup.exists
  <1>1. Whole(EmptyBackup)
    BY DEF Whole, Part, EmptyBackup
  <1>2. MailOK(NoMail)
    BY DEF MailOK, NoMail
  <1>3. BackupType(EmptyBackup)
    <2>1. EmptyBackup.other = [c \in Other |-> "none"] /\ EmptyBackup.exists
          /\ EmptyBackup.mail = NoMail /\ EmptyBackup.mysql = NoSql /\ EmptyBackup.status = "none"
      BY DEF EmptyBackup
    <2>2. NoMail.kind = "none" /\ NoMail.pairs = {}
      BY DEF NoMail
    <2> QED BY <2>1, <2>2, SqlTypes DEF BackupType
  <1> QED BY <1>1, <1>2, <1>3 DEF BackupOK, EmptyBackup

----------------------------------------------------------------------------
(* The steps by kind. *)

StartSteps ==
    \/ \E sel \in Selections, incremental \in BOOLEAN : StartBackup(sel, incremental)
    \/ \E id \in Id, sel \in RestoreSelections : StartRestore(id, sel)
DumpSteps ==
    \/ DumpBegins \/ DumpFails \/ DumpEnds
    \/ SavePosition \/ KeepPosition \/ DumpSaved
    \/ DumpIncrement \/ DumpIncrementFails
MailSteps ==
    \/ MailBegins \/ MailEnds \/ MailCutShort \/ StampMail
    \/ \E d \in Dir : ReadDir(d)
OtherSteps ==
    \/ \E c \in Other : ArchiveOther(c) \/ ArchiveOtherFails(c)
    \/ SkipTrees
EndSteps == VerifyBackup \/ GenerateManifest \/ CleanupBackups \/ InterruptBackup
MysqlRestoreSteps == RestoreDump \/ RestoreDumpFails \/ RestoreIncrement \/ RestoreBinlogs
RestoreSteps == SkipRestore \/ RestoreMail \/ EndRestore \/ InterruptRestore
MysqlSteps == (\E r \in Row : CommitChange(r)) \/ RotateLog
ServiceSteps ==
    \/ StartServices
    \/ \E m \in Msg, d \in Dir : Deliver(m, d) \/ Disturb(<<m, d>>)

LEMMA Kinds ==
    ASSUME Next
    PROVE  \/ StartSteps \/ DumpSteps \/ MailSteps \/ OtherSteps \/ EndSteps
           \/ MysqlRestoreSteps \/ RestoreSteps \/ MysqlSteps \/ ServiceSteps
  BY DEF Next, StartSteps, DumpSteps, MailSteps, OtherSteps, EndSteps, MysqlRestoreSteps,
     RestoreSteps, MysqlSteps, ServiceSteps

----------------------------------------------------------------------------
(* The database and its log: whatever happens, the log goes on as the rows do. *)

LogStill == UNCHANGED <<db, binlog>>
LogRotates == UNCHANGED db /\ binlog' = Append(binlog, <<>>)
LogGrows == \E events \in Seq(Event) : binlog' = Log(events) /\ Replays(db, events, db')

LEMMA LoadGrows ==
    ASSUME BackupInv, NEW tables \in SUBSET Row, LoadTables(tables),
           run.script = "restore", Sql.kind = "full"
    PROVE  LogGrows
  <1>1. Sql.rows \subseteq Row
    <2>1. BackupType(backups[run.id])
      BY ExistsIsWhole DEF BackupInv, RunOK, SomeRuns
    <2> QED BY <2>1 DEF BackupType, SqlType, Sql
  <1>2. db \in SUBSET Row
    BY DEF BackupInv, StoreOK
  <1> DEFINE e == [ddl |-> TRUE, of |-> tables, before |-> {}, new |-> Sql.rows \cap tables]
  <1>3. e \in Event
    BY DEF Event
  <1>4. Fits(e, db) /\ Changed(e, db) = (Sql.rows \cap tables) \cup (db \ tables)
    BY DEF Fits, Changed
  <1>5. binlog' = Log(<<e>>) /\ db' = (Sql.rows \cap tables) \cup (db \ tables)
    BY DEF LoadTables
  <1> HIDE DEF e
  <1>6. Replays(db, <<e>>, Changed(e, db))
    BY <1>2, <1>3, <1>4, ReplaysOne
  <1>7. <<e>> \in Seq(Event)
    BY <1>3
  <1>8. Replays(db, <<e>>, db')
    BY <1>4, <1>5, <1>6
  <1> QED BY <1>5, <1>7, <1>8 DEF LogGrows

LEMMA ApplyGrows ==
    ASSUME BackupInv, ApplyIncrement, run.script = "restore", Sql.kind = "incremental"
    PROVE  LogGrows
  <1>1. Sql.events \in Seq(Event)
    <2>1. BackupType(backups[run.id])
      BY ExistsIsWhole DEF BackupInv, RunOK, SomeRuns
    <2> QED BY <2>1 DEF BackupType, SqlType, Sql
  <1>2. db \in SUBSET Row
    BY DEF BackupInv, StoreOK
  <1>3. PICK events \in Seq(Event) : events = Sql.events
    BY <1>1
  <1>4. PICK result : result = Replay(db, events)
    OBVIOUS
  <1>5. result.done \in 0..Len(events) /\ ReplaysTo(db, events, result.done, result.rows)
    BY <1>2, <1>4, ReplayHasTrace
  <1>6. Replays(db, SubSeq(events, 1, result.done), result.rows)
    BY <1>5, ReplaysPart
  <1>7. SubSeq(events, 1, result.done) \in Seq(Event)
    BY <1>5
  <1>8. db' = result.rows /\ binlog' = Log(SubSeq(events, 1, result.done))
    BY <1>3, <1>4 DEF ApplyIncrement
  <1> QED BY <1>6, <1>7, <1>8 DEF LogGrows

LEMMA CommitGrows ==
    ASSUME BackupInv, NEW r \in Row, CommitChange(r)
    PROVE  LogGrows
  <1> DEFINE e == [ddl |-> FALSE, of |-> {r}, before |-> db \cap {r}, new |-> {r} \ db]
  <1>1. db \in SUBSET Row
    BY DEF BackupInv, StoreOK
  <1>2. e \in Event
    BY <1>1 DEF Event
  <1>3. Fits(e, db) /\ Changed(e, db) = (db \ {r}) \cup ({r} \ db)
    BY DEF Fits, Changed
  <1>4. binlog' = Log(<<e>>) /\ db' = (db \ {r}) \cup ({r} \ db)
    BY DEF CommitChange
  <1> HIDE DEF e
  <1>5. Replays(db, <<e>>, Changed(e, db))
    BY <1>1, <1>2, <1>3, ReplaysOne
  <1>6. <<e>> \in Seq(Event)
    BY <1>2
  <1>7. Replays(db, <<e>>, db')
    BY <1>3, <1>4, <1>5
  <1> QED BY <1>4, <1>6, <1>7 DEF LogGrows

LEMMA LogEffects ==
    ASSUME BackupInv, [Next]_vars
    PROVE  LogStill \/ LogRotates \/ LogGrows
  <1>1. ASSUME UNCHANGED vars PROVE LogStill
    BY <1>1 DEF vars, mysql, LogStill
  <1>2. ASSUME StartSteps PROVE LogStill
    BY <1>2 DEF StartSteps, StartBackup, StartRestore, mysql, LogStill
  <1>3. ASSUME DumpSteps PROVE LogStill \/ LogRotates
    <2>1. ASSUME DumpBegins PROVE LogRotates
      BY <2>1 DEF DumpBegins, LogRotates
    <2>2. ASSUME DumpFails \/ DumpEnds \/ SavePosition \/ KeepPosition PROVE LogStill
      BY <2>2 DEF DumpFails, DumpEnds, SavePosition, KeepPosition, mysql, LogStill
    <2>3. ASSUME DumpSaved \/ DumpIncrement \/ DumpIncrementFails PROVE LogStill
      BY <2>3 DEF DumpSaved, DumpIncrement, DumpIncrementFails, mysql, LogStill
    <2> QED BY <1>3, <2>1, <2>2, <2>3 DEF DumpSteps
  <1>4. ASSUME MailSteps PROVE LogStill
    BY <1>4 DEF MailSteps, MailBegins, MailEnds, MailCutShort, StampMail, ReadDir, mysql,
       LogStill
  <1>5. ASSUME OtherSteps PROVE LogStill
    BY <1>5 DEF OtherSteps, ArchiveOther, ArchiveOtherFails, SkipTrees, mysql, LogStill
  <1>6. ASSUME EndSteps PROVE LogStill
    BY <1>6 DEF EndSteps, VerifyBackup, GenerateManifest, CleanupBackups, InterruptBackup,
       mysql, LogStill
  <1>7. ASSUME MysqlRestoreSteps PROVE LogGrows
    <2>1. ASSUME RestoreDump PROVE LogGrows
      BY <2>1, LoadGrows DEF RestoreDump, Doing
    <2>2. ASSUME RestoreDumpFails PROVE LogGrows
      BY <2>2, LoadGrows DEF RestoreDumpFails, Doing
    <2>3. ASSUME RestoreIncrement PROVE LogGrows
      BY <2>3, ApplyGrows DEF RestoreIncrement, Doing
    <2>4. ASSUME RestoreBinlogs PROVE LogGrows
      <3>1. Sql.kind = "incremental" /\ run.script = "restore" /\ ApplyIncrement
        BY <2>4 DEF RestoreBinlogs, Doing, BackupInv, RunOK, RestoreRuns
      <3> QED BY <3>1, ApplyGrows
    <2> QED BY <1>7, <2>1, <2>2, <2>3, <2>4 DEF MysqlRestoreSteps
  <1>8. ASSUME RestoreSteps PROVE LogStill
    BY <1>8 DEF RestoreSteps, SkipRestore, RestoreMail, EndRestore, InterruptRestore, mysql,
       LogStill
  <1>9. ASSUME MysqlSteps PROVE LogRotates \/ LogGrows
    BY <1>9, CommitGrows DEF MysqlSteps, RotateLog, LogRotates
  <1>10. ASSUME ServiceSteps PROVE LogStill
    BY <1>10 DEF ServiceSteps, StartServices, Deliver, Disturb, mysql, LogStill
  <1> QED BY <1>1, <1>2, <1>3, <1>4, <1>5, <1>6, <1>7, <1>8, <1>9, <1>10, Kinds

(* The log stays a sequence of files; none is taken away. *)
LEMMA LogTyped ==
    ASSUME BackupInv, [Next]_vars
    PROVE  /\ db' \subseteq Row
           /\ binlog' \in Seq(Seq(Event)) /\ binlog' # <<>>
           /\ Len(binlog') >= Len(binlog)
  <1>1. db \subseteq Row /\ binlog \in Seq(Seq(Event)) /\ binlog # <<>>
    BY DEF BackupInv, StoreOK
  <1>2. ASSUME LogStill
        PROVE  db' = db /\ binlog' = binlog
    BY <1>2 DEF LogStill
  <1>3. ASSUME LogRotates
        PROVE  db' = db /\ binlog' \in Seq(Seq(Event)) /\ Len(binlog') = Len(binlog) + 1
    <2>1. <<>> \in Seq(Event)
      OBVIOUS
    <2> QED BY <1>1, <1>3, <2>1 DEF LogRotates
  <1>4. ASSUME LogGrows
        PROVE  /\ db' \subseteq Row
               /\ binlog' \in Seq(Seq(Event)) /\ Len(binlog') = Len(binlog)
    <2>1. PICK events \in Seq(Event) : binlog' = Log(events) /\ Replays(db, events, db')
      BY <1>4 DEF LogGrows
    <2>2. db' \subseteq Row
      <3>1. Len(events) \in Nat
        OBVIOUS
      <3> QED BY <2>1, <3>1, ReplaysRows
    <2>3. Len(binlog) \in 1..Len(binlog) /\ binlog[Len(binlog)] \in Seq(Event)
      BY <1>1
    <2>4. PICK longer \in Seq(Event) : longer = binlog[Len(binlog)] \o events
      BY <2>3, ConcatProperties
    <2>5. binlog' = [binlog EXCEPT ![Len(binlog)] = longer]
      BY <2>1, <2>4 DEF Log
    <2> QED BY <1>1, <2>2, <2>3, <2>5, ExceptSeq
  <1>5. Len(binlog) \in Nat \ {0}
    BY <1>1
  <1>6. \A l \in Seq(Seq(Event)) : Len(l) > 0 => l # <<>>
    OBVIOUS
  <1>7. \A l \in Seq(Seq(Event)) : Len(l) \in Nat
    OBVIOUS
  <1> QED BY <1>1, <1>2, <1>3, <1>4, <1>5, <1>6, <1>7, LogEffects

----------------------------------------------------------------------------
(* Every conjunct of BackupInv is kept. *)

(* Only SavePosition writes .last_binlog_position. *)
LEMMA PositionEffects ==
    ASSUME [Next]_vars
    PROVE  UNCHANGED position \/ SavePosition
  <1>1. ASSUME UNCHANGED vars PROVE UNCHANGED position
    BY <1>1 DEF vars, markers
  <1>2. ASSUME StartSteps PROVE UNCHANGED position
    BY <1>2 DEF StartSteps, StartBackup, StartRestore, markers
  <1>3. ASSUME DumpSteps PROVE UNCHANGED position \/ SavePosition
    BY <1>3 DEF DumpSteps, DumpBegins, DumpFails, DumpEnds, KeepPosition, DumpSaved,
       DumpIncrement, DumpIncrementFails, markers
  <1>4. ASSUME MailSteps PROVE UNCHANGED position
    BY <1>4 DEF MailSteps, MailBegins, MailEnds, MailCutShort, StampMail, ReadDir, markers
  <1>5. ASSUME OtherSteps PROVE UNCHANGED position
    BY <1>5 DEF OtherSteps, ArchiveOther, ArchiveOtherFails, SkipTrees, markers
  <1>6. ASSUME EndSteps PROVE UNCHANGED position
    BY <1>6 DEF EndSteps, VerifyBackup, GenerateManifest, CleanupBackups, InterruptBackup,
       markers
  <1>7. ASSUME MysqlRestoreSteps PROVE UNCHANGED position
    BY <1>7 DEF MysqlRestoreSteps, RestoreDump, RestoreDumpFails, RestoreIncrement,
       RestoreBinlogs, markers
  <1>8. ASSUME RestoreSteps PROVE UNCHANGED position
    BY <1>8 DEF RestoreSteps, SkipRestore, RestoreMail, EndRestore, InterruptRestore, markers
  <1>9. ASSUME MysqlSteps PROVE UNCHANGED position
    BY <1>9 DEF MysqlSteps, CommitChange, RotateLog, markers
  <1>10. ASSUME ServiceSteps PROVE UNCHANGED position
    BY <1>10 DEF ServiceSteps, StartServices, Deliver, Disturb, markers
  <1> QED BY <1>1, <1>2, <1>3, <1>4, <1>5, <1>6, <1>7, <1>8, <1>9, <1>10, Kinds

LEMMA FlagsTyped ==
    ASSUME BackupInv, [Next]_vars
    PROVE  stamped' \in BOOLEAN /\ stopped' \in BOOLEAN
  <1>0. stamped \in BOOLEAN /\ stopped \in BOOLEAN
    BY DEF BackupInv, MarkersOK
  <1> DEFINE Flags == stamped' \in {stamped, TRUE} /\ stopped' \in {stopped, TRUE, FALSE}
  <1>1. ASSUME UNCHANGED vars PROVE Flags
    BY <1>1 DEF vars, markers
  <1>2. ASSUME StartSteps PROVE Flags
    BY <1>2 DEF StartSteps, StartBackup, StartRestore, markers
  <1>3. ASSUME DumpSteps PROVE Flags
    BY <1>3 DEF DumpSteps, DumpBegins, DumpFails, DumpEnds, SavePosition, KeepPosition,
       DumpSaved, DumpIncrement, DumpIncrementFails, markers
  <1>4. ASSUME MailSteps PROVE Flags
    BY <1>4 DEF MailSteps, MailBegins, MailEnds, MailCutShort, StampMail, ReadDir, markers
  <1>5. ASSUME OtherSteps PROVE Flags
    BY <1>5 DEF OtherSteps, ArchiveOther, ArchiveOtherFails, SkipTrees, markers
  <1>6. ASSUME EndSteps PROVE Flags
    BY <1>6 DEF EndSteps, VerifyBackup, GenerateManifest, CleanupBackups, InterruptBackup,
       markers
  <1>7. ASSUME MysqlRestoreSteps PROVE Flags
    BY <1>7 DEF MysqlRestoreSteps, RestoreDump, RestoreDumpFails, RestoreIncrement,
       RestoreBinlogs, markers
  <1>8. ASSUME RestoreSteps PROVE Flags
    BY <1>8 DEF RestoreSteps, SkipRestore, RestoreMail, EndRestore, InterruptRestore, markers
  <1>9. ASSUME MysqlSteps PROVE Flags
    BY <1>9 DEF MysqlSteps, CommitChange, RotateLog, markers
  <1>10. ASSUME ServiceSteps PROVE Flags
    BY <1>10 DEF ServiceSteps, StartServices, Deliver, Disturb, markers
  <1>11. Flags
    BY <1>1, <1>2, <1>3, <1>4, <1>5, <1>6, <1>7, <1>8, <1>9, <1>10, Kinds
  <1> QED BY <1>0, <1>11

LEMMA MarkersKept ==
    ASSUME BackupInv, [Next]_vars
    PROVE  MarkersOK'
  <1>1. stamped' \in BOOLEAN /\ stopped' \in BOOLEAN
    BY FlagsTyped
  <1>2. Len(binlog) \in Nat /\ Len(binlog') \in Nat /\ Len(binlog') >= Len(binlog)
    BY LogTyped DEF BackupInv, StoreOK
  <1>3. ASSUME UNCHANGED position
        PROVE  MarkersOK'
    BY <1>1, <1>2, <1>3 DEF BackupInv, MarkersOK
  <1>4. ASSUME SavePosition
        PROVE  MarkersOK'
    <2>1. run.script = "backup" /\ run.pc = "position"
      BY <1>4 DEF SavePosition, Doing
    <2>2. run.file \in 1..Len(binlog) /\ run.rows \subseteq Row
      BY <2>1 DEF BackupInv, RunOK, BackupRuns, BackupPlace, RunTypes
    <2>3. position' = [file |-> run.file, rows |-> run.rows]
      BY <1>4 DEF SavePosition
    <2>4. position'.file = run.file /\ position'.rows = run.rows
      BY <2>3
    <2> QED BY <1>1, <1>2, <2>2, <2>4 DEF MarkersOK
  <1> QED BY <1>3, <1>4, PositionEffects

(* The mail: messages come from outside or from an archive. *)
LEMMA MailTyped ==
    ASSUME BackupInv, [Next]_vars
    PROVE  /\ mail' \subseteq delivered' \X Dir /\ delivered \subseteq delivered'
           /\ fresh' \subseteq delivered' /\ delivered' \subseteq Msg
  <1>0. /\ mail \subseteq delivered \X Dir
        /\ fresh \subseteq delivered /\ delivered \subseteq Msg
    BY DEF BackupInv, StoreOK
  <1> DEFINE Still == UNCHANGED <<mail, delivered>> /\ fresh' \in {fresh, {}}
  <1>1. ASSUME UNCHANGED vars PROVE Still
    BY <1>1 DEF vars, store
  <1>2. ASSUME StartSteps PROVE Still
    BY <1>2 DEF StartSteps, StartBackup, StartRestore, store
  <1>3. ASSUME DumpSteps PROVE Still
    BY <1>3 DEF DumpSteps, DumpBegins, DumpFails, DumpEnds, SavePosition, KeepPosition,
       DumpSaved, DumpIncrement, DumpIncrementFails, store
  <1>4. ASSUME MailSteps PROVE Still
    BY <1>4 DEF MailSteps, MailBegins, MailEnds, MailCutShort, StampMail, ReadDir, store
  <1>5. ASSUME OtherSteps PROVE Still
    BY <1>5 DEF OtherSteps, ArchiveOther, ArchiveOtherFails, SkipTrees, store
  <1>6. ASSUME EndSteps PROVE Still
    BY <1>6 DEF EndSteps, VerifyBackup, GenerateManifest, CleanupBackups, InterruptBackup,
       store
  <1>7. ASSUME MysqlRestoreSteps PROVE Still
    BY <1>7 DEF MysqlRestoreSteps, RestoreDump, RestoreDumpFails, RestoreIncrement,
       RestoreBinlogs, store
  <1>8. ASSUME SkipRestore \/ EndRestore \/ InterruptRestore PROVE Still
    BY <1>8 DEF SkipRestore, EndRestore, InterruptRestore, store
  <1>9. ASSUME MysqlSteps PROVE Still
    BY <1>9 DEF MysqlSteps, CommitChange, RotateLog, store
  <1>10. ASSUME StartServices PROVE Still
    BY <1>10 DEF StartServices, store
  <1>11. ASSUME RestoreMail
         PROVE  /\ mail' \subseteq delivered \X Dir
                /\ UNCHANGED <<delivered, fresh>>
    <2>1. mail' = mail \cup backups[run.id].mail.pairs /\ UNCHANGED <<delivered, fresh>>
      BY <1>11 DEF RestoreMail
    <2>2. backups[run.id].mail.pairs \subseteq delivered \X Dir
      BY <1>11 DEF RestoreMail, Doing, BackupInv, RunOK, SomeRuns, ArchivesOK
    <2> QED BY <1>0, <2>1, <2>2
  <1>12. ASSUME NEW m \in Msg, NEW d \in Dir, Deliver(m, d)
         PROVE  /\ mail' \subseteq delivered' \X Dir /\ delivered \subseteq delivered'
                /\ fresh' \subseteq delivered' /\ delivered' \subseteq Msg
    BY <1>0, <1>12 DEF Deliver
  <1>13. ASSUME NEW m \in Msg, NEW d \in Dir, Disturb(<<m, d>>)
         PROVE  mail' \subseteq delivered \X Dir /\ UNCHANGED <<delivered, fresh>>
    <2>1. m \in delivered
      BY <1>0, <1>13 DEF Disturb
    <2>2. <<m, d>>[1] = m
      OBVIOUS
    <2> QED BY <1>0, <1>13, <2>1, <2>2 DEF Disturb
  <1>14. Still \/ RestoreMail \/ \E m \in Msg, d \in Dir : Deliver(m, d) \/ Disturb(<<m, d>>)
    BY <1>1, <1>2, <1>3, <1>4, <1>5, <1>6, <1>7, <1>8, <1>9, <1>10, Kinds
       DEF RestoreSteps, ServiceSteps
  <1>15. ASSUME Still
         PROVE  /\ mail' \subseteq delivered' \X Dir /\ delivered \subseteq delivered'
                /\ fresh' \subseteq delivered' /\ delivered' \subseteq Msg
    BY <1>0, <1>15
  <1> HIDE DEF Still
  <1> QED BY <1>0, <1>11, <1>12, <1>13, <1>14, <1>15

LEMMA StoreKept ==
    ASSUME BackupInv, [Next]_vars
    PROVE  StoreOK'
  BY LogTyped, MailTyped DEF StoreOK

(* The backup that is made is at hand, its parts change one at a time. *)
Mine == backups[run.id]

LEMMA MineIsWhole ==
    ASSUME BackupInv, run.script # "none"
    PROVE  /\ run.id \in Id /\ Mine.exists /\ Whole(Mine) /\ BackupType(Mine) /\ MailOK(Mine.mail)
           /\ Mine.mail.pairs \subseteq delivered \X Dir
           /\ Backups(backups)
  <1>1. run.id \in Id /\ backups[run.id].exists
    BY DEF BackupInv, RunOK, SomeRuns
  <1>2. Backups(backups)
    BY DEF BackupInv, BackupsOK, Backups
  <1>3. Whole(backups[run.id]) /\ BackupType(backups[run.id]) /\ MailOK(backups[run.id].mail)
    BY <1>1, ExistsIsWhole DEF BackupInv
  <1>4. backups[run.id].mail.pairs \subseteq delivered \X Dir
    BY <1>1 DEF BackupInv, ArchivesOK
  <1> QED BY <1>1, <1>2, <1>3, <1>4 DEF Mine

Stored(b) ==
    /\ OthersSame(backups, backups', run.id) /\ backups'[run.id] = b
    /\ Whole(b) /\ BackupType(b) /\ MailOK(b.mail)
    /\ b.mail.pairs \subseteq delivered \X Dir

PutMysql(x) == backups' = [backups EXCEPT ![run.id].mysql = x]

LEMMA StoresMysql ==
    ASSUME BackupInv, run.script = "backup", NEW x, SqlType(x),
           PutMysql(x)
    PROVE  \E b : /\ Stored(b) /\ b.mysql = x /\ b.mail = Mine.mail
                  /\ b.other = Mine.other /\ b.status = Mine.status
  <1>1. PICK b : b = backups'[run.id]
    OBVIOUS
  <1>p. backups' = MysqlSet(backups, run.id, x)
    BY DEF PutMysql, MysqlSet
  <1>2. /\ OthersSame(backups, backups', run.id) /\ Whole(b) /\ b.exists
        /\ b.mysql = x /\ b.mail = Mine.mail /\ b.other = Mine.other /\ b.status = Mine.status
    BY <1>1, <1>p, MineIsWhole, MysqlStored DEF Mine
  <1>3. BackupType(b)
    BY <1>2, MineIsWhole DEF BackupType
  <1> QED BY <1>1, <1>2, <1>3, MineIsWhole DEF Stored

PutMail(x) == backups' = [backups EXCEPT ![run.id].mail = x]

LEMMA StoresMail ==
    ASSUME BackupInv, run.script = "backup", NEW x, MailOK(x), x.pairs \subseteq delivered \X Dir,
           PutMail(x)
    PROVE  \E b : /\ Stored(b) /\ b.mysql = Mine.mysql /\ b.mail = x
                  /\ b.other = Mine.other /\ b.status = Mine.status
  <1>1. PICK b : b = backups'[run.id]
    OBVIOUS
  <1>p. backups' = MailSet(backups, run.id, x)
    BY DEF PutMail, MailSet
  <1>2. /\ OthersSame(backups, backups', run.id) /\ Whole(b) /\ b.exists
        /\ b.mysql = Mine.mysql /\ b.mail = x /\ b.other = Mine.other /\ b.status = Mine.status
    BY <1>1, <1>p, MineIsWhole, MailStored DEF Mine
  <1>3. BackupType(b)
    BY <1>2, MineIsWhole DEF BackupType, MailOK
  <1> QED BY <1>1, <1>2, <1>3 DEF Stored

PutOther(c, x) == backups' = [backups EXCEPT ![run.id].other[c] = x]

LEMMA StoresOther ==
    ASSUME BackupInv, run.script = "backup", NEW c \in Other, NEW x \in {"none", "whole", "cut"},
           PutOther(c, x)
    PROVE  \E b : /\ Stored(b) /\ b.mysql = Mine.mysql /\ b.mail = Mine.mail
                  /\ b.other = OtherWith(Mine.other, c, x) /\ b.status = Mine.status
  <1>1. PICK b : b = backups'[run.id]
    OBVIOUS
  <1>p. backups' = OtherSet(backups, run.id, c, x)
    BY DEF PutOther, OtherSet
  <1>2. /\ OthersSame(backups, backups', run.id) /\ Whole(b) /\ b.exists
        /\ b.mysql = Mine.mysql /\ b.mail = Mine.mail
        /\ b.other = OtherWith(Mine.other, c, x) /\ b.status = Mine.status
    BY <1>1, <1>p, MineIsWhole, OtherStored DEF Mine
  <1>3. Mine.other \in [Other -> {"none", "whole", "cut"}]
    BY MineIsWhole DEF BackupType
  <1>4. b.other \in [Other -> {"none", "whole", "cut"}]
    BY <1>2, <1>3 DEF OtherWith
  <1>5. BackupType(b)
    BY <1>2, <1>4, MineIsWhole DEF BackupType
  <1> QED BY <1>1, <1>2, <1>5, MineIsWhole DEF Stored

PutStatus(x) == backups' = [backups EXCEPT ![run.id].status = x]

LEMMA StoresStatus ==
    ASSUME BackupInv, run.script = "backup", NEW x \in {"none", "success", "partial", "failed"},
           PutStatus(x)
    PROVE  \E b : /\ Stored(b) /\ b.mysql = Mine.mysql /\ b.mail = Mine.mail
                  /\ b.other = Mine.other /\ b.status = x
  <1>1. PICK b : b = backups'[run.id]
    OBVIOUS
  <1>p. backups' = StatusSet(backups, run.id, x)
    BY DEF PutStatus, StatusSet
  <1>2. /\ OthersSame(backups, backups', run.id) /\ Whole(b) /\ b.exists
        /\ b.mysql = Mine.mysql /\ b.mail = Mine.mail /\ b.other = Mine.other /\ b.status = x
    BY <1>1, <1>p, MineIsWhole, StatusStored DEF Mine
  <1>3. BackupType(b)
    BY <1>2, MineIsWhole DEF BackupType
  <1> QED BY <1>1, <1>2, <1>3, MineIsWhole DEF Stored

(* What each step of a backup stores. *)
LEMMA DumpStores ==
    ASSUME BackupInv, DumpEnds
    PROVE  \E b : /\ Stored(b) /\ b.mysql = FullSql(run.rows) /\ b.mail = Mine.mail
                  /\ b.other = Mine.other /\ b.status = Mine.status
  <1>1. SqlType(FullSql(run.rows))
    BY SqlTypes DEF BackupInv, RunOK, RunTypes
  <1>2. run.script = "backup" /\ PutMysql(FullSql(run.rows))
    BY DEF DumpEnds, Doing, PutMysql
  <1> QED BY <1>1, <1>2, StoresMysql

LEMMA IncrementStores ==
    ASSUME BackupInv, DumpIncrement
    PROVE  \E b : /\ Stored(b) /\ b.mysql.kind = "incremental" /\ b.mail = Mine.mail
                  /\ b.other = Mine.other /\ b.status = Mine.status
  <1>1. position.file \in 1..Len(binlog)
    BY DEF DumpIncrement, Incremental, BackupInv, MarkersOK
  <1>2. binlog[position.file] \in Seq(Event)
    BY <1>1 DEF BackupInv, StoreOK
  <1>3. PICK x : x = IncrementalSql(binlog[position.file])
    OBVIOUS
  <1>4. SqlType(x) /\ x.kind = "incremental"
    BY <1>2, <1>3, SqlTypes, SqlKinds
  <1>5. run.script = "backup" /\ PutMysql(x)
    BY <1>3 DEF DumpIncrement, Doing, PutMysql
  <1> QED BY <1>4, <1>5, StoresMysql

LEMMA MailStores ==
    ASSUME BackupInv, MailEnds
    PROVE  \E b : /\ Stored(b) /\ b.mysql = Mine.mysql
                  /\ b.mail.kind = (IF NewMailOnly THEN "incremental" ELSE "full")
                  /\ b.mail.pairs = run.pairs
                  /\ b.other = Mine.other /\ b.status = Mine.status
  <1>1. PICK x : x = [kind |-> IF NewMailOnly THEN "incremental" ELSE "full",
                      pairs |-> run.pairs]
    OBVIOUS
  <1>2. x.kind = (IF NewMailOnly THEN "incremental" ELSE "full") /\ x.pairs = run.pairs
    BY <1>1
  <1>3. MailOK(x) /\ x.pairs \subseteq delivered \X Dir
    BY <1>1 DEF MailOK, BackupInv, RunOK, RunTypes, ArchivesOK
  <1>4. run.script = "backup" /\ PutMail(x)
    BY <1>1 DEF MailEnds, Doing, PutMail
  <1> QED BY <1>2, <1>3, <1>4, StoresMail

LEMMA NoMailFacts ==
    /\ MailOK(NoMail) /\ NoMail.kind = "none" /\ NoMail.pairs = {}
    /\ MailOK(CutMail) /\ CutMail.kind = "cut" /\ CutMail.pairs = {}
  BY DEF MailOK, NoMail, CutMail

LEMMA CutMailStores ==
    ASSUME BackupInv, MailCutShort
    PROVE  \E b : /\ Stored(b) /\ b.mysql = Mine.mysql /\ b.mail \in {CutMail, NoMail}
                  /\ b.other = Mine.other /\ b.status = Mine.status
  <1>1. PICK x \in {CutMail, NoMail} : PutMail(x)
    BY DEF MailCutShort, PutMail
  <1>2. MailOK(x) /\ x.pairs \subseteq delivered \X Dir
    BY NoMailFacts
  <1>3. run.script = "backup"
    BY DEF MailCutShort, Doing
  <1> QED BY <1>1, <1>2, <1>3, StoresMail

LEMMA OtherStores ==
    ASSUME BackupInv, NEW c \in Other, ArchiveOther(c)
    PROVE  \E b : /\ Stored(b) /\ b.mysql = Mine.mysql /\ b.mail = Mine.mail
                  /\ b.other = OtherWith(Mine.other, c, "whole") /\ b.status = Mine.status
  <1>1. run.script = "backup" /\ PutOther(c, "whole")
    BY DEF ArchiveOther, Doing, PutOther
  <1> QED BY <1>1, StoresOther

LEMMA OtherStoresLess ==
    ASSUME BackupInv, NEW c \in Other, ArchiveOtherFails(c), c = "trees"
    PROVE  \E b : /\ Stored(b) /\ b.mysql = Mine.mysql /\ b.mail = Mine.mail
                  /\ \E x \in {"none", "cut"} : b.other = OtherWith(Mine.other, c, x)
                  /\ b.status = Mine.status
  <1>1. PICK x \in {"none", "cut"} : PutOther(c, x)
    BY DEF ArchiveOtherFails, PutOther
  <1>2. run.script = "backup"
    BY DEF ArchiveOtherFails, Doing
  <1> QED BY <1>1, <1>2, StoresOther

LEMMA ManifestStores ==
    ASSUME BackupInv, GenerateManifest
    PROVE  \E b : /\ Stored(b) /\ b.mysql = Mine.mysql /\ b.mail = Mine.mail
                  /\ b.other = Mine.other /\ (b.status = "success" => ~run.errors)
  <1>1. PICK x \in {"success", "partial", "failed"} :
            /\ x = "success" => ~run.errors
            /\ PutStatus(x)
    BY DEF GenerateManifest, PutStatus
  <1>2. run.script = "backup"
    BY DEF GenerateManifest, AllDone
  <1> QED BY <1>1, <1>2, StoresStatus

LEMMA InterruptStores ==
    ASSUME BackupInv, run.script = "backup", NEW c \in Component, LeftBehind(c)
    PROVE  \E b : Stored(b) /\ b.status = Mine.status
  <1>1. ASSUME c = "mysql" /\ PutMysql(CutSql)
        PROVE  \E b : Stored(b) /\ b.status = Mine.status
    BY <1>1, SqlTypes, StoresMysql
  <1>2. ASSUME c = "mail" /\ PutMail(CutMail)
        PROVE  \E b : Stored(b) /\ b.status = Mine.status
    BY <1>2, NoMailFacts, StoresMail
  <1>3. ASSUME c \in Other /\ PutOther(c, "cut")
        PROVE  \E b : Stored(b) /\ b.status = Mine.status
    BY <1>3, StoresOther
  <1> QED BY <1>1, <1>2, <1>3 DEF LeftBehind, PutMysql, PutMail, PutOther

(* Directories go when a backup ends. *)
Removes == run.script = "backup" /\ run' = NoRun /\ \E ids : backups' = Without(ids)

LEMMA BackupsEffects ==
    ASSUME BackupInv, [Next]_vars
    PROVE  \/ UNCHANGED backups
           \/ run.script = "backup" /\ \E b : Stored(b)
           \/ Removes
           \/ \E sel, incremental : StartBackup(sel, incremental)
  <1>1. ASSUME UNCHANGED vars PROVE UNCHANGED backups
    BY <1>1 DEF vars
  <1>2. ASSUME StartSteps
        PROVE  UNCHANGED backups \/ \E sel, incremental : StartBackup(sel, incremental)
    BY <1>2 DEF StartSteps, StartRestore
  <1>3. ASSUME DumpSteps
        PROVE  UNCHANGED backups \/ (run.script = "backup" /\ \E b : Stored(b))
    <2>1. ASSUME DumpBegins \/ DumpFails \/ SavePosition \/ KeepPosition PROVE UNCHANGED backups
      BY <2>1 DEF DumpBegins, DumpFails, SavePosition, KeepPosition
    <2>2. ASSUME DumpSaved \/ DumpIncrementFails PROVE UNCHANGED backups
      BY <2>2 DEF DumpSaved, DumpIncrementFails
    <2>3. ASSUME DumpEnds PROVE run.script = "backup" /\ \E b : Stored(b)
      <3>1. run.script = "backup"
        BY <2>3 DEF DumpEnds, Doing
      <3> QED BY <2>3, <3>1, DumpStores
    <2>4. ASSUME DumpIncrement PROVE run.script = "backup" /\ \E b : Stored(b)
      <3>1. run.script = "backup"
        BY <2>4 DEF DumpIncrement, Doing
      <3> QED BY <2>4, <3>1, IncrementStores
    <2> QED BY <1>3, <2>1, <2>2, <2>3, <2>4 DEF DumpSteps
  <1>4. ASSUME MailSteps
        PROVE  UNCHANGED backups \/ (run.script = "backup" /\ \E b : Stored(b))
    <2>1. ASSUME MailBegins \/ StampMail \/ \E d \in Dir : ReadDir(d) PROVE UNCHANGED backups
      BY <2>1 DEF MailBegins, StampMail, ReadDir
    <2>2. ASSUME MailEnds PROVE run.script = "backup" /\ \E b : Stored(b)
      <3>1. run.script = "backup"
        BY <2>2 DEF MailEnds, Doing
      <3> QED BY <2>2, <3>1, MailStores
    <2>3. ASSUME MailCutShort PROVE run.script = "backup" /\ \E b : Stored(b)
      <3>1. run.script = "backup"
        BY <2>3 DEF MailCutShort, Doing
      <3> QED BY <2>3, <3>1, CutMailStores
    <2> QED BY <1>4, <2>1, <2>2, <2>3 DEF MailSteps
  <1>5. ASSUME OtherSteps
        PROVE  UNCHANGED backups \/ (run.script = "backup" /\ \E b : Stored(b))
    <2>1. ASSUME SkipTrees PROVE UNCHANGED backups
      BY <2>1 DEF SkipTrees
    <2>2. ASSUME NEW c \in Other, ArchiveOther(c)
          PROVE  run.script = "backup" /\ \E b : Stored(b)
      <3>1. run.script = "backup"
        BY <2>2 DEF ArchiveOther, Doing
      <3> QED BY <2>2, <3>1, OtherStores
    <2>3. ASSUME NEW c \in Other, ArchiveOtherFails(c)
          PROVE  UNCHANGED backups \/ (run.script = "backup" /\ \E b : Stored(b))
      <3>1. run.script = "backup"
        BY <2>3 DEF ArchiveOtherFails, Doing
      <3>2. c = "trees" \/ UNCHANGED backups
        BY <2>3 DEF ArchiveOtherFails
      <3> QED BY <2>3, <3>1, <3>2, OtherStoresLess
    <2> QED BY <1>5, <2>1, <2>2, <2>3 DEF OtherSteps
  <1>6. ASSUME EndSteps
        PROVE  \/ UNCHANGED backups
               \/ run.script = "backup" /\ \E b : Stored(b)
               \/ Removes
    <2>1. ASSUME VerifyBackup PROVE UNCHANGED backups
      BY <2>1 DEF VerifyBackup
    <2>2. ASSUME GenerateManifest PROVE run.script = "backup" /\ \E b : Stored(b)
      <3>1. run.script = "backup"
        BY <2>2 DEF GenerateManifest, AllDone
      <3> QED BY <2>2, <3>1, ManifestStores
    <2>3. ASSUME CleanupBackups PROVE Removes
      BY <2>3 DEF CleanupBackups, AllDone, Removes
    <2>4. ASSUME InterruptBackup
          PROVE  \/ UNCHANGED backups
                 \/ run.script = "backup" /\ \E b : Stored(b)
                 \/ Removes
      <3>1. /\ run.script = "backup" /\ run' = NoRun
            /\ \/ UNCHANGED backups \/ \E ids : backups' = Without(ids)
               \/ \E c \in Component : LeftBehind(c)
        BY <2>4 DEF InterruptBackup
      <3> QED BY <3>1, InterruptStores DEF Removes
    <2> QED BY <1>6, <2>1, <2>2, <2>3, <2>4 DEF EndSteps
  <1>7. ASSUME MysqlRestoreSteps PROVE UNCHANGED backups
    BY <1>7 DEF MysqlRestoreSteps, RestoreDump, RestoreDumpFails, RestoreIncrement,
       RestoreBinlogs
  <1>8. ASSUME RestoreSteps PROVE UNCHANGED backups
    BY <1>8 DEF RestoreSteps, SkipRestore, RestoreMail, EndRestore, InterruptRestore
  <1>9. ASSUME MysqlSteps PROVE UNCHANGED backups
    BY <1>9 DEF MysqlSteps, CommitChange, RotateLog
  <1>10. ASSUME ServiceSteps PROVE UNCHANGED backups
    BY <1>10 DEF ServiceSteps, StartServices, Deliver, Disturb
  <1> QED BY <1>1, <1>2, <1>3, <1>4, <1>5, <1>6, <1>7, <1>8, <1>9, <1>10, Kinds

LEMMA TallyCounts ==
    ASSUME CountOK, NEW what \in Tallies, NEW bound, Tally(what, bound)
    PROVE  /\ count' \in [Tallies -> Nat]
           /\ count'[what] = count[what] + 1 /\ count[what] < bound
           /\ \A other \in Tallies \ {what} : count'[other] = count[other]
  BY DEF CountOK, Tally

LEMMA FaultCounts ==
    ASSUME CountOK, Fault
    PROVE  count' \in [Tallies -> Nat] /\ count'.backups = count.backups
  BY TallyCounts DEF Fault, Tallies

(* Of the counters only those that bound the instance move; the one of the backups
   when one is started. *)
LEMMA CountEffects ==
    ASSUME BackupInv, [Next]_vars
    PROVE  /\ count' \in [Tallies -> Nat]
           /\ \/ count'.backups = count.backups
              \/ \E sel, incremental : StartBackup(sel, incremental)
  <1>0. CountOK /\ count \in [Tallies -> Nat]
    BY DEF BackupInv, CountOK
  <1> DEFINE Fine == count' \in [Tallies -> Nat] /\ count'.backups = count.backups
             Begun == \E sel, incremental : StartBackup(sel, incremental)
  <1>1. ASSUME UNCHANGED count \/ Fault PROVE Fine
    BY <1>0, <1>1, FaultCounts
  <1>2. ASSUME UNCHANGED vars PROVE UNCHANGED count
    BY <1>2 DEF vars
  <1>3. ASSUME NEW id, NEW sel, StartRestore(id, sel) PROVE Fine
    BY <1>0, <1>3, TallyCounts DEF StartRestore, Tallies
  <1>4. ASSUME NEW sel, NEW incremental, StartBackup(sel, incremental)
        PROVE  count' \in [Tallies -> Nat]
    BY <1>0, <1>4, TallyCounts DEF StartBackup, Tallies
  <1>5. ASSUME DumpSteps PROVE UNCHANGED count \/ Fault
    BY <1>5 DEF DumpSteps, DumpBegins, DumpFails, DumpEnds, SavePosition, KeepPosition,
       DumpSaved, DumpIncrement, DumpIncrementFails
  <1>6. ASSUME MailSteps PROVE UNCHANGED count \/ Fault
    BY <1>6 DEF MailSteps, MailBegins, MailEnds, MailCutShort, StampMail, ReadDir
  <1>7. ASSUME OtherSteps PROVE UNCHANGED count \/ Fault
    BY <1>7 DEF OtherSteps, ArchiveOther, ArchiveOtherFails, SkipTrees
  <1>8. ASSUME EndSteps PROVE UNCHANGED count \/ Fault
    BY <1>8 DEF EndSteps, VerifyBackup, GenerateManifest, CleanupBackups, InterruptBackup
  <1>9. ASSUME MysqlRestoreSteps PROVE UNCHANGED count \/ Fault
    BY <1>9 DEF MysqlRestoreSteps, RestoreDump, RestoreDumpFails, RestoreIncrement,
       RestoreBinlogs
  <1>10. ASSUME RestoreSteps PROVE UNCHANGED count \/ Fault
    BY <1>10 DEF RestoreSteps, SkipRestore, RestoreMail, EndRestore, InterruptRestore
  <1>11. ASSUME MysqlSteps PROVE Fine
    BY <1>0, <1>11, TallyCounts DEF MysqlSteps, CommitChange, RotateLog, Tallies
  <1>12. ASSUME ServiceSteps PROVE UNCHANGED count
    BY <1>12 DEF ServiceSteps, StartServices, Deliver, Disturb
  <1>13. Fine \/ Begun
    <2>1. ASSUME StartSteps PROVE Fine \/ Begun
      BY <1>3, <2>1 DEF StartSteps
    <2> HIDE DEF Fine, Begun
    <2> QED BY <1>1, <1>2, <1>5, <1>6, <1>7, <1>8, <1>9, <1>10, <1>11, <1>12, <2>1, Kinds
  <1> QED BY <1>4, <1>13

LEMMA BackupBegins ==
    ASSUME BackupInv, NEW sel, NEW incremental, StartBackup(sel, incremental)
    PROVE  /\ count'.backups = count.backups + 1 /\ count'.backups \in Id
           /\ OthersSame(backups, backups', count'.backups)
           /\ backups'[count'.backups] = EmptyBackup
           /\ run = NoRun
           /\ run' = [NoRun EXCEPT !.script = "backup", !.id = count'.backups, !.sel = sel,
                                   !.incremental = incremental, !.rest = sel]
           /\ UNCHANGED <<mysql, store, markers, stopped, rebuilt>>
  <1>1. /\ Tally("backups", MaxBackups) /\ "backups" \in Tallies
        /\ backups' = [backups EXCEPT ![count.backups + 1] = EmptyBackup]
        /\ run = NoRun
        /\ run' = [NoRun EXCEPT !.script = "backup", !.id = count.backups + 1, !.sel = sel,
                                !.incremental = incremental, !.rest = sel]
        /\ UNCHANGED <<mysql, store, markers, stopped, rebuilt>>
    BY DEF StartBackup, Tallies
  <1>2. count'.backups = count.backups + 1 /\ count.backups < MaxBackups
    BY <1>1, TallyCounts DEF BackupInv
  <1>3. count.backups \in Nat /\ MaxBackups \in Nat
    BY BoundsAssumption DEF BackupInv, CountOK
  <1>4. count.backups + 1 \in Id
    BY <1>2, <1>3 DEF Id
  <1>5. Backups(backups)
    BY DEF BackupInv, BackupsOK, Backups
  <1>6. /\ OthersSame(backups, backups', count.backups + 1)
        /\ backups'[count.backups + 1] = EmptyBackup
    BY <1>1, <1>4, <1>5 DEF OthersSame, Backups
  <1> QED BY <1>1, <1>2, <1>4, <1>6

(* Backups are added at the end, or lose what is in them. *)
LEMMA BackupsKept ==
    ASSUME BackupInv, [Next]_vars
    PROVE  /\ BackupsOK'
           /\ CountOK'
           /\ \A id \in Id : backups'[id].exists =>
                                backups'[id].mail.pairs \subseteq delivered' \X Dir
  <1>1. /\ Backups(backups) /\ \A id \in Id : BackupOK(backups[id])
        /\ \A id \in Id : backups[id].exists => backups[id].mail.pairs \subseteq delivered \X Dir
        /\ \A id \in Id : id > count.backups => backups[id] = NoBackup
        /\ count.backups \in 0..MaxBackups /\ count \in [Tallies -> Nat]
    BY DEF BackupInv, BackupsOK, CountOK, ArchivesOK, Backups
  <1>2. delivered \X Dir \subseteq delivered' \X Dir
    BY MailTyped
  <1>3. count' \in [Tallies -> Nat]
    BY CountEffects
  <1>4. NoBackup.exists = FALSE /\ BackupOK(NoBackup)
    BY DEF NoBackup, BackupOK
  <1> DEFINE Fine ==
        /\ Backups(backups') /\ \A id \in Id : BackupOK(backups'[id])
        /\ \A id \in Id : backups'[id].exists => backups'[id].mail.pairs \subseteq delivered \X Dir
        /\ \A id \in Id : id > count'.backups => backups'[id] = NoBackup
        /\ count'.backups \in 0..MaxBackups
  <1>5. ASSUME UNCHANGED backups, count'.backups = count.backups
        PROVE  Fine
    BY <1>1, <1>5
  <1>6. ASSUME run.script = "backup", NEW b, Stored(b), count'.backups = count.backups
        PROVE  Fine
    <2>1. run.id \in Id /\ run.id = count.backups
      BY <1>6, MineIsWhole DEF BackupInv, RunOK, BackupRuns
    <2>2. BackupOK(b) /\ b.mail.pairs \subseteq delivered \X Dir
      BY <1>6 DEF Stored, BackupOK
    <2>3. /\ Backups(backups') /\ backups'[run.id] = b
          /\ \A id \in Id \ {run.id} : backups'[id] = backups[id]
      BY <1>6 DEF Stored, OthersSame
    <2>4. \A id \in Id : id > count.backups => id # run.id
      BY <1>1, <2>1 DEF Id
    <2> QED BY <1>1, <1>6, <2>1, <2>2, <2>3, <2>4
  <1>7. ASSUME NEW ids, backups' = Without(ids), count'.backups = count.backups
        PROVE  Fine
    <2>1. Backups(backups') /\ \A id \in Id : backups'[id] \in {backups[id], NoBackup}
      BY <1>7 DEF Without, Backups
    <2> QED BY <1>1, <1>4, <1>7, <2>1
  <1>8. ASSUME NEW sel, NEW incremental, StartBackup(sel, incremental)
        PROVE  Fine
    <2>1. /\ count'.backups = count.backups + 1 /\ count'.backups \in Id
          /\ Backups(backups') /\ backups'[count'.backups] = EmptyBackup
          /\ \A id \in Id \ {count'.backups} : backups'[id] = backups[id]
      BY <1>8, BackupBegins DEF OthersSame
    <2>2. EmptyBackup.mail.pairs \subseteq delivered \X Dir
      BY DEF EmptyBackup, NoMail
    <2>3. count'.backups \in 0..MaxBackups
      BY <2>1, BoundsAssumption DEF Id
    <2>4. \A id \in Id : id > count'.backups => id # count'.backups /\ id > count.backups
      BY <1>1, <2>1 DEF Id
    <2>5. \A id \in Id : BackupOK(backups'[id])
      BY <1>1, <2>1, EmptyIsOK
    <2>6. \A id \in Id : backups'[id].exists => backups'[id].mail.pairs \subseteq delivered \X Dir
      BY <1>1, <2>1, <2>2
    <2>7. \A id \in Id : id > count'.backups => backups'[id] = NoBackup
      BY <1>1, <2>1, <2>4
    <2> QED BY <2>1, <2>3, <2>5, <2>6, <2>7
  <1>9. Fine
    <2>1. ASSUME NEW sel, NEW incremental, StartBackup(sel, incremental)
          PROVE  Fine
      BY <1>8, <2>1
    <2> HIDE DEF Fine
    <2> QED BY <1>5, <1>6, <1>7, <2>1, BackupsEffects, CountEffects DEF Removes
  <1> QED BY <1>2, <1>3, <1>9 DEF BackupsOK, CountOK, Backups

----------------------------------------------------------------------------
(* The script that runs. *)

(* It goes on to another place. *)
GoesOn ==
    /\ run.script # "none"
    /\ Shape(run') /\ run'.script = run.script /\ run'.id = run.id /\ run'.sel = run.sel
    /\ run'.incremental \in BOOLEAN /\ run'.saved \in BOOLEAN /\ run'.errors \in BOOLEAN
    /\ run'.rest \subseteq run.rest
    /\ run'.rows \subseteq Row /\ run'.unread \subseteq Dir
    /\ run'.pairs \subseteq delivered \X Dir /\ run'.owed \subseteq mail'

RestorePlace(r) ==
    /\ r.pc \in {"begin", "binlogs"}
    /\ r.pc = "binlogs" => "mysql" \in r.rest /\ Sql.kind = "incremental"

Goes ==
    /\ GoesOn
    /\ run.script = "backup" => BackupPlace(run', Len(binlog'))
    /\ run.script = "restore" => RestorePlace(run')

RunKept == RunOK' /\ run'.pairs \subseteq delivered' \X Dir

LEMMA GoesKept ==
    ASSUME BackupInv, [Next]_vars, Goes
    PROVE  RunKept
  <1>1. GoesOn /\ RunTypes /\ SomeRuns /\ BackupRuns /\ RestoreRuns
    BY DEF Goes, BackupInv, RunOK
  <1>2. delivered \subseteq delivered' /\ delivered' \subseteq Msg
    BY MailTyped
  <1>3. RunTypes' /\ run'.pairs \subseteq delivered' \X Dir
    <2>1. run'.pairs \subseteq delivered' \X Dir /\ run'.pairs \subseteq Msg \X Dir
      BY <1>1, <1>2 DEF GoesOn
    <2> QED BY <1>1, <2>1 DEF GoesOn, RunTypes
  <1>4. run'.script # "none" /\ run' # NoRun /\ run # NoRun
    BY <1>1, NoRunFields DEF GoesOn
  <1>5. ~Removes /\ \A sel, incremental : ~StartBackup(sel, incremental)
    BY <1>4 DEF Removes, StartBackup
  <1>6. UNCHANGED backups \/ (run.script = "backup" /\ \E b : Stored(b))
    BY <1>5, BackupsEffects
  <1>7. run.id \in Id /\ backups[run.id].exists /\ run'.id = run.id
    BY <1>1 DEF SomeRuns, GoesOn
  <1>8. backups'[run.id].exists
    <2>1. ASSUME NEW b, Stored(b)
          PROVE  backups'[run.id].exists
      BY <2>1 DEF Stored, Whole
    <2> QED BY <1>6, <1>7, <2>1
  <1>9. SomeRuns' /\ NoneRuns'
    BY <1>4, <1>7, <1>8 DEF SomeRuns, NoneRuns
  <1>10. BackupRuns'
    <2>1. count'.backups = count.backups
      BY <1>5, CountEffects
    <2> QED BY <1>1, <1>7, <2>1 DEF BackupRuns, Goes, GoesOn
  <1>11. RestoreRuns'
    <2>1. ASSUME run.script = "restore"
          PROVE  RestoreRuns'
      <3>1. backups' = backups
        BY <1>6, <2>1
      <3>2. Sql' = Sql
        BY <1>7, <3>1 DEF Sql
      <3>3. RestorePlace(run') /\ run.sel \in RestoreSelections /\ run'.sel = run.sel
        BY <1>1, <2>1 DEF Goes, GoesOn, RestoreRuns
      <3>4. RestoreSelections' = RestoreSelections
        BY DEF RestoreSelections
      <3> QED BY <3>2, <3>3, <3>4 DEF RestoreRuns, RestorePlace
    <2> QED BY <1>1, <2>1 DEF RestoreRuns, GoesOn
  <1> QED BY <1>3, <1>9, <1>10, <1>11 DEF RunKept, RunOK

LEMMA NoRunKept ==
    ASSUME run' = NoRun
    PROVE  RunKept
  <1>1. RunTypes'
    BY NoRunFields DEF RunTypes
  <1> QED BY <1>1, NoRunFields DEF RunKept, RunOK, NoneRuns, SomeRuns, BackupRuns, RestoreRuns

(* Where the mail is that was there only changes when somebody disturbs it. *)
LEMMA MailEffects ==
    ASSUME [Next]_vars
    PROVE  mail \subseteq mail' \/ \E p : Disturb(p)
  <1>1. ASSUME UNCHANGED vars PROVE UNCHANGED mail
    BY <1>1 DEF vars, store
  <1>2. ASSUME StartSteps PROVE UNCHANGED mail
    BY <1>2 DEF StartSteps, StartBackup, StartRestore, store
  <1>3. ASSUME DumpSteps PROVE UNCHANGED mail
    BY <1>3 DEF DumpSteps, DumpBegins, DumpFails, DumpEnds, SavePosition, KeepPosition,
       DumpSaved, DumpIncrement, DumpIncrementFails, store
  <1>4. ASSUME MailSteps PROVE UNCHANGED mail
    BY <1>4 DEF MailSteps, MailBegins, MailEnds, MailCutShort, StampMail, ReadDir, store
  <1>5. ASSUME OtherSteps PROVE UNCHANGED mail
    BY <1>5 DEF OtherSteps, ArchiveOther, ArchiveOtherFails, SkipTrees, store
  <1>6. ASSUME EndSteps PROVE UNCHANGED mail
    BY <1>6 DEF EndSteps, VerifyBackup, GenerateManifest, CleanupBackups, InterruptBackup,
       store
  <1>7. ASSUME MysqlRestoreSteps PROVE UNCHANGED mail
    BY <1>7 DEF MysqlRestoreSteps, RestoreDump, RestoreDumpFails, RestoreIncrement,
       RestoreBinlogs, store
  <1>8. ASSUME RestoreSteps PROVE mail \subseteq mail'
    BY <1>8 DEF RestoreSteps, SkipRestore, RestoreMail, EndRestore, InterruptRestore, store
  <1>9. ASSUME MysqlSteps PROVE UNCHANGED mail
    BY <1>9 DEF MysqlSteps, CommitChange, RotateLog, store
  <1>10. ASSUME ServiceSteps PROVE mail \subseteq mail' \/ \E p : Disturb(p)
    BY <1>10 DEF ServiceSteps, StartServices, Deliver, store
  <1> QED BY <1>1, <1>2, <1>3, <1>4, <1>5, <1>6, <1>7, <1>8, <1>9, <1>10, Kinds

(* A component is over. *)
Ends(c) == c \in run.rest /\ Ending(run', c)

(* The place changes and nothing else of the record. *)
Moves(pc) == run' = [run EXCEPT !.pc = pc]
MysqlMoves ==
    /\ "mysql" \in run.rest
    /\ \E pc \in {"position", "saved", "fallback"} :
          Moves(pc) /\ (pc = "position" => run.pc = "dump")
MailMoves == "mail" \in run.rest /\ "mysql" \notin run.rest /\ Moves("stamp")
EndMoves == run.rest = {} /\ Moves("cleanup")
RestoreMoves == "mysql" \in run.rest /\ Sql.kind = "incremental" /\ Moves("binlogs")

(* The record stays what it is as long as the rest does not fall behind it. *)
LEMMA SameGoes ==
    ASSUME BackupInv, [Next]_vars, run.script # "none", Shape(run'), run'.script = run.script,
           run'.id = run.id, run'.sel = run.sel, run'.incremental = run.incremental,
           run'.saved \in {TRUE, run.saved}, run'.errors \in BOOLEAN,
           run'.rest \subseteq run.rest, run'.rows \subseteq Row, run'.unread \subseteq Dir,
           run'.pairs \subseteq delivered \X Dir, run'.owed \subseteq mail'
    PROVE  GoesOn
  <1>1. run.incremental \in BOOLEAN /\ run.saved \in BOOLEAN
    BY DEF BackupInv, RunOK, RunTypes
  <1>2. run'.incremental \in BOOLEAN /\ run'.saved \in BOOLEAN
    BY <1>1
  <1> QED BY <1>2 DEF GoesOn

LEMMA RunFacts ==
    ASSUME BackupInv
    PROVE  /\ Shape(run) /\ run.rows \subseteq Row /\ run.unread \subseteq Dir
           /\ run.pairs \subseteq delivered \X Dir /\ run.owed \subseteq mail
           /\ run.errors \in BOOLEAN /\ run.saved \in BOOLEAN /\ run.incremental \in BOOLEAN
           /\ run.rest \subseteq run.sel /\ run.sel \subseteq Component
  BY DEF BackupInv, RunOK, RunTypes, ArchivesOK

LEMMA StaysKept ==
    ASSUME BackupInv, [Next]_vars, run' = run, mail \subseteq mail'
    PROVE  RunKept
  <1>1. ASSUME run.script = "none"
        PROVE  RunKept
    <2>1. run' = NoRun
      BY <1>1 DEF BackupInv, RunOK, NoneRuns
    <2> QED BY <2>1, NoRunKept
  <1>2. ASSUME run.script # "none"
        PROVE  RunKept
    <2>1. GoesOn
      BY <1>2, RunFacts, SameGoes
    <2>2. Len(binlog) \in Nat /\ Len(binlog') \in Nat /\ Len(binlog') >= Len(binlog)
      BY LogTyped DEF BackupInv, StoreOK
    <2>3. \A n \in 1..Len(binlog) : n \in 1..Len(binlog')
      BY <2>2
    <2>4. run.script = "backup" => BackupPlace(run', Len(binlog'))
      BY <2>3 DEF BackupInv, RunOK, BackupRuns, BackupPlace
    <2>5. run.script = "restore" => RestorePlace(run')
      BY DEF BackupInv, RunOK, RestoreRuns, RestorePlace
    <2> QED BY <2>1, <2>4, <2>5, GoesKept DEF Goes
  <1> QED BY <1>1, <1>2

LEMMA EndsKept ==
    ASSUME BackupInv, [Next]_vars, NEW c, Ends(c), run.script # "none", mail \subseteq mail'
    PROVE  RunKept
  <1>1. Shape(run) /\ Ending(run', c)
    BY RunFacts DEF Ends
  <1>2. PICK r : r = run'
    OBVIOUS
  <1>e. Ending(r, c)
    BY <1>1, <1>2
  <1>3. /\ Shape(r) /\ r.rest = run.rest \ {c} /\ r.pc = "begin"
        /\ r.script = run.script /\ r.id = run.id /\ r.sel = run.sel
        /\ r.incremental = run.incremental /\ r.saved \in {TRUE, run.saved}
        /\ r.errors \in {TRUE, run.errors}
        /\ r.rows = run.rows /\ r.file = run.file /\ r.unread = run.unread
        /\ r.pairs = run.pairs /\ r.owed = run.owed
    BY <1>1, <1>e, OverFields
  <1>4. r.rest \subseteq run.rest /\ r.errors \in BOOLEAN
    BY <1>3, RunFacts
  <1>5. GoesOn
    BY <1>2, <1>3, <1>4, RunFacts, SameGoes
  <1>6. BackupPlace(run', Len(binlog')) /\ RestorePlace(run')
    BY <1>2, <1>3 DEF BackupPlace, RestorePlace, InMysql, InMail, AtEnd
  <1> QED BY <1>5, <1>6, GoesKept DEF Goes

LEMMA MovesGoes ==
    ASSUME BackupInv, [Next]_vars, NEW pc, Moves(pc), run.script # "none", mail \subseteq mail'
    PROVE  /\ GoesOn /\ run'.pc = pc /\ run'.rest = run.rest /\ run'.file = run.file
           /\ run'.rows = run.rows /\ run'.pairs = run.pairs /\ run'.owed = run.owed
           /\ run'.errors = run.errors /\ run'.saved = run.saved /\ run'.unread = run.unread
  <1>1. PICK r : r = run'
    OBVIOUS
  <1>2. r = [run EXCEPT !.pc = pc]
    BY <1>1 DEF Moves
  <1>3. /\ Shape(r) /\ r.pc = pc /\ r.rest = run.rest
        /\ r.script = run.script /\ r.id = run.id /\ r.sel = run.sel
        /\ r.incremental = run.incremental /\ r.saved = run.saved /\ r.errors = run.errors
        /\ r.rows = run.rows /\ r.file = run.file /\ r.unread = run.unread
        /\ r.pairs = run.pairs /\ r.owed = run.owed
    BY <1>2, RunFacts, PcFields
  <1>4. GoesOn
    BY <1>1, <1>3, RunFacts, SameGoes
  <1> QED BY <1>1, <1>3, <1>4

LEMMA MovesKept ==
    ASSUME BackupInv, [Next]_vars, mail \subseteq mail',
           \/ run.script = "backup" /\ (MysqlMoves \/ MailMoves \/ EndMoves)
           \/ run.script = "restore" /\ RestoreMoves
    PROVE  RunKept
  <1>1. PICK pc : Moves(pc)
    BY DEF MysqlMoves, MailMoves, EndMoves, RestoreMoves
  <1>2. run.script # "none"
    OBVIOUS
  <1>3. GoesOn /\ run'.pc = pc /\ run'.rest = run.rest /\ run'.file = run.file
    BY <1>1, <1>2, MovesGoes
  <1>4. \A n \in 1..Len(binlog) : n \in 1..Len(binlog')
    <2>1. Len(binlog) \in Nat /\ Len(binlog') \in Nat /\ Len(binlog') >= Len(binlog)
      BY LogTyped DEF BackupInv, StoreOK
    <2> QED BY <2>1
  <1>5. ASSUME run.script = "backup", MysqlMoves
        PROVE  BackupPlace(run', Len(binlog'))
    <2>1. PICK to \in {"position", "saved", "fallback"} :
             Moves(to) /\ (to = "position" => run.pc = "dump") /\ "mysql" \in run.rest
      BY <1>5 DEF MysqlMoves
    <2>2. run'.pc = to
      BY <1>2, <2>1, MovesGoes
    <2>3. to = "position" => run.file \in 1..Len(binlog)
      BY <1>5, <2>1 DEF BackupInv, RunOK, BackupRuns, BackupPlace
    <2> QED BY <1>3, <1>4, <2>1, <2>2, <2>3 DEF BackupPlace, InMysql, InMail, AtEnd
  <1>6. ASSUME MailMoves
        PROVE  BackupPlace(run', Len(binlog'))
    <2>1. run'.pc = "stamp" /\ "mail" \in run.rest /\ "mysql" \notin run.rest
      BY <1>2, <1>6, MovesGoes DEF MailMoves
    <2> QED BY <1>3, <2>1 DEF BackupPlace, InMysql, InMail, AtEnd
  <1>7. ASSUME EndMoves
        PROVE  BackupPlace(run', Len(binlog'))
    <2>1. run'.pc = "cleanup" /\ run.rest = {}
      BY <1>2, <1>7, MovesGoes DEF EndMoves
    <2> QED BY <1>3, <2>1 DEF BackupPlace, InMysql, InMail, AtEnd
  <1>8. ASSUME RestoreMoves
        PROVE  RestorePlace(run')
    <2>1. run'.pc = "binlogs" /\ "mysql" \in run.rest /\ Sql.kind = "incremental"
      BY <1>2, <1>8, MovesGoes DEF RestoreMoves
    <2> QED BY <1>3, <2>1 DEF RestorePlace
  <1> QED BY <1>3, <1>5, <1>6, <1>7, <1>8, GoesKept DEF Goes

LEMMA DumpBeginsKept ==
    ASSUME BackupInv, [Next]_vars, DumpBegins
    PROVE  RunKept
  <1>1. run.script = "backup" /\ "mysql" \in run.rest
    BY DEF DumpBegins, WantsDump, Doing
  <1>2. /\ run' = [run EXCEPT !.pc = "dump", !.rows = db, !.file = Len(binlog) + 1,
                              !.owed = mail]
        /\ mail' = mail /\ binlog' = Append(binlog, <<>>)
    BY DEF DumpBegins, store
  <1>3. /\ Shape(run') /\ run'.script = run.script /\ run'.id = run.id /\ run'.sel = run.sel
        /\ run'.incremental = run.incremental /\ run'.saved = run.saved
        /\ run'.errors = run.errors /\ run'.rest = run.rest /\ run'.unread = run.unread
        /\ run'.pairs = run.pairs /\ run'.rows = db /\ run'.file = Len(binlog) + 1
        /\ run'.owed = mail /\ run'.pc = "dump"
    BY <1>2, RunFacts DEF Shape, Field
  <1>4. db \subseteq Row /\ binlog \in Seq(Seq(Event))
    BY DEF BackupInv, StoreOK
  <1>5. run.script # "none"
    BY <1>1
  <1>6. GoesOn
    BY <1>2, <1>3, <1>4, <1>5, RunFacts, SameGoes
  <1>7. run'.file \in 1..Len(binlog')
    <2>1. <<>> \in Seq(Event)
      OBVIOUS
    <2>2. Len(binlog') = Len(binlog) + 1 /\ Len(binlog) \in Nat
      BY <1>2, <1>4, <2>1
    <2> QED BY <1>3, <2>2
  <1>8. BackupPlace(run', Len(binlog'))
    BY <1>1, <1>3, <1>7 DEF BackupPlace, InMysql, InMail, AtEnd
  <1> QED BY <1>1, <1>6, <1>8, GoesKept DEF Goes

LEMMA MailBeginsKept ==
    ASSUME BackupInv, [Next]_vars, MailBegins
    PROVE  RunKept
  <1>0. "mail" \in Component
    BY DEF Component
  <1>1. run.script = "backup" /\ "mail" \in run.rest /\ "mysql" \notin run.rest
    BY <1>0, DoingFacts DEF MailBegins
  <1>2. run' = [run EXCEPT !.pc = "tar", !.unread = Dir] /\ mail' = mail
    BY DEF MailBegins, store
  <1>3. /\ Shape(run') /\ run'.script = run.script /\ run'.id = run.id /\ run'.sel = run.sel
        /\ run'.incremental = run.incremental /\ run'.saved = run.saved
        /\ run'.errors = run.errors /\ run'.rest = run.rest /\ run'.unread = Dir
        /\ run'.pairs = run.pairs /\ run'.rows = run.rows /\ run'.owed = run.owed
        /\ run'.pc = "tar"
    BY <1>2, RunFacts DEF Shape, Field
  <1>4. run.script # "none"
    BY <1>1
  <1>5. GoesOn
    BY <1>2, <1>3, <1>4, RunFacts, SameGoes
  <1>6. BackupPlace(run', Len(binlog'))
    BY <1>1, <1>3 DEF BackupPlace, InMysql, InMail, AtEnd
  <1> QED BY <1>1, <1>5, <1>6, GoesKept DEF Goes

LEMMA ReadDirFields ==
    ASSUME BackupInv, NEW d \in Dir, ReadDir(d)
    PROVE  /\ Shape(run') /\ run'.script = run.script /\ run'.id = run.id /\ run'.sel = run.sel
           /\ run'.incremental = run.incremental /\ run'.saved = run.saved
           /\ run'.errors = run.errors /\ run'.rest = run.rest
           /\ run'.unread = run.unread \ {d}
           /\ run'.rows = run.rows /\ run'.pc = "tar"
           /\ \E lost \in SUBSET Due(d) :
                 run'.pairs = run.pairs \cup (Due(d) \ lost) /\ run'.owed = run.owed \ lost
  <1>1. PICK lost \in SUBSET Due(d) :
           run' = [run EXCEPT !.unread = @ \ {d}, !.pairs = @ \cup (Due(d) \ lost),
                              !.owed = @ \ lost]
    BY DEF ReadDir
  <1>2. PICK unread, pairs, owed : /\ unread = run.unread \ {d}
                                   /\ pairs = run.pairs \cup (Due(d) \ lost)
                                   /\ owed = run.owed \ lost
    OBVIOUS
  <1>3. run' = [run EXCEPT !.unread = unread, !.pairs = pairs, !.owed = owed]
        /\ run.pc = "tar"
    BY <1>1, <1>2 DEF ReadDir, Doing
  <1>4. Shape(run)
    BY RunFacts
  <1>5. /\ Shape(run') /\ run'.script = run.script /\ run'.id = run.id /\ run'.sel = run.sel
        /\ run'.incremental = run.incremental /\ run'.saved = run.saved
        /\ run'.errors = run.errors /\ run'.rest = run.rest
        /\ run'.unread = unread /\ run'.pairs = pairs
        /\ run'.rows = run.rows /\ run'.owed = owed /\ run'.pc = "tar"
    BY <1>3, <1>4 DEF Shape, Field
  <1> QED BY <1>1, <1>2, <1>5

LEMMA ReadDirKept ==
    ASSUME BackupInv, [Next]_vars, NEW d \in Dir, ReadDir(d)
    PROVE  RunKept
  <1>0. "mail" \in Component
    BY DEF Component
  <1>1. run.script = "backup" /\ "mail" \in run.rest /\ "mysql" \notin run.rest
    BY <1>0, DoingFacts DEF ReadDir
  <1>2. mail' = mail /\ mail \subseteq delivered \X Dir
    BY DEF ReadDir, store, BackupInv, StoreOK
  <1>3. run.script # "none"
    BY <1>1
  <1>4. run'.unread \subseteq Dir
    BY ReadDirFields, RunFacts
  <1>5. run'.pairs \subseteq delivered \X Dir
    <2>1. run.pairs \subseteq delivered \X Dir
      BY RunFacts
    <2>2. Due(d) \subseteq delivered \X Dir
      BY <1>2 DEF Due
    <2> QED BY <2>1, <2>2, ReadDirFields
  <1>6. /\ Shape(run') /\ run'.script = run.script /\ run'.id = run.id /\ run'.sel = run.sel
        /\ run'.incremental = run.incremental /\ run'.saved = run.saved
        /\ run'.errors = run.errors /\ run'.rest = run.rest
        /\ run'.rows = run.rows /\ run'.owed \subseteq run.owed /\ run'.pc = "tar"
    BY ReadDirFields
  <1>7. GoesOn
    <2>1. run'.rest \subseteq run.rest /\ run'.rows \subseteq Row /\ run'.owed \subseteq mail'
      BY <1>2, <1>6, RunFacts
    <2>2. run'.saved \in {TRUE, run.saved} /\ run'.errors \in BOOLEAN
      BY <1>6, RunFacts
    <2> QED BY <1>3, <1>4, <1>5, <1>6, <2>1, <2>2, SameGoes
  <1>8. BackupPlace(run', Len(binlog'))
    BY <1>1, <1>6 DEF BackupPlace, InMysql, InMail, AtEnd
  <1> QED BY <1>1, <1>7, <1>8, GoesKept DEF Goes

LEMMA VerifyFields ==
    ASSUME BackupInv, VerifyBackup
    PROVE  /\ Shape(run') /\ run'.script = run.script /\ run'.id = run.id /\ run'.sel = run.sel
           /\ run'.incremental = run.incremental /\ run'.saved = run.saved
           /\ run'.errors \in BOOLEAN /\ run'.rest = run.rest /\ run'.unread = run.unread
           /\ ~run'.errors => ~run.errors /\ ~Unreadable(backups[run.id])
           /\ run'.pairs = run.pairs /\ run'.rows = run.rows /\ run'.owed = run.owed
           /\ run'.pc = "manifest"
  <1>1. PICK errors \in BOOLEAN : errors = (run.errors \/ Unreadable(backups[run.id]))
    OBVIOUS
  <1>2. run' = [run EXCEPT !.pc = "manifest", !.errors = errors]
    BY <1>1 DEF VerifyBackup
  <1>3. Shape(run)
    BY RunFacts
  <1>4. /\ Shape(run') /\ run'.script = run.script /\ run'.id = run.id /\ run'.sel = run.sel
        /\ run'.incremental = run.incremental /\ run'.saved = run.saved
        /\ run'.rest = run.rest /\ run'.unread = run.unread
        /\ run'.pairs = run.pairs /\ run'.rows = run.rows /\ run'.owed = run.owed
        /\ run'.pc = "manifest"
    BY <1>2, <1>3 DEF Shape, Field
  <1>5. run'.errors = errors
    BY <1>2, <1>3 DEF Shape, Field
  <1> QED BY <1>1, <1>4, <1>5

LEMMA VerifyKept ==
    ASSUME BackupInv, [Next]_vars, VerifyBackup
    PROVE  RunKept
  <1>1. run.script = "backup" /\ run.rest = {} /\ mail' = mail
    BY DEF VerifyBackup, AllDone, store
  <1>2. run.script # "none"
    BY <1>1
  <1>3. GoesOn
    <2>1. /\ Shape(run') /\ run'.script = run.script /\ run'.id = run.id /\ run'.sel = run.sel
          /\ run'.incremental = run.incremental
      BY VerifyFields
    <2>2. run'.saved \in {TRUE, run.saved} /\ run'.errors \in BOOLEAN
      BY VerifyFields
    <2>3. /\ run'.rest \subseteq run.rest /\ run'.rows \subseteq Row /\ run'.unread \subseteq Dir
          /\ run'.pairs \subseteq delivered \X Dir /\ run'.owed \subseteq mail'
      BY <1>1, VerifyFields, RunFacts
    <2> QED BY <1>2, <2>1, <2>2, <2>3, SameGoes
  <1>4. BackupPlace(run', Len(binlog'))
    BY <1>1, VerifyFields DEF BackupPlace, InMysql, InMail, AtEnd
  <1> QED BY <1>1, <1>3, <1>4, GoesKept DEF Goes

LEMMA DisturbFields ==
    ASSUME BackupInv, NEW p, Disturb(p)
    PROVE  /\ Shape(run') /\ run'.script = run.script /\ run'.id = run.id /\ run'.sel = run.sel
           /\ run'.incremental = run.incremental /\ run'.saved = run.saved
           /\ run'.errors = run.errors /\ run'.rest = run.rest /\ run'.unread = run.unread
           /\ run'.pairs = run.pairs /\ run'.rows = run.rows /\ run'.file = run.file
           /\ run'.owed = run.owed \ {p} /\ run'.pc = run.pc
           /\ mail \ {p} \subseteq mail'
           /\ UNCHANGED <<db, binlog, fresh, delivered, backups, position, stamped, count>>
  <1>1. PICK owed : owed = run.owed \ {p}
    OBVIOUS
  <1>2. run' = [run EXCEPT !.owed = owed]
    BY <1>1 DEF Disturb, Undisturbed
  <1>3. Shape(run)
    BY RunFacts
  <1>4. /\ Shape(run') /\ run'.script = run.script /\ run'.id = run.id /\ run'.sel = run.sel
        /\ run'.incremental = run.incremental /\ run'.saved = run.saved
        /\ run'.errors = run.errors /\ run'.rest = run.rest /\ run'.unread = run.unread
        /\ run'.pairs = run.pairs /\ run'.rows = run.rows /\ run'.file = run.file
        /\ run'.owed = owed /\ run'.pc = run.pc
    BY <1>2, <1>3 DEF Shape, Field
  <1>5. mail \ {p} \subseteq mail'
    BY DEF Disturb
  <1>6. UNCHANGED <<db, binlog, fresh, delivered, backups, position, stamped, count>>
    BY DEF Disturb, mysql, markers
  <1> QED BY <1>1, <1>4, <1>5, <1>6

LEMMA DisturbKept ==
    ASSUME BackupInv, [Next]_vars, NEW p, Disturb(p)
    PROVE  RunKept
  <1>1. ASSUME run.script = "none"
        PROVE  RunKept
    <2>1. run = NoRun
      BY <1>1 DEF BackupInv, RunOK, NoneRuns
    <2>2. run' = [NoRun EXCEPT !.owed = @ \ {p}]
      BY <2>1 DEF Disturb, Undisturbed
    <2>3. NoRun.owed \ {p} = NoRun.owed
      BY NoRunFields
    <2>4. run' = NoRun
      BY <2>2, <2>3, NoRunFields DEF Shape, Field
    <2> QED BY <2>4, NoRunKept
  <1>2. ASSUME run.script # "none"
        PROVE  RunKept
    <2>1. GoesOn
      <3>1. /\ Shape(run') /\ run'.script = run.script /\ run'.id = run.id
            /\ run'.sel = run.sel /\ run'.incremental = run.incremental
        BY DisturbFields
      <3>2. run'.saved \in {TRUE, run.saved} /\ run'.errors \in BOOLEAN
        BY DisturbFields, RunFacts
      <3>3. /\ run'.rest \subseteq run.rest /\ run'.rows \subseteq Row /\ run'.unread \subseteq Dir
            /\ run'.pairs \subseteq delivered \X Dir
        BY DisturbFields, RunFacts
      <3>4. run'.owed \subseteq mail'
        BY DisturbFields, RunFacts
      <3> QED BY <1>2, <3>1, <3>2, <3>3, <3>4, SameGoes
    <2>2. run'.pc = run.pc /\ run'.rest = run.rest /\ run'.file = run.file /\ binlog' = binlog
      BY DisturbFields
    <2>3. run.script = "backup" => BackupPlace(run', Len(binlog'))
      BY <2>2 DEF BackupInv, RunOK, BackupRuns, BackupPlace
    <2>4. run.script = "restore" => RestorePlace(run')
      BY <2>2 DEF BackupInv, RunOK, RestoreRuns, RestorePlace
    <2> QED BY <2>1, <2>3, <2>4, GoesKept DEF Goes
  <1> QED BY <1>1, <1>2

BegunAs(r, id, sel, incremental) ==
    r = [NoRun EXCEPT !.script = "backup", !.id = id, !.sel = sel,
                      !.incremental = incremental, !.rest = sel]

LEMMA StartBackupFields ==
    ASSUME NEW id, NEW sel, NEW incremental, NEW r, BegunAs(r, id, sel, incremental)
    PROVE  /\ Shape(r) /\ r.script = "backup" /\ r.id = id /\ r.sel = sel /\ r.rest = sel
           /\ r.incremental = incremental /\ r.pc = "begin" /\ r.saved = FALSE
           /\ r.errors = FALSE /\ r.rows = {} /\ r.unread = {} /\ r.pairs = {} /\ r.owed = {}
  BY DEF BegunAs, Shape, Field, NoRun

LEMMA StartBackupKept ==
    ASSUME BackupInv, NEW sel \in Selections, NEW incremental \in BOOLEAN,
           StartBackup(sel, incremental)
    PROVE  RunKept
  <1>1. PICK id : id = count'.backups
    OBVIOUS
  <1>2. id \in Id /\ backups'[id] = EmptyBackup
        /\ run' = [NoRun EXCEPT !.script = "backup", !.id = id, !.sel = sel,
                                !.incremental = incremental, !.rest = sel]
    BY <1>1, BackupBegins
  <1>3. PICK r : r = run'
    OBVIOUS
  <1>b. BegunAs(r, id, sel, incremental)
    BY <1>2, <1>3 DEF BegunAs
  <1>4. /\ Shape(r) /\ r.script = "backup" /\ r.id = id /\ r.sel = sel /\ r.rest = sel
        /\ r.incremental = incremental /\ r.pc = "begin" /\ r.saved = FALSE
        /\ r.errors = FALSE /\ r.rows = {} /\ r.unread = {} /\ r.pairs = {} /\ r.owed = {}
    BY <1>b, StartBackupFields
  <1>5. sel \subseteq Component
    BY SelectionsAssumption DEF Component
  <1>6. EmptyBackup.exists
    BY EmptyIsOK
  <1>7. RunTypes'
    BY <1>3, <1>4, <1>5 DEF RunTypes
  <1>8. BackupPlace(r, Len(binlog'))
    BY <1>4 DEF BackupPlace, InMysql, InMail, AtEnd
  <1> QED BY <1>1, <1>2, <1>3, <1>4, <1>6, <1>7, <1>8
          DEF RunKept, RunOK, NoneRuns, SomeRuns, BackupRuns, RestoreRuns

LEMMA StartRestoreKept ==
    ASSUME BackupInv, NEW id \in Id, NEW sel \in RestoreSelections, StartRestore(id, sel)
    PROVE  RunKept
  <1>1. PICK r : r = run'
    OBVIOUS
  <1>2. /\ r = [NoRun EXCEPT !.script = "restore", !.id = id, !.sel = sel, !.rest = sel]
        /\ backups[id].exists /\ backups' = backups
    BY <1>1 DEF StartRestore
  <1>3. /\ Shape(r) /\ r.script = "restore" /\ r.id = id /\ r.sel = sel /\ r.rest = sel
        /\ r.incremental = FALSE /\ r.pc = "begin" /\ r.saved = FALSE
        /\ r.errors = FALSE /\ r.rows = {} /\ r.unread = {} /\ r.pairs = {} /\ r.owed = {}
    BY <1>2 DEF Shape, Field, NoRun
  <1>4. sel \subseteq Component
    BY DEF Component, RestoreSelections
  <1>5. RunTypes'
    BY <1>1, <1>3, <1>4 DEF RunTypes
  <1>6. RestoreSelections' = RestoreSelections
    BY DEF RestoreSelections
  <1>7. RunKept <=> RunOK'
    BY <1>1, <1>3 DEF RunKept
  <1> QED BY <1>1, <1>2, <1>3, <1>5, <1>6, <1>7
          DEF RunOK, NoneRuns, SomeRuns, BackupRuns, RestoreRuns

(* What a step does to the record of the script. *)
LEMMA RunEffects ==
    ASSUME BackupInv, [Next]_vars
    PROVE  \/ run' = run
           \/ run' = NoRun
           \/ run.script # "none" /\ \E c : Ends(c)
           \/ run.script = "backup" /\ (MysqlMoves \/ MailMoves \/ EndMoves)
           \/ run.script = "restore" /\ RestoreMoves
           \/ DumpBegins \/ MailBegins \/ (\E d \in Dir : ReadDir(d)) \/ VerifyBackup
           \/ \E p : Disturb(p)
           \/ StartSteps
  <1>0. /\ "mysql" \in Component /\ "mail" \in Component /\ "redis" \in Component
        /\ "trees" \in Component
    BY DEF Component
  <1> DEFINE Ended == run.script # "none" /\ \E c : Ends(c)
             Moved == run.script = "backup" /\ (MysqlMoves \/ MailMoves \/ EndMoves)
             Restores == run.script = "restore" /\ RestoreMoves
  <1>1. ASSUME UNCHANGED vars PROVE run' = run
    BY <1>1 DEF vars
  <1>2. ASSUME DumpSteps
        PROVE  Ended \/ Moved \/ DumpBegins
    <2>1. ASSUME DumpFails PROVE Ended
      <3>1. run.script = "backup" /\ "mysql" \in run.rest
        BY <2>1 DEF DumpFails, WantsDump, Doing
      <3>2. run' = Failed("mysql")
        BY <2>1 DEF DumpFails
      <3> QED BY <3>1, <3>2 DEF Ends, Ending
    <2>2. ASSUME DumpEnds PROVE Moved
      BY <2>2 DEF DumpEnds, Doing, Goto, Moves, MysqlMoves
    <2>3. ASSUME SavePosition PROVE Moved
      BY <2>3 DEF SavePosition, Doing, Goto, Moves, MysqlMoves
    <2>4. ASSUME KeepPosition PROVE Moved
      BY <2>4 DEF KeepPosition, Doing, Goto, Moves, MysqlMoves
    <2>5. ASSUME DumpSaved PROVE Ended
      <3>1. run.script = "backup" /\ "mysql" \in run.rest /\ run' = Completed("mysql")
        BY <2>5 DEF DumpSaved, Doing
      <3> QED BY <3>1 DEF Ends, Ending
    <2>6. ASSUME DumpIncrement PROVE Ended
      <3>1. run.script = "backup" /\ "mysql" \in run.rest /\ run' = Completed("mysql")
        BY <2>6 DEF DumpIncrement, Doing
      <3> QED BY <3>1 DEF Ends, Ending
    <2>7. ASSUME DumpIncrementFails PROVE Moved
      BY <2>7 DEF DumpIncrementFails, Doing, Goto, Moves, MysqlMoves
    <2> QED BY <1>2, <2>1, <2>2, <2>3, <2>4, <2>5, <2>6, <2>7 DEF DumpSteps
  <1>3. ASSUME MailSteps
        PROVE  Ended \/ Moved \/ MailBegins \/ \E d \in Dir : ReadDir(d)
    <2>1. ASSUME MailEnds PROVE Moved
      <3>1. Doing("backup", "mail", {"tar"}) /\ Goto("stamp")
        BY <2>1 DEF MailEnds
      <3>2. run.script = "backup" /\ "mail" \in run.rest /\ "mysql" \notin run.rest
        BY <1>0, <3>1, DoingFacts
      <3> QED BY <3>1, <3>2 DEF Goto, Moves, MailMoves
    <2>2. ASSUME MailCutShort PROVE Moved
      <3>1. Doing("backup", "mail", {"tar"}) /\ Goto("stamp")
        BY <2>2 DEF MailCutShort
      <3>2. run.script = "backup" /\ "mail" \in run.rest /\ "mysql" \notin run.rest
        BY <1>0, <3>1, DoingFacts
      <3> QED BY <3>1, <3>2 DEF Goto, Moves, MailMoves
    <2>3. ASSUME StampMail PROVE Ended
      <3>1. run.script = "backup" /\ "mail" \in run.rest
        BY <2>3 DEF StampMail, Doing
      <3>2. run' \in {Failed("mail"), Completed("mail")}
        BY <2>3 DEF StampMail
      <3> QED BY <3>1, <3>2 DEF Ends, Ending
    <2> QED BY <1>3, <2>1, <2>2, <2>3 DEF MailSteps
  <1>4. ASSUME OtherSteps PROVE Ended
    <2>1. ASSUME NEW c \in Other, ArchiveOther(c) \/ ArchiveOtherFails(c) PROVE Ended
      <3>1. run.script = "backup" /\ c \in run.rest
        BY <2>1 DEF ArchiveOther, ArchiveOtherFails, Doing
      <3>2. run' \in {Failed(c), Completed(c)}
        BY <2>1 DEF ArchiveOther, ArchiveOtherFails
      <3> QED BY <3>1, <3>2 DEF Ends, Ending
    <2>2. ASSUME SkipTrees PROVE Ended
      <3>1. run.script = "backup" /\ "trees" \in run.rest /\ run' = Over("trees")
        BY <2>2 DEF SkipTrees, Doing
      <3> QED BY <3>1 DEF Ends, Ending
    <2> QED BY <1>4, <2>1, <2>2 DEF OtherSteps
  <1>5. ASSUME EndSteps PROVE run' = NoRun \/ Moved \/ VerifyBackup
    <2>1. ASSUME GenerateManifest PROVE Moved
      BY <2>1 DEF GenerateManifest, AllDone, Goto, Moves, EndMoves
    <2> QED BY <1>5, <2>1 DEF EndSteps, CleanupBackups, InterruptBackup
  <1>6. ASSUME MysqlRestoreSteps PROVE Ended \/ Restores
    <2>1. ASSUME RestoreDump PROVE Ended
      <3>1. run.script = "restore" /\ "mysql" \in run.rest /\ run' = Over("mysql")
        BY <2>1 DEF RestoreDump, LoadTables, Doing
      <3> QED BY <3>1 DEF Ends, Ending
    <2>2. ASSUME RestoreDumpFails PROVE Ended
      <3>1. run.script = "restore" /\ "mysql" \in run.rest /\ run' = Over("mysql")
        BY <2>2 DEF RestoreDumpFails, LoadTables, Doing
      <3> QED BY <3>1 DEF Ends, Ending
    <2>3. ASSUME RestoreIncrement PROVE Ended \/ Restores
      <3>1. run.script = "restore" /\ "mysql" \in run.rest /\ Sql.kind = "incremental"
        BY <2>3 DEF RestoreIncrement, Doing
      <3>2. Goto("binlogs") \/ run' = Over("mysql")
        BY <2>3 DEF RestoreIncrement
      <3>3. ASSUME run' = Over("mysql") PROVE Ended
        BY <3>1, <3>3 DEF Ends, Ending
      <3>4. ASSUME Goto("binlogs") PROVE Restores
        BY <3>1, <3>4 DEF Goto, Moves, RestoreMoves
      <3> QED BY <3>2, <3>3, <3>4
    <2>4. ASSUME RestoreBinlogs PROVE Ended
      <3>1. run.script = "restore" /\ "mysql" \in run.rest /\ run' = Over("mysql")
        BY <2>4 DEF RestoreBinlogs, Doing
      <3> QED BY <3>1 DEF Ends, Ending
    <2> QED BY <1>6, <2>1, <2>2, <2>3, <2>4 DEF MysqlRestoreSteps
  <1>7. ASSUME RestoreSteps PROVE run' = NoRun \/ Ended
    <2>1. ASSUME SkipRestore PROVE Ended
      <3>1. PICK c \in Component : Doing("restore", c, {"begin"}) /\ run' = Over(c)
        BY <2>1 DEF SkipRestore
      <3>2. run.script = "restore" /\ c \in run.rest
        BY <3>1 DEF Doing
      <3> QED BY <3>1, <3>2 DEF Ends, Ending
    <2>2. ASSUME RestoreMail PROVE Ended
      <3>1. run.script = "restore" /\ "mail" \in run.rest /\ run' = Over("mail")
        BY <2>2 DEF RestoreMail, Doing
      <3> QED BY <3>1 DEF Ends, Ending
    <2> QED BY <1>7, <2>1, <2>2 DEF RestoreSteps, EndRestore, InterruptRestore
  <1>8. ASSUME MysqlSteps PROVE run' = run
    BY <1>8 DEF MysqlSteps, CommitChange, RotateLog
  <1>9. ASSUME ServiceSteps PROVE run' = run \/ \E p : Disturb(p)
    BY <1>9 DEF ServiceSteps, StartServices, Deliver
  <1> HIDE DEF Ended, Moved, Restores
  <1>10. \/ run' = run \/ run' = NoRun \/ Ended \/ Moved \/ Restores
         \/ DumpBegins \/ MailBegins \/ (\E d \in Dir : ReadDir(d)) \/ VerifyBackup
         \/ (\E p : Disturb(p)) \/ StartSteps
    BY <1>1, <1>2, <1>3, <1>4, <1>5, <1>6, <1>7, <1>8, <1>9, Kinds
  <1> QED BY <1>10 DEF Ended, Moved, Restores

LEMMA RunIsKept ==
    ASSUME BackupInv, [Next]_vars
    PROVE  RunKept
  <1>1. ASSUME NEW p, Disturb(p) PROVE RunKept
    BY <1>1, DisturbKept
  <1>2. ASSUME StartSteps PROVE RunKept
    BY <1>2, StartBackupKept, StartRestoreKept DEF StartSteps
  <1>3. ASSUME NEW d \in Dir, ReadDir(d) PROVE RunKept
    BY <1>3, ReadDirKept
  <1>4. ASSUME NEW c, run.script # "none", Ends(c), mail \subseteq mail' PROVE RunKept
    BY <1>4, EndsKept
  <1> QED BY <1>1, <1>2, <1>3, <1>4, RunEffects, MailEffects, NoRunKept, StaysKept, MovesKept,
             DumpBeginsKept, MailBeginsKept, VerifyKept

LEMMA RebuiltEffects ==
    ASSUME [Next]_vars
    PROVE  UNCHANGED rebuilt \/ rebuilt' = None \/ RestoreDump
  <1>1. ASSUME UNCHANGED vars PROVE UNCHANGED rebuilt
    BY <1>1 DEF vars
  <1>2. ASSUME StartSteps PROVE UNCHANGED rebuilt
    BY <1>2 DEF StartSteps, StartBackup, StartRestore
  <1>3. ASSUME DumpSteps PROVE UNCHANGED rebuilt
    BY <1>3 DEF DumpSteps, DumpBegins, DumpFails, DumpEnds, SavePosition, KeepPosition,
       DumpSaved, DumpIncrement, DumpIncrementFails
  <1>4. ASSUME MailSteps PROVE UNCHANGED rebuilt
    BY <1>4 DEF MailSteps, MailBegins, MailEnds, MailCutShort, StampMail, ReadDir
  <1>5. ASSUME OtherSteps PROVE UNCHANGED rebuilt
    BY <1>5 DEF OtherSteps, ArchiveOther, ArchiveOtherFails, SkipTrees
  <1>6. ASSUME EndSteps PROVE UNCHANGED rebuilt
    BY <1>6 DEF EndSteps, VerifyBackup, GenerateManifest, CleanupBackups, InterruptBackup
  <1>7. ASSUME MysqlRestoreSteps PROVE rebuilt' = None \/ RestoreDump
    BY <1>7 DEF MysqlRestoreSteps, RestoreDumpFails, RestoreIncrement, RestoreBinlogs
  <1>8. ASSUME RestoreSteps PROVE UNCHANGED rebuilt
    BY <1>8 DEF RestoreSteps, SkipRestore, RestoreMail, EndRestore, InterruptRestore
  <1>9. ASSUME MysqlSteps PROVE UNCHANGED rebuilt \/ rebuilt' = None
    BY <1>9 DEF MysqlSteps, CommitChange, RotateLog
  <1>10. ASSUME ServiceSteps PROVE UNCHANGED rebuilt
    BY <1>10 DEF ServiceSteps, StartServices, Deliver, Disturb
  <1> QED BY <1>1, <1>2, <1>3, <1>4, <1>5, <1>6, <1>7, <1>8, <1>9, <1>10, Kinds

----------------------------------------------------------------------------
LEMMA InitEstablishes ==
    ASSUME Init
    PROVE  BackupInv
  <1>1. StoreOK /\ MarkersOK /\ RebuiltOK
    <2>1. <<>> \in Seq(Event)
      OBVIOUS
    <2>2. <<<<>>>> \in Seq(Seq(Event)) /\ <<<<>>>> # <<>>
      BY <2>1
    <2>3. StoreOK
      BY <2>2 DEF Init, StoreOK
    <2> QED BY <2>3 DEF Init, MarkersOK, RebuiltOK
  <1>2. BackupsOK
    BY DEF Init, BackupsOK, BackupOK
  <1>3. count \in [Tallies -> Nat] /\ count.backups = 0
    BY DEF Init, Tallies
  <1>4. CountOK
    BY <1>3, BoundsAssumption DEF Init, CountOK
  <1>5. run = NoRun
    BY DEF Init
  <1>6. RunOK
    BY <1>5, NoRunFields DEF RunOK, RunTypes, NoneRuns, SomeRuns, BackupRuns, RestoreRuns
  <1>7. NoBackup.exists = FALSE
    BY DEF NoBackup
  <1>8. ArchivesOK
    BY <1>5, <1>7, NoRunFields DEF Init, ArchivesOK
  <1> QED BY <1>1, <1>2, <1>4, <1>6, <1>8 DEF BackupInv

LEMMA BackupInvKept ==
    ASSUME BackupInv, [Next]_vars
    PROVE  BackupInv'
  <1>1. StoreOK' /\ MarkersOK' /\ BackupsOK' /\ CountOK'
    BY StoreKept, MarkersKept, BackupsKept
  <1>2. RunOK' /\ ArchivesOK'
    BY RunIsKept, BackupsKept DEF RunKept, ArchivesOK
  <1>3. RebuiltOK'
    <2>1. ASSUME RestoreDump PROVE rebuilt' \in Id
      BY <2>1 DEF RestoreDump, Doing, BackupInv, RunOK, SomeRuns
    <2> QED BY <2>1, RebuiltEffects DEF BackupInv, RebuiltOK
  <1> QED BY <1>1, <1>2, <1>3 DEF BackupInv

LEMMA Inductive == Spec => []BackupInv
  BY InitEstablishes, BackupInvKept, PTL DEF Spec

(* Every variable keeps its type, and a backup holds what its kind of file may: also
   when a script is interrupted at any place, a dump is cut short, or a restore reads
   what an earlier backup left (scripts/backup.sh, scripts/restore.sh). *)
THEOREM TypeCorrect == Spec => []TypeOK
  <1>1. ASSUME BackupInv
        PROVE  TypeOK
    <2>1. DOMAIN backups = Id
      BY <1>1 DEF BackupInv, BackupsOK
    <2>2. \A id \in Id : backups[id] = NoBackup \/ BackupType(backups[id])
      BY <1>1 DEF BackupInv, BackupsOK, BackupOK
    <2>3. run # NoRun => run.id \in Id /\ backups[run.id].exists
      BY <1>1 DEF BackupInv, RunOK, NoneRuns, SomeRuns
    <2>4. run.script \in {"none", "backup", "restore"}
      BY <1>1 DEF BackupInv, RunOK, RunTypes
    <2> QED BY <1>1, <2>1, <2>2, <2>3, <2>4
            DEF TypeOK, BackupInv, StoreOK, MarkersOK, RebuiltOK
  <1> QED BY <1>1, Inductive, PTL

----------------------------------------------------------------------------
(* What a backup that is made has archived so far. *)

LEMMA StateIs ==
    ASSUME NEW b
    PROVE  /\ State(b, "mysql") = b.mysql.kind /\ State(b, "mail") = b.mail.kind
           /\ \A c \in Other : State(b, c) = b.other[c]
  BY DEF State, Other

Present(r, b) == \A c \in r.sel \ {"trees"} : c \in r.rest \/ State(b, c) # "none"

(* Only a backup without errors becomes a success; without errors every component
   that is over has its archive, and from the manifest on all of them can be read. *)
Sound(r, b) ==
    /\ b.status = "success" => r.pc = "cleanup" /\ ~r.errors
    /\ ~r.errors => Present(r, b)
    /\ r.pc \in {"position", "saved"} => b.mysql.kind = "full"
    /\ r.pc = "manifest" /\ ~r.errors => ~Unreadable(b)

(* The mail comes after the dump; what it owes is in the archive or still to be read. *)
OfDump(r, b, all) ==
    /\ "mysql" \in r.rest => b.mail.kind = "none"
    /\ r.pc = "tar" /\ all => \A p \in r.owed : p[2] \in r.unread \/ p \in r.pairs
    /\ b.mysql.kind = "full" /\ b.mail.kind = "full" => r.owed \subseteq b.mail.pairs

Archiving ==
    run.script = "backup" => Sound(run, Mine) /\ OfDump(run, Mine, ~NewMailOnly)

Goal(b) == Sound(run', b) /\ OfDump(run', b, ~NewMailOnly')

LEMMA ArchivingAfter ==
    ASSUME run'.id = run.id, Goal(backups'[run.id])
    PROVE  Archiving'
  <1>1. Mine' = backups'[run.id]
    BY DEF Mine
  <1> QED BY <1>1 DEF Goal, Archiving

LEMMA MovesFields ==
    ASSUME BackupInv, NEW pc, Moves(pc)
    PROVE  /\ run'.pc = pc /\ run'.rest = run.rest /\ run'.script = run.script
           /\ run'.id = run.id /\ run'.sel = run.sel /\ run'.incremental = run.incremental
           /\ run'.rows = run.rows /\ run'.pairs = run.pairs /\ run'.owed = run.owed
           /\ run'.errors = run.errors /\ run'.unread = run.unread /\ run'.file = run.file
  <1>1. PICK r : r = run'
    OBVIOUS
  <1>2. r = [run EXCEPT !.pc = pc]
    BY <1>1 DEF Moves
  <1>3. /\ r.pc = pc /\ r.rest = run.rest
        /\ r.script = run.script /\ r.id = run.id /\ r.sel = run.sel
        /\ r.incremental = run.incremental /\ r.errors = run.errors
        /\ r.rows = run.rows /\ r.unread = run.unread /\ r.file = run.file
        /\ r.pairs = run.pairs /\ r.owed = run.owed
    BY <1>2, RunFacts, PcFields
  <1> QED BY <1>1, <1>3

LEMMA EndsFields ==
    ASSUME BackupInv, NEW c, Ends(c)
    PROVE  /\ c \in run.rest /\ run'.rest = run.rest \ {c} /\ run'.pc = "begin"
           /\ run'.script = run.script /\ run'.id = run.id /\ run'.sel = run.sel
           /\ run'.incremental = run.incremental /\ run'.owed = run.owed
           /\ run'.errors \in BOOLEAN /\ run.errors \in BOOLEAN /\ (run.errors => run'.errors)
  <1>1. PICK r : r = run'
    OBVIOUS
  <1>2. Ending(r, c) /\ c \in run.rest /\ Shape(run) /\ run.errors \in BOOLEAN
    BY <1>1, RunFacts DEF Ends
  <1>3. /\ r.rest = run.rest \ {c} /\ r.pc = "begin"
        /\ r.script = run.script /\ r.id = run.id /\ r.sel = run.sel
        /\ r.incremental = run.incremental /\ r.errors \in {TRUE, run.errors}
        /\ r.owed = run.owed
    BY <1>2, OverFields
  <1> QED BY <1>1, <1>2, <1>3

(* A component is over, the others are as they were. *)
LEMMA EndsArchiving ==
    ASSUME BackupInv, Archiving, run.script = "backup", NEW c \in Component, Ends(c), NEW b,
           b.status = Mine.status, b.mail = Mine.mail,
           b.mysql.kind = Mine.mysql.kind \/ c = "mysql",
           \A o \in Other : o # c => b.other[o] = Mine.other[o],
           b.mysql.kind = "full" /\ b.mail.kind = "full" => run.owed \subseteq b.mail.pairs,
           (~run'.errors /\ c # "trees") => State(b, c) # "none"
    PROVE  Goal(b)
  <1>1. Sound(run, Mine) /\ OfDump(run, Mine, ~NewMailOnly)
    BY DEF Archiving
  <1>2. c \in run.rest /\ run'.rest = run.rest \ {c} /\ run'.pc = "begin"
        /\ run'.sel = run.sel /\ run'.owed = run.owed /\ (run.errors => run'.errors)
    BY EndsFields
  <1>3. run.pc # "cleanup"
    BY <1>2 DEF BackupInv, RunOK, BackupRuns, BackupPlace, AtEnd
  <1>4. ASSUME ~run'.errors
        PROVE  Present(run', b)
    <2>1. Present(run, Mine)
      BY <1>1, <1>2, <1>4 DEF Sound
    <2> SUFFICES ASSUME NEW d \in run.sel \ {"trees"}, d \notin run'.rest
                 PROVE  State(b, d) # "none"
      BY <1>2 DEF Present
    <2>2. ASSUME d # c
          PROVE  State(b, d) # "none"
      <3>1. State(Mine, d) # "none"
        BY <1>2, <2>1, <2>2 DEF Present
      <3>2. d \in {"mysql", "mail"} \cup Other
        BY RunFacts DEF Component, Other
      <3>3. State(b, d) = State(Mine, d)
        BY <2>2, <3>2, StateIs
      <3> QED BY <3>1, <3>3
    <2> QED BY <1>4, <2>2
  <1>5. Sound(run', b)
    BY <1>1, <1>2, <1>3, <1>4 DEF Sound
  <1>6. OfDump(run', b, ~NewMailOnly')
    BY <1>1, <1>2 DEF OfDump
  <1> QED BY <1>5, <1>6 DEF Goal

LEMMA StillArchiving ==
    ASSUME BackupInv, Archiving, run' = run, UNCHANGED <<backups, stamped>>
    PROVE  Archiving'
  <1>1. NewMailOnly' = NewMailOnly /\ Mine' = Mine
    BY DEF NewMailOnly, Mine
  <1> QED BY <1>1 DEF Archiving

LEMMA DisturbArchiving ==
    ASSUME BackupInv, Archiving, NEW p, Disturb(p)
    PROVE  Archiving'
  <1>1. NewMailOnly' = NewMailOnly /\ Mine' = Mine
    BY DisturbFields DEF NewMailOnly, Mine
  <1>2. /\ run'.script = run.script /\ run'.sel = run.sel /\ run'.errors = run.errors
        /\ run'.rest = run.rest /\ run'.unread = run.unread /\ run'.pairs = run.pairs
        /\ run'.owed = run.owed \ {p} /\ run'.pc = run.pc
    BY DisturbFields
  <1>3. ASSUME Sound(run, Mine) PROVE Sound(run', Mine)
    BY <1>2, <1>3 DEF Sound, Present
  <1>4. ASSUME OfDump(run, Mine, ~NewMailOnly) PROVE OfDump(run', Mine, ~NewMailOnly)
    BY <1>2, <1>4 DEF OfDump
  <1> QED BY <1>1, <1>2, <1>3, <1>4 DEF Archiving

LEMMA MineGoes ==
    ASSUME BackupInv, Archiving, run.script = "backup"
    PROVE  Sound(run, Mine) /\ OfDump(run, Mine, ~NewMailOnly) /\ BackupPlace(run, Len(binlog))
  BY DEF Archiving, BackupInv, RunOK, BackupRuns

(* The dump. *)
LEMMA DumpBeginsArchiving ==
    ASSUME BackupInv, Archiving, DumpBegins
    PROVE  Archiving'
  <1>1. run.script = "backup" /\ "mysql" \in run.rest /\ run.pc \in {"begin", "fallback"}
    BY DEF DumpBegins, WantsDump, Doing
  <1>2. run' = [run EXCEPT !.pc = "dump", !.rows = db, !.file = Len(binlog) + 1, !.owed = mail]
        /\ backups' = backups
    BY DEF DumpBegins
  <1>3. /\ run'.id = run.id /\ run'.sel = run.sel /\ run'.errors = run.errors
        /\ run'.rest = run.rest /\ run'.pc = "dump"
    BY <1>2, RunFacts DEF Shape, Field
  <1>4. Sound(run, Mine) /\ OfDump(run, Mine, ~NewMailOnly)
    BY <1>1, MineGoes
  <1>5. Sound(run', Mine)
    BY <1>1, <1>3, <1>4 DEF Sound, Present
  <1>6. OfDump(run', Mine, ~NewMailOnly')
    BY <1>1, <1>3, <1>4 DEF OfDump
  <1> QED BY <1>2, <1>3, <1>5, <1>6, ArchivingAfter DEF Goal, Mine

LEMMA DumpFailsArchiving ==
    ASSUME BackupInv, Archiving, DumpFails
    PROVE  Archiving'
  <1>1. run.script = "backup" /\ "mysql" \in run.rest /\ backups' = backups
    BY DEF DumpFails, WantsDump, Doing
  <1>2. Ends("mysql")
    BY <1>1 DEF DumpFails, Ends, Ending
  <1>3. run'.errors = TRUE
    <2>1. Shape(Over("mysql"))
      BY OverFields, RunFacts DEF Ending
    <2>2. run' = [Over("mysql") EXCEPT !.errors = TRUE]
      BY DEF DumpFails, Failed
    <2> QED BY <2>1, <2>2 DEF Shape, Field
  <1>4. OfDump(run, Mine, ~NewMailOnly)
    BY <1>1, MineGoes
  <1>5. Mine.mysql.kind = "full" /\ Mine.mail.kind = "full" => run.owed \subseteq Mine.mail.pairs
    BY <1>4 DEF OfDump
  <1>6. Goal(Mine)
    BY <1>1, <1>2, <1>3, <1>5, EndsArchiving DEF Component
  <1> QED BY <1>1, <1>2, <1>6, EndsFields, ArchivingAfter DEF Mine

LEMMA DumpEndsArchiving ==
    ASSUME BackupInv, Archiving, DumpEnds
    PROVE  Archiving'
  <1>1. run.script = "backup" /\ "mysql" \in run.rest /\ run.pc = "dump" /\ Moves("position")
    BY DEF DumpEnds, Doing, Goto, Moves
  <1>2. PICK b : /\ Stored(b) /\ b.mysql = FullSql(run.rows) /\ b.mail = Mine.mail
                 /\ b.other = Mine.other /\ b.status = Mine.status
    BY DumpStores
  <1>3. /\ run'.pc = "position" /\ run'.rest = run.rest /\ run'.sel = run.sel
        /\ run'.id = run.id /\ run'.errors = run.errors /\ run'.owed = run.owed
    BY <1>1, MovesFields
  <1>4. Sound(run, Mine) /\ OfDump(run, Mine, ~NewMailOnly)
    BY <1>1, MineGoes
  <1>5. b.mysql.kind = "full"
    BY <1>2, SqlKinds
  <1>6. ASSUME Present(run, Mine) PROVE Present(run', b)
    <2> SUFFICES ASSUME NEW d \in run.sel \ {"trees"}, d \notin run.rest
                 PROVE  State(b, d) # "none"
      BY <1>3 DEF Present
    <2>1. State(Mine, d) # "none"
      BY <1>6 DEF Present
    <2>2. d \in {"mysql", "mail"} \cup Other
      BY RunFacts DEF Component, Other
    <2>3. State(b, d) = State(Mine, d)
      BY <1>1, <1>2, <2>2, StateIs
    <2> QED BY <2>1, <2>3
  <1>7. Sound(run', b)
    BY <1>1, <1>2, <1>3, <1>4, <1>5, <1>6 DEF Sound
  <1>8. OfDump(run', b, ~NewMailOnly')
    BY <1>1, <1>2, <1>3, <1>4 DEF OfDump
  <1>9. backups'[run.id] = b
    BY <1>2 DEF Stored
  <1> QED BY <1>3, <1>7, <1>8, <1>9, ArchivingAfter DEF Goal

LEMMA PositionArchiving ==
    ASSUME BackupInv, Archiving, SavePosition \/ KeepPosition
    PROVE  Archiving'
  <1>1. /\ run.script = "backup" /\ "mysql" \in run.rest /\ run.pc = "position"
        /\ Moves("saved") /\ backups' = backups
    BY DEF SavePosition, KeepPosition, Doing, Goto, Moves
  <1>2. /\ run'.pc = "saved" /\ run'.rest = run.rest /\ run'.sel = run.sel
        /\ run'.id = run.id /\ run'.errors = run.errors /\ run'.owed = run.owed
    BY <1>1, MovesFields
  <1>3. Sound(run, Mine) /\ OfDump(run, Mine, ~NewMailOnly)
    BY <1>1, MineGoes
  <1>4. Sound(run', Mine)
    BY <1>1, <1>2, <1>3 DEF Sound, Present
  <1>5. OfDump(run', Mine, ~NewMailOnly')
    BY <1>1, <1>2, <1>3 DEF OfDump
  <1> QED BY <1>1, <1>2, <1>4, <1>5, ArchivingAfter DEF Goal, Mine

LEMMA DumpSavedArchiving ==
    ASSUME BackupInv, Archiving, DumpSaved
    PROVE  Archiving'
  <1>1. run.script = "backup" /\ "mysql" \in run.rest /\ run.pc = "saved" /\ backups' = backups
    BY DEF DumpSaved, Doing
  <1>2. Ends("mysql")
    BY <1>1 DEF DumpSaved, Ends, Ending
  <1>3. Sound(run, Mine) /\ OfDump(run, Mine, ~NewMailOnly)
    BY <1>1, MineGoes
  <1>4. State(Mine, "mysql") # "none"
    BY <1>1, <1>3, StateIs DEF Sound
  <1>5. Mine.mysql.kind = "full" /\ Mine.mail.kind = "full" => run.owed \subseteq Mine.mail.pairs
    BY <1>3 DEF OfDump
  <1>6. Goal(Mine)
    BY <1>1, <1>2, <1>4, <1>5, EndsArchiving DEF Component
  <1> QED BY <1>1, <1>2, <1>6, EndsFields, ArchivingAfter DEF Mine

LEMMA DumpIncrementArchiving ==
    ASSUME BackupInv, Archiving, DumpIncrement
    PROVE  Archiving'
  <1>1. run.script = "backup" /\ "mysql" \in run.rest /\ run.pc = "begin"
    BY DEF DumpIncrement, Doing
  <1>2. Ends("mysql")
    BY <1>1 DEF DumpIncrement, Ends, Ending
  <1>3. PICK b : /\ Stored(b) /\ b.mysql.kind = "incremental" /\ b.mail = Mine.mail
                 /\ b.other = Mine.other /\ b.status = Mine.status
    BY IncrementStores
  <1>4. State(b, "mysql") # "none"
    BY <1>3, StateIs
  <1>5. b.mysql.kind = "full" /\ b.mail.kind = "full" => run.owed \subseteq b.mail.pairs
    BY <1>3
  <1>6. Goal(b)
    BY <1>1, <1>2, <1>3, <1>4, <1>5, EndsArchiving DEF Component
  <1>7. backups'[run.id] = b
    BY <1>3 DEF Stored
  <1> QED BY <1>2, <1>6, <1>7, EndsFields, ArchivingAfter

LEMMA FallbackArchiving ==
    ASSUME BackupInv, Archiving, DumpIncrementFails
    PROVE  Archiving'
  <1>1. /\ run.script = "backup" /\ run.pc = "begin" /\ Moves("fallback") /\ backups' = backups
    BY DEF DumpIncrementFails, Doing, Goto, Moves
  <1>2. /\ run'.pc = "fallback" /\ run'.rest = run.rest /\ run'.sel = run.sel
        /\ run'.id = run.id /\ run'.errors = run.errors /\ run'.owed = run.owed
    BY <1>1, MovesFields
  <1>3. Sound(run, Mine) /\ OfDump(run, Mine, ~NewMailOnly)
    BY <1>1, MineGoes
  <1>4. Sound(run', Mine)
    BY <1>1, <1>2, <1>3 DEF Sound, Present
  <1>5. OfDump(run', Mine, ~NewMailOnly')
    BY <1>1, <1>2, <1>3 DEF OfDump
  <1> QED BY <1>1, <1>2, <1>4, <1>5, ArchivingAfter DEF Goal, Mine

(* The mail. *)
LEMMA MailBeginsArchiving ==
    ASSUME BackupInv, Archiving, MailBegins
    PROVE  Archiving'
  <1>0. "mail" \in Component
    BY DEF Component
  <1>1. /\ run.script = "backup" /\ run.pc = "begin" /\ "mysql" \notin run.rest
        /\ backups' = backups
    BY <1>0, DoingFacts DEF MailBegins
  <1>2. run' = [run EXCEPT !.pc = "tar", !.unread = Dir]
    BY DEF MailBegins
  <1>3. /\ run'.id = run.id /\ run'.sel = run.sel /\ run'.errors = run.errors
        /\ run'.rest = run.rest /\ run'.pc = "tar" /\ run'.unread = Dir
        /\ run'.owed = run.owed /\ run'.pairs = run.pairs
    BY <1>2, RunFacts DEF Shape, Field
  <1>4. Sound(run, Mine) /\ OfDump(run, Mine, ~NewMailOnly)
    BY <1>1, MineGoes
  <1>5. Sound(run', Mine)
    BY <1>1, <1>3, <1>4 DEF Sound, Present
  <1>6. \A p \in run.owed : p[2] \in Dir
    BY RunFacts DEF BackupInv, StoreOK
  <1>7. OfDump(run', Mine, ~NewMailOnly')
    BY <1>1, <1>3, <1>4, <1>6 DEF OfDump
  <1> QED BY <1>1, <1>3, <1>5, <1>7, ArchivingAfter DEF Goal, Mine

LEMMA ReadDirArchiving ==
    ASSUME BackupInv, Archiving, NEW d \in Dir, ReadDir(d)
    PROVE  Archiving'
  <1>0. "mail" \in Component
    BY DEF Component
  <1>p. run.pc = "tar"
    BY DEF ReadDir, Doing
  <1>1. run.script = "backup" /\ run.pc = "tar" /\ "mysql" \notin run.rest
    BY <1>0, <1>p, DoingFacts DEF ReadDir
  <1>2. backups' = backups /\ stamped' = stamped
    BY DEF ReadDir, markers
  <1>3. /\ run'.id = run.id /\ run'.sel = run.sel /\ run'.errors = run.errors
        /\ run'.rest = run.rest /\ run'.pc = "tar" /\ run'.incremental = run.incremental
        /\ run'.unread = run.unread \ {d}
    BY ReadDirFields
  <1>l. PICK lost \in SUBSET Due(d) :
           run'.pairs = run.pairs \cup (Due(d) \ lost) /\ run'.owed = run.owed \ lost
    BY ReadDirFields
  <1>4. Sound(run, Mine) /\ OfDump(run, Mine, ~NewMailOnly)
    BY <1>1, MineGoes
  <1>5. Sound(run', Mine)
    BY <1>1, <1>3, <1>4 DEF Sound, Present
  <1>6. NewMailOnly' = NewMailOnly
    BY <1>2, <1>3 DEF NewMailOnly
  <1>7. ASSUME ~NewMailOnly, NEW p \in run'.owed
        PROVE  p[2] \in run'.unread \/ p \in run'.pairs
    <2>1. p \in run.owed /\ p \in mail /\ p \notin lost
      BY <1>l, <1>7, RunFacts
    <2>2. p[2] \in run.unread \/ p \in run.pairs
      BY <1>1, <1>4, <1>7, <2>1 DEF OfDump
    <2>3. p[2] = d => p \in Due(d)
      BY <1>7, <2>1 DEF Due
    <2> QED BY <1>3, <1>l, <2>1, <2>2, <2>3
  <1>8. OfDump(run', Mine, ~NewMailOnly)
    BY <1>1, <1>3, <1>l, <1>4, <1>7 DEF OfDump
  <1> QED BY <1>2, <1>3, <1>5, <1>6, <1>8, ArchivingAfter DEF Goal, Mine

(* Another archive of the mail is stored. *)
LEMMA MailArchiving ==
    ASSUME BackupInv, Archiving, run.script = "backup", run.pc = "tar", Moves("stamp"),
           "mysql" \notin run.rest, "mail" \in run.rest,
           NEW b, Stored(b), b.mysql = Mine.mysql, b.other = Mine.other, b.status = Mine.status,
           b.mail.kind = "full" => run.owed \subseteq b.mail.pairs
    PROVE  Archiving'
  <1>1. /\ run'.pc = "stamp" /\ run'.rest = run.rest /\ run'.sel = run.sel
        /\ run'.id = run.id /\ run'.errors = run.errors /\ run'.owed = run.owed
    BY MovesFields
  <1>2. Sound(run, Mine) /\ OfDump(run, Mine, ~NewMailOnly)
    BY MineGoes
  <1>3. ASSUME Present(run, Mine) PROVE Present(run', b)
    <2> SUFFICES ASSUME NEW d \in run.sel \ {"trees"}, d \notin run.rest
                 PROVE  State(b, d) # "none"
      BY <1>1 DEF Present
    <2>1. State(Mine, d) # "none"
      BY <1>3 DEF Present
    <2>2. d \in {"mysql", "mail"} \cup Other
      BY RunFacts DEF Component, Other
    <2>3. State(b, d) = State(Mine, d)
      BY <2>2, StateIs
    <2> QED BY <2>1, <2>3
  <1>4. Sound(run', b)
    BY <1>1, <1>2, <1>3 DEF Sound
  <1>5. OfDump(run', b, ~NewMailOnly')
    BY <1>1, <1>2 DEF OfDump
  <1>6. backups'[run.id] = b
    BY DEF Stored
  <1> QED BY <1>1, <1>4, <1>5, <1>6, ArchivingAfter DEF Goal

LEMMA MailEndsArchiving ==
    ASSUME BackupInv, Archiving, MailEnds
    PROVE  Archiving'
  <1>0. "mail" \in Component
    BY DEF Component
  <1>p. run.pc = "tar"
    BY DEF MailEnds, Doing
  <1>1. /\ run.script = "backup" /\ run.pc = "tar" /\ "mail" \in run.rest
        /\ "mysql" \notin run.rest
    BY <1>0, <1>p, DoingFacts DEF MailEnds
  <1>2. Moves("stamp") /\ run.unread = {}
    BY DEF MailEnds, Goto, Moves
  <1>3. PICK b : /\ Stored(b) /\ b.mysql = Mine.mysql
                 /\ b.mail.kind = (IF NewMailOnly THEN "incremental" ELSE "full")
                 /\ b.mail.pairs = run.pairs
                 /\ b.other = Mine.other /\ b.status = Mine.status
    BY MailStores
  <1>4. OfDump(run, Mine, ~NewMailOnly)
    BY <1>1, MineGoes
  <1>5. ASSUME b.mail.kind = "full"
        PROVE  run.owed \subseteq b.mail.pairs
    <2>1. ~NewMailOnly
      BY <1>3, <1>5
    <2> QED BY <1>1, <1>2, <1>3, <1>4, <2>1 DEF OfDump
  <1> QED BY <1>1, <1>2, <1>3, <1>5, MailArchiving

LEMMA MailCutArchiving ==
    ASSUME BackupInv, Archiving, MailCutShort
    PROVE  Archiving'
  <1>0. "mail" \in Component
    BY DEF Component
  <1>p. run.pc = "tar"
    BY DEF MailCutShort, Doing
  <1>1. /\ run.script = "backup" /\ run.pc = "tar" /\ "mail" \in run.rest
        /\ "mysql" \notin run.rest
    BY <1>0, <1>p, DoingFacts DEF MailCutShort
  <1>2. Moves("stamp")
    BY DEF MailCutShort, Goto, Moves
  <1>3. PICK b : /\ Stored(b) /\ b.mysql = Mine.mysql /\ b.mail \in {CutMail, NoMail}
                 /\ b.other = Mine.other /\ b.status = Mine.status
    BY CutMailStores
  <1>4. b.mail.kind # "full"
    BY <1>3, NoMailFacts
  <1> QED BY <1>1, <1>2, <1>3, <1>4, MailArchiving

LEMMA StampArchiving ==
    ASSUME BackupInv, Archiving, StampMail
    PROVE  Archiving'
  <1>1. run.script = "backup" /\ "mail" \in run.rest /\ backups' = backups
    BY DEF StampMail, Doing
  <1>2. Ends("mail")
    BY <1>1 DEF StampMail, Ends, Ending
  <1>3. OfDump(run, Mine, ~NewMailOnly)
    BY <1>1, MineGoes
  <1>4. Mine.mysql.kind = "full" /\ Mine.mail.kind = "full" => run.owed \subseteq Mine.mail.pairs
    BY <1>3 DEF OfDump
  <1>5. ASSUME ~run'.errors
        PROVE  State(Mine, "mail") # "none"
    <2>1. ASSUME Mine.mail = NoMail
          PROVE  run'.errors = TRUE
      <3>1. Shape(Over("mail"))
        BY OverFields, RunFacts DEF Ending
      <3>2. run' = [Over("mail") EXCEPT !.errors = TRUE]
        BY <2>1 DEF StampMail, Failed, Mine
      <3> QED BY <3>1, <3>2 DEF Shape, Field
    <2>2. MailOK(Mine.mail)
      BY <1>1, MineIsWhole
    <2> QED BY <1>5, <2>1, <2>2, StateIs DEF MailOK
  <1>6. Goal(Mine)
    BY <1>1, <1>2, <1>4, <1>5, EndsArchiving DEF Component
  <1> QED BY <1>1, <1>2, <1>6, EndsFields, ArchivingAfter DEF Mine

(* The other archives. *)
LEMMA OtherArchiving ==
    ASSUME BackupInv, Archiving, NEW c \in Other, ArchiveOther(c)
    PROVE  Archiving'
  <1>1. run.script = "backup" /\ c \in run.rest
    BY DEF ArchiveOther, Doing
  <1>2. Ends(c)
    BY <1>1 DEF ArchiveOther, Ends, Ending
  <1>3. PICK b : /\ Stored(b) /\ b.mysql = Mine.mysql /\ b.mail = Mine.mail
                 /\ b.other = OtherWith(Mine.other, c, "whole") /\ b.status = Mine.status
    BY OtherStores
  <1>4. Mine.other \in [Other -> {"none", "whole", "cut"}]
    BY <1>1, MineIsWhole DEF BackupType
  <1>5. b.other[c] = "whole" /\ \A o \in Other : o # c => b.other[o] = Mine.other[o]
    BY <1>3, <1>4 DEF OtherWith
  <1>6. State(b, c) # "none"
    BY <1>5, StateIs
  <1>7. OfDump(run, Mine, ~NewMailOnly)
    BY <1>1, MineGoes
  <1>8. b.mysql.kind = "full" /\ b.mail.kind = "full" => run.owed \subseteq b.mail.pairs
    BY <1>3, <1>7 DEF OfDump
  <1>9. c \in Component
    BY DEF Component, Other
  <1>10. Goal(b)
    BY <1>1, <1>2, <1>3, <1>5, <1>6, <1>8, <1>9, EndsArchiving
  <1>11. backups'[run.id] = b
    BY <1>3 DEF Stored
  <1> QED BY <1>2, <1>10, <1>11, EndsFields, ArchivingAfter

LEMMA OtherFailsArchiving ==
    ASSUME BackupInv, Archiving, NEW c \in Other, ArchiveOtherFails(c)
    PROVE  Archiving'
  <1>1. run.script = "backup" /\ c \in run.rest /\ c \in Component
    BY DEF ArchiveOtherFails, Doing, Component, Other
  <1>2. Ends(c)
    BY <1>1 DEF ArchiveOtherFails, Ends, Ending
  <1>3. OfDump(run, Mine, ~NewMailOnly)
    BY <1>1, MineGoes
  <1>4. ASSUME c = "trees"
        PROVE  Archiving'
    <2>1. PICK b : /\ Stored(b) /\ b.mysql = Mine.mysql /\ b.mail = Mine.mail
                   /\ \E x \in {"none", "cut"} : b.other = OtherWith(Mine.other, c, x)
                   /\ b.status = Mine.status
      BY <1>4, OtherStoresLess
    <2>2. Mine.other \in [Other -> {"none", "whole", "cut"}]
      BY <1>1, MineIsWhole DEF BackupType
    <2>3. \A o \in Other : o # c => b.other[o] = Mine.other[o]
      BY <2>1, <2>2 DEF OtherWith
    <2>4. b.mysql.kind = "full" /\ b.mail.kind = "full" => run.owed \subseteq b.mail.pairs
      BY <1>3, <2>1 DEF OfDump
    <2>5. Goal(b)
      BY <1>1, <1>2, <1>4, <2>1, <2>3, <2>4, EndsArchiving
    <2>6. backups'[run.id] = b
      BY <2>1 DEF Stored
    <2> QED BY <1>2, <2>5, <2>6, EndsFields, ArchivingAfter
  <1>5. ASSUME run' = Failed(c), backups' = backups
        PROVE  Archiving'
    <2>1. Shape(Over(c))
      BY OverFields, RunFacts DEF Ending
    <2>2. run'.errors = TRUE
      BY <1>5, <2>1 DEF Failed, Shape, Field
    <2>3. Mine.mysql.kind = "full" /\ Mine.mail.kind = "full"
             => run.owed \subseteq Mine.mail.pairs
      BY <1>3 DEF OfDump
    <2>4. Goal(Mine)
      BY <1>1, <1>2, <2>2, <2>3, EndsArchiving
    <2> QED BY <1>2, <1>5, <2>4, EndsFields, ArchivingAfter DEF Mine
  <1> QED BY <1>4, <1>5 DEF ArchiveOtherFails

LEMMA SkipTreesArchiving ==
    ASSUME BackupInv, Archiving, SkipTrees
    PROVE  Archiving'
  <1>1. run.script = "backup" /\ "trees" \in run.rest /\ backups' = backups
    BY DEF SkipTrees, Doing
  <1>2. Ends("trees")
    BY <1>1 DEF SkipTrees, Ends, Ending
  <1>3. OfDump(run, Mine, ~NewMailOnly)
    BY <1>1, MineGoes
  <1>4. Mine.mysql.kind = "full" /\ Mine.mail.kind = "full" => run.owed \subseteq Mine.mail.pairs
    BY <1>3 DEF OfDump
  <1>5. Goal(Mine)
    BY <1>1, <1>2, <1>4, EndsArchiving DEF Component
  <1> QED BY <1>1, <1>2, <1>5, EndsFields, ArchivingAfter DEF Mine

(* The end. *)
LEMMA VerifyArchiving ==
    ASSUME BackupInv, Archiving, VerifyBackup
    PROVE  Archiving'
  <1>1. run.script = "backup" /\ run.pc = "begin" /\ backups' = backups
    BY DEF VerifyBackup, AllDone
  <1>2. /\ run'.id = run.id /\ run'.sel = run.sel /\ run'.rest = run.rest
        /\ run'.owed = run.owed /\ run'.pc = "manifest"
    BY VerifyFields
  <1>3. ~run'.errors => ~run.errors /\ ~Unreadable(Mine)
    BY VerifyFields DEF Mine
  <1>4. Sound(run, Mine) /\ OfDump(run, Mine, ~NewMailOnly)
    BY <1>1, MineGoes
  <1>5. Sound(run', Mine)
    BY <1>1, <1>2, <1>3, <1>4 DEF Sound, Present
  <1>6. OfDump(run', Mine, ~NewMailOnly')
    BY <1>1, <1>2, <1>4 DEF OfDump
  <1> QED BY <1>1, <1>2, <1>5, <1>6, ArchivingAfter DEF Goal, Mine

LEMMA SameStates ==
    ASSUME NEW a, NEW b, b.mysql = a.mysql, b.mail = a.mail, b.other = a.other
    PROVE  /\ \A c \in Component : State(b, c) = State(a, c)
           /\ Unreadable(b) <=> Unreadable(a)
  <1>1. \A c \in Component : State(b, c) = State(a, c)
    BY StateIs DEF Component, Other
  <1> QED BY <1>1 DEF Unreadable

LEMMA ManifestArchiving ==
    ASSUME BackupInv, Archiving, GenerateManifest
    PROVE  /\ Archiving'
           /\ \E b : Stored(b) /\ (b.status = "success" => ~Unreadable(b))
  <1>1. run.script = "backup" /\ run.pc = "manifest" /\ Moves("cleanup")
    BY DEF GenerateManifest, AllDone, Goto, Moves
  <1>2. PICK b : /\ Stored(b) /\ b.mysql = Mine.mysql /\ b.mail = Mine.mail
                 /\ b.other = Mine.other /\ (b.status = "success" => ~run.errors)
    BY ManifestStores
  <1>3. /\ run'.pc = "cleanup" /\ run'.rest = run.rest /\ run'.sel = run.sel
        /\ run'.id = run.id /\ run'.errors = run.errors /\ run'.owed = run.owed
    BY <1>1, MovesFields
  <1>4. Sound(run, Mine) /\ OfDump(run, Mine, ~NewMailOnly)
    BY <1>1, MineGoes
  <1>5. /\ \A c \in Component : State(b, c) = State(Mine, c)
        /\ Unreadable(b) <=> Unreadable(Mine)
    BY <1>2, SameStates
  <1>6. ASSUME Present(run, Mine) PROVE Present(run', b)
    BY <1>3, <1>5, <1>6, RunFacts DEF Present
  <1>7. Sound(run', b)
    BY <1>1, <1>2, <1>3, <1>4, <1>6 DEF Sound
  <1>8. OfDump(run', b, ~NewMailOnly')
    BY <1>1, <1>2, <1>3, <1>4 DEF OfDump
  <1>9. backups'[run.id] = b
    BY <1>2 DEF Stored
  <1>10. b.status = "success" => ~Unreadable(b)
    BY <1>1, <1>2, <1>4, <1>5 DEF Sound
  <1>11. Archiving'
    BY <1>3, <1>7, <1>8, <1>9, ArchivingAfter DEF Goal
  <1> QED BY <1>2, <1>10, <1>11

LEMMA BeginsArchiving ==
    ASSUME BackupInv, NEW sel \in Selections, NEW incremental \in BOOLEAN,
           StartBackup(sel, incremental)
    PROVE  Archiving'
  <1>1. PICK id : id = count'.backups
    OBVIOUS
  <1>2. id \in Id /\ backups'[id] = EmptyBackup
        /\ run' = [NoRun EXCEPT !.script = "backup", !.id = id, !.sel = sel,
                                !.incremental = incremental, !.rest = sel]
    BY <1>1, BackupBegins
  <1>3. PICK r : r = run'
    OBVIOUS
  <1>4. BegunAs(r, id, sel, incremental)
    BY <1>2, <1>3 DEF BegunAs
  <1>5. /\ Shape(r) /\ r.script = "backup" /\ r.id = id /\ r.sel = sel /\ r.rest = sel
        /\ r.incremental = incremental /\ r.pc = "begin" /\ r.saved = FALSE
        /\ r.errors = FALSE /\ r.rows = {} /\ r.unread = {} /\ r.pairs = {} /\ r.owed = {}
    BY <1>4, StartBackupFields
  <1>6. EmptyBackup.status = "none" /\ EmptyBackup.mail.kind = "none"
    BY DEF EmptyBackup, NoMail
  <1>7. Sound(r, EmptyBackup)
    BY <1>5, <1>6 DEF Sound, Present
  <1>8. \A all : OfDump(r, EmptyBackup, all)
    BY <1>5, <1>6 DEF OfDump
  <1>9. Mine' = EmptyBackup
    BY <1>2, <1>3, <1>5 DEF Mine
  <1> QED BY <1>3, <1>7, <1>8, <1>9 DEF Archiving

LEMMA StampedEffects ==
    ASSUME [Next]_vars
    PROVE  UNCHANGED stamped \/ StampMail
  <1>1. ASSUME UNCHANGED vars PROVE UNCHANGED stamped
    BY <1>1 DEF vars, markers
  <1>2. ASSUME StartSteps PROVE UNCHANGED stamped
    BY <1>2 DEF StartSteps, StartBackup, StartRestore, markers
  <1>3. ASSUME DumpSteps PROVE UNCHANGED stamped
    BY <1>3 DEF DumpSteps, DumpBegins, DumpFails, DumpEnds, SavePosition, KeepPosition,
       DumpSaved, DumpIncrement, DumpIncrementFails, markers
  <1>4. ASSUME MailSteps PROVE UNCHANGED stamped \/ StampMail
    BY <1>4 DEF MailSteps, MailBegins, MailEnds, MailCutShort, ReadDir, markers
  <1>5. ASSUME OtherSteps PROVE UNCHANGED stamped
    BY <1>5 DEF OtherSteps, ArchiveOther, ArchiveOtherFails, SkipTrees, markers
  <1>6. ASSUME EndSteps PROVE UNCHANGED stamped
    BY <1>6 DEF EndSteps, VerifyBackup, GenerateManifest, CleanupBackups, InterruptBackup,
       markers
  <1>7. ASSUME MysqlRestoreSteps PROVE UNCHANGED stamped
    BY <1>7 DEF MysqlRestoreSteps, RestoreDump, RestoreDumpFails, RestoreIncrement,
       RestoreBinlogs, markers
  <1>8. ASSUME RestoreSteps PROVE UNCHANGED stamped
    BY <1>8 DEF RestoreSteps, SkipRestore, RestoreMail, EndRestore, InterruptRestore, markers
  <1>9. ASSUME MysqlSteps PROVE UNCHANGED stamped
    BY <1>9 DEF MysqlSteps, CommitChange, RotateLog, markers
  <1>10. ASSUME ServiceSteps PROVE UNCHANGED stamped
    BY <1>10 DEF ServiceSteps, StartServices, Deliver, Disturb, markers
  <1> QED BY <1>1, <1>2, <1>3, <1>4, <1>5, <1>6, <1>7, <1>8, <1>9, <1>10, Kinds

(* A restore is none of this. *)
LEMMA ScriptEnds ==
    ASSUME run'.script # "backup"
    PROVE  Archiving'
  BY DEF Archiving

LEMMA ArchivingKept ==
    ASSUME BackupInv, Archiving, [Next]_vars
    PROVE  Archiving'
  <1>0. NoRun.script # "backup"
    BY NoRunFields
  <1>1. ASSUME UNCHANGED vars PROVE Archiving'
    BY <1>1, StillArchiving DEF vars, markers
  <1>2. ASSUME StartSteps PROVE Archiving'
    <2>1. ASSUME NEW id, NEW sel, StartRestore(id, sel) PROVE run'.script # "backup"
      BY <2>1 DEF StartRestore, NoRun
    <2> QED BY <1>2, <2>1, BeginsArchiving, ScriptEnds DEF StartSteps
  <1>3. ASSUME DumpSteps PROVE Archiving'
    BY <1>3, DumpBeginsArchiving, DumpFailsArchiving, DumpEndsArchiving, PositionArchiving,
       DumpSavedArchiving, DumpIncrementArchiving, FallbackArchiving DEF DumpSteps
  <1>4. ASSUME MailSteps PROVE Archiving'
    BY <1>4, MailBeginsArchiving, ReadDirArchiving, MailEndsArchiving, MailCutArchiving,
       StampArchiving DEF MailSteps
  <1>5. ASSUME OtherSteps PROVE Archiving'
    BY <1>5, OtherArchiving, OtherFailsArchiving, SkipTreesArchiving DEF OtherSteps
  <1>6. ASSUME EndSteps PROVE Archiving'
    <2>1. ASSUME CleanupBackups \/ InterruptBackup PROVE run'.script # "backup"
      BY <1>0, <2>1 DEF CleanupBackups, InterruptBackup
    <2> QED BY <1>6, <2>1, VerifyArchiving, ManifestArchiving, ScriptEnds DEF EndSteps
  <1>7. ASSUME MysqlRestoreSteps \/ RestoreSteps PROVE Archiving'
    <2>1. run.script = "restore"
      BY <1>7 DEF MysqlRestoreSteps, RestoreDump, RestoreDumpFails, RestoreIncrement,
         RestoreBinlogs, RestoreSteps, SkipRestore, RestoreMail, EndRestore,
         InterruptRestore, Doing
    <2>2. ~StartSteps /\ ~DumpBegins /\ ~MailBegins /\ ~VerifyBackup
          /\ \A d \in Dir : ~ReadDir(d)
      BY <2>1, NoRunFields DEF StartSteps, StartBackup, StartRestore, DumpBegins, WantsDump,
         MailBegins, VerifyBackup, ReadDir, Doing, AllDone
    <2>3. ASSUME NEW c, Ends(c) PROVE run'.script # "backup"
      BY <2>1, <2>3, EndsFields
    <2>4. ASSUME RestoreMoves PROVE run'.script # "backup"
      BY <2>1, <2>4, MovesFields DEF RestoreMoves
    <2>5. ASSUME NEW p, Disturb(p) PROVE run'.script # "backup"
      BY <2>1, <2>5, DisturbFields
    <2>6. run'.script # "backup"
      BY <1>0, <2>1, <2>2, <2>3, <2>4, <2>5, RunEffects
    <2> QED BY <2>6, ScriptEnds
  <1>8. ASSUME MysqlSteps PROVE Archiving'
    BY <1>8, StillArchiving DEF MysqlSteps, CommitChange, RotateLog, markers
  <1>9. ASSUME ServiceSteps PROVE Archiving'
    <2>1. ASSUME NEW m, NEW d, Deliver(m, d) PROVE Archiving'
      BY <2>1, StillArchiving DEF Deliver, markers
    <2>2. ASSUME StartServices PROVE Archiving'
      BY <2>2, StillArchiving DEF StartServices, markers
    <2> QED BY <1>9, <2>1, <2>2, DisturbArchiving DEF ServiceSteps
  <1> QED BY <1>1, <1>2, <1>3, <1>4, <1>5, <1>6, <1>7, <1>8, <1>9, Kinds

----------------------------------------------------------------------------
(* A full backup is of one piece: every message that was in the store when the
   database was dumped, and was not moved or deleted before tar had it, is in its
   archive of the mail: main archives the mail after the database, and tar reads the
   directories one by one while mail comes in (scripts/backup.sh). *)
THEOREM MailIsOfTheDump == Spec => []MailOfTheDump
  <1>1. ASSUME Init
        PROVE  Archiving
    BY <1>1, NoRunFields DEF Init, Archiving
  <1>2. ASSUME BackupInv, Archiving
        PROVE  MailOfTheDump
    BY <1>2 DEF Archiving, OfDump, MailOfTheDump, Mine
  <1> QED BY <1>1, <1>2, Inductive, ArchivingKept, PTL DEF Spec

(* Whatever the manifest calls a success can be read. *)
Readable ==
    \A id \in Id : backups[id].exists /\ backups[id].status = "success"
                      => ~Unreadable(backups[id])

LEMMA OnlyManifestStatus ==
    ASSUME BackupInv, Archiving, [Next]_vars
    PROVE  \/ UNCHANGED backups
           \/ run.script = "backup"
              /\ \E b : Stored(b) /\ (b.status = "success" => ~Unreadable(b))
           \/ \E ids : backups' = Without(ids)
           \/ \E sel, incremental : StartBackup(sel, incremental)
  <1> DEFINE Wrote == run.script = "backup"
                      /\ \E b : Stored(b) /\ (b.status = "success" => ~Unreadable(b))
  <1>1. ASSUME run.script = "backup", run.pc # "cleanup", NEW b, Stored(b),
               b.status = Mine.status
        PROVE  Wrote
    <2>1. Sound(run, Mine)
      BY <1>1, MineGoes
    <2> QED BY <1>1, <2>1 DEF Sound
  <1>2. ASSUME DumpEnds PROVE Wrote
    <2>1. run.script = "backup" /\ run.pc # "cleanup"
      BY <1>2 DEF DumpEnds, Doing
    <2> QED BY <1>1, <1>2, <2>1, DumpStores
  <1>3. ASSUME DumpIncrement PROVE Wrote
    <2>1. run.script = "backup" /\ run.pc # "cleanup"
      BY <1>3 DEF DumpIncrement, Doing
    <2> QED BY <1>1, <1>3, <2>1, IncrementStores
  <1>4. ASSUME MailEnds PROVE Wrote
    <2>1. run.script = "backup" /\ run.pc # "cleanup"
      BY <1>4 DEF MailEnds, Doing
    <2> QED BY <1>1, <1>4, <2>1, MailStores
  <1>5. ASSUME MailCutShort PROVE Wrote
    <2>1. run.script = "backup" /\ run.pc # "cleanup"
      BY <1>5 DEF MailCutShort, Doing
    <2> QED BY <1>1, <1>5, <2>1, CutMailStores
  <1>6. ASSUME NEW c \in Other, ArchiveOther(c) PROVE Wrote
    <2>1. run.script = "backup" /\ run.pc # "cleanup"
      BY <1>6 DEF ArchiveOther, Doing
    <2> QED BY <1>1, <1>6, <2>1, OtherStores
  <1>7. ASSUME NEW c \in Other, ArchiveOtherFails(c) PROVE Wrote \/ UNCHANGED backups
    <2>1. run.script = "backup" /\ run.pc # "cleanup"
      BY <1>7 DEF ArchiveOtherFails, Doing
    <2>2. c = "trees" \/ UNCHANGED backups
      BY <1>7 DEF ArchiveOtherFails
    <2> QED BY <1>1, <1>7, <2>1, <2>2, OtherStoresLess
  <1>8. ASSUME GenerateManifest PROVE Wrote
    <2>1. run.script = "backup"
      BY <1>8 DEF GenerateManifest, AllDone
    <2> QED BY <1>8, <2>1, ManifestArchiving
  <1>9. ASSUME InterruptBackup
        PROVE  Wrote \/ UNCHANGED backups \/ \E ids : backups' = Without(ids)
    <2>1. run.script = "backup"
      BY <1>9 DEF InterruptBackup
    <2>2. ASSUME NEW c \in Component, Doing("backup", c, Writes[c]), LeftBehind(c)
          PROVE  Wrote
      <3>1. run.pc \in Writes[c]
        BY <2>2 DEF Doing
      <3>2. Writes[c] \subseteq {"begin", "fallback", "dump", "tar"}
        BY DEF Writes, Component
      <3>3. run.pc # "cleanup"
        BY <3>1, <3>2
      <3> QED BY <1>1, <2>1, <2>2, <3>3, InterruptStores
    <2> QED BY <1>9, <2>2 DEF InterruptBackup
  <1> HIDE DEF Wrote
  <1>10. ASSUME DumpSteps PROVE Wrote \/ UNCHANGED backups
    BY <1>2, <1>3, <1>10 DEF DumpSteps, DumpBegins, DumpFails, SavePosition, KeepPosition,
       DumpSaved, DumpIncrementFails
  <1>11. ASSUME MailSteps PROVE Wrote \/ UNCHANGED backups
    BY <1>4, <1>5, <1>11 DEF MailSteps, MailBegins, StampMail, ReadDir
  <1>12. ASSUME OtherSteps PROVE Wrote \/ UNCHANGED backups
    BY <1>6, <1>7, <1>12 DEF OtherSteps, SkipTrees
  <1>13. ASSUME EndSteps
         PROVE  Wrote \/ UNCHANGED backups \/ \E ids : backups' = Without(ids)
    BY <1>8, <1>9, <1>13 DEF EndSteps, VerifyBackup, CleanupBackups
  <1>14. ASSUME UNCHANGED vars \/ MysqlRestoreSteps \/ RestoreSteps \/ MysqlSteps
                \/ ServiceSteps
         PROVE  UNCHANGED backups
    BY <1>14 DEF vars, MysqlRestoreSteps, RestoreDump, RestoreDumpFails, RestoreIncrement,
       RestoreBinlogs, RestoreSteps, SkipRestore, RestoreMail, EndRestore, InterruptRestore,
       MysqlSteps, CommitChange, RotateLog, ServiceSteps, StartServices, Deliver, Disturb
  <1>15. ASSUME StartSteps
         PROVE  UNCHANGED backups \/ \E sel, incremental : StartBackup(sel, incremental)
    BY <1>15 DEF StartSteps, StartRestore
  <1>16. \/ Wrote \/ UNCHANGED backups \/ (\E ids : backups' = Without(ids))
         \/ \E sel, incremental : StartBackup(sel, incremental)
    BY <1>10, <1>11, <1>12, <1>13, <1>14, <1>15, Kinds
  <1> QED BY <1>16 DEF Wrote

LEMMA ReadableKept ==
    ASSUME BackupInv, Archiving, Readable, [Next]_vars
    PROVE  Readable'
  <1>1. ASSUME UNCHANGED backups PROVE Readable'
    BY <1>1 DEF Readable
  <1>2. ASSUME run.script = "backup", NEW b, Stored(b), b.status = "success" => ~Unreadable(b)
        PROVE  Readable'
    <2>1. backups'[run.id] = b /\ \A id \in Id \ {run.id} : backups'[id] = backups[id]
      BY <1>2 DEF Stored, OthersSame
    <2> QED BY <1>2, <2>1 DEF Readable
  <1>3. ASSUME NEW ids, backups' = Without(ids) PROVE Readable'
    <2>1. \A id \in Id : backups'[id] \in {NoBackup, backups[id]}
      BY <1>3 DEF Without
    <2>2. NoBackup.exists = FALSE
      BY DEF NoBackup
    <2> QED BY <2>1, <2>2 DEF Readable
  <1>4. ASSUME NEW sel, NEW incremental, StartBackup(sel, incremental) PROVE Readable'
    <2>1. /\ backups'[count'.backups] = EmptyBackup
          /\ \A id \in Id \ {count'.backups} : backups'[id] = backups[id]
      BY <1>4, BackupBegins DEF OthersSame
    <2>2. EmptyBackup.status = "none"
      BY DEF EmptyBackup
    <2> QED BY <2>1, <2>2 DEF Readable
  <1> QED BY <1>1, <1>2, <1>3, <1>4, OnlyManifestStatus

(* Whatever the manifest calls a success can be read, although tar's errors are
   ignored, and has the database, Redis and the mail, as far as they were selected:
   verify_backups reads every archive, an archive that is missing counts as an error
   of its component, and nothing is written after the manifest (scripts/backup.sh). *)
THEOREM SuccessesAreReadable == Spec => []SuccessIsReadable
  <1>1. ASSUME Init
        PROVE  Archiving /\ Readable
    BY <1>1, NoRunFields DEF Init, Archiving, Readable, NoBackup
  <1>2. ASSUME BackupInv, Archiving, Readable
        PROVE  SuccessIsReadable
    <2> SUFFICES ASSUME NEW id \in Id, backups[id].exists, backups[id].status = "success"
                 PROVE  /\ ~Unreadable(backups[id])
                        /\ (run.script = "backup" /\ run.id = id) =>
                              \A c \in run.sel \ {"trees"} : State(backups[id], c) # "none"
      BY DEF SuccessIsReadable
    <2>1. ~Unreadable(backups[id])
      BY <1>2 DEF Readable
    <2>2. ASSUME run.script = "backup", run.id = id
          PROVE  \A c \in run.sel \ {"trees"} : State(backups[id], c) # "none"
      <3>1. Sound(run, Mine) /\ BackupPlace(run, Len(binlog))
        BY <1>2, <2>2, MineGoes
      <3>2. run.pc = "cleanup" /\ ~run.errors /\ Present(run, Mine)
        BY <2>2, <3>1 DEF Sound, Mine
      <3>3. run.rest = {}
        BY <3>1, <3>2 DEF BackupPlace, AtEnd
      <3> QED BY <2>2, <3>2, <3>3 DEF Present, Mine
    <2> QED BY <2>1, <2>2
  <1> QED BY <1>1, <1>2, Inductive, ArchivingKept, ReadableKept, PTL DEF Spec

----------------------------------------------------------------------------
(* The binary log from a position on. *)

LEMMA LeadsOn ==
    ASSUME BackupInv, [Next]_vars, NEW r, NEW first \in 1..Len(binlog),
           Leads(binlog, r, first, db)
    PROVE  Leads(binlog', r, first, db')
  <1>1. binlog \in Seq(Seq(Event))
    BY DEF BackupInv, StoreOK
  <1>2. ASSUME LogStill PROVE Leads(binlog', r, first, db')
    BY <1>2 DEF LogStill
  <1>3. ASSUME LogRotates PROVE Leads(binlog', r, first, db')
    <2>1. Leads(Append(binlog, <<>>), r, first, db)
      BY <1>1, PathRotates
    <2> QED BY <1>3, <2>1 DEF LogRotates
  <1>4. ASSUME LogGrows PROVE Leads(binlog', r, first, db')
    <2>1. PICK events \in Seq(Event) : binlog' = Log(events) /\ Replays(db, events, db')
      BY <1>4 DEF LogGrows
    <2>2. Logged(binlog', binlog, events)
      BY <2>1 DEF Log, Logged
    <2> QED BY <1>1, <2>1, <2>2, PathLogs
  <1> QED BY <1>2, <1>3, <1>4, LogEffects

(* The rows and the place in the log that a dump has noted. *)
Noted == run.script = "backup" /\ run.pc \in {"dump", "position"}

LEMMA NotedEffects ==
    ASSUME BackupInv, [Next]_vars, Noted'
    PROVE  DumpBegins \/ (Noted /\ run'.rows = run.rows /\ run'.file = run.file)
  <1>1. ASSUME NEW c, Ends(c) PROVE run'.pc = "begin"
    BY <1>1, EndsFields
  <1>2. ASSUME run.script = "backup", MysqlMoves
        PROVE  Noted /\ run'.rows = run.rows /\ run'.file = run.file
    <2>1. PICK pc \in {"position", "saved", "fallback"} :
             Moves(pc) /\ (pc = "position" => run.pc = "dump")
      BY <1>2 DEF MysqlMoves
    <2>2. run'.pc = pc /\ run'.rows = run.rows /\ run'.file = run.file
      BY <2>1, MovesFields
    <2> QED BY <1>2, <2>1, <2>2 DEF Noted
  <1>3. ASSUME MailMoves \/ EndMoves \/ RestoreMoves
        PROVE  run'.pc \in {"stamp", "cleanup", "binlogs"}
    <2>1. PICK pc \in {"stamp", "cleanup", "binlogs"} : Moves(pc)
      BY <1>3 DEF MailMoves, EndMoves, RestoreMoves
    <2> QED BY <2>1, MovesFields
  <1>4. ASSUME MailBegins PROVE run'.pc = "tar"
    <2>1. run' = [run EXCEPT !.pc = "tar", !.unread = Dir]
      BY <1>4 DEF MailBegins
    <2> QED BY <2>1, RunFacts DEF Shape, Field
  <1>5. ASSUME NEW d \in Dir, ReadDir(d) PROVE run'.pc = "tar"
    BY <1>5, ReadDirFields
  <1>6. ASSUME VerifyBackup PROVE run'.pc = "manifest"
    BY <1>6, VerifyFields
  <1>7. ASSUME NEW p, Disturb(p)
        PROVE  Noted /\ run'.rows = run.rows /\ run'.file = run.file
    BY <1>7, DisturbFields DEF Noted
  <1>8. ASSUME StartSteps PROVE run'.pc = "begin"
    <2>1. ASSUME NEW sel \in Selections, NEW incremental \in BOOLEAN,
                 StartBackup(sel, incremental)
          PROVE  run'.pc = "begin"
      BY <2>1 DEF StartBackup, NoRun
    <2>2. ASSUME NEW id \in Id, NEW sel \in RestoreSelections, StartRestore(id, sel)
          PROVE  run'.pc = "begin"
      BY <2>2 DEF StartRestore, NoRun
    <2> QED BY <1>8, <2>1, <2>2 DEF StartSteps
  <1>9. run'.pc \in {"dump", "position"} /\ run' # NoRun
    BY NoRunFields DEF Noted
  <1>10. ASSUME run' = run
         PROVE  Noted /\ run'.rows = run.rows /\ run'.file = run.file
    BY <1>10 DEF Noted
  <1> QED BY <1>1, <1>2, <1>3, <1>4, <1>5, <1>6, <1>7, <1>8, <1>9, <1>10, RunEffects

Position ==
    /\ position # None => Leads(binlog, position.rows, position.file, db)
    /\ Noted => Leads(binlog, run.rows, run.file, db)

LEMMA PositionKept ==
    ASSUME BackupInv, Position, [Next]_vars
    PROVE  Position'
  <1>1. position # None => position.file \in 1..Len(binlog)
    BY DEF BackupInv, MarkersOK
  <1>2. Noted => run.file \in 1..Len(binlog)
    BY DEF Noted, BackupInv, RunOK, BackupRuns, BackupPlace
  <1>3. position' # None => Leads(binlog', position'.rows, position'.file, db')
    <2>1. ASSUME UNCHANGED position, position # None
          PROVE  Leads(binlog', position'.rows, position'.file, db')
      <3>1. Leads(binlog', position.rows, position.file, db')
        BY <1>1, <2>1, LeadsOn DEF Position
      <3> QED BY <2>1, <3>1
    <2>2. ASSUME SavePosition
          PROVE  Leads(binlog', position'.rows, position'.file, db')
      <3>1. Noted
        BY <2>2 DEF SavePosition, Doing, Noted
      <3>2. position' = [file |-> run.file, rows |-> run.rows]
        BY <2>2 DEF SavePosition
      <3>3. position'.file = run.file /\ position'.rows = run.rows
        BY <3>2
      <3>4. Leads(binlog', run.rows, run.file, db')
        BY <1>2, <3>1, LeadsOn DEF Position
      <3> QED BY <3>3, <3>4
    <2> QED BY <2>1, <2>2, PositionEffects
  <1>4. ASSUME Noted'
        PROVE  Leads(binlog', run'.rows, run'.file, db')
    <2>1. ASSUME DumpBegins
          PROVE  Leads(binlog', run'.rows, run'.file, db')
      <3>1. /\ run' = [run EXCEPT !.pc = "dump", !.rows = db, !.file = Len(binlog) + 1,
                                  !.owed = mail]
            /\ db' = db /\ binlog' = Append(binlog, <<>>)
        BY <2>1 DEF DumpBegins
      <3>2. run'.rows = db /\ run'.file = Len(binlog) + 1
        BY <3>1, RunFacts DEF Shape, Field
      <3>3. binlog \in Seq(Seq(Event)) /\ db \in SUBSET Row
        BY DEF BackupInv, StoreOK
      <3>4. Leads(Append(binlog, <<>>), db, Len(binlog) + 1, db)
        BY <3>3, PathBegins
      <3> QED BY <3>1, <3>2, <3>4
    <2>2. ASSUME Noted, run'.rows = run.rows, run'.file = run.file
          PROVE  Leads(binlog', run'.rows, run'.file, db')
      <3>1. Leads(binlog', run.rows, run.file, db')
        BY <1>2, <2>2, LeadsOn DEF Position
      <3> QED BY <2>2, <3>1
    <2> QED BY <1>4, <2>1, <2>2, NotedEffects
  <1> QED BY <1>3, <1>4 DEF Position

(* The position file and the dump it was saved with belong together: whatever failed,
   was interrupted, restored or rotated since, that dump and the binary log from that
   position on give the database of today (backup_mysql_full takes the position out
   of the dump itself, and keeps the old one when it cannot). *)
THEOREM PositionIsTrue == Spec => []DumpAndLogGiveToday
  <1>1. ASSUME Init
        PROVE  Position
    BY <1>1, NoRunFields DEF Init, Position, Noted
  <1>2. ASSUME BackupInv, Position
        PROVE  DumpAndLogGiveToday
    <2> SUFFICES ASSUME position # None
                 PROVE  ReplayLog(position.rows, position.file) = [rows |-> db, whole |-> TRUE]
      BY DEF DumpAndLogGiveToday
    <2>1. position.file \in 1..Len(binlog) /\ binlog \in Seq(Seq(Event))
      BY <1>2 DEF BackupInv, MarkersOK, StoreOK
    <2>2. Leads(binlog, position.rows, position.file, db)
      BY <1>2 DEF Position
    <2> QED BY <2>1, <2>2, ReplayFollowsPath
  <1> QED BY <1>1, <1>2, Inductive, PositionKept, PTL DEF Spec

----------------------------------------------------------------------------
(* The backup that was restored last. *)

(* It is not the one that is being written. *)
Restored ==
    /\ rebuilt # None => /\ rebuilt \in 1..count.backups
                         /\ run.script = "backup" => rebuilt # run.id
    /\ FullRebuilds

LEMMA DbEffects ==
    ASSUME [Next]_vars
    PROVE  UNCHANGED <<db, rebuilt>> \/ rebuilt' = None \/ RestoreDump
  <1>1. ASSUME UNCHANGED vars PROVE UNCHANGED <<db, rebuilt>>
    BY <1>1 DEF vars, mysql
  <1>2. ASSUME StartSteps PROVE UNCHANGED <<db, rebuilt>>
    BY <1>2 DEF StartSteps, StartBackup, StartRestore, mysql
  <1>3. ASSUME DumpSteps PROVE UNCHANGED <<db, rebuilt>>
    BY <1>3 DEF DumpSteps, DumpBegins, DumpFails, DumpEnds, SavePosition, KeepPosition,
       DumpSaved, DumpIncrement, DumpIncrementFails, mysql
  <1>4. ASSUME MailSteps PROVE UNCHANGED <<db, rebuilt>>
    BY <1>4 DEF MailSteps, MailBegins, MailEnds, MailCutShort, StampMail, ReadDir, mysql
  <1>5. ASSUME OtherSteps PROVE UNCHANGED <<db, rebuilt>>
    BY <1>5 DEF OtherSteps, ArchiveOther, ArchiveOtherFails, SkipTrees, mysql
  <1>6. ASSUME EndSteps PROVE UNCHANGED <<db, rebuilt>>
    BY <1>6 DEF EndSteps, VerifyBackup, GenerateManifest, CleanupBackups, InterruptBackup,
       mysql
  <1>7. ASSUME MysqlRestoreSteps PROVE rebuilt' = None \/ RestoreDump
    BY <1>7 DEF MysqlRestoreSteps, RestoreDumpFails, RestoreIncrement, RestoreBinlogs
  <1>8. ASSUME RestoreSteps PROVE UNCHANGED <<db, rebuilt>>
    BY <1>8 DEF RestoreSteps, SkipRestore, RestoreMail, EndRestore, InterruptRestore, mysql
  <1>9. ASSUME MysqlSteps PROVE UNCHANGED <<db, rebuilt>> \/ rebuilt' = None
    BY <1>9 DEF MysqlSteps, CommitChange, RotateLog
  <1>10. ASSUME ServiceSteps PROVE UNCHANGED <<db, rebuilt>>
    BY <1>10 DEF ServiceSteps, StartServices, Deliver, Disturb, mysql
  <1> QED BY <1>1, <1>2, <1>3, <1>4, <1>5, <1>6, <1>7, <1>8, <1>9, <1>10, Kinds

(* A backup is made by the script that has begun it. *)
LEMMA ScriptEffects ==
    ASSUME BackupInv, [Next]_vars, run'.script = "backup"
    PROVE  \/ run.script = "backup" /\ run'.id = run.id
           \/ \E sel, incremental : StartBackup(sel, incremental)
  <1>1. ASSUME NEW c, Ends(c) PROVE run'.script = run.script /\ run'.id = run.id
    BY <1>1, EndsFields
  <1>2. ASSUME NEW pc, Moves(pc) PROVE run'.script = run.script /\ run'.id = run.id
    BY <1>2, MovesFields
  <1>3. MysqlMoves \/ MailMoves \/ EndMoves \/ RestoreMoves => \E pc : Moves(pc)
    BY DEF MysqlMoves, MailMoves, EndMoves, RestoreMoves
  <1>4. ASSUME DumpBegins PROVE run'.script = run.script /\ run'.id = run.id
    <2>1. run' = [run EXCEPT !.pc = "dump", !.rows = db, !.file = Len(binlog) + 1, !.owed = mail]
      BY <1>4 DEF DumpBegins
    <2> QED BY <2>1, RunFacts DEF Shape, Field
  <1>5. ASSUME MailBegins PROVE run'.script = run.script /\ run'.id = run.id
    <2>1. run' = [run EXCEPT !.pc = "tar", !.unread = Dir]
      BY <1>5 DEF MailBegins
    <2> QED BY <2>1, RunFacts DEF Shape, Field
  <1>6. ASSUME NEW d \in Dir, ReadDir(d) PROVE run'.script = run.script /\ run'.id = run.id
    BY <1>6, ReadDirFields
  <1>7. ASSUME VerifyBackup PROVE run'.script = run.script /\ run'.id = run.id
    BY <1>7, VerifyFields
  <1>8. ASSUME NEW p, Disturb(p) PROVE run'.script = run.script /\ run'.id = run.id
    BY <1>8, DisturbFields
  <1>9. ASSUME StartSteps PROVE \E sel, incremental : StartBackup(sel, incremental)
    <2>1. ASSUME NEW id, NEW sel, StartRestore(id, sel) PROVE run'.script = "restore"
      BY <2>1 DEF StartRestore, NoRun
    <2> QED BY <1>9, <2>1 DEF StartSteps
  <1>10. run' # NoRun
    BY NoRunFields
  <1>11. ASSUME run' = run PROVE run'.script = run.script /\ run'.id = run.id
    BY <1>11
  <1> QED BY <1>1, <1>2, <1>3, <1>4, <1>5, <1>6, <1>7, <1>8, <1>9, <1>10, <1>11, RunEffects

LEMMA RestoredKept ==
    ASSUME BackupInv, Restored, [Next]_vars
    PROVE  Restored'
  <1>0. count.backups \in Nat /\ CountOK
    BY DEF BackupInv, CountOK
  <1>1. ASSUME rebuilt' = None PROVE Restored'
    BY <1>1 DEF Restored, FullRebuilds
  <1>2. ASSUME UNCHANGED <<db, rebuilt>>, rebuilt # None
        PROVE  Restored'
    <2>1. /\ rebuilt \in 1..count.backups /\ FullRebuilds
          /\ run.script = "backup" => rebuilt # run.id
      BY <1>2 DEF Restored
    <2>2. rebuilt \in Id
      BY <1>2 DEF BackupInv, RebuiltOK
    <2>3. ASSUME NEW sel, NEW incremental, StartBackup(sel, incremental)
          PROVE  /\ rebuilt \in 1..count'.backups /\ rebuilt # run'.id
                 /\ backups'[rebuilt] = backups[rebuilt]
      <3>1. PICK id : id = count'.backups
        OBVIOUS
      <3>2. /\ id = count.backups + 1
            /\ OthersSame(backups, backups', id)
            /\ run' = [NoRun EXCEPT !.script = "backup", !.id = id, !.sel = sel,
                                    !.incremental = incremental, !.rest = sel]
        BY <2>3, <3>1, BackupBegins
      <3>3. run'.id = id
        BY <3>2 DEF NoRun
      <3>4. rebuilt # id /\ rebuilt \in 1..id
        BY <1>0, <2>1, <3>2
      <3> QED BY <2>2, <3>1, <3>2, <3>3, <3>4 DEF OthersSame
    <2>4. rebuilt \in 1..count'.backups
      BY <2>1, <2>3, CountEffects
    <2>5. run'.script = "backup" => rebuilt # run'.id
      BY <2>1, <2>3, ScriptEffects
    <2>6. backups'[rebuilt] \in {backups[rebuilt], NoBackup}
      <3>1. ASSUME run.script = "backup", NEW b, Stored(b)
            PROVE  backups'[rebuilt] = backups[rebuilt]
        BY <2>1, <2>2, <3>1 DEF Stored, OthersSame
      <3>2. ASSUME NEW ids, backups' = Without(ids)
            PROVE  backups'[rebuilt] \in {backups[rebuilt], NoBackup}
        BY <2>2, <3>2 DEF Without
      <3> QED BY <2>3, <3>1, <3>2, BackupsEffects DEF Removes
    <2>7. FullRebuilds'
      <3>1. NoBackup.exists = FALSE
        BY DEF NoBackup
      <3> QED BY <1>2, <2>1, <2>6, <3>1 DEF FullRebuilds
    <2> QED BY <1>2, <2>4, <2>5, <2>7 DEF Restored
  <1>3. ASSUME RestoreDump
        PROVE  Restored'
    <2>1. /\ run.script = "restore" /\ rebuilt' = run.id /\ Sql.kind = "full"
          /\ LoadTables(Row) /\ backups' = backups /\ count' = count /\ "mysql" \in run.rest
      BY <1>3 DEF RestoreDump, Doing
    <2>2. run.id \in Id /\ backups[run.id].exists /\ Whole(Mine) /\ BackupType(Mine)
      BY <2>1, MineIsWhole DEF Mine
    <2>3. run.id \in 1..count.backups
      <3>1. NoBackup.exists = FALSE
        BY DEF NoBackup
      <3>2. ~(run.id > count.backups)
        BY <1>0, <2>2, <3>1 DEF CountOK
      <3> QED BY <1>0, <2>2, <3>2 DEF Id
    <2>4. run'.script = "restore"
      <3>1. Ends("mysql")
        BY <2>1 DEF LoadTables, Ends, Ending
      <3> QED BY <2>1, <3>1, EndsFields
    <2>5. db' = Sql.rows
      <3>1. db \subseteq Row /\ Sql.rows \subseteq Row
        BY <2>1, <2>2 DEF BackupInv, StoreOK, BackupType, SqlType, Sql, Mine
      <3>2. db' = (Sql.rows \cap Row) \cup (db \ Row)
        BY <2>1 DEF LoadTables
      <3> QED BY <3>1, <3>2
    <2>6. FullRebuilds'
      BY <2>1, <2>5 DEF FullRebuilds, Sql
    <2> QED BY <2>1, <2>3, <2>4, <2>6 DEF Restored
  <1>4. rebuilt # None \/ rebuilt' = None \/ rebuilt' # rebuilt
    OBVIOUS
  <1> QED BY <1>1, <1>2, <1>3, <1>4, DbEffects

(* Once a full backup is restored and until the next change, the database is that of
   its dump: whatever was added, removed or half restored since is gone, and neither a
   backup that is made meanwhile nor the removal of old ones changes what was
   restored (restore_mysql in scripts/restore.sh). *)
THEOREM RestoreRebuilds == Spec => []FullRebuilds
  <1>1. ASSUME Init
        PROVE  Restored
    BY <1>1 DEF Init, Restored, FullRebuilds
  <1>2. ASSUME Restored
        PROVE  FullRebuilds
    BY <1>2 DEF Restored
  <1> QED BY <1>1, <1>2, Inductive, RestoredKept, PTL DEF Spec

=============================================================================
