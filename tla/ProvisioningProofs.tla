-------------------------- MODULE ProvisioningProofs --------------------------
(* For any organizations, domains, accounts and scripts: the types of all tables,
   that rows have the rows they name, that the subscriber who missed no event
   agrees, that no domain counts too few accounts, and that the active script is
   stored. *)
EXTENDS SieveFilters, FiniteSetTheorems, TLAPS

-------------------------------------------------------------------------------
(* Partial functions. *)

LEMMA RowsAre ==
    ASSUME NEW Key, NEW Row, NEW t
    PROVE  t \in Rows(Key, Row) <=> DOMAIN t \subseteq Key /\ t \in [DOMAIN t -> Row]
  <1>1. ASSUME t \in Rows(Key, Row)
        PROVE  DOMAIN t \subseteq Key /\ t \in [DOMAIN t -> Row]
    <2>1. PICK K \in SUBSET Key : t \in [K -> Row]
      BY <1>1 DEF Rows
    <2> QED BY <2>1
  <1>2. ASSUME DOMAIN t \subseteq Key, t \in [DOMAIN t -> Row]
        PROVE  t \in Rows(Key, Row)
    <2>1. [DOMAIN t -> Row] \in {[K -> Row] : K \in SUBSET Key}
      BY <1>2
    <2> QED BY <1>2, <2>1 DEF Rows
  <1> QED BY <1>1, <1>2

LEMMA EmptyRows ==
    ASSUME NEW Key, NEW Row
    PROVE  Empty \in Rows(Key, Row) /\ DOMAIN Empty = {}
  <1>1. DOMAIN Empty = {} /\ Empty \in [DOMAIN Empty -> Row]
    BY DEF Empty
  <1> QED BY <1>1, RowsAre

LEMMA PutRow ==
    ASSUME NEW Key, NEW Row, NEW t \in Rows(Key, Row), NEW key \in Key, NEW row \in Row
    PROVE  Put(t, key, row) \in Rows(Key, Row)
  <1>1. DOMAIN t \subseteq Key /\ t \in [DOMAIN t -> Row]
    BY RowsAre
  <1>2. /\ DOMAIN Put(t, key, row) = DOMAIN t \cup {key}
        /\ Put(t, key, row) \in [DOMAIN t \cup {key} -> Row]
    BY <1>1 DEF Put
  <1>3. DOMAIN Put(t, key, row) \subseteq Key
    BY <1>1, <1>2
  <1> QED BY <1>2, <1>3, RowsAre

LEMMA DropRow ==
    ASSUME NEW Key, NEW Row, NEW t \in Rows(Key, Row), NEW key
    PROVE  /\ Drop(t, key) \in Rows(Key, Row)
           /\ DOMAIN Drop(t, key) = DOMAIN t \ {key}
           /\ \A k \in DOMAIN t \ {key} : Drop(t, key)[k] = t[k]
  <1>1. DOMAIN t \subseteq Key /\ t \in [DOMAIN t -> Row]
    BY RowsAre
  <1>2. Drop(t, key) = [k \in DOMAIN t \ {key} |-> t[k]]
    BY DEF Drop, Restrict
  <1>3. /\ DOMAIN Drop(t, key) = DOMAIN t \ {key}
        /\ \A k \in DOMAIN t \ {key} : Drop(t, key)[k] = t[k]
        /\ Drop(t, key) \in [DOMAIN t \ {key} -> Row]
    BY <1>1, <1>2
  <1>4. DOMAIN Drop(t, key) \subseteq Key
    BY <1>1, <1>3
  <1>5. Drop(t, key) \in Rows(Key, Row)
    BY <1>3, <1>4, RowsAre
  <1> QED BY <1>3, <1>5

LEMMA RowOf ==
    ASSUME NEW Key, NEW Row, NEW t \in Rows(Key, Row), NEW k \in DOMAIN t
    PROVE  k \in Key /\ t[k] \in Row
  BY RowsAre

-------------------------------------------------------------------------------
(* The invariant.  CounterCovers is about the accounts of domains, so that a new
   domain needs that no account was waiting for it; and the schema whose aliases
   nothing ties to an organization is the one where none can be made. *)

NoAliasWithoutKey == schema = "ulid" => aliases = {}

ProvInv ==
    /\ ProvTypeOK
    /\ RowsHaveParents
    /\ NoAliasWithoutKey
    /\ SubscriberAgrees
    /\ CounterCovers

LEMMA StaysKeeps ==
    ASSUME ProvInv, Stays, answer' \in {"ok", "error"}
    PROVE  ProvInv'
  <1> USE DEF Stays, tables
  <1>1. ProvTypeOK'
    BY DEF ProvInv, ProvTypeOK
  <1>2. RowsHaveParents'
    BY DEF ProvInv, RowsHaveParents
  <1>3. NoAliasWithoutKey'
    BY DEF ProvInv, NoAliasWithoutKey
  <1>4. SubscriberAgrees'
    BY DEF ProvInv, SubscriberAgrees
  <1>5. CounterCovers'
    BY DEF ProvInv, CounterCovers, AccountsOf
  <1> QED BY <1>1, <1>2, <1>3, <1>4, <1>5 DEF ProvInv

(* What a request that commits leaves of the subscriber's copy. *)
LEMMA ReportKeeps ==
    ASSUME SubscriberAgrees, mirror = Stale \/ mirror \in SUBSET (Org \cup Domain),
           NEW x \in Org \cup Domain, NEW there \in BOOLEAN, Report(x, there),
           DOMAIN orgs' \cup DOMAIN domains'
               = IF there THEN DOMAIN orgs \cup DOMAIN domains \cup {x}
                 ELSE (DOMAIN orgs \cup DOMAIN domains) \ {x}
    PROVE  /\ SubscriberAgrees'
           /\ mirror' = Stale \/ mirror' \in SUBSET (Org \cup Domain)
           /\ answer' \in {"ok", "error"}
  <1>1. CASE mirror' = Stale
    BY <1>1 DEF SubscriberAgrees, Report
  <1>2. CASE mirror' # Stale
    <2>1. answer' = "ok" /\ Heard(x, there)
      BY <1>2 DEF Report
    <2>2. mirror # Stale
      BY <1>2, <2>1 DEF Heard
    <2>3. mirror' = IF there THEN mirror \cup {x} ELSE mirror \ {x}
      BY <2>1, <2>2 DEF Heard
    <2>4. mirror = DOMAIN orgs \cup DOMAIN domains
      BY <2>2 DEF SubscriberAgrees
    <2>5. CASE there
      BY <2>1, <2>2, <2>3, <2>4, <2>5 DEF SubscriberAgrees
    <2>6. CASE ~there
      BY <2>1, <2>2, <2>3, <2>4, <2>6 DEF SubscriberAgrees
    <2> QED BY <2>5, <2>6
  <1> QED BY <1>1, <1>2

-------------------------------------------------------------------------------
(* Organizations. *)

LEMMA CreateOrganizationKeeps ==
    ASSUME ProvInv, NEW o \in Org, NEW ext \in Ext \cup {None}, CreateOrganization(o, ext)
    PROVE  ProvInv'
  <1>1. CASE Refused
    BY <1>1, StaysKeeps DEF Refused
  <1>2. CASE /\ orgs' = Put(orgs, o, ext)
             /\ Report(o, TRUE)
             /\ UNCHANGED <<schema, domains, accounts, aliases, endpoints>>
    <2>1. orgs' \in Rows(Org, Ext \cup {None}) /\ DOMAIN orgs' = DOMAIN orgs \cup {o}
      <3> DEFINE Id == Ext \cup {None}
      <3>1. orgs \in Rows(Org, Id) /\ ext \in Id
        BY DEF ProvInv, ProvTypeOK
      <3> HIDE DEF Id
      <3>2. Put(orgs, o, ext) \in Rows(Org, Id)
        BY <3>1, PutRow
      <3>3. DOMAIN Put(orgs, o, ext) = DOMAIN orgs \cup {o}
        BY DEF Put
      <3> QED BY <1>2, <3>2, <3>3 DEF Id
    <2>2. /\ SubscriberAgrees'
          /\ mirror' = Stale \/ mirror' \in SUBSET (Org \cup Domain)
          /\ answer' \in {"ok", "error"}
      <3>1. DOMAIN orgs' \cup DOMAIN domains' = DOMAIN orgs \cup DOMAIN domains \cup {o}
        BY <1>2, <2>1
      <3> QED BY <1>2, <3>1, ReportKeeps DEF ProvInv, ProvTypeOK
    <2>3. ProvTypeOK'
      BY <1>2, <2>1, <2>2 DEF ProvInv, ProvTypeOK
    <2>4. RowsHaveParents'
      BY <1>2, <2>1 DEF ProvInv, RowsHaveParents
    <2>5. NoAliasWithoutKey' /\ CounterCovers'
      BY <1>2 DEF ProvInv, NoAliasWithoutKey, CounterCovers, AccountsOf
    <2> QED BY <2>2, <2>3, <2>4, <2>5 DEF ProvInv
  <1> QED BY <1>1, <1>2 DEF CreateOrganization

LEMMA UpdateOrganizationKeeps ==
    ASSUME ProvInv, NEW o \in Org, NEW ext \in Ext \cup {None}, UpdateOrganization(o, ext)
    PROVE  ProvInv'
  <1>1. CASE Refused
    BY <1>1, StaysKeeps DEF Refused
  <1>2. CASE /\ o \in DOMAIN orgs
             /\ orgs' = [orgs EXCEPT ![o] = ext]
             /\ answer' = "ok"
             /\ UNCHANGED <<schema, domains, accounts, aliases, endpoints, mirror>>
    <2>1. DOMAIN orgs \subseteq Org /\ orgs \in [DOMAIN orgs -> Ext \cup {None}]
      BY RowsAre DEF ProvInv, ProvTypeOK
    <2>2. DOMAIN orgs' = DOMAIN orgs /\ orgs' \in [DOMAIN orgs' -> Ext \cup {None}]
      BY <1>2, <2>1
    <2>3. orgs' \in Rows(Org, Ext \cup {None})
      BY <2>1, <2>2, RowsAre
    <2>4. ProvTypeOK'
      BY <1>2, <2>3 DEF ProvInv, ProvTypeOK
    <2>5. RowsHaveParents'
      BY <1>2, <2>2 DEF ProvInv, RowsHaveParents
    <2>6. SubscriberAgrees'
      BY <1>2, <2>2 DEF ProvInv, SubscriberAgrees
    <2>7. NoAliasWithoutKey' /\ CounterCovers'
      BY <1>2 DEF ProvInv, NoAliasWithoutKey, CounterCovers, AccountsOf
    <2> QED BY <2>4, <2>5, <2>6, <2>7 DEF ProvInv
  <1> QED BY <1>1, <1>2 DEF UpdateOrganization

(* No row names an organization that nothing owns and nothing refers to. *)
LEMMA DeleteOrganizationKeeps ==
    ASSUME ProvInv, NEW o \in Org, DeleteOrganization(o)
    PROVE  ProvInv'
  <1>1. CASE Refused \/ Failed
    BY <1>1, StaysKeeps DEF Refused, Failed
  <1>2. CASE /\ o \in DOMAIN orgs /\ ~OwnsSomething(o)
             /\ ~Referenced(o)
             /\ orgs' = Drop(orgs, o)
             /\ Report(o, FALSE)
             /\ UNCHANGED <<schema, domains, accounts, aliases, endpoints>>
    <2>1. orgs' \in Rows(Org, Ext \cup {None}) /\ DOMAIN orgs' = DOMAIN orgs \ {o}
      BY <1>2, DropRow DEF ProvInv, ProvTypeOK
    <2>2. o \notin DOMAIN domains
      <3>1. DOMAIN domains \subseteq Domain
        BY RowsAre DEF ProvInv, ProvTypeOK
      <3> QED BY <3>1, ProvisioningAssumption
    <2>3. /\ SubscriberAgrees'
          /\ mirror' = Stale \/ mirror' \in SUBSET (Org \cup Domain)
          /\ answer' \in {"ok", "error"}
      <3>1. DOMAIN orgs' \cup DOMAIN domains' = (DOMAIN orgs \cup DOMAIN domains) \ {o}
        BY <1>2, <2>1, <2>2
      <3> QED BY <1>2, <3>1, ReportKeeps DEF ProvInv, ProvTypeOK
    <2>4. ProvTypeOK'
      BY <1>2, <2>1, <2>3 DEF ProvInv, ProvTypeOK
    <2>5. \A x \in aliases : x.org # o
      <3>1. CASE schema = "integer"
        BY <1>2, <3>1 DEF Referenced
      <3>2. CASE schema = "ulid"
        BY <3>2 DEF ProvInv, NoAliasWithoutKey
      <3> QED BY <3>1, <3>2 DEF ProvInv, ProvTypeOK
    <2>6. /\ \A d \in DOMAIN domains : domains[d].org # o
          /\ \A a \in DOMAIN accounts : accounts[a].org # o
      BY <1>2 DEF OwnsSomething
    <2>7. RowsHaveParents'
      BY <1>2, <2>1, <2>5, <2>6 DEF ProvInv, RowsHaveParents
    <2>8. NoAliasWithoutKey' /\ CounterCovers'
      BY <1>2 DEF ProvInv, NoAliasWithoutKey, CounterCovers, AccountsOf
    <2> QED BY <2>3, <2>4, <2>7, <2>8 DEF ProvInv
  <1> QED BY <1>1, <1>2 DEF DeleteOrganization

-------------------------------------------------------------------------------
(* Domains. *)

LEMMA CreateDomainKeeps ==
    ASSUME ProvInv, NEW d \in Domain, NEW o \in Org, NEW ext \in Ext \cup {None},
           CreateDomain(d, o, ext)
    PROVE  ProvInv'
  <1>1. CASE Refused \/ Failed
    BY <1>1, StaysKeeps DEF Refused, Failed
  <1>2. CASE /\ o \in DOMAIN orgs /\ d \notin DOMAIN domains
             /\ schema = "ulid"
             /\ domains' = Put(domains, d, NewDomain(o, ext))
             /\ Report(d, TRUE)
             /\ UNCHANGED <<schema, orgs, accounts, aliases, endpoints>>
    <2>1. NewDomain(o, ext) \in DomainRow
      BY ProvisioningAssumption DEF NewDomain, DomainRow
    <2>2. /\ domains' \in Rows(Domain, DomainRow)
          /\ DOMAIN domains' = DOMAIN domains \cup {d}
          /\ domains'[d] = NewDomain(o, ext)
          /\ \A k \in DOMAIN domains \ {d} : domains'[k] = domains[k]
      <3>1. domains \in Rows(Domain, DomainRow)
        BY DEF ProvInv, ProvTypeOK
      <3>2. Put(domains, d, NewDomain(o, ext)) \in Rows(Domain, DomainRow)
        BY <2>1, <3>1, PutRow
      <3> QED BY <1>2, <3>2 DEF Put
    <2>3. /\ SubscriberAgrees'
          /\ mirror' = Stale \/ mirror' \in SUBSET (Org \cup Domain)
          /\ answer' \in {"ok", "error"}
      <3>1. DOMAIN orgs' \cup DOMAIN domains' = DOMAIN orgs \cup DOMAIN domains \cup {d}
        BY <1>2, <2>2
      <3> QED BY <1>2, <3>1, ReportKeeps DEF ProvInv, ProvTypeOK
    <2>4. ProvTypeOK'
      BY <1>2, <2>2, <2>3 DEF ProvInv, ProvTypeOK
    <2>5. RowsHaveParents'
      <3>1. domains'[d].org = o
        BY <2>2 DEF NewDomain
      <3>2. \A k \in DOMAIN domains' : domains'[k].org \in DOMAIN orgs'
        BY <1>2, <2>2, <3>1 DEF ProvInv, RowsHaveParents
      <3> QED BY <1>2, <2>2, <3>2 DEF ProvInv, RowsHaveParents
    <2>6. NoAliasWithoutKey'
      BY <1>2 DEF ProvInv, NoAliasWithoutKey
    <2>7. CounterCovers'
      <3>1. AccountsOf(d)' = {}
        BY <1>2 DEF AccountsOf, ProvInv, RowsHaveParents
      <3>2. Cardinality(AccountsOf(d)') <= domains'[d].total
        <4>1. domains'[d].total = 0
          BY <2>2 DEF NewDomain
        <4> QED BY <3>1, <4>1, FS_EmptySet
      <3>3. \A k \in DOMAIN domains : AccountsOf(k)' = AccountsOf(k)
        BY <1>2 DEF AccountsOf
      <3>4. ASSUME NEW k \in DOMAIN domains, k # d
            PROVE  Cardinality(AccountsOf(k)') <= domains'[k].total
        BY <1>2, <2>2, <3>3, <3>4 DEF ProvInv, CounterCovers
      <3> QED BY <2>2, <3>2, <3>4 DEF CounterCovers
    <2> QED BY <2>3, <2>4, <2>5, <2>6, <2>7 DEF ProvInv
  <1> QED BY <1>1, <1>2 DEF CreateDomain

LEMMA UpdateDomainKeeps ==
    ASSUME ProvInv, NEW d \in Domain, NEW given \in BOOLEAN, NEW ext \in Ext \cup {None},
           NEW active \in BOOLEAN, UpdateDomain(d, given, ext, active)
    PROVE  ProvInv'
  <1>1. CASE Refused
    BY <1>1, StaysKeeps DEF Refused
  <1> DEFINE row == [domains[d] EXCEPT !.ext = IF given THEN ext ELSE @, !.active = active]
  <1>2. CASE /\ d \in DOMAIN domains
             /\ domains' = Put(domains, d, row)
             /\ answer' = "ok"
             /\ UNCHANGED <<schema, orgs, accounts, aliases, endpoints, mirror>>
    <2>1. domains[d] \in DomainRow
      BY <1>2, RowOf DEF ProvInv, ProvTypeOK
    <2>2. row \in DomainRow /\ row.org = domains[d].org /\ row.total = domains[d].total
      BY <2>1 DEF DomainRow
    <2> HIDE DEF row
    <2>3. /\ domains' \in Rows(Domain, DomainRow)
          /\ DOMAIN domains' = DOMAIN domains
          /\ domains'[d] = row
          /\ \A k \in DOMAIN domains \ {d} : domains'[k] = domains[k]
      <3>1. domains \in Rows(Domain, DomainRow)
        BY DEF ProvInv, ProvTypeOK
      <3>2. Put(domains, d, row) \in Rows(Domain, DomainRow)
        BY <2>2, <3>1, PutRow
      <3> QED BY <1>2, <3>2 DEF Put
    <2>4. ProvTypeOK'
      BY <1>2, <2>3 DEF ProvInv, ProvTypeOK
    <2>5. \A k \in DOMAIN domains :
            domains'[k].org = domains[k].org /\ domains'[k].total = domains[k].total
      BY <2>2, <2>3
    <2>6. RowsHaveParents'
      BY <1>2, <2>3, <2>5 DEF ProvInv, RowsHaveParents
    <2>7. SubscriberAgrees' /\ NoAliasWithoutKey'
      BY <1>2, <2>3 DEF ProvInv, SubscriberAgrees, NoAliasWithoutKey
    <2>8. CounterCovers'
      BY <1>2, <2>3, <2>5 DEF ProvInv, CounterCovers, AccountsOf
    <2> QED BY <2>4, <2>6, <2>7, <2>8 DEF ProvInv
  <1> QED BY <1>1, <1>2 DEF UpdateDomain

(* A domain goes without accounts and takes its aliases along. *)
LEMMA DeleteDomainKeeps ==
    ASSUME ProvInv, NEW d \in Domain, DeleteDomainById(d)
    PROVE  ProvInv'
  <1>1. CASE Refused \/ Failed
    BY <1>1, StaysKeeps DEF Refused, Failed
  <1>2. CASE /\ d \in DOMAIN domains /\ AccountsOf(d) = {}
             /\ domains' = Drop(domains, d)
             /\ aliases' = aliases \ AliasesOf(d)
             /\ Report(d, FALSE)
             /\ UNCHANGED <<schema, orgs, accounts, endpoints>>
    <2>1. /\ domains' \in Rows(Domain, DomainRow)
          /\ DOMAIN domains' = DOMAIN domains \ {d}
          /\ \A k \in DOMAIN domains \ {d} : domains'[k] = domains[k]
      <3>1. domains \in Rows(Domain, DomainRow)
        BY DEF ProvInv, ProvTypeOK
      <3>2. Drop(domains, d) \in Rows(Domain, DomainRow)
        BY <3>1, DropRow
      <3> QED BY <1>2, <3>2 DEF Drop, Restrict
    <2>2. d \notin DOMAIN orgs
      <3>1. DOMAIN orgs \subseteq Org
        BY RowsAre DEF ProvInv, ProvTypeOK
      <3> QED BY <3>1, ProvisioningAssumption
    <2>3. /\ SubscriberAgrees'
          /\ mirror' = Stale \/ mirror' \in SUBSET (Org \cup Domain)
          /\ answer' \in {"ok", "error"}
      <3>1. DOMAIN orgs' \cup DOMAIN domains' = (DOMAIN orgs \cup DOMAIN domains) \ {d}
        BY <1>2, <2>1, <2>2
      <3> QED BY <1>2, <3>1, ReportKeeps DEF ProvInv, ProvTypeOK
    <2>4. ProvTypeOK'
      BY <1>2, <2>1, <2>3 DEF ProvInv, ProvTypeOK
    <2>5. RowsHaveParents'
      <3>1. \A k \in DOMAIN domains' : domains'[k].org \in DOMAIN orgs'
        BY <1>2, <2>1 DEF ProvInv, RowsHaveParents
      <3>2. \A a \in DOMAIN accounts' :
              AccountDomain[a] \in DOMAIN domains' /\ accounts'[a].org \in DOMAIN orgs'
        BY <1>2, <2>1 DEF ProvInv, RowsHaveParents, AccountsOf
      <3>3. \A x \in aliases' :
              SourceDomain[x.source] \in DOMAIN domains' /\ x.org \in DOMAIN orgs'
        BY <1>2, <2>1 DEF ProvInv, RowsHaveParents, AliasesOf
      <3> QED BY <3>1, <3>2, <3>3 DEF RowsHaveParents
    <2>6. NoAliasWithoutKey'
      BY <1>2 DEF ProvInv, NoAliasWithoutKey
    <2>7. CounterCovers'
      BY <1>2, <2>1 DEF ProvInv, CounterCovers, AccountsOf
    <2> QED BY <2>3, <2>4, <2>5, <2>6, <2>7 DEF ProvInv
  <1> QED BY <1>1, <1>2 DEF DeleteDomainById

-------------------------------------------------------------------------------
(* Email accounts. *)

LEMMA AccountsFinite ==
    ASSUME ProvInv, NEW d
    PROVE  IsFiniteSet(AccountsOf(d)) /\ Cardinality(AccountsOf(d)) \in Nat
  <1>1. DOMAIN accounts \subseteq Account
    BY RowsAre DEF ProvInv, ProvTypeOK
  <1>2. AccountsOf(d) \subseteq Account
    BY <1>1 DEF AccountsOf
  <1> QED BY <1>2, ProvisioningAssumption, FS_Subset, FS_CardinalityType

(* A new row of accounts: all but the counter. *)
LEMMA AccountAdded ==
    ASSUME ProvInv, NEW a \in Account, NEW o \in DOMAIN orgs,
           AccountDomain[a] \in DOMAIN domains,
           accounts' = Put(accounts, a, [org |-> o, vacation |-> FALSE])
    PROVE  /\ accounts' \in Rows(Account, AccountRow)
           /\ DOMAIN accounts' = DOMAIN accounts \cup {a}
           /\ \A x \in DOMAIN accounts' :
                AccountDomain[x] \in DOMAIN domains /\ accounts'[x].org \in DOMAIN orgs
  <1> DEFINE row == [org |-> o, vacation |-> FALSE]
  <1>1. o \in Org
    BY RowsAre DEF ProvInv, ProvTypeOK
  <1>2. row \in AccountRow /\ row.org = o
    BY <1>1 DEF AccountRow
  <1>3. accounts \in Rows(Account, AccountRow) /\ accounts' = Put(accounts, a, row)
    BY DEF ProvInv, ProvTypeOK
  <1> HIDE DEF row
  <1>4. /\ accounts' \in Rows(Account, AccountRow)
        /\ DOMAIN accounts' = DOMAIN accounts \cup {a}
        /\ accounts'[a] = row
        /\ \A k \in DOMAIN accounts \ {a} : accounts'[k] = accounts[k]
    <2>1. Put(accounts, a, row) \in Rows(Account, AccountRow)
      BY <1>2, <1>3, PutRow
    <2> QED BY <1>3, <2>1 DEF Put
  <1> QED BY <1>2, <1>4 DEF ProvInv, RowsHaveParents

LEMMA CreateEmailAccountKeeps ==
    ASSUME ProvInv, NEW a \in Account, NEW full \in BOOLEAN, NEW status \in {"unset", "active"},
           CreateEmailAccount(a, full, status)
    PROVE  ProvInv'
  <1>1. CASE Failed
    BY <1>1, StaysKeeps DEF Refused, Failed
  <1> DEFINE d == AccountDomain[a]
             row == [domains[d] EXCEPT !.total = @ + 1]
  <1>2. CASE /\ NewAccount(a, full, status)
             /\ domains[d].total < MaxTotal
             /\ accounts' = Put(accounts, a, [org |-> domains[d].org, vacation |-> FALSE])
             /\ domains' = Put(domains, d, row)
             /\ answer' = "error"
             /\ UNCHANGED <<schema, orgs, aliases, endpoints, mirror>>
    <2>1. /\ d \in DOMAIN domains /\ d \in Domain
          /\ a \notin DOMAIN accounts
      BY <1>2, ProvisioningAssumption DEF NewAccount
    <2> HIDE DEF d
    <2>2. PICK o \in Org, x \in Ext \cup {None}, act \in BOOLEAN, n \in 0 .. MaxTotal :
              domains[d] = [org |-> o, ext |-> x, active |-> act, total |-> n]
      <3>1. domains[d] \in DomainRow
        BY <2>1, RowOf DEF ProvInv, ProvTypeOK
      <3> QED BY <3>1 DEF DomainRow
    <2>3. row = [org |-> o, ext |-> x, active |-> act, total |-> n + 1]
      BY <2>2
    <2>4. n < MaxTotal /\ n + 1 \in 0 .. MaxTotal
      BY <1>2, <2>2, ProvisioningAssumption
    <2>5. row \in DomainRow
      BY <2>3, <2>4 DEF DomainRow
    <2> HIDE DEF row
    <2>6. /\ domains' \in Rows(Domain, DomainRow)
          /\ DOMAIN domains' = DOMAIN domains
          /\ domains'[d] = row
          /\ \A k \in DOMAIN domains \ {d} : domains'[k] = domains[k]
      <3>1. domains \in Rows(Domain, DomainRow)
        BY DEF ProvInv, ProvTypeOK
      <3>2. Put(domains, d, row) \in Rows(Domain, DomainRow)
        BY <2>1, <2>5, <3>1, PutRow
      <3> QED BY <1>2, <2>1, <3>2 DEF Put
    <2>7. domains[d].org \in DOMAIN orgs
      BY <2>1 DEF ProvInv, RowsHaveParents
    <2>8. /\ accounts' \in Rows(Account, AccountRow)
          /\ DOMAIN accounts' = DOMAIN accounts \cup {a}
          /\ \A y \in DOMAIN accounts' :
               AccountDomain[y] \in DOMAIN domains /\ accounts'[y].org \in DOMAIN orgs
      <3>1. AccountDomain[a] \in DOMAIN domains
        BY <2>1 DEF d
      <3> QED BY <1>2, <2>7, <3>1, AccountAdded
    <2>9. ProvTypeOK'
      BY <1>2, <2>6, <2>8 DEF ProvInv, ProvTypeOK
    <2>10. RowsHaveParents'
      <3>1. \A k \in DOMAIN domains' : domains'[k].org \in DOMAIN orgs'
        BY <1>2, <2>2, <2>3, <2>6, <2>7 DEF ProvInv, RowsHaveParents
      <3> QED BY <1>2, <2>6, <2>8, <3>1 DEF ProvInv, RowsHaveParents
    <2>11. SubscriberAgrees' /\ NoAliasWithoutKey'
      BY <1>2, <2>6 DEF ProvInv, SubscriberAgrees, NoAliasWithoutKey
    <2>12. CounterCovers'
      <3>1. schema = "ulid"
        BY <1>2 DEF NewAccount
      <3>2. AccountsOf(d)' = AccountsOf(d) \cup {a}
        BY <2>8 DEF AccountsOf, d
      <3>3. Cardinality(AccountsOf(d)') <= domains'[d].total
        <4>1. a \notin AccountsOf(d)
          BY <2>1 DEF AccountsOf
        <4>2. Cardinality(AccountsOf(d) \cup {a}) = Cardinality(AccountsOf(d)) + 1
          BY <4>1, AccountsFinite, FS_AddElement
        <4>3. Cardinality(AccountsOf(d)) <= n
          BY <2>1, <2>2, <3>1 DEF ProvInv, CounterCovers
        <4>4. domains'[d].total = n + 1
          BY <2>3, <2>6
        <4> QED BY <3>2, <4>2, <4>3, <4>4, AccountsFinite
      <3>4. ASSUME NEW k \in DOMAIN domains, k # d
            PROVE  Cardinality(AccountsOf(k)') <= domains'[k].total
        <4>1. AccountsOf(k)' = AccountsOf(k)
          BY <2>8, <3>4 DEF AccountsOf, d
        <4> QED BY <2>6, <3>1, <3>4, <4>1 DEF ProvInv, CounterCovers
      <3> QED BY <2>6, <3>3, <3>4 DEF CounterCovers
    <2> QED BY <2>9, <2>10, <2>11, <2>12 DEF ProvInv
  <1> QED BY <1>1, <1>2 DEF CreateEmailAccount

LEMMA AddMailboxKeeps ==
    ASSUME ProvInv, NEW a \in Account, NEW k \in Org, AddMailbox(a, k)
    PROVE  ProvInv'
  <1>1. CASE Refused \/ Failed
    BY <1>1, StaysKeeps DEF Refused, Failed
  <1>2. CASE /\ Live(AccountDomain[a]) /\ a \notin DOMAIN accounts
             /\ schema = "integer" /\ k \in DOMAIN orgs
             /\ accounts' = Put(accounts, a, [org |-> k, vacation |-> FALSE])
             /\ answer' = "ok"
             /\ UNCHANGED <<schema, orgs, domains, aliases, endpoints, mirror>>
    <2>1. /\ accounts' \in Rows(Account, AccountRow)
          /\ \A y \in DOMAIN accounts' :
               AccountDomain[y] \in DOMAIN domains /\ accounts'[y].org \in DOMAIN orgs
      BY <1>2, AccountAdded DEF Live
    <2>2. ProvTypeOK'
      BY <1>2, <2>1 DEF ProvInv, ProvTypeOK
    <2>3. RowsHaveParents'
      BY <1>2, <2>1 DEF ProvInv, RowsHaveParents
    <2>4. SubscriberAgrees' /\ NoAliasWithoutKey' /\ CounterCovers'
      BY <1>2 DEF ProvInv, SubscriberAgrees, NoAliasWithoutKey, CounterCovers
    <2> QED BY <2>2, <2>3, <2>4 DEF ProvInv
  <1> QED BY <1>1, <1>2 DEF AddMailbox

LEMMA DeleteMailboxKeeps ==
    ASSUME ProvInv, NEW a \in Account, DeleteMailbox(a)
    PROVE  ProvInv'
  <1>1. CASE a \notin DOMAIN accounts
    BY <1>1, StaysKeeps DEF DeleteMailbox, Stays, tables
  <1>2. CASE a \in DOMAIN accounts
    <2>1. /\ accounts' = Drop(accounts, a)
          /\ aliases' = {x \in aliases : {<<x.target, a>>, <<x.source, a>>} \cap Contains = {}}
          /\ answer' = "error"
          /\ UNCHANGED <<schema, orgs, domains, endpoints, mirror>>
      BY <1>2 DEF DeleteMailbox
    <2>2. /\ accounts' \in Rows(Account, AccountRow)
          /\ DOMAIN accounts' = DOMAIN accounts \ {a}
          /\ \A y \in DOMAIN accounts \ {a} : accounts'[y] = accounts[y]
      <3>1. accounts \in Rows(Account, AccountRow)
        BY DEF ProvInv, ProvTypeOK
      <3>2. Drop(accounts, a) \in Rows(Account, AccountRow)
        BY <3>1, DropRow
      <3> QED BY <2>1, <3>2 DEF Drop, Restrict
    <2>3. ProvTypeOK'
      BY <2>1, <2>2 DEF ProvInv, ProvTypeOK
    <2>4. RowsHaveParents'
      BY <2>1, <2>2 DEF ProvInv, RowsHaveParents
    <2>5. SubscriberAgrees' /\ NoAliasWithoutKey'
      BY <2>1 DEF ProvInv, SubscriberAgrees, NoAliasWithoutKey
    <2>6. CounterCovers'
      <3>1. ASSUME NEW d \in DOMAIN domains, schema = "ulid"
            PROVE  Cardinality(AccountsOf(d)') <= domains[d].total
        <4>1. AccountsOf(d)' \subseteq AccountsOf(d)
          BY <2>2 DEF AccountsOf
        <4>2. Cardinality(AccountsOf(d)') <= Cardinality(AccountsOf(d))
          BY <4>1, AccountsFinite, FS_Subset
        <4>3. IsFiniteSet(AccountsOf(d)') /\ Cardinality(AccountsOf(d)') \in Nat
          BY <4>1, AccountsFinite, FS_Subset, FS_CardinalityType
        <4>4. Cardinality(AccountsOf(d)) <= domains[d].total
          BY <3>1 DEF ProvInv, CounterCovers
        <4>5. domains[d].total \in Nat
          <5>1. domains[d] \in DomainRow
            BY RowOf DEF ProvInv, ProvTypeOK
          <5> QED BY <5>1, ProvisioningAssumption DEF DomainRow
        <4> QED BY <4>2, <4>3, <4>4, <4>5, AccountsFinite
      <3> QED BY <2>1, <3>1 DEF CounterCovers
    <2> QED BY <2>3, <2>4, <2>5, <2>6 DEF ProvInv
  <1> QED BY <1>1, <1>2

-------------------------------------------------------------------------------
(* Aliases and endpoints: the other tables stay. *)

LEMMA AliasesChange ==
    ASSUME ProvInv, schema = "integer" \/ aliases' = {},
           aliases' \in SUBSET Alias,
           \A x \in aliases' : SourceDomain[x.source] \in DOMAIN domains /\ x.org \in DOMAIN orgs,
           answer' \in {"ok", "error"},
           UNCHANGED <<schema, orgs, domains, accounts, endpoints, mirror>>
    PROVE  ProvInv'
  <1>1. ProvTypeOK'
    BY DEF ProvInv, ProvTypeOK
  <1>2. RowsHaveParents'
    BY DEF ProvInv, RowsHaveParents
  <1>3. SubscriberAgrees' /\ CounterCovers'
    BY DEF ProvInv, SubscriberAgrees, CounterCovers, AccountsOf
  <1>4. NoAliasWithoutKey'
    BY DEF ProvInv, NoAliasWithoutKey
  <1> QED BY <1>1, <1>2, <1>3, <1>4 DEF ProvInv

LEMMA InsertAliasKeeps ==
    ASSUME ProvInv, NEW s \in Source, NEW t \in Target, NEW k \in Org,
           NewAlias(s, t, k), InsertAlias(s, t, k)
    PROVE  ProvInv'
  <1> DEFINE row == [source |-> s, target |-> t, org |-> k]
  <1>1. aliases' = aliases \cup {row}
    BY DEF InsertAlias
  <1>2. row \in Alias /\ row.source = s /\ row.org = k
    BY DEF Alias
  <1> HIDE DEF row
  <1>3. aliases' \in SUBSET Alias
    BY <1>1, <1>2 DEF ProvInv, ProvTypeOK
  <1>4. SourceDomain[s] \in DOMAIN domains /\ k \in DOMAIN orgs /\ schema = "integer"
    BY DEF NewAlias, Live
  <1>5. \A x \in aliases' : SourceDomain[x.source] \in DOMAIN domains /\ x.org \in DOMAIN orgs
    BY <1>1, <1>2, <1>4 DEF ProvInv, RowsHaveParents
  <1> QED BY <1>3, <1>4, <1>5, AliasesChange DEF InsertAlias

LEMMA EditAliasKeeps ==
    ASSUME ProvInv, NEW s \in Source, NEW t \in Target, EditAlias(s, t)
    PROVE  ProvInv'
  <1>1. CASE Failed
    BY <1>1, StaysKeeps DEF Refused, Failed
  <1>2. CASE /\ aliases' = {IF x.source = s THEN [x EXCEPT !.target = t] ELSE x : x \in aliases}
             /\ answer' = "ok"
             /\ UNCHANGED <<schema, orgs, domains, accounts, endpoints, mirror>>
    <2>1. ASSUME NEW y \in aliases'
          PROVE  /\ y \in Alias
                 /\ SourceDomain[y.source] \in DOMAIN domains /\ y.org \in DOMAIN orgs
      <3>1. PICK x \in aliases : y = IF x.source = s THEN [x EXCEPT !.target = t] ELSE x
        BY <1>2, <2>1
      <3>2. /\ x \in Alias
            /\ SourceDomain[x.source] \in DOMAIN domains /\ x.org \in DOMAIN orgs
        BY DEF ProvInv, ProvTypeOK, RowsHaveParents
      <3>3. y \in Alias /\ y.source = x.source /\ y.org = x.org
        BY <3>1, <3>2 DEF Alias
      <3> QED BY <3>2, <3>3
    <2>2. schema = "integer" \/ aliases' = {}
      BY <1>2 DEF ProvInv, ProvTypeOK, NoAliasWithoutKey
    <2> QED BY <1>2, <2>1, <2>2, AliasesChange
  <1> QED BY <1>1, <1>2 DEF EditAlias

LEMMA DeleteAliasKeeps ==
    ASSUME ProvInv, NEW s \in Source, DeleteAlias(s)
    PROVE  ProvInv'
  <1>1. CASE Failed
    BY <1>1, StaysKeeps DEF Refused, Failed
  <1>2. CASE /\ aliases' = {x \in aliases : x.source # s}
             /\ answer' = "ok"
             /\ UNCHANGED <<schema, orgs, domains, accounts, endpoints, mirror>>
    <2>1. aliases' \subseteq aliases
      BY <1>2
    <2>2. /\ aliases' \in SUBSET Alias
          /\ \A x \in aliases' : SourceDomain[x.source] \in DOMAIN domains /\ x.org \in DOMAIN orgs
          /\ schema = "integer" \/ aliases' = {}
      BY <2>1 DEF ProvInv, ProvTypeOK, RowsHaveParents, NoAliasWithoutKey
    <2> QED BY <1>2, <2>2, AliasesChange
  <1> QED BY <1>1, <1>2 DEF DeleteAlias

LEMMA DeleteEndpointKeeps ==
    ASSUME ProvInv, NEW e \in Endpoint, NEW org \in Org \cup {None}, DeleteEndpoint(e, org)
    PROVE  ProvInv'
  <1>1. CASE Refused
    BY <1>1, StaysKeeps DEF Refused
  <1>2. CASE /\ endpoints' = endpoints \ {e}
             /\ answer' = "ok"
             /\ UNCHANGED <<schema, orgs, domains, accounts, aliases, mirror>>
    <2>1. ProvTypeOK'
      BY <1>2 DEF ProvInv, ProvTypeOK
    <2>2. RowsHaveParents' /\ NoAliasWithoutKey'
      BY <1>2 DEF ProvInv, RowsHaveParents, NoAliasWithoutKey
    <2>3. SubscriberAgrees' /\ CounterCovers'
      BY <1>2 DEF ProvInv, SubscriberAgrees, CounterCovers, AccountsOf
    <2> QED BY <2>1, <2>2, <2>3 DEF ProvInv
  <1> QED BY <1>1, <1>2 DEF DeleteEndpoint

-------------------------------------------------------------------------------
(* All requests. *)

Idle == answer' \in {"ok", "error"} /\ Stays

LEMMA OrganizationKeeps ==
    ASSUME ProvInv, OrganizationRequest
    PROVE  ProvInv'
  <1>1. CASE \E o \in Org, ext \in Ext \cup {None} :
                CreateOrganization(o, ext) \/ UpdateOrganization(o, ext)
    BY <1>1, CreateOrganizationKeeps, UpdateOrganizationKeeps
  <1>2. CASE \E o \in Org : DeleteOrganization(o)
    BY <1>2, DeleteOrganizationKeeps
  <1>3. ASSUME NEW o \in DOMAIN orgs \cup Org, ReadOrganization(o)
        PROVE  Idle
    BY <1>3 DEF ReadOrganization, Refused, Failed, Served, Idle
  <1>4. CASE \E ext \in Ext : OrganizationByExternalId(ext)
    <2>1. PICK ext \in Ext : OrganizationByExternalId(ext)
      BY <1>4
    <2>2. Idle
      BY <1>3, <2>1 DEF OrganizationByExternalId, Refused, Idle
    <2> QED BY <2>2, StaysKeeps DEF Idle
  <1>5. CASE \/ ReadOrganizations
             \/ \E o \in Org : \/ ReadOrganization(o)
                               \/ OrganizationQuotas(o)
                               \/ UpdateOrganizationQuotas(o)
    <2>1. Idle
      BY <1>3, <1>5 DEF ReadOrganizations, OrganizationQuotas, UpdateOrganizationQuotas,
                        Refused, Served, Idle
    <2> QED BY <2>1, StaysKeeps DEF Idle
  <1> QED BY <1>1, <1>2, <1>4, <1>5 DEF OrganizationRequest

LEMMA DomainKeeps ==
    ASSUME ProvInv, DomainRequest
    PROVE  ProvInv'
  <1>1. CASE \E d \in Domain : \/ DeleteDomainById(d)
                               \/ \E ext \in Ext \cup {None} :
                                    \/ \E o \in Org : CreateDomain(d, o, ext)
                                    \/ \E given, active \in BOOLEAN : UpdateDomain(d, given, ext, active)
    BY <1>1, DeleteDomainKeeps, CreateDomainKeeps, UpdateDomainKeeps
  <1>2. CASE \/ ReadDomains \/ EditDomain \/ DeleteDomain \/ EditDomainPolicy \/ DomainPolicy
             \/ \E d \in Domain : \/ ReadDomain(d) \/ DomainQuotas(d)
                                  \/ VerifyDomainDns(d) \/ DomainStats(d) \/ AliasStats(d)
                                  \/ UpdateDomainQuotas(d)
    <2>1. Idle
      BY <1>2 DEF ReadDomains, EditDomain, DeleteDomain, EditDomainPolicy, DomainPolicy,
                  ReadDomain, DomainQuotas, VerifyDomainDns, DomainStats, AliasStats,
                  UpdateDomainQuotas, Refused, Failed, Served, Idle
    <2> QED BY <2>1, StaysKeeps DEF Idle
  <1> QED BY <1>1, <1>2 DEF DomainRequest

LEMMA MailboxKeeps ==
    ASSUME ProvInv, MailboxRequest
    PROVE  ProvInv'
  <1>1. CASE \E a \in Account :
               \/ \E full \in BOOLEAN, status \in {"unset", "active"} :
                    CreateEmailAccount(a, full, status)
               \/ \E k \in Org : AddMailbox(a, k)
               \/ DeleteMailbox(a)
    BY <1>1, CreateEmailAccountKeeps, AddMailboxKeeps, DeleteMailboxKeeps
  <1>2. CASE \/ ListEmailAccounts \/ GetMailboxes \/ EditMailbox \/ EditMailboxQuota
             \/ MailboxQuota \/ MailboxStats
             \/ \E a \in Account :
                  \/ GetEmailAccount(a) \/ UpdateEmailAccount(a) \/ DeleteEmailAccount(a)
                  \/ AccountQuotas(a) \/ UpdateAccountQuotas(a)
    <2>1. Idle
      BY <1>2 DEF ListEmailAccounts, GetMailboxes, EditMailbox, EditMailboxQuota,
                  MailboxQuota, MailboxStats, GetEmailAccount, UpdateEmailAccount,
                  DeleteEmailAccount, AccountQuotas, UpdateAccountQuotas, Entity,
                  Refused, Failed, Served, Idle
    <2> QED BY <2>1, StaysKeeps DEF Idle
  <1> QED BY <1>1, <1>2 DEF MailboxRequest

LEMMA AliasKeeps ==
    ASSUME ProvInv, AliasRequest
    PROVE  ProvInv'
  <1>1. CASE \E s \in Source, t \in Target : EditAlias(s, t)
    BY <1>1, EditAliasKeeps
  <1>2. CASE \E s \in Source : DeleteAlias(s)
    BY <1>2, DeleteAliasKeeps
  <1>3. CASE \E s \in Source, t \in Target, k \in Org :
               AddAlias(s, t, k) \/ AddBulkAliases(s, t, k)
    <2>1. PICK s \in Source, t \in Target, k \in Org :
              AddAlias(s, t, k) \/ AddBulkAliases(s, t, k)
      BY <1>3
    <2>2. Idle \/ (NewAlias(s, t, k) /\ InsertAlias(s, t, k))
      BY <2>1 DEF AddAlias, AddBulkAliases, Refused, Failed, Idle
    <2> QED BY <2>2, StaysKeeps, InsertAliasKeeps DEF Idle
  <1>4. CASE GetAliases
    <2>1. Idle
      BY <1>4 DEF GetAliases, Refused, Failed, Served, Idle
    <2> QED BY <2>1, StaysKeeps DEF Idle
  <1> QED BY <1>1, <1>2, <1>3, <1>4 DEF AliasRequest

LEMMA EndpointKeeps ==
    ASSUME ProvInv, EndpointRequest
    PROVE  ProvInv'
  <1>1. CASE \E e \in Endpoint, org \in Org \cup {None} : DeleteEndpoint(e, org)
    BY <1>1, DeleteEndpointKeeps
  <1>2. CASE \/ CreateEndpoint \/ ListEndpoints \/ ListDeliveries \/ ListDeadLetters
             \/ \E e \in Endpoint, org \in Org \cup {None} :
                  \/ UpdateEndpoint(e, org) \/ ReadEndpoint(e, org) \/ TestEndpoint(e, org)
    <2>1. Idle
      BY <1>2 DEF CreateEndpoint, ListEndpoints, ListDeliveries, ListDeadLetters,
                  UpdateEndpoint, ReadEndpoint, TestEndpoint, Refused, Failed, Served, Idle
    <2> QED BY <2>1, StaysKeeps DEF Idle
  <1> QED BY <1>1, <1>2 DEF EndpointRequest

LEMMA ProvStepKeeps ==
    ASSUME ProvInv, ProvNext
    PROVE  ProvInv'
  <1>1. CASE \/ Unauthorized \/ InvalidOrganization \/ InvalidDomain
               \/ InvalidAccount \/ InvalidAlias
    BY <1>1, StaysKeeps DEF Unauthorized, BadKey, InvalidOrganization, InvalidDomain,
       InvalidAccount, InvalidPassword, InvalidAlias, Refused
  <1> QED BY <1>1, OrganizationKeeps, DomainKeeps, MailboxKeeps, AliasKeeps, EndpointKeeps
          DEF ProvNext

-------------------------------------------------------------------------------
(* Scripts. *)

SieveInv ==
    /\ scripts \in [User -> SUBSET Script]
    /\ link \in [User -> Script \cup {"none"}]
    /\ ActiveScriptStored

(* A link set to a script that is there, or taken away, is all that Relink does. *)
LEMMA RelinkKeeps ==
    ASSUME SieveInv, NEW u \in User, NEW n \in Script,
           scripts' \in [User -> SUBSET Script],
           \A v \in User : scripts[v] \subseteq scripts'[v],
           n \in scripts'[u],
           link' = link \/ PointTo(u, "none") \/ PointTo(u, n)
    PROVE  SieveInv'
  <1>1. link' \in [User -> Script \cup {"none"}]
    BY DEF SieveInv, PointTo
  <1>2. ASSUME NEW v \in User, link'[v] # "none"
        PROVE  link'[v] \in scripts'[v]
    <2>1. CASE link'[v] = link[v]
      BY <1>2, <2>1 DEF SieveInv, ActiveScriptStored
    <2>2. CASE link'[v] # link[v]
      <3>1. v = u /\ link'[v] = n
        BY <1>2, <2>2 DEF SieveInv, PointTo
      <3> QED BY <3>1
    <2> QED BY <2>1, <2>2
  <1> QED BY <1>1, <1>2 DEF SieveInv, ActiveScriptStored

LEMMA WriteAdds ==
    ASSUME SieveInv, NEW u \in User, NEW n \in Script, Write(u, n)
    PROVE  /\ scripts' \in [User -> SUBSET Script]
           /\ \A v \in User : scripts[v] \subseteq scripts'[v]
           /\ n \in scripts'[u]
  BY DEF SieveInv, Write

LEMMA DeleteFilterKeeps ==
    ASSUME SieveInv, NEW u \in User, NEW n \in Script, DeleteFilter(u, n)
    PROVE  SieveInv'
  <1>1. CASE UNCHANGED sieveVars
    BY <1>1 DEF SieveInv, ActiveScriptStored, sieveVars
  <1>2. CASE /\ link' = [link EXCEPT ![u] = IF @ = n THEN "none" ELSE @]
             /\ scripts' = scripts \/ scripts' = [scripts EXCEPT ![u] = @ \ {n}]
    <2>1. /\ scripts' \in [User -> SUBSET Script]
          /\ link' \in [User -> Script \cup {"none"}]
      BY <1>2 DEF SieveInv
    <2>2. ASSUME NEW v \in User, link'[v] # "none"
          PROVE  link'[v] \in scripts'[v]
      <3>1. link'[v] = link[v] /\ (v = u => link[v] # n)
        BY <1>2, <2>2 DEF SieveInv
      <3>2. link[v] \in scripts[v]
        BY <2>2, <3>1 DEF SieveInv, ActiveScriptStored
      <3> QED BY <1>2, <3>1, <3>2 DEF SieveInv
    <2> QED BY <2>1, <2>2 DEF SieveInv, ActiveScriptStored
  <1> QED BY <1>1, <1>2 DEF DeleteFilter, NotFound

(* The flag is in no property but the types. *)
LEMMA FlagKeeps ==
    ASSUME ProvInv, NEW u \in DOMAIN accounts, NEW on \in BOOLEAN, Flag(u, on),
           answer' \in {"ok", "error"},
           UNCHANGED <<schema, orgs, domains, aliases, endpoints, mirror>>
    PROVE  ProvInv'
  <1>1. DOMAIN accounts \subseteq Account /\ accounts \in [DOMAIN accounts -> AccountRow]
    BY RowsAre DEF ProvInv, ProvTypeOK
  <1>2. accounts' = [accounts EXCEPT ![u].vacation = on]
    BY DEF Flag
  <1>3. /\ DOMAIN accounts' = DOMAIN accounts
        /\ accounts' \in [DOMAIN accounts' -> AccountRow]
        /\ \A a \in DOMAIN accounts : accounts'[a].org = accounts[a].org
    BY <1>1, <1>2 DEF AccountRow
  <1>4. accounts' \in Rows(Account, AccountRow)
    BY <1>1, <1>3, RowsAre
  <1>5. ProvTypeOK'
    BY <1>4 DEF ProvInv, ProvTypeOK
  <1>6. RowsHaveParents'
    BY <1>3 DEF ProvInv, RowsHaveParents
  <1>7. SubscriberAgrees' /\ NoAliasWithoutKey'
    BY DEF ProvInv, SubscriberAgrees, NoAliasWithoutKey
  <1>8. CounterCovers'
    BY <1>3 DEF ProvInv, CounterCovers, AccountsOf
  <1> QED BY <1>5, <1>6, <1>7, <1>8 DEF ProvInv

LEMMA VacationKeeps ==
    ASSUME ProvInv, SieveInv, NEW u \in User, NEW on \in BOOLEAN, ManageVacation(u, on)
    PROVE  ProvInv' /\ SieveInv'
  <1>1. CASE NotFound
    BY <1>1, StaysKeeps DEF NotFound, Refused, SieveInv, ActiveScriptStored, sieveVars
  <1>2. CASE /\ u \in DOMAIN accounts /\ on
             /\ Write(u, "vacation")
             /\ UNCHANGED <<schema, orgs, domains, aliases, endpoints, mirror>>
             /\ \/ Relink(u, "vacation") /\ answer' = "error" /\ UNCHANGED accounts
                \/ PointTo(u, "vacation") /\ Flag(u, on) /\ answer' \in {"ok", "error"}
    <2>1. SieveInv'
      <3>1. link' = link \/ PointTo(u, "none") \/ PointTo(u, "vacation")
        BY <1>2 DEF Relink
      <3> QED BY <1>2, <3>1, SieveAssumption, WriteAdds, RelinkKeeps
    <2>2. ProvInv'
      BY <1>2, FlagKeeps, StaysKeeps DEF Stays, tables
    <2> QED BY <2>1, <2>2
  <1>3. CASE /\ u \in DOMAIN accounts
             /\ Flag(u, on) /\ answer' = "ok"
             /\ UNCHANGED <<sieveVars, schema, orgs, domains, aliases, endpoints, mirror>>
    BY <1>3, FlagKeeps DEF SieveInv, ActiveScriptStored, sieveVars
  <1> QED BY <1>1, <1>2, <1>3 DEF ManageVacation

LEMMA SieveStepKeeps ==
    ASSUME ProvInv, SieveInv, SieveRequest
    PROVE  ProvInv' /\ SieveInv'
  <1>1. CASE \E u \in User, on \in BOOLEAN : ManageVacation(u, on)
    BY <1>1, VacationKeeps
  <1>2. ASSUME Idle, UNCHANGED sieveVars
        PROVE  ProvInv' /\ SieveInv'
    BY <1>2, StaysKeeps DEF Idle, SieveInv, ActiveScriptStored, sieveVars
  <1>3. CASE \E u \in User : \/ ListFilters(u)
                             \/ \E n \in Script : GetFilter(u, n)
    <2>1. Idle /\ UNCHANGED sieveVars
      BY <1>3 DEF ListFilters, GetFilter, NotFound, Refused, Served, Idle
    <2> QED BY <1>2, <2>1
  <1>4. ASSUME NEW u \in User, NEW n \in Script, DeleteFilter(u, n)
        PROVE  ProvInv' /\ SieveInv'
    <2>1. Idle
      BY <1>4 DEF DeleteFilter, FilesOnly, NotFound, Refused, Stays, Idle
    <2> QED BY <1>4, <2>1, StaysKeeps, DeleteFilterKeeps DEF Idle
  <1>5. ASSUME NEW u \in User, NEW n \in Script, ActivateFilter(u, n)
        PROVE  ProvInv' /\ SieveInv'
    <2>1. CASE NotFound
      BY <1>2, <2>1 DEF NotFound, Refused, Idle
    <2>2. CASE n \in scripts[u] /\ FilesOnly /\ UNCHANGED scripts /\ Relink(u, n)
      <3>1. Idle
        BY <2>2 DEF Relink, FilesOnly, Stays, Idle
      <3>2. SieveInv'
        <4>1. /\ scripts' \in [User -> SUBSET Script]
              /\ \A v \in User : scripts[v] \subseteq scripts'[v]
              /\ n \in scripts'[u]
          BY <2>2 DEF SieveInv
        <4> QED BY <2>2, <4>1, RelinkKeeps DEF Relink
      <3> QED BY <3>1, <3>2, StaysKeeps DEF Idle
    <2> QED BY <1>5, <2>1, <2>2 DEF ActivateFilter
  <1>6. ASSUME NEW u \in User, NEW n \in Script, NEW active \in BOOLEAN,
               CreateFilter(u, n, active)
        PROVE  ProvInv' /\ SieveInv'
    <2>1. CASE NotFound
      BY <1>2, <2>1 DEF NotFound, Refused, Idle
    <2>2. CASE /\ FilesOnly
               /\ Write(u, n)
               /\ \/ active /\ Relink(u, n)
                  \/ ~active /\ UNCHANGED link /\ answer' \in {"ok", "error"}
      <3>1. Idle
        BY <2>2 DEF Relink, FilesOnly, Stays, Idle
      <3>2. SieveInv'
        BY <2>2, WriteAdds, RelinkKeeps DEF Relink
      <3> QED BY <3>1, <3>2, StaysKeeps DEF Idle
    <2> QED BY <1>6, <2>1, <2>2 DEF CreateFilter
  <1> QED BY <1>1, <1>3, <1>4, <1>5, <1>6 DEF SieveRequest

-------------------------------------------------------------------------------
LEMMA InitHolds == SieveInit => ProvInv /\ SieveInv
  <1> SUFFICES ASSUME SieveInit
               PROVE  ProvInv /\ SieveInv
    OBVIOUS
  <1>1. SieveInv
    BY DEF SieveInit, SieveInv, ActiveScriptStored
  <1>2. MaxTotal \in Nat /\ None \notin Ext
    BY ProvisioningAssumption
  <1>3. CASE orgs = Empty /\ domains = Empty /\ accounts = Empty
    <2>1. /\ orgs \in Rows(Org, Ext \cup {None})
          /\ domains \in Rows(Domain, DomainRow)
          /\ accounts \in Rows(Account, AccountRow)
      BY <1>3, EmptyRows
    <2>2. DOMAIN orgs = {} /\ DOMAIN domains = {} /\ DOMAIN accounts = {}
      BY <1>3 DEF Empty
    <2>3. ProvTypeOK
      BY <2>1, <2>2 DEF SieveInit, Init, ProvTypeOK
    <2>4. RowsHaveParents
      BY <2>2 DEF SieveInit, Init, RowsHaveParents
    <2>5. SubscriberAgrees /\ NoAliasWithoutKey
      BY DEF SieveInit, Init, SubscriberAgrees, NoAliasWithoutKey
    <2>6. CounterCovers
      BY <2>2 DEF CounterCovers
    <2> QED BY <1>1, <2>3, <2>4, <2>5, <2>6 DEF ProvInv
  <1>4. ASSUME NEW o \in Org, NEW a \in Account, schema = "integer",
               orgs = Put(Empty, o, None),
               domains = Put(Empty, AccountDomain[a],
                     [org |-> o, ext |-> None, active |-> TRUE, total |-> 0]),
               accounts = Put(Empty, a, [org |-> o, vacation |-> FALSE])
        PROVE  ProvInv
    <2> DEFINE d == AccountDomain[a]
               Id == Ext \cup {None}
               drow == [org |-> o, ext |-> None, active |-> TRUE, total |-> 0]
               arow == [org |-> o, vacation |-> FALSE]
    <2>1. d \in Domain
      BY ProvisioningAssumption
    <2>2. drow \in DomainRow /\ arow \in AccountRow /\ None \in Id
      BY <1>2 DEF DomainRow, AccountRow
    <2>3. drow.org = o /\ arow.org = o
      OBVIOUS
    <2>4. domains = Put(Empty, d, drow) /\ accounts = Put(Empty, a, arow)
      BY <1>4
    <2> HIDE DEF d, drow, arow, Id
    <2>5. orgs \in Rows(Org, Id)
      BY <1>4, <2>2, EmptyRows, PutRow
    <2>6. domains \in Rows(Domain, DomainRow)
      BY <2>1, <2>2, <2>4, EmptyRows, PutRow
    <2>7. accounts \in Rows(Account, AccountRow)
      BY <2>2, <2>4, EmptyRows, PutRow
    <2>8. /\ DOMAIN orgs = {o}
          /\ DOMAIN domains = {d} /\ domains[d] = drow
          /\ DOMAIN accounts = {a} /\ accounts[a] = arow
      BY <1>4, <2>4 DEF Put, Empty
    <2>9. ProvTypeOK
      <3>1. orgs \in Rows(Org, Ext \cup {None})
        BY <2>5 DEF Id
      <3>2. aliases \in SUBSET Alias /\ endpoints \in SUBSET Endpoint
        BY DEF SieveInit, Init
      <3>3. mirror \in SUBSET (Org \cup Domain)
        BY <2>1, <2>8 DEF SieveInit, Init
      <3> QED BY <2>6, <2>7, <3>1, <3>2, <3>3 DEF SieveInit, Init, ProvTypeOK
    <2>10. RowsHaveParents
      <3>1. AccountDomain[a] = d
        BY DEF d
      <3> QED BY <2>3, <2>8, <3>1 DEF SieveInit, Init, RowsHaveParents
    <2>11. SubscriberAgrees /\ NoAliasWithoutKey /\ CounterCovers
      BY <1>4 DEF SieveInit, Init, SubscriberAgrees, NoAliasWithoutKey, CounterCovers
    <2> QED BY <2>9, <2>10, <2>11 DEF ProvInv
  <1> QED BY <1>1, <1>3, <1>4 DEF SieveInit, Init

LEMMA Invariance == Spec => [](ProvInv /\ SieveInv)
  <1>1. ASSUME ProvInv, SieveInv, [Next]_vars
        PROVE  ProvInv' /\ SieveInv'
    <2>1. CASE ProvNext /\ UNCHANGED sieveVars
      BY <1>1, <2>1, ProvStepKeeps DEF SieveInv, ActiveScriptStored, sieveVars
    <2>2. CASE SieveRequest
      BY <1>1, <2>2, SieveStepKeeps
    <2>3. CASE UNCHANGED vars
      <3>1. ProvInv'
        <4>1. Stays /\ answer' = answer
          BY <2>3 DEF vars, provVars, Stays
        <4>2. answer' \in {"ok", "error"}
          BY <1>1, <4>1 DEF ProvInv, ProvTypeOK
        <4> QED BY <1>1, <4>1, <4>2, StaysKeeps
      <3> QED BY <1>1, <2>3, <3>1 DEF SieveInv, ActiveScriptStored, sieveVars, vars
    <2> QED BY <1>1, <2>1, <2>2, <2>3 DEF Next
  <1> QED BY <1>1, InitHolds, PTL DEF Spec

(* Every table holds rows of its type, and scripts and links are those of users. *)
THEOREM TypeCorrect == Spec => []TypeOK
  <1>1. ProvInv /\ SieveInv => TypeOK
    BY DEF ProvInv, SieveInv, TypeOK
  <1> QED BY <1>1, Invariance, PTL

(* Whatever requests come in whatever order, and whether or not the process is
   killed in them, no domain, account or alias is without the rows it names. *)
THEOREM ParentsStay == Spec => []RowsHaveParents
  <1>1. ProvInv => RowsHaveParents
    BY DEF ProvInv
  <1> QED BY <1>1, Invariance, PTL

(* The events tell a subscriber that misses none what was committed. *)
THEOREM EventsTellAll == Spec => []SubscriberAgrees
  <1>1. ProvInv => SubscriberAgrees
    BY DEF ProvInv
  <1> QED BY <1>1, Invariance, PTL

(* The counter of accounts of a domain is never too low for the limit check. *)
THEOREM CountersCover == Spec => []CounterCovers
  <1>1. ProvInv => CounterCovers
    BY DEF ProvInv
  <1> QED BY <1>1, Invariance, PTL

(* Wherever a Sieve route is stopped, the active script is a file that is there. *)
THEOREM ActiveStaysStored == Spec => []ActiveScriptStored
  <1>1. SieveInv => ActiveScriptStored
    BY DEF SieveInv
  <1> QED BY <1>1, Invariance, PTL
===============================================================================
