----------------------- MODULE ManagementEngineProofs -----------------------
(***************************************************************************)
(* Theorems about ManagementEngine, for every number of requests, every    *)
(* service of the catalog, every number of objects, contents, pages and    *)
(* interventions; then about Operations, for every number of operations    *)
(* and of requests beside them.                                            *)
(***************************************************************************)
EXTENDS Operations, FiniteSetTheorems, FunctionTheorems, TLAPS

-----------------------------------------------------------------------------
(* The inductive invariant *)

Begun == [spec : Specs, action : {"create", "update", "delete"}, uuid : Ids \cup {NoId},
          rev : Revisions \cup {NoObj}, values : Body \cup {NoObj}]

\* The POSTs that are sent name a resource of the service, and carry a public field.
Sendable(call) ==
    /\ call.kind # "apply" => call.spec \in scope
    /\ call.kind \in {"add", "set"} => call.body.pub \in Vals

\* What was merged follows the fields that the request names.
Composed(p) ==
    LET v == req[p].values
        b == ctl[p].payload
    IN /\ b \in Body
       /\ v.pub # Keep => b.pub = v.pub
       /\ v.sec # Keep => b.sec = v.sec
       /\ Hooked(req[p].spec) => Prepared(b)

\* What the stage of a request says of its locals.
Formed(p) ==
    /\ pc[p] \in {"wait"} \cup Critical =>
         /\ req[p] \in Begun /\ req[p].spec \in scope
         /\ req[p].action # "delete" => req[p].values \in Body
         /\ req[p].action # "create" => req[p].uuid \in Ids
    /\ pc[p] \in {"apply", "verify", "record"} => req[p].uuid \in Ids
    /\ pc[p] \in {"start", "save", "apply", "verify", "record"} /\ req[p].action # "delete" => Composed(p)
    /\ pc[p] \in {"idle", "wait", "read", "start", "save", "apply"} =>
         ctl[p].page = 1 /\ ctl[p].seen = 0

Holds(p) == pc[p] \in Critical => locks[req[p].spec] = p

\* The intent is on record from the save on; the outcome is not known before the end.
OnRecord(p) ==
    /\ pc[p] \in {"idle", "wait", "read", "start"} => ~Declared(p)
    /\ pc[p] \in {"save", "apply", "verify", "record", "error"} => Declared(p)
    /\ pc[p] \notin {"done", "crashed"} => ~res[p].ok /\ ~res[p].auditFailure

\* Only the save and the apply touch the node, and what follows them is partial.
Reported(p) ==
    /\ pc[p] \in {"idle", "wait", "read", "start", "save"} => p \notin touched
    /\ pc[p] \in {"error", "done"} /\ ~res[p].ok /\ p \in touched => res[p].partial

\* Until its save a request is about the object that it read, and merged.
Fresh(p) ==
    pc[p] \in {"start", "save"} /\ req[p].action # "create" =>
      /\ conf[req[p].spec][req[p].uuid] \in Obj
      /\ Shown(req[p].spec, conf[req[p].spec][req[p].uuid]) = req[p].rev
      /\ req[p].action = "update" /\ ~Hooked(req[p].spec)
           => ctl[p].payload = Merged(req[p].values, req[p].rev)

\* After its apply the resource runs as it is stored.
Live(p) ==
    pc[p] \in {"verify", "record"} /\ ~Saved(req[p].spec) => run[req[p].spec] = conf[req[p].spec]

\* The rows of a listing P on page k, and on the pages before it.
RankIn(P, u) == Cardinality({w \in P : w < u})
PageIn(P, k) == {u \in P : RankIn(P, u) \div PageSize + 1 = k}
BeforeIn(P, k) == {u \in P : RankIn(P, u) \div PageSize + 1 < k}
Before(s, k) == BeforeIn(Present(s), k)

\* The scan has counted the rows of the pages it has left, and missed none.
Scanned(p) ==
    pc[p] = "verify" /\ req[p].action = "delete" =>
      /\ ctl[p].seen = Cardinality(Before(req[p].spec, ctl[p].page))
      /\ req[p].uuid \notin Before(req[p].spec, ctl[p].page)

Met(p) == pc[p] = "record" => Asked(p, conf[req[p].spec][req[p].uuid])

\* Unless others write.
Content(p) == p \notin foreign => Fresh(p) /\ Live(p) /\ Scanned(p) /\ Met(p)

Local(p) == Formed(p) /\ Holds(p) /\ OnRecord(p) /\ Reported(p) /\ Content(p)

Inv == TypeOK /\ (\A call \in inflight : Sendable(call)) /\ \A p \in Procs : Local(p)

-----------------------------------------------------------------------------
(* The catalog and the types *)

Entry(r) ==
    /\ r.verbs \subseteq {"create", "update", "delete"}
    /\ r.service \in HollowAck => r.apply_ack

LEMMA CatalogFacts == \A s \in DOMAIN Resources : Entry(Resources[s])
<1>1. Entry(wireguard_servers) /\ Entry(wireguard_clients) /\ Entry(wireguard_general) /\
      Entry(shaper_pipes) /\ Entry(shaper_queues) /\ Entry(shaper_rules) /\ Entry(vips)
  BY DEF Entry, HollowAck, Crud, Settings, Identity,
         wireguard_servers, wireguard_clients, wireguard_general, shaper_pipes, shaper_queues,
         shaper_rules, vips
<1>2. Entry(vlans) /\ Entry(laggs) /\ Entry(loopbacks) /\ Entry(vxlans) /\
      Entry(static_routes) /\ Entry(monit_services) /\ Entry(monit_alerts)
  BY DEF Entry, HollowAck, Crud, Settings, Identity,
         vlans, laggs, loopbacks, vxlans, static_routes, monit_services, monit_alerts
<1>3. Entry(monit_tests) /\ Entry(monit_general) /\ Entry(ids_rules) /\ Entry(ids_general) /\
      Entry(ipsec_connections) /\ Entry(ipsec_children) /\ Entry(syslog_destinations)
  BY DEF Entry, HollowAck, Crud, Settings, Identity,
         monit_tests, monit_general, ids_rules, ids_general, ipsec_connections, ipsec_children,
         syslog_destinations
<1>4. Entry(syslog_general) /\ Entry(portal_zones) /\ Entry(cron_jobs) /\ Entry(categories) /\
      Entry(dnsmasq_hosts) /\ Entry(dnsmasq_general) /\ Entry(unbound_general)
  BY DEF Entry, HollowAck, Crud, Settings, Identity,
         syslog_general, portal_zones, cron_jobs, categories, dnsmasq_hosts, dnsmasq_general,
         unbound_general
<1>5. Entry(openvpn_instances) /\ Entry(ha_settings) /\ Entry(auth_groups) /\
      Entry(auth_users) /\ Entry(trust_cas) /\ Entry(trust_certificates)
  BY DEF Entry, HollowAck, Crud, Settings, Identity,
         openvpn_instances, ha_settings, auth_groups, auth_users, trust_cas, trust_certificates
<1> QED
  BY <1>1, <1>2, <1>3, <1>4, <1>5 DEF Resources

Objects == [Ids -> Obj \cup {NoObj}]

LEMMA OpFacts ==
    \A call \in Op :
        /\ call.kind \in {"add", "set", "del", "apply"}
        /\ call.kind # "apply" => call.id \in Ids
        /\ call.kind \in {"add", "set"} => call.body \in Body
BY DEF Op, Payload

LEMMA StoredType ==
    ASSUME NEW old \in Obj \cup {NoObj}, NEW body \in Body, body.pub \in Vals
    PROVE  Stored(old, body) \in Obj
<1>1. Default \in Vals
  BY ConstantsAssumption
<1>2. old # NoObj => old.sec \in Vals
  BY DEF Obj
<1>3. body.sec # Keep => body.sec \in Vals
  BY DEF Body
<1> QED
  BY <1>1, <1>2, <1>3 DEF Stored, Obj

LEMMA ExecutionTypes ==
    ASSUME TypeOK, NEW call \in Op, Sendable(call)
    PROVE  /\ ConfAfter(call) \in [scope -> Objects]
           /\ RunAfter(call) \in [scope -> Objects]
           /\ \A s \in scope : call.kind = "apply" \/ s # call.spec => ConfAfter(call)[s] = conf[s]
           /\ call.kind # "apply" => RunAfter(call) = run
<1>1. conf \in [scope -> Objects] /\ run \in [scope -> Objects]
  BY DEF TypeOK, Objects
<1>2. ASSUME NEW s \in scope, NEW u \in Ids, NEW o \in Obj \cup {NoObj}
      PROVE  [conf EXCEPT ![s][u] = o] \in [scope -> Objects]
  BY <1>1 DEF Objects
<1>3. CASE call.kind \in {"add", "set"}
  <2>1. call.spec \in scope /\ call.id \in Ids /\ call.body \in Body /\ call.body.pub \in Vals
    BY <1>3, OpFacts DEF Sendable
  <2>2. conf[call.spec][call.id] \in Obj \cup {NoObj}
    BY <1>1, <2>1 DEF Objects
  <2>3. ConfAfter(call) = [conf EXCEPT ![call.spec][call.id] = Stored(conf[call.spec][call.id], call.body)]
    BY <1>3 DEF ConfAfter
  <2>4. Stored(conf[call.spec][call.id], call.body) \in Obj \cup {NoObj}
    BY <2>1, <2>2, StoredType
  <2> QED
    BY <1>1, <1>2, <1>3, <2>1, <2>3, <2>4 DEF RunAfter
<1>4. CASE call.kind = "del"
  <2>1. call.spec \in scope /\ call.id \in Ids
    BY <1>4, OpFacts DEF Sendable
  <2>2. ConfAfter(call) = [conf EXCEPT ![call.spec][call.id] = NoObj]
    BY <1>4 DEF ConfAfter
  <2> QED
    BY <1>1, <1>2, <1>4, <2>1, <2>2 DEF RunAfter
<1>5. CASE call.kind = "apply"
  BY <1>1, <1>5 DEF ConfAfter, RunAfter
<1> QED
  BY <1>3, <1>4, <1>5, OpFacts

\* What a POST, acknowledged, failed or late, can do to the node.
LEMMA PostEffect ==
    ASSUME TypeOK, \A o \in inflight : Sendable(o), NEW call \in Op, Sendable(call), NEW e,
           Executed(call) \/ Ignored \/ FailedPost(call, e)
    PROVE  /\ conf' \in [scope -> Objects] /\ run' \in [scope -> Objects] /\ scope' = scope
           /\ inflight' \subseteq Op /\ \A o \in inflight' : Sendable(o)'
           /\ conf' = conf \/ conf' = ConfAfter(call)
           /\ run' = run \/ run' = RunAfter(call)
           /\ \A s \in scope : call.kind = "apply" \/ s # call.spec => conf'[s] = conf[s]
<1>1. /\ conf' = conf \/ conf' = ConfAfter(call)
      /\ run' = run \/ run' = RunAfter(call)
      /\ inflight' \subseteq inflight \cup {call}
  BY DEF Executed, Ignored, FailedPost, Delayed, data
<1>2. conf \in [scope -> Objects] /\ run \in [scope -> Objects]
  BY DEF TypeOK, Objects
<1>3. conf' \in [scope -> Objects] /\ run' \in [scope -> Objects]
  BY <1>1, <1>2, ExecutionTypes
<1>4. scope' = scope
  BY <1>3 DEF scope
<1>5. inflight' \subseteq Op /\ \A o \in inflight' : Sendable(o)'
  BY <1>1, <1>4 DEF TypeOK, Sendable
<1> QED
  BY <1>1, <1>3, <1>4, <1>5, ExecutionTypes

-----------------------------------------------------------------------------
(* The listing *)

LEMMA RankNat == ASSUME NEW P \in SUBSET Ids, NEW u PROVE RankIn(P, u) \in Nat
<1>1. IsFiniteSet(Ids)
  BY FS_Interval, ConstantsAssumption DEF Ids
<1>2. {w \in P : w < u} \in SUBSET Ids
  OBVIOUS
<1> QED
  BY <1>1, <1>2, FS_Subset, FS_CardinalityType DEF RankIn

LEMMA FiniteListing == ASSUME NEW P \in SUBSET Ids PROVE IsFiniteSet(P) /\ Cardinality(P) \in Nat
<1>1. IsFiniteSet(Ids)
  BY FS_Interval, ConstantsAssumption DEF Ids
<1> QED
  BY <1>1, FS_Subset, FS_CardinalityType

LEMMA PageNumber == \A r \in Nat : r \div PageSize \in Nat
  BY ConstantsAssumption

LEMMA FirstPage == ASSUME NEW P \in SUBSET Ids PROVE BeforeIn(P, 1) = {} /\ Cardinality(BeforeIn(P, 1)) = 0
<1>1. ASSUME NEW u \in P PROVE ~(RankIn(P, u) \div PageSize + 1 < 1)
  BY RankNat, PageNumber
<1> QED
  BY <1>1, FS_EmptySet DEF BeforeIn

\* Page by page the scan adds up the listing.
LEMMA NextPage ==
    ASSUME NEW P \in SUBSET Ids, NEW k \in Nat
    PROVE  /\ BeforeIn(P, k + 1) = BeforeIn(P, k) \cup PageIn(P, k)
           /\ Cardinality(BeforeIn(P, k + 1)) = Cardinality(BeforeIn(P, k)) + Cardinality(PageIn(P, k))
           /\ BeforeIn(P, k) \in SUBSET P /\ PageIn(P, k) \in SUBSET P
           /\ Cardinality(BeforeIn(P, k)) \in Nat /\ Cardinality(PageIn(P, k)) \in Nat
<1> DEFINE n(u) == RankIn(P, u) \div PageSize
<1>1. \A u \in P : n(u) \in Nat
  BY RankNat, PageNumber
<1>2. /\ BeforeIn(P, k) = {u \in P : n(u) + 1 < k} /\ BeforeIn(P, k + 1) = {u \in P : n(u) + 1 < k + 1}
      /\ PageIn(P, k) = {u \in P : n(u) + 1 = k}
  BY DEF BeforeIn, PageIn
<1> HIDE DEF n
<1>3. BeforeIn(P, k + 1) = BeforeIn(P, k) \cup PageIn(P, k)
  BY <1>1, <1>2
<1>4. BeforeIn(P, k) \cap PageIn(P, k) = {}
  BY <1>1, <1>2
<1>5. BeforeIn(P, k) \in SUBSET P /\ PageIn(P, k) \in SUBSET P
  BY <1>2
<1>6. /\ IsFiniteSet(BeforeIn(P, k)) /\ IsFiniteSet(PageIn(P, k))
      /\ Cardinality(BeforeIn(P, k)) \in Nat /\ Cardinality(PageIn(P, k)) \in Nat
  BY <1>5, FiniteListing, FS_Subset, FS_CardinalityType
<1>7. Cardinality(BeforeIn(P, k + 1)) = Cardinality(BeforeIn(P, k)) + Cardinality(PageIn(P, k)) - Cardinality({})
  BY <1>3, <1>4, <1>6, FS_Union
<1> QED
  BY <1>3, <1>5, <1>6, <1>7, FS_EmptySet

\* A scan that has counted as many rows as there are has seen them all.
LEMMA AllSeen ==
    ASSUME NEW P \in SUBSET Ids, NEW k \in Nat, Cardinality(BeforeIn(P, k)) >= Cardinality(P)
    PROVE  BeforeIn(P, k) = P
<1>1. BeforeIn(P, k) \in SUBSET P
  BY DEF BeforeIn
<1>2. Cardinality(BeforeIn(P, k)) <= Cardinality(P) /\ Cardinality(BeforeIn(P, k)) \in Nat
  BY <1>1, FiniteListing, FS_Subset, NextPage
<1> QED
  BY <1>1, <1>2, FiniteListing, FS_Subset

\* The rows are numbered without gaps: rank is a bijection of the rows with 0 .. n - 1.
Ranks(P) == [u \in P |-> RankIn(P, u)]

LEMMA RankBijection ==
    ASSUME NEW P \in SUBSET Ids
    PROVE  /\ Ranks(P) \in [P -> 0 .. Cardinality(P) - 1]
           /\ \A u, v \in P : Ranks(P)[u] = Ranks(P)[v] => u = v
           /\ \A t \in 0 .. Cardinality(P) - 1 : \E u \in P : Ranks(P)[u] = t
<1> DEFINE rank == Ranks(P)
           n == Cardinality(P)
           T == 0 .. n - 1
<1>1. /\ IsFiniteSet(P) /\ n \in Nat
      /\ \A u \in P : u \in Nat /\ RankIn(P, u) \in Nat
  BY FiniteListing, RankNat, ConstantsAssumption DEF Ids
<1>2. ASSUME NEW u \in P PROVE RankIn(P, u) < n
  <2>1. {w \in P : w < u} \in SUBSET P /\ u \notin {w \in P : w < u}
    BY <1>1
  <2> QED
    BY <1>1, <2>1, FS_Subset DEF RankIn
<1>3. ASSUME NEW u \in P, NEW v \in P, u < v PROVE RankIn(P, u) < RankIn(P, v)
  <2>1. {w \in P : w < u} \in SUBSET {w \in P : w < v}
    BY <1>1, <1>3
  <2>2. u \in {w \in P : w < v} /\ u \notin {w \in P : w < u}
    BY <1>1, <1>3
  <2>3. IsFiniteSet({w \in P : w < v})
    BY <1>1, FS_Subset
  <2> QED
    BY <1>1, <2>1, <2>2, <2>3, FS_Subset DEF RankIn
<1>4. rank \in [P -> T]
  BY <1>1, <1>2 DEF Ranks
<1>5. \A u, v \in P : rank[u] = rank[v] => u = v
  BY <1>1, <1>3 DEF Ranks
<1>6. rank \in Injection(P, T)
  BY <1>4, <1>5, Fun_IsInj
<1>7. IsFiniteSet(T) /\ Cardinality(T) = n
  BY <1>1, FS_Interval
<1>8. rank \in Surjection(P, T)
  BY <1>1, <1>6, <1>7, FS_Injection
<1>9. \A t \in T : \E u \in P : rank[u] = t
  <2> HIDE DEF rank, T
  <2> QED
    BY <1>8, Fun_SurjectionProperties
<1> QED
  BY <1>4, <1>5, <1>9

\* Every page before the last one is full.
LEMMA FullPage ==
    ASSUME NEW P \in SUBSET Ids, NEW k \in Nat \ {0}, k * PageSize < Cardinality(P)
    PROVE  Cardinality(PageIn(P, k)) = PageSize
<1> DEFINE rank == Ranks(P)
           n == Cardinality(P)
           low == (k - 1) * PageSize
           T == low .. low + PageSize - 1
           page == PageIn(P, k)
<1>1. PageSize \in Nat \ {0} /\ n \in Nat /\ low \in Nat /\ low + PageSize = k * PageSize
  BY FiniteListing, ConstantsAssumption
<1>2. rank \in [P -> 0 .. n - 1] /\ (\A u, v \in P : rank[u] = rank[v] => u = v)
      /\ \A t \in 0 .. n - 1 : \E u \in P : rank[u] = t
  BY RankBijection
<1>3. ASSUME NEW r \in Nat PROVE r \div PageSize + 1 = k <=> r \in T
  <2>1. (r \div PageSize) \in Nat /\ (r \div PageSize) * PageSize <= r /\ r < (r \div PageSize) * PageSize + PageSize
    BY <1>1
  <2>2. r \in T => r \div PageSize = k - 1
    BY <1>1
  <2> QED
    BY <1>1, <2>1, <2>2
<1>4. page = {u \in P : rank[u] \in T}
  BY <1>3, RankNat DEF PageIn, Ranks
<1> DEFINE f == [u \in page |-> rank[u]]
<1>5. f \in [page -> T] /\ \A u, v \in page : f[u] = f[v] => u = v
  BY <1>2, <1>4
<1>6. \A t \in T : \E u \in page : f[u] = t
  <2>1. \A t \in T : t \in 0 .. n - 1
    BY <1>1
  <2> QED
    BY <1>2, <1>4, <2>1
<1>7. ExistsBijection(page, T)
  BY <1>5, <1>6, Fun_IsBij DEF ExistsBijection
<1>8. IsFiniteSet(page)
  BY <1>4, FiniteListing, FS_Subset
<1>9. Cardinality(T) = PageSize
  BY <1>1, FS_Interval
<1> QED
  BY <1>7, <1>8, <1>9, FS_Bijection

\* k pages hold a listing of no more rows than fit on them.
LEMMA LastPage ==
    ASSUME NEW P \in SUBSET Ids, NEW k \in Nat, Cardinality(P) <= k * PageSize
    PROVE  BeforeIn(P, k + 1) = P
<1>1. PageSize \in Nat \ {0} /\ Cardinality(P) \in Nat
  BY FiniteListing, ConstantsAssumption
<1>2. ASSUME NEW u \in P PROVE RankIn(P, u) \in Nat /\ RankIn(P, u) < k * PageSize
  <2>1. RankIn(P, u) \in 0 .. Cardinality(P) - 1
    BY RankBijection DEF Ranks
  <2> QED
    BY <1>1, <2>1
<1>3. ASSUME NEW r \in Nat, r < k * PageSize PROVE r \div PageSize + 1 < k + 1
  <2>1. r \div PageSize \in Nat /\ (r \div PageSize) * PageSize <= r
    BY <1>1
  <2>2. (r \div PageSize) * PageSize < k * PageSize
    BY <1>1, <1>3, <2>1
  <2> QED
    BY <1>1, <2>1, <2>2
<1> QED
  BY <1>2, <1>3 DEF BeforeIn

-----------------------------------------------------------------------------
(* Steps of one request *)

\* A step of p leaves alone what Local(q) reads of another request q: a request
\* that holds a lock has the resource to itself, except that an apply publishes it.
Alone(p) ==
    /\ scope' = scope
    /\ \A q \in Procs \ {p} :
        /\ pc'[q] = pc[q] /\ req'[q] = req[q] /\ ctl'[q] = ctl[q] /\ res'[q] = res[q]
        /\ (q \in touched') = (q \in touched) /\ (q \in foreign') = (q \in foreign)
        /\ Declared(q)' = Declared(q)
        /\ pc[q] \in Critical =>
             /\ locks'[req[q].spec] = locks[req[q].spec]
             /\ conf'[req[q].spec] = conf[req[q].spec]
             /\ run'[req[q].spec] \in {run[req[q].spec], conf[req[q].spec]}

LEMMA Elsewhere ==
    ASSUME Inv, NEW p \in Procs, Alone(p), TypeOK', \A call \in inflight' : Sendable(call)', Local(p)'
    PROVE  Inv'
<1>1. ASSUME NEW q \in Procs, q # p PROVE Local(q)'
  <2> DEFINE s == req[q].spec
  <2>1. Local(q)
    BY DEF Inv
  <2>2. /\ scope' = scope
        /\ pc'[q] = pc[q] /\ req'[q] = req[q] /\ ctl'[q] = ctl[q] /\ res'[q] = res[q]
        /\ (q \in touched') = (q \in touched) /\ (q \in foreign') = (q \in foreign)
        /\ Declared(q)' = Declared(q)
        /\ pc[q] \in Critical => /\ locks'[s] = locks[s] /\ conf'[s] = conf[s]
                                 /\ run'[s] \in {run[s], conf[s]}
    BY <1>1 DEF Alone
  <2>3. Composed(q)' = Composed(q)
    BY <2>2 DEF Composed
  <2>4. Formed(q)'
    BY <2>1, <2>2, <2>3 DEF Local, Formed
  <2>5. Holds(q)' /\ OnRecord(q)' /\ Reported(q)'
    BY <2>1, <2>2 DEF Local, Holds, OnRecord, Reported
  <2>6. pc[q] \in Critical => Before(s, ctl[q].page)' = Before(s, ctl[q].page)
    BY <2>2 DEF Before, Present
  <2>7. pc[q] \in Critical => Asked(q, conf[s][req[q].uuid])' = Asked(q, conf[s][req[q].uuid])
    BY <2>2 DEF Asked
  <2>8. Content(q)'
    <3>1. Fresh(q) => Fresh(q)'
      BY <2>2 DEF Fresh, Critical
    <3>2. Live(q) => Live(q)'
      BY <2>2 DEF Live, Critical
    <3>3. Scanned(q) => Scanned(q)'
      BY <2>2, <2>6 DEF Scanned, Critical
    <3>4. Met(q) => Met(q)'
      BY <2>2, <2>7 DEF Met, Critical
    <3> QED
      BY <2>1, <2>2, <3>1, <3>2, <3>3, <3>4 DEF Local, Content
  <2> QED
    BY <2>4, <2>5, <2>8 DEF Local
<1> QED
  BY <1>1 DEF Inv

\* The locks keep requests for the same resource out.
LEMMA OthersElsewhere ==
    ASSUME Inv, NEW p \in Procs, NEW q \in Procs \ {p}, pc[p] \in Critical, pc[q] \in Critical
    PROVE  req[q].spec # req[p].spec
BY DEF Inv, Local, Holds

LEMMA NoneForeign ==
    ASSUME NEW p
    PROVE  /\ pc[p] \notin {"start", "save", "verify", "record"} => Content(p)
           /\ pc'[p] \notin {"start", "save", "verify", "record"} => Content(p)'
BY DEF Content, Fresh, Live, Scanned, Met

LEMMA InitialTypes == NoControl \in Control /\ NoResult \in Result
<1>1. 1 \in 1 .. MaxPages
  BY ConstantsAssumption
<1> QED
  BY <1>1 DEF NoControl, Control, NoResult, Result, Errors

LEMMA InitInv == Init => Inv
<1> SUFFICES ASSUME Init PROVE Inv
  OBVIOUS
<1>1. TypeOK
  <2>1. PICK sc \in Scopes : conf \in [sc -> [Ids -> Obj \cup {NoObj}]]
    BY DEF Init
  <2>2. scope = sc
    BY <2>1 DEF scope
  <2>3. /\ scope \in Scopes /\ conf \in [scope -> [Ids -> Obj \cup {NoObj}]]
        /\ run \in [scope -> [Ids -> Obj \cup {NoObj}]]
    BY <2>1, <2>2 DEF Init
  <2>4. used \in [scope -> SUBSET Ids]
    BY DEF Init, Present
  <2>5. ctl \in [Procs -> Control] /\ res \in [Procs -> Result] /\ req \in [Procs -> Request]
    BY InitialTypes DEF Init, Request
  <2>6. env \in 0 .. MaxEnv
    BY ConstantsAssumption DEF Init
  <2>7. /\ inflight \subseteq Op
        /\ locks \in [scope -> Procs \cup {NoProc}]
        /\ audit \subseteq Procs \X {"started", "ok", "error"}
        /\ pc \in [Procs -> Stages] /\ touched \subseteq Procs /\ foreign \subseteq Procs
    BY DEF Init, Stages
  <2> QED
    BY <2>3, <2>4, <2>5, <2>6, <2>7 DEF TypeOK
<1>2. ASSUME NEW p \in Procs PROVE Local(p)
  <2>1. pc[p] = "idle" /\ ctl[p] = NoControl /\ res[p] = NoResult /\ p \notin touched /\ ~Declared(p)
    BY DEF Init, Declared
  <2> QED
    BY <2>1, NoneForeign DEF Local, Formed, Holds, OnRecord, Reported, NoControl, NoResult, Critical
<1>3. \A call \in inflight : Sendable(call)
  BY DEF Init
<1> QED
  BY <1>1, <1>2, <1>3 DEF Inv

LEMMA NodeQuiet ==
    ASSUME Inv, UNCHANGED data
    PROVE  /\ scope' = scope /\ \A call \in inflight' : Sendable(call)'
           /\ scope' \in Scopes /\ conf' \in [scope' -> [Ids -> Obj \cup {NoObj}]]
           /\ run' \in [scope' -> [Ids -> Obj \cup {NoObj}]] /\ inflight' \subseteq Op
BY DEF data, Inv, TypeOK, scope, Sendable

LEMMA ScopeSpecs == ASSUME TypeOK PROVE scope \subseteq Specs
BY DEF TypeOK, Specs

LEMMA BeginInv == ASSUME Inv, NEW p \in Procs, Begin(p) PROVE Inv' /\ Alone(p)
<1>1. PICK s \in scope, a \in {"create", "update", "delete"}, u \in Ids \cup {NoId},
           r \in Revisions \cup {NoObj}, v \in Body \cup {NoObj} :
        /\ (u = NoId) = (a = "create")
        /\ (v = NoObj) = (a = "delete")
        /\ req' = [req EXCEPT ![p] = [spec |-> s, action |-> a, uuid |-> u, rev |-> r, values |-> v]]
  <2>1. PICK s \in scope : \E a \in Resources[s].verbs, u \in Ids \cup {NoId},
          r \in {Shown(s, o) : o \in ObjectsOf(s)} \cup {NoObj}, v \in Bodies \cup {NoObj} :
         /\ (u = NoId) = (a = "create") /\ (r = NoObj) = (a = "create")
         /\ (v = NoObj) = (a = "delete")
         /\ Singleton(s) => u = SingletonId
         /\ v # NoObj /\ v.sec # Keep => HasSecret(s)
         /\ req' = [req EXCEPT ![p] = [spec |-> s, action |-> a, uuid |-> u, rev |-> r, values |-> v]]
    BY Zenon DEF Begin
  <2>2. PICK a \in Resources[s].verbs, u \in Ids \cup {NoId},
          r \in {Shown(s, o) : o \in ObjectsOf(s)} \cup {NoObj}, v \in Bodies \cup {NoObj} :
         /\ (u = NoId) = (a = "create") /\ (r = NoObj) = (a = "create")
         /\ (v = NoObj) = (a = "delete")
         /\ Singleton(s) => u = SingletonId
         /\ v # NoObj /\ v.sec # Keep => HasSecret(s)
         /\ req' = [req EXCEPT ![p] = [spec |-> s, action |-> a, uuid |-> u, rev |-> r, values |-> v]]
    BY <2>1, Zenon
  <2>3. a \in {"create", "update", "delete"}
    BY ScopeSpecs, ConstantsAssumption, CatalogFacts DEF Inv, Entry
  <2>4. r \in Revisions \cup {NoObj}
    BY DEF ObjectsOf, Shown, Revisions, Obj
  <2>5. v \in Body \cup {NoObj}
    BY ConstantsAssumption
  <2> QED
    BY <2>2, <2>3, <2>4, <2>5
<1> DEFINE begun == [spec |-> s, action |-> a, uuid |-> u, rev |-> r, values |-> v]
<1>2. begun \in Begun /\ s \in Specs
  BY ScopeSpecs DEF Begun, Inv
<1>3. /\ begun.spec = s /\ begun.action = a
      /\ a # "delete" => v \in Body
      /\ a # "create" => u \in Ids
  BY <1>1
<1>4. /\ req' \in [Procs -> Request] /\ req'[p] = begun /\ \A q \in Procs \ {p} : req'[q] = req[q]
      /\ pc' \in [Procs -> Stages] /\ pc'[p] = "wait" /\ \A q \in Procs \ {p} : pc'[q] = pc[q]
  BY <1>1, <1>2 DEF Begin, Goto, Inv, TypeOK, Stages, Request, Begun
<1>5. UNCHANGED <<data, used, locks, audit, ctl, res, history>> /\ pc[p] = "idle"
  BY DEF Begin
<1>6. TypeOK'
  BY <1>4, <1>5, NodeQuiet DEF Inv, TypeOK, history
<1>7. Local(p)'
  BY <1>2, <1>3, <1>4, <1>5, NodeQuiet, NoneForeign
     DEF Inv, Local, Formed, Holds, OnRecord, Reported, Declared, history, Critical
<1>8. Alone(p)
  BY <1>4, <1>5, NodeQuiet DEF Alone, data, history, Declared
<1> QED
  BY <1>5, <1>6, <1>7, <1>8, NodeQuiet, Elsewhere

LEMMA RefuseInv == ASSUME Inv, NEW p \in Procs, Refuse(p) PROVE Inv' /\ Alone(p)
<1>1. /\ res' \in [Procs -> Result] /\ \A q \in Procs \ {p} : res'[q] = res[q]
      /\ pc' \in [Procs -> Stages] /\ pc'[p] = "done" /\ \A q \in Procs \ {p} : pc'[q] = pc[q]
  BY DEF Refuse, Goto, Inv, TypeOK, Stages, Result, Errors
<1>2. UNCHANGED <<data, used, locks, audit, req, ctl, history>> /\ pc[p] = "idle"
  BY DEF Refuse
<1>3. TypeOK'
  BY <1>1, <1>2, NodeQuiet DEF Inv, TypeOK, history
<1>4. Local(p)'
  BY <1>1, <1>2, NodeQuiet, NoneForeign
     DEF Inv, Local, Formed, Holds, OnRecord, Reported, history, Critical
<1>5. Alone(p)
  BY <1>1, <1>2, NodeQuiet DEF Alone, data, history, Declared
<1> QED
  BY <1>2, <1>3, <1>4, <1>5, NodeQuiet, Elsewhere

LEMMA AcquireInv == ASSUME Inv, NEW p \in Procs, Acquire(p) PROVE Inv' /\ Alone(p)
<1> DEFINE s == req[p].spec
<1>1. /\ pc[p] = "wait" /\ locks[s] = NoProc /\ locks' = [locks EXCEPT ![s] = p]
      /\ UNCHANGED <<data, used, audit, req, ctl, res, history>>
  BY DEF Acquire, LockFree
<1>2. s \in scope /\ Formed(p)
  BY <1>1 DEF Inv, Local, Formed
<1>3. /\ pc' \in [Procs -> Stages] /\ pc'[p] = "read" /\ \A q \in Procs \ {p} : pc'[q] = pc[q]
  BY DEF Acquire, Goto, Inv, TypeOK, Stages, Critical
<1>4. /\ locks' \in [scope -> Procs \cup {NoProc}] /\ locks'[s] = p
      /\ \A t \in scope : t # s => locks'[t] = locks[t]
  BY <1>1, <1>2 DEF Inv, TypeOK
<1>5. TypeOK'
  BY <1>1, <1>3, <1>4, NodeQuiet DEF Inv, TypeOK, history
<1>6. Local(p)'
  <2>1. Composed(p)' = Composed(p)
    BY <1>1 DEF Composed
  <2>2. Formed(p)' /\ Holds(p)'
    BY <1>1, <1>2, <1>3, <1>4, NodeQuiet DEF Formed, Holds, Critical
  <2> QED
    BY <1>1, <1>3, <2>2, NodeQuiet, NoneForeign DEF Inv, Local, OnRecord, Reported, Declared, history
<1>7. Alone(p)
  <2>1. \A q \in Procs \ {p} : pc[q] \in Critical => req[q].spec \in scope /\ req[q].spec # s
    BY <1>1, ConstantsAssumption DEF Inv, Local, Formed, Holds
  <2> QED
    BY <1>1, <1>3, <1>4, <2>1, NodeQuiet DEF Alone, data, history, Declared
<1> QED
  BY <1>1, <1>5, <1>6, <1>7, NodeQuiet, Elsewhere

LEMMA ReturnFacts ==
    ASSUME Inv, NEW p \in Procs, pc[p] \in Critical, Return(p)
    PROVE  /\ pc' \in [Procs -> Stages] /\ pc'[p] = "done"
           /\ locks' \in [scope -> Procs \cup {NoProc}]
           /\ req' \in [Procs -> Request] /\ ctl' \in [Procs -> Control]
           /\ \A q \in Procs \ {p} :
                /\ pc'[q] = pc[q] /\ req'[q] = req[q] /\ ctl'[q] = ctl[q]
                /\ pc[q] \in Critical => locks'[req[q].spec] = locks[req[q].spec]
<1>1. pc' \in [Procs -> Stages] /\ pc'[p] = "done" /\ \A q \in Procs \ {p} : pc'[q] = pc[q]
  BY DEF Return, Goto, Inv, TypeOK, Stages
<1>2. /\ req' \in [Procs -> Request] /\ ctl' \in [Procs -> Control]
      /\ \A q \in Procs \ {p} : req'[q] = req[q] /\ ctl'[q] = ctl[q]
  BY InitialTypes DEF Return, Inv, TypeOK, Request
<1>3. locks' \in [scope -> Procs \cup {NoProc}]
  BY DEF Return, Release, Inv, TypeOK
<1>4. ASSUME NEW q \in Procs \ {p}, pc[q] \in Critical
      PROVE  locks'[req[q].spec] = locks[req[q].spec]
  <2>1. req[q].spec # req[p].spec /\ req[q].spec \in scope
    BY <1>4, OthersElsewhere DEF Inv, Local, Formed
  <2> QED
    BY <2>1 DEF Return, Release, Inv, TypeOK
<1> QED
  BY <1>1, <1>2, <1>3, <1>4

LEMMA DoneLocal ==
    ASSUME NEW p, pc'[p] = "done", p \in touched' => res'[p].ok \/ res'[p].partial
    PROVE  Local(p)'
BY NoneForeign DEF Local, Formed, Holds, OnRecord, Reported, Critical

LEMMA RaiseInv ==
    ASSUME Inv, NEW p \in Procs, NEW e \in Errors, Raise(p, e), pc[p] \in {"read", "start"},
           UNCHANGED <<data, used, audit, history>>
    PROVE  Inv' /\ Alone(p)
<1>1. res' \in [Procs -> Result] /\ \A q \in Procs \ {p} : res'[q] = res[q]
  BY DEF Raise, Inv, TypeOK, Result
<1>2. pc[p] \in Critical /\ Return(p)
  BY DEF Critical, Raise
<1>3. TypeOK'
  BY <1>1, <1>2, ReturnFacts, NodeQuiet DEF Inv, TypeOK, history
<1>4. p \notin touched'
  BY DEF history, Inv, Local, Reported
<1>5. Local(p)'
  BY <1>2, <1>4, ReturnFacts, DoneLocal
<1>6. Alone(p)
  BY <1>1, <1>2, ReturnFacts, NodeQuiet DEF Alone, data, history, Declared
<1> QED
  BY <1>3, <1>5, <1>6, NodeQuiet, Elsewhere

\* What Read computes.
Current(p) ==
    IF req[p].action = "create" THEN Form(req[p].spec) ELSE conf[req[p].spec][req[p].uuid]

LEMMA ReadCases ==
    ASSUME NEW p, Read(p)
    PROVE  \/ /\ Current(p) # NoObj
              /\ req[p].action = "create" \/ Shown(req[p].spec, Current(p)) = req[p].rev
              /\ \/ req[p].action = "delete" /\ UNCHANGED ctl
                 \/ /\ req[p].action # "delete"
                    /\ \E body \in Sent(req[p].spec, req[p].values,
                                        Merged(req[p].values, Shown(req[p].spec, Current(p)))) :
                         ctl' = [ctl EXCEPT ![p].payload = body]
              /\ foreign' = foreign \ {p}
              /\ Goto(p, "start")
              /\ UNCHANGED <<locks, req, res>>
           \/ UNCHANGED foreign /\ \E e \in Errors : Raise(p, e)
<1>1. \A e \in Transport \cup {"conflict", "invalid_response", "bad_request"} : e \in Errors
  BY DEF Transport, Errors
<1> QED
  BY <1>1 DEF Read, Current, SameRevision

\* The merged values of a request, from the form or the object that it read.
LEMMA MergedTypes ==
    ASSUME NEW values \in Body, NEW current \in Body
    PROVE  /\ Merged(values, current) \in Body
           /\ values.pub # Keep => Merged(values, current).pub = values.pub
           /\ values.sec # Keep => Merged(values, current).sec = values.sec
BY DEF Merged, Body

LEMMA CurrentTypes ==
    ASSUME Inv, NEW p \in Procs, pc[p] = "read", Current(p) # NoObj
    PROVE  /\ Shown(req[p].spec, Current(p)) \in Body
           /\ req[p].action # "create" => Current(p) \in Obj
<1>1. /\ req[p].spec \in scope
      /\ req[p].action # "create" => req[p].uuid \in Ids
  BY DEF Inv, Local, Formed, Critical
<1>2. CASE req[p].action = "create"
  BY <1>2, ConstantsAssumption DEF Current, Form, Shown, Body
<1>3. CASE req[p].action # "create"
  <2>1. Current(p) \in Obj
    BY <1>1, <1>3 DEF Current, Inv, TypeOK
  <2> QED
    BY <2>1 DEF Shown, Obj, Body
<1> QED
  BY <1>2, <1>3

LEMMA ReadInv == ASSUME Inv, NEW p \in Procs, Read(p) PROVE Inv' /\ Alone(p)
<1> DEFINE s == req[p].spec
           shown == Shown(s, Current(p))
<1>1. pc[p] = "read" /\ UNCHANGED <<data, used, audit, touched, env>>
  BY DEF Read
<1>2. CASE UNCHANGED foreign /\ \E e \in Errors : Raise(p, e)
  BY <1>1, <1>2, RaiseInv DEF history
<1>3. CASE /\ Current(p) # NoObj
           /\ req[p].action = "create" \/ shown = req[p].rev
           /\ \/ req[p].action = "delete" /\ UNCHANGED ctl
              \/ /\ req[p].action # "delete"
                 /\ \E body \in Sent(s, req[p].values, Merged(req[p].values, shown)) :
                      ctl' = [ctl EXCEPT ![p].payload = body]
           /\ foreign' = foreign \ {p}
           /\ Goto(p, "start")
           /\ UNCHANGED <<locks, req, res>>
  <2>1. /\ pc' \in [Procs -> Stages] /\ pc'[p] = "start" /\ \A q \in Procs \ {p} : pc'[q] = pc[q]
    BY <1>3 DEF Goto, Inv, TypeOK, Stages, Critical
  <2>2. /\ req[p] \in Begun /\ s \in scope /\ Formed(p)
        /\ req[p].action # "delete" => req[p].values \in Body
        /\ req[p].action # "create" => req[p].uuid \in Ids
    BY <1>1 DEF Inv, Local, Formed, Critical
  <2>3. shown \in Body /\ (req[p].action # "create" => Current(p) \in Obj)
    BY <1>1, <1>3, CurrentTypes
  <2>4. /\ ctl' \in [Procs -> Control] /\ \A q \in Procs \ {p} : ctl'[q] = ctl[q]
        /\ ctl'[p].page = ctl[p].page /\ ctl'[p].seen = ctl[p].seen
        /\ req[p].action # "delete" =>
             /\ ctl'[p].payload \in Sent(s, req[p].values, Merged(req[p].values, shown))
             /\ ctl'[p].payload \in Body
    <3>1. CASE req[p].action = "delete"
      BY <1>3, <3>1 DEF Inv, TypeOK
    <3>2. CASE req[p].action # "delete"
      <4>1. PICK body \in Sent(s, req[p].values, Merged(req[p].values, shown)) :
              ctl' = [ctl EXCEPT ![p].payload = body]
        BY <1>3, <3>2
      <4>2. body \in Body
        BY <2>2, <2>3, <3>2, MergedTypes DEF Sent
      <4>3. ctl \in [Procs -> Control] /\ body \in Payload \cup {NoObj}
        BY <4>2 DEF Inv, TypeOK, Payload
      <4> QED
        BY <4>1, <4>2, <4>3 DEF Control
    <3> QED
      BY <3>1, <3>2
  <2>5. TypeOK'
    BY <1>1, <1>3, <2>1, <2>4, NodeQuiet DEF Inv, TypeOK
  <2>6. req[p].action # "delete" => Composed(p)'
    <3>1. SUFFICES ASSUME req[p].action # "delete" PROVE Composed(p)'
      OBVIOUS
    <3> DEFINE v == req[p].values
               m == Merged(v, shown)
    <3>2. m \in Body /\ (v.pub # Keep => m.pub = v.pub) /\ (v.sec # Keep => m.sec = v.sec)
      BY <2>2, <2>3, <3>1, MergedTypes
    <3>3. ctl'[p].payload \in Sent(s, v, m) /\ v \in Body
      BY <2>2, <2>4, <3>1
    <3> HIDE DEF m
    <3> QED
      BY <1>3, <3>2, <3>3 DEF Composed, Sent
  <2>7. Formed(p)' /\ Holds(p)'
    BY <1>1, <1>3, <2>1, <2>2, <2>4, <2>6, NodeQuiet DEF Inv, Local, Formed, Holds, Critical
  <2>8. Fresh(p)'
    <3>1. req[p].action # "create" => Current(p) = conf[s][req[p].uuid] /\ shown = req[p].rev
      BY <1>3 DEF Current
    <3>2. req[p].action = "update" /\ ~Hooked(s) => ctl'[p].payload = Merged(req[p].values, shown)
      BY <2>4 DEF Sent
    <3> QED
      BY <1>1, <1>3, <2>3, <3>1, <3>2 DEF Fresh, data
  <2>9. Local(p)'
    BY <1>1, <1>3, <2>1, <2>7, <2>8
       DEF Inv, Local, OnRecord, Reported, Declared, Content, Live, Scanned, Met
  <2>10. Alone(p)
    BY <1>1, <1>3, <2>1, <2>4, NodeQuiet DEF Alone, data, Declared
  <2> QED
    BY <1>1, <2>5, <2>9, <2>10, NodeQuiet, Elsewhere
<1> QED
  BY <1>2, <1>3, ReadCases

LEMMA StartInv == ASSUME Inv, NEW p \in Procs, Start(p) PROVE Inv' /\ Alone(p)
<1>1. pc[p] = "start" /\ UNCHANGED <<data, used, history>>
  BY DEF Start
<1>2. CASE Raise(p, "audit") /\ UNCHANGED audit
  BY <1>1, <1>2, RaiseInv DEF Errors
<1>3. CASE /\ audit' = audit \cup {<<p, "started">>}
           /\ Goto(p, "save")
           /\ UNCHANGED <<locks, req, ctl, res>>
  <2>1. /\ pc' \in [Procs -> Stages] /\ pc'[p] = "save" /\ \A q \in Procs \ {p} : pc'[q] = pc[q]
    BY <1>3 DEF Goto, Inv, TypeOK, Stages, Critical
  <2>2. /\ audit' \subseteq Procs \X {"started", "ok", "error"} /\ Declared(p)'
        /\ \A q \in Procs \ {p} : Declared(q)' = Declared(q)
    BY <1>3 DEF Inv, TypeOK, Declared
  <2>3. TypeOK'
    BY <1>1, <1>3, <2>1, <2>2, NodeQuiet DEF Inv, TypeOK, history
  <2>4. Composed(p)' = Composed(p)
    BY <1>3 DEF Composed
  <2>5. Local(p)'
    BY <1>1, <1>3, <2>1, <2>2, <2>4, NodeQuiet
       DEF Inv, Local, Formed, Holds, OnRecord, Reported, Content, Fresh, Live, Scanned, Met,
           history, data, Critical
  <2>6. Alone(p)
    BY <1>1, <1>3, <2>1, <2>2, NodeQuiet DEF Alone, data, history
  <2> QED
    BY <1>1, <2>3, <2>5, <2>6, NodeQuiet, Elsewhere
<1> QED
  BY <1>2, <1>3 DEF Start

-----------------------------------------------------------------------------
(* The POSTs and what follows them *)

Raised == {"validation", "rejected", "auth", "timeout", "upstream", "audit", "unverified",
           "invalid_response"}

LEMMA RaisedFacts ==
    /\ Rejections \cup Transport \subseteq Raised
    /\ \A e \in Raised : ErrorOf(e) \in Errors
BY DEF Raised, Rejections, Transport, ErrorOf, Errors

LEMMA FailFacts ==
    ASSUME TypeOK, NEW p \in Procs, NEW e \in Raised, Fail(p, e)
    PROVE  /\ res' \in [Procs -> Result] /\ pc' \in [Procs -> Stages] /\ pc'[p] = "error"
           /\ \A q \in Procs \ {p} : pc'[q] = pc[q] /\ res'[q] = res[q]
           /\ res'[p].ok = res[p].ok /\ res'[p].auditFailure = res[p].auditFailure
           /\ pc[p] # "save" \/ e # "validation" => res'[p].partial
<1>1. Partial(p, e) \in BOOLEAN /\ (pc[p] # "save" \/ e # "validation" => Partial(p, e))
  BY DEF Partial
<1>2. ErrorOf(e) \in Errors
  BY RaisedFacts
<1>3. "error" \in Stages
  BY DEF Stages, Critical
<1> HIDE DEF Partial, ErrorOf
<1>4. res \in [Procs -> Result]
  BY DEF TypeOK
<1>5. /\ res' = [res EXCEPT ![p].error = ErrorOf(e), ![p].partial = Partial(p, e)]
      /\ pc' = [pc EXCEPT ![p] = "error"]
  BY DEF Fail, Goto
<1>6. res' \in [Procs -> Result] /\ res'[p].partial = Partial(p, e)
  BY <1>1, <1>2, <1>4, <1>5 DEF Result
<1> QED
  BY <1>1, <1>3, <1>4, <1>5, <1>6 DEF TypeOK, Result

\* A request that failed keeps its lock until its error is on record.
LEMMA ErrorLocal ==
    ASSUME Inv, NEW p \in Procs, pc[p] \in {"save", "apply", "verify", "record"}, pc'[p] = "error",
           scope' = scope, UNCHANGED <<req, locks>>, Declared(p)' = Declared(p),
           res'[p].ok = res[p].ok, res'[p].auditFailure = res[p].auditFailure,
           p \in touched' => res'[p].partial
    PROVE  Local(p)'
<1>1. Formed(p)' /\ Holds(p)'
  BY DEF Inv, Local, Formed, Holds, Critical
<1>2. OnRecord(p)' /\ Reported(p)'
  BY DEF Inv, Local, OnRecord, Reported
<1> QED
  BY <1>1, <1>2, NoneForeign DEF Local

\* A step that fails without a POST, or with one that changed nothing.
LEMMA FailInv ==
    ASSUME Inv, NEW p \in Procs, NEW e \in Raised, Fail(p, e), pc[p] \in {"save", "apply", "verify", "record"},
           UNCHANGED <<data, used, locks, audit, req, ctl, history>>
    PROVE  Inv' /\ Alone(p)
<1>1. TypeOK'
  BY FailFacts, NodeQuiet DEF Inv, TypeOK, history
<1>2. Local(p)'
  <2>1. p \in touched' => res'[p].partial
    BY FailFacts DEF Inv, Local, Reported, history
  <2> QED
    BY <2>1, FailFacts, NodeQuiet, ErrorLocal DEF Inv, Declared
<1>3. Alone(p)
  BY FailFacts, NodeQuiet DEF Inv, Alone, data, history, Declared
<1> QED
  BY <1>1, <1>2, <1>3, NodeQuiet, Elsewhere

LEMMA SaveTypes ==
    ASSUME Inv, NEW p \in Procs, pc[p] = "save", NEW u \in SaveIds(p), NEW call \in SaveOps(p, u)
    PROVE  /\ u \in Ids /\ call \in Op /\ Sendable(call)
           /\ call.kind # "apply" /\ call.spec = req[p].spec /\ call.id = u
           /\ req[p].action # "create" => u = req[p].uuid
<1>1. /\ req[p] \in Begun /\ req[p].spec \in scope /\ req[p].spec \in Specs
      /\ req[p].action # "create" => req[p].uuid \in Ids
      /\ req[p].action # "delete" => ctl[p].payload \in Body
  BY ScopeSpecs DEF Inv, Local, Formed, Composed, Critical
<1>2. u \in Ids /\ (req[p].action # "create" => u = req[p].uuid)
  BY <1>1 DEF SaveIds
<1>3. CASE req[p].action = "delete"
  BY <1>1, <1>2, <1>3 DEF SaveOps, Op, Sendable
<1>4. CASE req[p].action # "delete"
  <2>1. PICK b \in Generated(ctl[p].payload) :
          call = [kind |-> IF req[p].action = "create" THEN "add" ELSE "set",
                spec |-> req[p].spec, id |-> u, body |-> b]
    BY <1>4 DEF SaveOps
  <2>2. b \in Body /\ b.pub \in Vals
    BY <1>1, <1>4 DEF Generated, Body
  <2> QED
    BY <1>1, <1>2, <2>1, <2>2 DEF Op, Payload, Sendable
<1> QED
  BY <1>3, <1>4

\* A save leaves the other resources, and what runs, alone.
LEMMA SaveNode ==
    ASSUME Inv, NEW p \in Procs, pc[p] = "save", NEW u \in SaveIds(p), NEW call \in SaveOps(p, u), NEW e,
           Executed(call) \/ Ignored \/ FailedPost(call, e)
    PROVE  /\ scope' = scope /\ scope \in Scopes
           /\ conf' \in [scope -> [Ids -> Obj \cup {NoObj}]] /\ run' \in [scope -> [Ids -> Obj \cup {NoObj}]]
           /\ inflight' \subseteq Op /\ \A o \in inflight' : Sendable(o)'
           /\ run' = run
           /\ \A q \in Procs \ {p} : pc[q] \in Critical => conf'[req[q].spec] = conf[req[q].spec]
<1>1. call \in Op /\ Sendable(call) /\ call.kind # "apply" /\ call.spec = req[p].spec
  BY SaveTypes
<1>2. /\ conf' \in [scope -> Objects] /\ run' \in [scope -> Objects] /\ scope' = scope
      /\ inflight' \subseteq Op /\ \A o \in inflight' : Sendable(o)'
      /\ run' = run \/ run' = RunAfter(call)
      /\ \A s \in scope : s # call.spec => conf'[s] = conf[s]
  BY <1>1, PostEffect DEF Inv
<1>3. run' = run
  BY <1>1, <1>2 DEF RunAfter
<1>4. \A q \in Procs \ {p} : pc[q] \in Critical => req[q].spec \in scope /\ req[q].spec # call.spec
  BY <1>1, OthersElsewhere DEF Inv, Local, Formed, Critical
<1> QED
  BY <1>2, <1>3, <1>4 DEF Objects, Inv, TypeOK

LEMMA UsedType ==
    ASSUME TypeOK, NEW s \in scope, NEW u \in Ids, used' = [used EXCEPT ![s] = @ \cup {u}]
    PROVE  used' \in [scope -> SUBSET Ids]
BY DEF TypeOK

LEMMA AcknowledgedSave ==
    ASSUME Inv, NEW p \in Procs, Save(p), NEW u \in SaveIds(p), NEW call \in SaveOps(p, u),
           used' = [used EXCEPT ![req[p].spec] = @ \cup {u}],
           Executed(call) \/ Ignored,
           req' = [req EXCEPT ![p].uuid = u],
           Goto(p, IF Saved(req[p].spec) THEN "verify" ELSE "apply"),
           UNCHANGED res
    PROVE  Inv' /\ Alone(p)
<1> DEFINE s == req[p].spec
<1>1. pc[p] = "save" /\ Touch(p) /\ UNCHANGED <<locks, audit, ctl, foreign, env>>
  BY DEF Save
<1>2. /\ scope' = scope /\ scope \in Scopes
      /\ conf' \in [scope -> [Ids -> Obj \cup {NoObj}]] /\ run' \in [scope -> [Ids -> Obj \cup {NoObj}]]
      /\ inflight' \subseteq Op /\ \A o \in inflight' : Sendable(o)'
      /\ run' = run
      /\ \A q \in Procs \ {p} : pc[q] \in Critical => conf'[req[q].spec] = conf[req[q].spec]
  BY <1>1, SaveNode
<1>3. u \in Ids /\ req[p] \in Begun /\ s \in scope /\ Formed(p) /\ Holds(p)
  BY <1>1, SaveTypes DEF Inv, Local, Formed, Critical
<1>4. /\ req'[p] = [req[p] EXCEPT !.uuid = u] /\ req'[p] \in Begun
      /\ req' \in [Procs -> Request] /\ \A q \in Procs \ {p} : req'[q] = req[q]
  <2>1. [req[p] EXCEPT !.uuid = u] \in Begun
    BY <1>3 DEF Begun
  <2>2. req \in [Procs -> Request]
    BY DEF Inv, TypeOK
  <2>3. [req[p] EXCEPT !.uuid = u] \in Request
    BY <2>1 DEF Begun, Request
  <2> QED
    BY <2>1, <2>2, <2>3
<1>5. /\ req'[p].spec = s /\ req'[p].action = req[p].action /\ req'[p].values = req[p].values
      /\ req'[p].uuid = u
  BY <1>3, <1>4 DEF Begun
<1>6. /\ pc' \in [Procs -> Stages] /\ pc'[p] = (IF Saved(s) THEN "verify" ELSE "apply")
      /\ \A q \in Procs \ {p} : pc'[q] = pc[q]
  BY DEF Goto, Inv, TypeOK, Stages, Critical
<1>7. used' \in [scope -> SUBSET Ids] /\ touched' \subseteq Procs /\ \A q \in Procs \ {p} : q \in touched' <=> q \in touched
  BY <1>1, <1>3, UsedType DEF Touch, Inv, TypeOK
<1>8. TypeOK'
  BY <1>1, <1>2, <1>4, <1>6, <1>7 DEF Inv, TypeOK
<1>9. Formed(p)' /\ Holds(p)'
  <2>1. req[p].action # "delete" => Composed(p)'
    BY <1>1, <1>3, <1>5 DEF Formed, Composed
  <2> QED
    BY <1>1, <1>2, <1>3, <1>4, <1>5, <1>6, <2>1 DEF Formed, Holds, Critical
<1>10. OnRecord(p)' /\ Reported(p)'
  BY <1>1, <1>6 DEF Inv, Local, OnRecord, Reported, Declared
<1>11. Content(p)'
  <2>1. Live(p)' /\ Fresh(p)' /\ Met(p)'
    BY <1>5, <1>6 DEF Live, Fresh, Met
  <2>2. Scanned(p)'
    <3>1. Present(s)' \in SUBSET Ids
      BY DEF Present
    <3>2. ctl'[p].page = 1 /\ ctl'[p].seen = 0
      BY <1>1, <1>3 DEF Formed
    <3> QED
      BY <1>5, <3>1, <3>2, FirstPage DEF Scanned, Before
  <2> QED
    BY <2>1, <2>2 DEF Content
<1>12. Local(p)'
  BY <1>9, <1>10, <1>11 DEF Local
<1>13. Alone(p)
  BY <1>1, <1>2, <1>4, <1>6, <1>7 DEF Alone, Declared
<1> QED
  BY <1>2, <1>8, <1>12, <1>13, Elsewhere

\* A save that failed validation is the only one that is not partial, and it
\* changed nothing.
LEMMA FailedSave ==
    ASSUME Inv, NEW p \in Procs, Save(p), NEW u \in SaveIds(p), NEW call \in SaveOps(p, u), NEW e \in Raised,
           Fail(p, e), UNCHANGED req,
           used' = used \/ used' = [used EXCEPT ![req[p].spec] = @ \cup {u}],
           FailedPost(call, e) \/ (e = "invalid_response" /\ Executed(call))
    PROVE  Inv' /\ Alone(p)
<1>1. pc[p] = "save" /\ Touch(p) /\ UNCHANGED <<locks, audit, ctl, foreign, env>>
  BY DEF Save
<1>2. /\ scope' = scope /\ scope \in Scopes
      /\ conf' \in [scope -> [Ids -> Obj \cup {NoObj}]] /\ run' \in [scope -> [Ids -> Obj \cup {NoObj}]]
      /\ inflight' \subseteq Op /\ \A o \in inflight' : Sendable(o)'
      /\ run' = run
      /\ \A q \in Procs \ {p} : pc[q] \in Critical => conf'[req[q].spec] = conf[req[q].spec]
  BY <1>1, SaveNode
<1>3. u \in Ids /\ req[p].spec \in scope
  BY <1>1, SaveTypes DEF Inv, Local, Formed, Critical
<1>4. used' \in [scope -> SUBSET Ids] /\ touched' \subseteq Procs /\ \A q \in Procs \ {p} : q \in touched' <=> q \in touched
  BY <1>1, <1>3, UsedType DEF Touch, Inv, TypeOK
<1>5. TypeOK'
  BY <1>1, <1>2, <1>4, FailFacts DEF Inv, TypeOK
<1>6. p \in touched' => res'[p].partial
  <2>1. CASE e = "validation"
    BY <1>1, <2>1 DEF FailedPost, Ignored, Touch, data, Inv, Local, Reported
  <2>2. CASE e # "validation"
    BY <2>2, FailFacts DEF Inv
  <2> QED
    BY <2>1, <2>2
<1>7. Local(p)'
  BY <1>1, <1>2, <1>6, FailFacts, ErrorLocal DEF Inv, Declared
<1>8. Alone(p)
  BY <1>1, <1>2, <1>4, FailFacts DEF Inv, Alone, Declared
<1> QED
  BY <1>2, <1>5, <1>7, <1>8, Elsewhere

\* A save about u that reached the node.
Tried(p, u, call) ==
    /\ used' = [used EXCEPT ![req[p].spec] = @ \cup {u}]
    /\ \/ /\ Executed(call) \/ Ignored
          /\ req' = [req EXCEPT ![p].uuid = u]
          /\ Goto(p, IF Saved(req[p].spec) THEN "verify" ELSE "apply")
          /\ UNCHANGED res
       \/ /\ req[p].action = "create"
          /\ Executed(call)
          /\ Fail(p, "invalid_response")
          /\ UNCHANGED req
       \/ \E e \in Rejections \cup Transport :
            FailedPost(call, e) /\ Fail(p, e) /\ UNCHANGED req

LEMMA SaveInv == ASSUME Inv, NEW p \in Procs, Save(p) PROVE Inv' /\ Alone(p)
<1>1. pc[p] = "save" /\ Touch(p) /\ UNCHANGED <<locks, audit, ctl, foreign, env>>
  BY DEF Save
<1>2. CASE \E e \in Rejections \cup Transport : Ignored /\ Fail(p, e) /\ UNCHANGED <<used, req>>
  <2>1. PICK e \in Raised : Ignored /\ Fail(p, e) /\ UNCHANGED <<used, req>>
    BY <1>2, RaisedFacts
  <2>2. UNCHANGED <<data, history>>
    BY <1>1, <2>1 DEF Ignored, Touch, history
  <2> QED
    BY <1>1, <2>1, <2>2, FailInv
<1>3. CASE \E u \in SaveIds(p) : \E call \in SaveOps(p, u) : Tried(p, u, call)
  <2>1. PICK u \in SaveIds(p) : \E call \in SaveOps(p, u) : Tried(p, u, call)
    BY <1>3
  <2>2. PICK call \in SaveOps(p, u) : Tried(p, u, call)
    BY <2>1
  <2>3. CASE Executed(call) /\ Fail(p, "invalid_response") /\ UNCHANGED req
    <3>1. "invalid_response" \in Raised
      BY DEF Raised
    <3> QED
      BY <2>2, <2>3, <3>1, FailedSave DEF Tried
  <2>4. CASE \E e \in Rejections \cup Transport : FailedPost(call, e) /\ Fail(p, e) /\ UNCHANGED req
    <3>1. PICK e \in Raised : FailedPost(call, e) /\ Fail(p, e) /\ UNCHANGED req
      BY <2>4, RaisedFacts
    <3> QED
      BY <2>2, <3>1, FailedSave DEF Tried
  <2> QED
    BY <2>2, <2>3, <2>4, AcknowledgedSave DEF Tried
<1> QED
  BY <1>2, <1>3 DEF Save, Tried

\* An apply publishes what is stored, and nothing else.
LEMMA ApplyNode ==
    ASSUME Inv, NEW e,
           \/ Executed([kind |-> "apply"]) \/ Ignored \/ FailedPost([kind |-> "apply"], e)
    PROVE  /\ conf' = conf /\ scope' = scope /\ scope \in Scopes
           /\ conf' \in [scope -> [Ids -> Obj \cup {NoObj}]] /\ run' \in [scope -> [Ids -> Obj \cup {NoObj}]]
           /\ inflight' \subseteq Op /\ \A o \in inflight' : Sendable(o)'
           /\ run' = run \/ run' = conf
<1> DEFINE call == [kind |-> "apply"]
<1>1. call \in Op /\ Sendable(call) /\ call.kind = "apply" /\ ConfAfter(call) = conf /\ RunAfter(call) = conf
  BY DEF Op, Sendable, ConfAfter, RunAfter
<1> HIDE DEF call
<1>2. /\ conf' \in [scope -> Objects] /\ run' \in [scope -> Objects] /\ scope' = scope
      /\ inflight' \subseteq Op /\ \A o \in inflight' : Sendable(o)'
      /\ conf' = conf \/ conf' = ConfAfter(call)
      /\ run' = run \/ run' = RunAfter(call)
  BY <1>1, PostEffect DEF Inv, call
<1> QED
  BY <1>1, <1>2 DEF Objects, Inv, TypeOK

LEMMA AcknowledgedApply ==
    ASSUME Inv, NEW p \in Procs, Apply(p), Executed([kind |-> "apply"]), Goto(p, "verify"), UNCHANGED res
    PROVE  Inv' /\ Alone(p)
<1> DEFINE s == req[p].spec
<1>1. pc[p] = "apply" /\ Touch(p) /\ UNCHANGED <<used, locks, audit, req, ctl, foreign, env>>
  BY DEF Apply
<1>2. /\ conf' = conf /\ scope' = scope /\ scope \in Scopes
      /\ conf' \in [scope -> [Ids -> Obj \cup {NoObj}]] /\ run' \in [scope -> [Ids -> Obj \cup {NoObj}]]
      /\ inflight' \subseteq Op /\ \A o \in inflight' : Sendable(o)'
  BY ApplyNode
<1>3. run' = conf
  BY DEF Executed, RunAfter
<1>4. /\ pc' \in [Procs -> Stages] /\ pc'[p] = "verify" /\ \A q \in Procs \ {p} : pc'[q] = pc[q]
  BY DEF Goto, Inv, TypeOK, Stages, Critical
<1>5. touched' \subseteq Procs /\ \A q \in Procs \ {p} : q \in touched' <=> q \in touched
  BY <1>1 DEF Touch, Inv, TypeOK
<1>6. TypeOK'
  BY <1>1, <1>2, <1>4, <1>5 DEF Inv, TypeOK
<1>7. Formed(p)' /\ Holds(p)' /\ OnRecord(p)' /\ Reported(p)'
  <2>1. Composed(p)' = Composed(p)
    BY <1>1 DEF Composed
  <2> QED
    BY <1>1, <1>2, <1>4, <2>1 DEF Inv, Local, Formed, Holds, OnRecord, Reported, Declared, Critical
<1>8. Content(p)'
  <2>1. Live(p)' /\ Fresh(p)' /\ Met(p)'
    BY <1>1, <1>2, <1>3, <1>4 DEF Live, Fresh, Met
  <2>2. Scanned(p)'
    <3>1. Present(s)' \in SUBSET Ids
      BY DEF Present
    <3>2. ctl'[p].page = 1 /\ ctl'[p].seen = 0
      BY <1>1 DEF Inv, Local, Formed
    <3> QED
      BY <1>1, <3>1, <3>2, FirstPage DEF Scanned, Before
  <2> QED
    BY <2>1, <2>2 DEF Content
<1>9. Local(p)'
  BY <1>7, <1>8 DEF Local
<1>10. Alone(p)
  BY <1>1, <1>2, <1>3, <1>4, <1>5 DEF Alone, Declared
<1> QED
  BY <1>2, <1>6, <1>9, <1>10, Elsewhere

LEMMA FailedApply ==
    ASSUME Inv, NEW p \in Procs, Apply(p), NEW e \in Raised, Fail(p, e),
           Ignored \/ FailedPost([kind |-> "apply"], e)
    PROVE  Inv' /\ Alone(p)
<1>1. pc[p] = "apply" /\ Touch(p) /\ UNCHANGED <<used, locks, audit, req, ctl, foreign, env>>
  BY DEF Apply
<1>2. /\ conf' = conf /\ scope' = scope /\ scope \in Scopes
      /\ conf' \in [scope -> [Ids -> Obj \cup {NoObj}]] /\ run' \in [scope -> [Ids -> Obj \cup {NoObj}]]
      /\ inflight' \subseteq Op /\ \A o \in inflight' : Sendable(o)'
      /\ run' = run \/ run' = conf
  BY ApplyNode
<1>3. touched' \subseteq Procs /\ \A q \in Procs \ {p} : q \in touched' <=> q \in touched
  BY <1>1 DEF Touch, Inv, TypeOK
<1>4. TypeOK'
  BY <1>1, <1>2, <1>3, FailFacts DEF Inv, TypeOK
<1>5. Local(p)'
  BY <1>1, <1>2, FailFacts, ErrorLocal DEF Inv, Declared
<1>6. Alone(p)
  BY <1>1, <1>2, <1>3, FailFacts DEF Inv, Alone, Declared
<1> QED
  BY <1>2, <1>4, <1>5, <1>6, Elsewhere

\* A hollow acknowledgement is recognised for every service that gives one, so
\* that the apply of a request that goes on did happen.
LEMMA ApplyInv == ASSUME Inv, NEW p \in Procs, Apply(p) PROVE Inv' /\ Alone(p)
<1>1. CASE Executed([kind |-> "apply"]) /\ Goto(p, "verify") /\ UNCHANGED res
  BY <1>1, AcknowledgedApply
<1>2. CASE /\ Resources[req[p].spec].service \in HollowAck
           /\ Ignored
           /\ IF Acknowledged(req[p].spec)
                THEN Goto(p, "verify") /\ UNCHANGED res
                ELSE Fail(p, "rejected")
  <2>1. req[p].spec \in scope
    BY DEF Apply, Inv, Local, Formed, Critical
  <2>2. ~Acknowledged(req[p].spec)
    BY <1>2, <2>1, CatalogFacts, ScopeSpecs, ConstantsAssumption DEF Inv, Entry, Acknowledged
  <2>3. "rejected" \in Raised
    BY DEF Raised
  <2> QED
    BY <1>2, <2>2, <2>3, FailedApply
<1>3. CASE \E e \in Rejections \cup Transport :
             (Ignored \/ FailedPost([kind |-> "apply"], e)) /\ Fail(p, e)
  <2>1. PICK e \in Raised : (Ignored \/ FailedPost([kind |-> "apply"], e)) /\ Fail(p, e)
    BY <1>3, RaisedFacts
  <2> QED
    BY <2>1, FailedApply
<1> QED
  BY <1>1, <1>2, <1>3 DEF Apply

\* What the read-back compares is what was asked for.
LEMMA MatchesAsked ==
    ASSUME NEW p \in Procs, req[p].action # "delete", req[p].values \in Body, Composed(p), NEW o \in Obj,
           Matches(req[p].spec, req[p].values, ctl[p].payload, Shown(req[p].spec, o))
    PROVE  Asked(p, o)
<1> DEFINE s == req[p].spec
           v == req[p].values
           b == ctl[p].payload
           a == Shown(s, o)
<1>1. o.pub \in Vals /\ o.sec \in Vals /\ o # NoObj /\ Keep \notin Vals
  BY ConstantsAssumption DEF Obj
<1>2. a.pub = o.pub /\ (~WriteOnly(s) => a.sec = o.sec) /\ (WriteOnly(s) => a.sec = Keep)
  BY DEF Shown, Obj
<1>3. /\ b.pub \in Vals \cup {Keep} /\ (v.pub # Keep => b.pub = v.pub) /\ (v.sec # Keep => b.sec = v.sec)
      /\ Hooked(s) => b.sec \in {b.pub, Keep}
  BY DEF Composed, Body, Prepared
<1>4. CASE ~Hooked(s)
  <2>1. (v.pub # Keep => a.pub = b.pub) /\ (v.sec # Keep /\ ~WriteOnly(s) => a.sec = b.sec)
    BY <1>4 DEF Matches
  <2> QED
    BY <1>1, <1>2, <1>3, <1>4, <2>1 DEF Asked
<1>5. CASE Hooked(s)
  <2>1. TrustVerify(b, a)
    BY <1>5 DEF Matches
  <2>2. CASE Generates(b)
    BY <1>1, <1>2, <1>3, <1>5, <2>1, <2>2 DEF TrustVerify, Generates, Asked
  <2>3. CASE ~Generates(b)
    <3>1. a.pub = b.pub /\ (b.sec # Keep => a.sec = a.pub)
      BY <2>1, <2>3 DEF TrustVerify
    <3>2. b.sec # Keep => b.sec = b.pub /\ a.sec = o.sec
      BY <1>1, <1>2, <1>3, <1>5, <3>1
    <3> QED
      BY <1>1, <1>2, <1>3, <1>5, <2>3, <3>1, <3>2 DEF Asked
  <2> QED
    BY <2>2, <2>3
<1> QED
  BY <1>4, <1>5

\* A request that has verified its work goes on to record it.
LEMMA VerifiedInv ==
    ASSUME Inv, NEW p \in Procs, pc[p] = "verify", Goto(p, "record"),
           p \notin foreign => Asked(p, conf[req[p].spec][req[p].uuid]),
           UNCHANGED <<data, used, locks, audit, req, ctl, res, history>>
    PROVE  Inv' /\ Alone(p)
<1>1. /\ pc' \in [Procs -> Stages] /\ pc'[p] = "record" /\ \A q \in Procs \ {p} : pc'[q] = pc[q]
  BY DEF Goto, Inv, TypeOK, Stages, Critical
<1>2. TypeOK'
  BY <1>1, NodeQuiet DEF Inv, TypeOK, history
<1>3. Formed(p)' /\ Holds(p)' /\ OnRecord(p)' /\ Reported(p)'
  <2>1. Composed(p)' = Composed(p)
    BY DEF Composed
  <2> QED
    BY <1>1, <2>1, NodeQuiet DEF Inv, Local, Formed, Holds, OnRecord, Reported, Declared, history, Critical
<1>4. Content(p)'
  <2>1. Asked(p, conf[req[p].spec][req[p].uuid])' = Asked(p, conf[req[p].spec][req[p].uuid])
    BY DEF Asked, data
  <2> QED
    BY <1>1, <2>1 DEF Inv, Local, Content, Fresh, Live, Scanned, Met, data, history
<1>5. Local(p)'
  BY <1>3, <1>4 DEF Local
<1>6. Alone(p)
  BY <1>1, NodeQuiet DEF Alone, data, history, Declared
<1> QED
  BY <1>2, <1>5, <1>6, NodeQuiet, Elsewhere

LEMMA ReadbackInv == ASSUME Inv, NEW p \in Procs, Readback(p) PROVE Inv' /\ Alone(p)
<1> DEFINE s == req[p].spec
           now == conf[s][req[p].uuid]
<1>1. /\ pc[p] = "verify" /\ req[p].action # "delete"
      /\ UNCHANGED <<data, used, locks, audit, req, ctl, history>>
  BY DEF Readback
<1>2. /\ s \in scope /\ req[p].uuid \in Ids /\ req[p].values \in Body /\ Composed(p)
      /\ now \in Obj \cup {NoObj}
  BY <1>1 DEF Inv, TypeOK, Local, Formed, Critical
<1>3. CASE now # NoObj /\ Matches(s, req[p].values, ctl[p].payload, Shown(s, now)) /\ Goto(p, "record")
           /\ UNCHANGED res
  <2>1. Asked(p, now)
    BY <1>1, <1>2, <1>3, MatchesAsked
  <2> QED
    BY <1>1, <1>3, <2>1, VerifiedInv
<1>4. CASE \E e \in Raised : Fail(p, e)
  BY <1>1, <1>4, FailInv
<1>5. Transport \cup {"unverified", "invalid_response"} \subseteq Raised
  BY DEF Transport, Raised
<1> QED
  BY <1>3, <1>4, <1>5 DEF Readback

\* The last page of the scan: all rows were seen, and the object was not among them.
LEMMA ScanEnds ==
    ASSUME Inv, NEW p \in Procs, pc[p] = "verify", req[p].action = "delete", p \notin foreign,
           req[p].uuid \notin Page(req[p].spec, ctl[p].page),
           Complete(req[p].spec, ctl[p].seen + Cardinality(Page(req[p].spec, ctl[p].page)))
    PROVE  conf[req[p].spec][req[p].uuid] = NoObj
<1> DEFINE s == req[p].spec
           k == ctl[p].page
           P == Present(s)
<1>1. P \in SUBSET Ids /\ k \in Nat /\ req[p].uuid \in Ids
  BY ConstantsAssumption DEF Present, Inv, TypeOK, Control, Local, Formed
<1>2. Page(s, k) = PageIn(P, k)
  BY DEF Page, PageIn, Rank, RankIn
<1>3. ctl[p].seen = Cardinality(BeforeIn(P, k)) /\ req[p].uuid \notin BeforeIn(P, k)
  BY DEF Inv, Local, Content, Scanned, Before
<1> HIDE DEF P, k
<1>4. Cardinality(BeforeIn(P, k + 1)) >= Cardinality(P)
  BY <1>1, <1>2, <1>3, NextPage DEF Complete, P, k
<1>5. BeforeIn(P, k + 1) = P
  BY <1>1, <1>4, AllSeen
<1>6. req[p].uuid \notin P
  BY <1>1, <1>2, <1>3, <1>5, NextPage DEF k
<1> QED
  BY <1>1, <1>6 DEF P, Present

LEMMA NextPageInv ==
    ASSUME Inv, NEW p \in Procs, pc[p] = "verify", req[p].action = "delete", ctl[p].page < MaxPages,
           req[p].uuid \notin Page(req[p].spec, ctl[p].page),
           ctl' = [ctl EXCEPT ![p].page = ctl[p].page + 1,
                              ![p].seen = ctl[p].seen + Cardinality(Page(req[p].spec, ctl[p].page))],
           UNCHANGED <<data, used, locks, audit, pc, req, res, history>>
    PROVE  Inv' /\ Alone(p)
<1> DEFINE s == req[p].spec
           k == ctl[p].page
           P == Present(s)
<1>1. P \in SUBSET Ids /\ k \in Nat /\ k \in 1 .. MaxPages /\ ctl[p].seen \in Nat
  BY ConstantsAssumption DEF Present, Inv, TypeOK, Control
<1>2. Page(s, k) = PageIn(P, k) /\ Cardinality(PageIn(P, k)) \in Nat
  BY <1>1, NextPage DEF Page, PageIn, Rank, RankIn
<1>3. /\ ctl' \in [Procs -> Control] /\ \A q \in Procs \ {p} : ctl'[q] = ctl[q]
      /\ ctl'[p].page = k + 1 /\ ctl'[p].seen = ctl[p].seen + Cardinality(PageIn(P, k))
      /\ ctl'[p].payload = ctl[p].payload
  <2> DEFINE next == k + 1
             count == ctl[p].seen + Cardinality(PageIn(P, k))
             d == [ctl EXCEPT ![p].page = next, ![p].seen = count]
  <2>1. next \in 1 .. MaxPages /\ count \in Nat
    BY <1>1, <1>2, ConstantsAssumption
  <2>2. ctl \in [Procs -> Control]
    BY DEF Inv, TypeOK
  <2>3. ctl' = d
    BY <1>2
  <2> HIDE DEF next, count, P, k
  <2>4. /\ d \in [Procs -> Control] /\ \A q \in Procs \ {p} : d[q] = ctl[q]
        /\ d[p].page = next /\ d[p].seen = count /\ d[p].payload = ctl[p].payload
    BY <2>1, <2>2 DEF Control
  <2> QED
    BY <2>3, <2>4 DEF next, count
<1>4. TypeOK'
  BY <1>3, NodeQuiet DEF Inv, TypeOK, history
<1>5. Formed(p)' /\ Holds(p)' /\ OnRecord(p)' /\ Reported(p)'
  BY NodeQuiet DEF Inv, Local, Formed, Holds, OnRecord, Reported, Declared, history, Critical
<1>6. Content(p)'
  <2>1. P' = P
    BY DEF Present, data
  <2>2. p \notin foreign => /\ ctl[p].seen = Cardinality(BeforeIn(P, k))
                            /\ req[p].uuid \notin BeforeIn(P, k) /\ req[p].uuid \notin PageIn(P, k)
    BY <1>2 DEF Inv, Local, Content, Scanned, Before
  <2>3. p \notin foreign => /\ ctl'[p].seen = Cardinality(BeforeIn(P, k + 1))
                            /\ req[p].uuid \notin BeforeIn(P, k + 1)
    <3> HIDE DEF P, k
    <3> QED
      BY <1>1, <1>3, <2>2, NextPage
  <2>4. Live(p) => Live(p)'
    BY DEF Live, data
  <2> QED
    BY <1>3, <2>1, <2>3, <2>4 DEF Inv, Local, Content, Fresh, Scanned, Met, Before, history
<1>7. Local(p)'
  BY <1>5, <1>6 DEF Local
<1>8. Alone(p)
  BY <1>3, NodeQuiet DEF Alone, data, history, Declared
<1> QED
  BY <1>4, <1>7, <1>8, NodeQuiet, Elsewhere

LEMMA ScanPageInv == ASSUME Inv, NEW p \in Procs, ScanPage(p) PROVE Inv' /\ Alone(p)
<1> DEFINE s == req[p].spec
           k == ctl[p].page
           rows == Page(s, k)
           seen == ctl[p].seen + Cardinality(rows)
<1>1. /\ pc[p] = "verify" /\ req[p].action = "delete"
      /\ UNCHANGED <<data, used, locks, audit, req, history>>
  BY DEF ScanPage
<1>2. CASE UNCHANGED ctl /\ \E e \in Raised : Fail(p, e)
  BY <1>1, <1>2, FailInv
<1>3. CASE req[p].uuid \notin rows /\ Complete(s, seen) /\ Goto(p, "record") /\ UNCHANGED <<ctl, res>>
  <2>1. p \notin foreign => Asked(p, conf[s][req[p].uuid])
    BY <1>1, <1>3, ScanEnds DEF Asked
  <2> QED
    BY <1>1, <1>3, <2>1, VerifiedInv
<1>4. CASE /\ req[p].uuid \notin rows /\ k < MaxPages
           /\ ctl' = [ctl EXCEPT ![p].page = k + 1, ![p].seen = seen]
           /\ UNCHANGED <<pc, res>>
  BY <1>1, <1>4, NextPageInv
<1>5. Transport \cup {"unverified"} \subseteq Raised
  BY DEF Transport, Raised
<1> QED
  BY <1>2, <1>3, <1>4, <1>5 DEF ScanPage

LEMMA EndInv ==
    ASSUME Inv, NEW p \in Procs, pc[p] \in {"record", "error"}, Return(p),
           res' \in [Procs -> Result], \A q \in Procs \ {p} : res'[q] = res[q],
           p \in touched => res'[p].ok \/ res'[p].partial,
           audit' \subseteq Procs \X {"started", "ok", "error"},
           \A q \in Procs \ {p} : Declared(q)' = Declared(q),
           UNCHANGED <<data, used, history>>
    PROVE  Inv' /\ Alone(p)
<1>1. pc[p] \in Critical
  BY DEF Critical
<1>2. TypeOK'
  BY <1>1, ReturnFacts, NodeQuiet DEF Inv, TypeOK, history
<1>3. Local(p)'
  BY <1>1, ReturnFacts, DoneLocal DEF history
<1>4. Alone(p)
  BY <1>1, ReturnFacts, NodeQuiet DEF Alone, data, history
<1> QED
  BY <1>2, <1>3, <1>4, NodeQuiet, Elsewhere

LEMMA RecordInv == ASSUME Inv, NEW p \in Procs, Record(p) PROVE Inv' /\ Alone(p)
<1>1. pc[p] = "record" /\ UNCHANGED <<data, used, history>>
  BY DEF Record
<1>2. CASE /\ audit' = audit \cup {<<p, "ok">>}
           /\ res' = [res EXCEPT ![p].ok = TRUE]
           /\ Return(p)
  <2>1. res' \in [Procs -> Result] /\ res'[p].ok /\ \A q \in Procs \ {p} : res'[q] = res[q]
    BY <1>2 DEF Inv, TypeOK, Result
  <2>2. /\ audit' \subseteq Procs \X {"started", "ok", "error"}
        /\ \A q \in Procs \ {p} : Declared(q)' = Declared(q)
    BY <1>2 DEF Inv, TypeOK, Declared
  <2> QED
    BY <1>1, <1>2, <2>1, <2>2, EndInv
<1>3. CASE Fail(p, "audit") /\ UNCHANGED <<audit, locks, req, ctl>>
  BY <1>1, <1>3, FailInv DEF Raised
<1> QED
  BY <1>2, <1>3 DEF Record

LEMMA ErrorInv == ASSUME Inv, NEW p \in Procs, Error(p) PROVE Inv' /\ Alone(p)
<1>1. pc[p] = "error" /\ Return(p) /\ UNCHANGED <<data, used, history>>
  BY DEF Error
<1>2. /\ res' \in [Procs -> Result] /\ \A q \in Procs \ {p} : res'[q] = res[q]
      /\ res'[p].ok = res[p].ok /\ res'[p].partial = res[p].partial
  <2>1. res \in [Procs -> Result]
    BY DEF Inv, TypeOK
  <2>2. CASE UNCHANGED res
    BY <2>1, <2>2
  <2>3. CASE Unrecorded(p)
    BY <2>1, <2>3 DEF Unrecorded, Result
  <2> QED
    BY <2>2, <2>3 DEF Error
<1>3. /\ audit' \subseteq Procs \X {"started", "ok", "error"}
      /\ \A q \in Procs \ {p} : Declared(q)' = Declared(q)
  BY DEF Error, Inv, TypeOK, Declared
<1>4. p \in touched => res'[p].ok \/ res'[p].partial
  BY <1>1, <1>2 DEF Inv, Local, Reported
<1> QED
  BY <1>1, <1>2, <1>3, <1>4, EndInv

-----------------------------------------------------------------------------
(* Everybody else *)

\* Whoever writes from outside marks every request that is under way.
LEMMA OutsideInv ==
    ASSUME Inv, TypeOK', scope' = scope, \A call \in inflight' : Sendable(call)',
           UNCHANGED <<locks, audit, pc, req, ctl, res, touched>>, Disturb
    PROVE  Inv'
<1>1. ASSUME NEW p \in Procs PROVE Local(p)'
  <2>1. pc[p] \in Critical => p \in foreign'
    BY DEF Disturb
  <2>2. Composed(p)' = Composed(p)
    BY DEF Composed
  <2>3. Formed(p)' /\ Holds(p)' /\ OnRecord(p)' /\ Reported(p)'
    BY <2>2 DEF Inv, Local, Formed, Holds, OnRecord, Reported, Declared
  <2>4. Content(p)'
    BY <2>1, NoneForeign DEF Content, Critical
  <2> QED
    BY <2>3, <2>4 DEF Local
<1> QED
  BY <1>1 DEF Inv

LEMMA InterveneType == ASSUME TypeOK, Intervene PROVE env' \in 0 .. MaxEnv
BY ConstantsAssumption DEF Intervene, TypeOK

LEMMA ExternalWriteInv == ASSUME Inv, ExternalWrite PROVE Inv'
<1>1. PICK s \in scope, u \in Ids : \E o \in ObjectsOf(s) \cup {NoObj} :
        conf' = [conf EXCEPT ![s][u] = o] /\ used' = [used EXCEPT ![s] = @ \cup {u}]
  BY DEF ExternalWrite
<1>2. PICK o \in Obj \cup {NoObj} : conf' = [conf EXCEPT ![s][u] = o]
  BY <1>1 DEF ObjectsOf
<1>3. /\ scope' = scope /\ conf' \in [scope -> [Ids -> Obj \cup {NoObj}]]
      /\ used' \in [scope -> SUBSET Ids]
  BY <1>1, <1>2 DEF scope, Inv, TypeOK
<1>4. env' \in 0 .. MaxEnv /\ foreign' \subseteq Procs
  BY InterveneType DEF ExternalWrite, Disturb, Inv, TypeOK
<1>5. TypeOK'
  BY <1>3, <1>4 DEF ExternalWrite, Inv, TypeOK
<1>6. \A call \in inflight' : Sendable(call)'
  BY <1>3 DEF ExternalWrite, Inv, Sendable
<1> QED
  BY <1>3, <1>5, <1>6, OutsideInv DEF ExternalWrite

LEMMA LateExecutionInv == ASSUME Inv, LateExecution PROVE Inv'
<1>1. PICK call \in inflight :
        /\ inflight' = inflight \ {call}
        /\ IF Possible(call) THEN conf' = ConfAfter(call) /\ run' = RunAfter(call) ELSE UNCHANGED <<conf, run>>
  BY DEF LateExecution
<1>2. call \in Op /\ Sendable(call)
  BY DEF Inv, TypeOK
<1>3. ConfAfter(call) \in [scope -> Objects] /\ RunAfter(call) \in [scope -> Objects]
  BY <1>2, ExecutionTypes DEF Inv
<1>4. conf' \in [scope -> Objects] /\ run' \in [scope -> Objects]
  BY <1>1, <1>3 DEF Inv, TypeOK, Objects
<1>5. scope' = scope
  BY <1>4 DEF scope
<1>6. TypeOK'
  BY <1>1, <1>4, <1>5 DEF LateExecution, Disturb, Inv, TypeOK, Objects
<1>7. \A o \in inflight' : Sendable(o)'
  BY <1>1, <1>5 DEF Inv, Sendable
<1> QED
  BY <1>5, <1>6, <1>7, OutsideInv DEF LateExecution

LEMMA DieInv == ASSUME Inv, Intervene, Die PROVE Inv'
<1>1. Die
  OBVIOUS
<1>2. /\ pc' \in [Procs -> Stages]
      /\ \A p \in Procs : (pc'[p] \in {"idle", "done"} /\ pc'[p] = pc[p]) \/ pc'[p] = "crashed"
  BY <1>1 DEF Die, Inv, TypeOK, Stages
<1>3. req' \in [Procs -> Request] /\ ctl' \in [Procs -> Control] /\ \A p \in Procs : ctl'[p] = NoControl
  BY <1>1, InitialTypes DEF Die, Request
<1>4. env' \in 0 .. MaxEnv
  BY InterveneType DEF Inv
<1>5. TypeOK'
  BY <1>1, <1>2, <1>3, <1>4, NodeQuiet DEF Die, Inv, TypeOK
<1>6. ASSUME NEW p \in Procs PROVE Local(p)'
  BY <1>1, <1>2, <1>3, NoneForeign
     DEF Die, Inv, Local, Formed, Holds, OnRecord, Reported, Declared, NoControl, Critical
<1> QED
  BY <1>1, <1>5, <1>6, NodeQuiet DEF Die, Inv

LEMMA CrashInv == ASSUME Inv, Crash PROVE Inv'
BY DieInv DEF Crash

LEMMA StutterInv == ASSUME Inv, UNCHANGED vars PROVE Inv'
<1>1. TypeOK'
  BY NodeQuiet DEF vars, data, Inv, TypeOK
<1>2. UNCHANGED data
  BY DEF vars, data
<1>3. ASSUME NEW p \in Procs PROVE Local(p)'
  <2>1. Composed(p)' = Composed(p) /\ Asked(p, conf[req[p].spec][req[p].uuid])' = Asked(p, conf[req[p].spec][req[p].uuid])
    BY DEF vars, Composed, Asked
  <2>2. Before(req[p].spec, ctl[p].page)' = Before(req[p].spec, ctl[p].page)
    BY DEF vars, Before, Present
  <2>3. Formed(p)' /\ Holds(p)' /\ OnRecord(p)' /\ Reported(p)'
    BY <1>2, <2>1, NodeQuiet DEF vars, Inv, Local, Formed, Holds, OnRecord, Reported, Declared
  <2>4. Content(p)'
    BY <2>1, <2>2 DEF vars, Inv, Local, Content, Fresh, Live, Scanned, Met
  <2> QED
    BY <2>3, <2>4 DEF Local
<1> QED
  BY <1>1, <1>2, <1>3, NodeQuiet DEF Inv

LEMMA RequestInv ==
    ASSUME Inv, NEW p \in Procs, Begin(p) \/ Refuse(p) \/ Step(p)
    PROVE  Inv' /\ Alone(p)
BY BeginInv, RefuseInv, AcquireInv, ReadInv, StartInv, SaveInv, ApplyInv, ReadbackInv, ScanPageInv,
   RecordInv, ErrorInv DEF Step

LEMMA NextInv == ASSUME Inv, [Next]_vars PROVE Inv'
BY RequestInv, ExternalWriteInv, LateExecutionInv, CrashInv, StutterInv DEF Next, Done

\* Reachable states satisfy the inductive invariant.
THEOREM Invariant == Spec => []Inv
BY InitInv, NextInv, PTL DEF Spec

\* Every reachable state is well formed: what is stored and what runs are objects
\* of the service, whatever POSTs are late, failed or acknowledged in vain.
THEOREM TypeCorrect == Spec => []TypeOK
<1>1. Inv => TypeOK
  BY DEF Inv
<1> QED
  BY <1>1, Invariant, PTL

\* _LOCKS admits one request per resource between its read and its answer.
MutualExclusion ==
    \A p, q \in Procs :
        pc[p] \in Critical /\ pc[q] \in Critical /\ req[p].spec = req[q].spec => p = q

\* Two requests for one resource never meet between their lock and their answer.
THEOREM Exclusive == Spec => []MutualExclusion
<1>1. Inv => MutualExclusion
  BY OthersElsewhere DEF MutualExclusion
<1> QED
  BY <1>1, Invariant, PTL

\* An error without "partial" left the node alone (the except clause of _mutate).
THEOREM HonestPartial == Spec => []PartialIsHonest
<1>1. Inv => PartialIsHonest
  BY DEF Inv, Local, Reported, PartialIsHonest
<1> QED
  BY <1>1, Invariant, PTL

\* What ManagementService.mutate is about to answer ok is stored, and running
\* unless the resource is only saved, or others wrote meanwhile.
THEOREM TrueOk == Spec => []OkIsTrue
<1>1. ASSUME Inv, NEW p \in Procs, pc[p] = "record", p \notin foreign
      PROVE  LET s == req[p].spec
                 u == req[p].uuid
             IN Asked(p, conf[s][u]) /\ (~Saved(s) => Asked(p, run[s][u]))
  BY <1>1 DEF Inv, Local, Content, Met, Live
<1>2. Inv => OkIsTrue
  BY <1>1 DEF OkIsTrue
<1> QED
  BY <1>2, Invariant, PTL

-----------------------------------------------------------------------------
(* No update is lost *)

\* Only a request's own save takes it out of that stage while the process lives.
LEMMA SavesItself ==
    ASSUME Inv, Next, NEW p \in Procs, Posts(p)
    PROVE  Save(p)
<1>1. ASSUME NEW q \in Procs, Begin(q) \/ Refuse(q) \/ Step(q) PROVE Save(p)
  <2>1. q = p
    BY <1>1, RequestInv DEF Alone, Posts
  <2> QED
    BY <1>1, <2>1 DEF Posts, Begin, Refuse, Step, Acquire, Read, Start, Apply, Readback, ScanPage,
                      Record, Error
<1>2. CASE Crash
  BY <1>2 DEF Crash, Die, Posts
<1> QED
  BY <1>1, <1>2 DEF Next, ExternalWrite, LateExecution, Done, vars, Posts

\* What is stored of an update that was merged into what its request had read.
LEMMA MergedStored ==
    ASSUME NEW s, NEW values \in Body, NEW old \in Obj, ~Hooked(s),
           NEW payload, payload = Merged(values, Shown(s, old)),
           NEW body \in Generated(payload)
    PROVE  /\ values.pub = Keep => Stored(old, body).pub = old.pub
           /\ values.sec = Keep => Stored(old, body).sec = old.sec
<1>1. old.pub \in Vals /\ old.sec \in Vals /\ Keep \notin Vals /\ old # NoObj
  BY ConstantsAssumption DEF Obj
<1>2. /\ Shown(s, old).pub = old.pub
      /\ Shown(s, old).sec \in {Keep, old.sec}
  BY DEF Shown, Obj
<1>3. payload = [pub |-> IF values.pub = Keep THEN Shown(s, old).pub ELSE values.pub,
                 sec |-> IF values.sec = Keep THEN Shown(s, old).sec ELSE values.sec]
  BY DEF Merged
<1>4. payload.pub # Keep
  BY <1>1, <1>2, <1>3
<1>5. body = payload
  BY <1>4 DEF Generated
<1> QED
  BY <1>1, <1>2, <1>3, <1>5 DEF Stored

\* The lock, the revision and the merge together: nothing that somebody else wrote
\* through the engine, and no field that the request does not name, is overwritten.
THEOREM UpdatesStay == Spec => NoLostUpdate
<1> DEFINE Kept(p) ==
      Posts(p) /\ conf' # conf /\ p \notin foreign /\ req[p].action # "create" =>
        LET s == req[p].spec
            old == conf[s][req[p].uuid]
            new == conf'[s][req[p].uuid]
        IN /\ Shown(s, old) = req[p].rev
           /\ new # NoObj /\ ~Hooked(s) => /\ req[p].values.pub = Keep => new.pub = old.pub
                                           /\ req[p].values.sec = Keep => new.sec = old.sec
<1>1. ASSUME Inv, Next, NEW p \in Procs PROVE Kept(p)
  <2> DEFINE s == req[p].spec
             u == req[p].uuid
             old == conf[s][u]
             new == conf'[s][u]
  <2>1. SUFFICES ASSUME Posts(p), conf' # conf, p \notin foreign, req[p].action # "create"
                 PROVE  /\ Shown(s, old) = req[p].rev
                        /\ new # NoObj /\ ~Hooked(s) => /\ req[p].values.pub = Keep => new.pub = old.pub
                                                        /\ req[p].values.sec = Keep => new.sec = old.sec
    OBVIOUS
  <2>2. pc[p] = "save" /\ Save(p)
    BY <1>1, <2>1, SavesItself DEF Posts
  <2>3. Fresh(p) /\ s \in scope /\ u \in Ids /\ (req[p].action # "delete" => req[p].values \in Body)
    BY <1>1, <2>1, <2>2 DEF Inv, Local, Formed, Content, Critical
  <2>4. Shown(s, old) = req[p].rev /\ old \in Obj
    BY <2>1, <2>2, <2>3 DEF Fresh
  <2>5. \E v \in SaveIds(p) : \E call \in SaveOps(p, v) : conf' = ConfAfter(call)
    BY <2>1, <2>2 DEF Save, Executed, FailedPost, Ignored, Delayed, data
  <2>6. PICK call \in SaveOps(p, u) : conf' = ConfAfter(call)
    BY <2>1, <2>5 DEF SaveIds
  <2>7. ASSUME new # NoObj, ~Hooked(s)
        PROVE  /\ req[p].values.pub = Keep => new.pub = old.pub
               /\ req[p].values.sec = Keep => new.sec = old.sec
    <3>1. conf \in [scope -> [Ids -> Obj \cup {NoObj}]]
      BY <1>1 DEF Inv, TypeOK
    <3>2. req[p].action # "delete"
      <4>1. SUFFICES ASSUME req[p].action = "delete" PROVE FALSE
        OBVIOUS
      <4>2. call = [kind |-> "del", spec |-> s, id |-> u]
        BY <2>6, <4>1 DEF SaveOps
      <4>3. conf' = [conf EXCEPT ![s][u] = NoObj]
        BY <2>6, <4>2 DEF ConfAfter
      <4> QED
        BY <2>3, <2>7, <3>1, <4>3
    <3>3. PICK b \in Generated(ctl[p].payload) : call = [kind |-> "set", spec |-> s, id |-> u, body |-> b]
      BY <2>1, <2>6, <3>2 DEF SaveOps
    <3>4. conf' = [conf EXCEPT ![s][u] = Stored(old, b)]
      BY <2>6, <3>3 DEF ConfAfter
    <3>5. new = Stored(old, b)
      BY <2>3, <3>1, <3>4
    <3>6. req[p].action = "update"
      BY <1>1, <2>1, <2>2, <3>2 DEF Inv, Local, Formed, Begun, Critical
    <3>7. ctl[p].payload = Merged(req[p].values, Shown(s, old))
      BY <2>2, <2>3, <2>4, <2>7, <3>6 DEF Fresh
    <3> QED
      BY <2>3, <2>4, <2>7, <3>2, <3>5, <3>7, MergedStored
  <2> QED
    BY <2>4, <2>7
<1>2. Inv /\ [Next]_vars => [\A p \in Procs : Kept(p)]_vars
  BY <1>1
<1> QED
  BY <1>2, Invariant, PTL DEF Spec, NoLostUpdate

-----------------------------------------------------------------------------
(* The scan for a deleted object *)

LEMMA ScanDecides ==
    ASSUME Inv, NEW p \in Procs, pc[p] = "verify", req[p].action = "delete", p \notin foreign,
           Cardinality(Present(req[p].spec)) <= PageSize * MaxPages,
           ~Complete(req[p].spec, ctl[p].seen + Cardinality(Page(req[p].spec, ctl[p].page)))
    PROVE  Cardinality(Page(req[p].spec, ctl[p].page)) = PageSize /\ ctl[p].page < MaxPages
<1> DEFINE s == req[p].spec
           k == ctl[p].page
           P == Present(s)
           n == Cardinality(P)
<1>1. /\ P \in SUBSET Ids /\ n \in Nat
      /\ k \in Nat \ {0} /\ k <= MaxPages /\ MaxPages \in Nat /\ PageSize \in Nat \ {0}
  BY FiniteListing, ConstantsAssumption DEF Present, Inv, TypeOK, Control
<1>2. Page(s, k) = PageIn(P, k)
  BY DEF Page, PageIn, Rank, RankIn
<1>3. ctl[p].seen = Cardinality(BeforeIn(P, k))
  BY DEF Inv, Local, Content, Scanned, Before
<1>4. Cardinality(BeforeIn(P, k + 1)) < n
  <2> HIDE DEF P, k
  <2>1. /\ Cardinality(BeforeIn(P, k + 1)) = Cardinality(BeforeIn(P, k)) + Cardinality(PageIn(P, k))
        /\ Cardinality(BeforeIn(P, k)) \in Nat /\ Cardinality(PageIn(P, k)) \in Nat
    BY <1>1, NextPage
  <2>2. /\ Cardinality(BeforeIn(P, k + 1)) = ctl[p].seen + Cardinality(Page(s, k))
        /\ Cardinality(BeforeIn(P, k + 1)) \in Nat
    BY <1>2, <1>3, <2>1
  <2> QED
    BY <1>1, <2>2 DEF Complete, P, k
<1> HIDE DEF P, k
<1>5. k * PageSize < n
  <2>1. CASE n <= k * PageSize
    <3>1. BeforeIn(P, k + 1) = P
      BY <1>1, <2>1, LastPage
    <3> QED
      BY <1>1, <1>4, <3>1
  <2> QED
    BY <1>1, <2>1
<1>6. Cardinality(PageIn(P, k)) = PageSize
  BY <1>1, <1>5, FullPage
<1>7. n <= PageSize * MaxPages
  BY DEF P
<1>8. k # MaxPages
  <2>1. k = MaxPages => k * PageSize = PageSize * MaxPages
    BY <1>1
  <2> QED
    BY <1>1, <1>5, <1>7, <2>1
<1> QED
  BY <1>1, <1>2, <1>6, <1>8 DEF P, k

LEMMA ScanAlone ==
    ASSUME Inv, Next, NEW p \in Procs, pc[p] = "verify", req[p].action = "delete", pc'[p] = "error"
    PROVE  ScanPage(p)
<1>1. ASSUME NEW q \in Procs, Begin(q) \/ Refuse(q) \/ Step(q) PROVE ScanPage(p)
  <2>1. q = p
    BY <1>1, RequestInv DEF Alone
  <2> QED
    BY <1>1, <2>1 DEF Begin, Refuse, Step, Acquire, Read, Start, Save, Apply, Readback, Record, Error
<1>2. CASE Crash
  BY <1>2 DEF Crash, Die
<1> QED
  BY <1>1, <1>2 DEF Next, ExternalWrite, LateExecution, Done, vars

\* A deletion that did remove the object is not reported unverified because of the
\* paging: a page is short only where the listing ends (_verify_absent).
THEOREM ScanEndsWell == Spec => ScanFindsEnd
<1> DEFINE Found(p) ==
      pc[p] = "verify" /\ req[p].action = "delete" /\ pc'[p] = "error" /\ p \notin foreign
      /\ conf[req[p].spec][req[p].uuid] = NoObj
      /\ Cardinality(Present(req[p].spec)) <= PageSize * MaxPages
        => res'[p].error # "unverified"
<1>1. ASSUME Inv, Next, NEW p \in Procs PROVE Found(p)
  <2> DEFINE s == req[p].spec
             k == ctl[p].page
             rows == Page(s, k)
             seen == ctl[p].seen + Cardinality(rows)
  <2>1. SUFFICES ASSUME pc[p] = "verify", req[p].action = "delete", pc'[p] = "error", p \notin foreign,
                        conf[s][req[p].uuid] = NoObj, Cardinality(Present(s)) <= PageSize * MaxPages
                 PROVE  res'[p].error # "unverified"
    OBVIOUS
  <2>2. ScanPage(p)
    BY <1>1, <2>1, ScanAlone
  <2>3. req[p].uuid \notin rows
    BY <2>1 DEF Page, Present
  <2>4. ~Complete(s, seen) => Cardinality(rows) = PageSize /\ k < MaxPages
    BY <1>1, <2>1, ScanDecides
  <2>5. PageSize \in Nat /\ MaxPages \in Nat /\ k \in Nat /\ pc \in [Procs -> Stages] /\ res \in [Procs -> Result]
    BY <1>1, ConstantsAssumption DEF Inv, TypeOK, Control
  <2>6. ~(pc' = [pc EXCEPT ![p] = "record"]) /\ pc' # pc
    BY <2>1, <2>5
  <2>7. \E e \in Transport : Fail(p, e)
    BY <2>2, <2>3, <2>4, <2>5, <2>6 DEF ScanPage, Goto
  <2>8. PICK e \in {"auth", "timeout", "upstream"} : Fail(p, e)
    BY <2>7 DEF Transport
  <2>9. ErrorOf(e) # "unverified" /\ res' = [res EXCEPT ![p].error = ErrorOf(e), ![p].partial = Partial(p, e)]
    BY <2>8 DEF ErrorOf, Fail
  <2> HIDE DEF rows, seen, k, s
  <2>10. res'[p].error = ErrorOf(e)
    BY <2>5, <2>9 DEF Result
  <2> QED
    BY <2>9, <2>10
<1>2. Inv /\ [Next]_vars => [\A p \in Procs : Found(p)]_vars
  BY <1>1
<1> QED
  BY <1>2, Invariant, PTL DEF Spec, ScanFindsEnd

-----------------------------------------------------------------------------
(* Every stored change that is not running has an owner *)

\* A request that has failed after it touched the node, and that will say so.
Lapsed(p) == p \in touched /\ (pc[p] = "error" \/ (pc[p] = "done" /\ ~res[p].ok))
Owes(p) == Lapsed(p) \/ (p \in touched /\ pc[p] = "apply")

Pending == \E s \in scope : ~Saved(s) /\ run[s] # conf[s]

\* As long as nobody intervenes, a late POST belongs to a request that has failed,
\* and a pending change to one that has failed or is about to apply.
Owned ==
    env = 0 => /\ inflight # {} => \E p \in Procs : Lapsed(p)
               /\ Pending => \E p \in Procs : Owes(p)

LEMMA LapsedStays ==
    ASSUME Inv, Next, env' = 0, NEW p \in Procs, Lapsed(p)
    PROVE  Lapsed(p)'
<1>1. ASSUME NEW q \in Procs, q # p, Begin(q) \/ Refuse(q) \/ Step(q) PROVE Lapsed(p)'
  BY <1>1, RequestInv DEF Alone, Lapsed
<1>2. CASE Begin(p) \/ Refuse(p) \/ Step(p)
  <2>1. Error(p)
    BY <1>2 DEF Lapsed, Begin, Refuse, Step, Acquire, Read, Start, Save, Apply, Readback, ScanPage, Record
  <2>2. pc'[p] = "done" /\ res'[p].ok = res[p].ok /\ touched' = touched
    BY <2>1 DEF Error, Return, Goto, Unrecorded, Inv, TypeOK, Result, history
  <2>3. ~res[p].ok
    BY <2>1 DEF Error, Inv, Local, OnRecord
  <2> QED
    BY <2>2, <2>3 DEF Lapsed
<1>3. CASE Crash
  BY <1>3 DEF Crash, Intervene, Inv, TypeOK
<1> QED
  BY <1>1, <1>2, <1>3 DEF Next, ExternalWrite, LateExecution, Done, vars, Lapsed

\* A step that changes what is stored, running or late without the environment:
\* a save that is applied next or fails, or an apply, or a late POST.
LEMMA SaveOwned == ASSUME Inv, Owned, NEW p \in Procs, Save(p), env' = 0 PROVE Owned'
<1>1. pc[p] = "save" /\ Touch(p) /\ UNCHANGED env
  BY DEF Save
<1>2. Inv' /\ Alone(p) /\ Next
  BY SaveInv DEF Next, Step
<1>3. CASE data' = data
  <2>1. Pending' = Pending /\ inflight' = inflight
    BY <1>3 DEF Pending, data, scope
  <2>2. ASSUME NEW q \in Procs, Owes(q) PROVE Owes(q)'
    <3>1. q # p
      BY <1>1, <2>2 DEF Owes, Lapsed
    <3> QED
      BY <1>2, <2>2, <3>1 DEF Alone, Owes, Lapsed
  <2>3. ASSUME NEW q \in Procs, Lapsed(q) PROVE Lapsed(q)'
    BY <1>2, <2>3, LapsedStays
  <2> QED
    BY <1>1, <2>1, <2>2, <2>3 DEF Owned
<1>4. CASE data' # data
  <2>1. p \in touched'
    BY <1>1, <1>4 DEF Touch
  <2>2. CASE pc'[p] = "error"
    BY <2>1, <2>2 DEF Owned, Owes, Lapsed
  <2>3. CASE pc'[p] = "apply" /\ inflight' = inflight
    <3>1. Owes(p)'
      BY <2>1, <2>3 DEF Owes
    <3>2. inflight' # {} => \E q \in Procs : Lapsed(q)'
      BY <1>1, <1>2, <2>3, LapsedStays DEF Owned
    <3> QED
      BY <3>1, <3>2 DEF Owned
  <2>4. CASE pc'[p] = "verify" /\ Saved(req[p].spec) /\ inflight' = inflight
    <3>1. /\ scope' = scope /\ run' = run
          /\ \A s \in scope : s # req[p].spec => conf'[s] = conf[s]
      <4>1. PICK u \in SaveIds(p) : \E call \in SaveOps(p, u) : Executed(call)
        BY <2>4, <1>4, FailFacts, RaisedFacts DEF Save, Ignored, Inv, Raised
      <4>2. PICK call \in SaveOps(p, u) : Executed(call)
        BY <4>1
      <4>3. call \in Op /\ Sendable(call) /\ call.kind # "apply" /\ call.spec = req[p].spec
        BY <1>1, SaveTypes
      <4>4. scope' = scope /\ run' = run
        BY <1>1, <4>2, SaveNode
      <4>5. TypeOK /\ \A o \in inflight : Sendable(o)
        BY DEF Inv
      <4> QED
        BY <4>2, <4>3, <4>4, <4>5, PostEffect
    <3>2. Pending' => Pending
      BY <2>4, <3>1 DEF Pending
    <3>3. ASSUME NEW q \in Procs, Owes(q) PROVE Owes(q)'
      <4>1. q # p
        BY <1>1, <3>3 DEF Owes, Lapsed
      <4> QED
        BY <1>2, <3>3, <4>1 DEF Alone, Owes, Lapsed
    <3>4. inflight' # {} => \E q \in Procs : Lapsed(q)'
      BY <1>1, <1>2, <2>4, LapsedStays DEF Owned
    <3> QED
      BY <1>1, <3>2, <3>3, <3>4 DEF Owned
  <2>5. \/ pc'[p] = "error"
        \/ pc'[p] = "apply" /\ inflight' = inflight
        \/ pc'[p] = "verify" /\ Saved(req[p].spec) /\ inflight' = inflight
    <3>1. pc \in [Procs -> Stages] /\ TypeOK
      BY DEF Inv, TypeOK
    <3>2. CASE \E u \in SaveIds(p) : \E call \in SaveOps(p, u) :
                 Executed(call) /\ Goto(p, IF Saved(req[p].spec) THEN "verify" ELSE "apply")
      BY <3>1, <3>2 DEF Executed, Goto
    <3>3. CASE \E e \in Raised : Fail(p, e)
      BY <3>1, <3>3, FailFacts
    <3>4. "invalid_response" \in Raised
      BY DEF Raised
    <3> QED
      BY <1>4, <3>2, <3>3, <3>4, RaisedFacts DEF Save, Ignored
  <2> QED
    BY <2>2, <2>3, <2>4, <2>5
<1> QED
  BY <1>3, <1>4

LEMMA ApplyOwned == ASSUME Inv, Owned, NEW p \in Procs, Apply(p), env' = 0 PROVE Owned'
<1>1. pc[p] = "apply" /\ Touch(p) /\ UNCHANGED env
  BY DEF Apply
<1>2. Inv' /\ Alone(p) /\ Next
  BY ApplyInv DEF Next, Step
<1>3. inflight' = inflight => (inflight' # {} => \E q \in Procs : Lapsed(q)')
  BY <1>1, <1>2, LapsedStays DEF Owned
<1>4. CASE Executed([kind |-> "apply"])
  <2>1. run' = conf' /\ inflight' = inflight
    BY <1>4 DEF Executed, RunAfter, ConfAfter
  <2>2. ~Pending'
    BY <2>1 DEF Pending
  <2> QED
    BY <1>3, <2>1, <2>2 DEF Owned
<1>5. CASE ~Executed([kind |-> "apply"]) /\ pc'[p] = "error"
  <2>1. CASE p \in touched'
    BY <1>5, <2>1 DEF Owned, Owes, Lapsed
  <2>2. CASE p \notin touched'
    <3>1. UNCHANGED data /\ p \notin touched
      BY <1>1, <2>2 DEF Touch
    <3>2. Pending' = Pending /\ inflight' = inflight
      BY <3>1 DEF Pending, data, scope
    <3>3. ASSUME NEW q \in Procs, Owes(q) PROVE Owes(q)'
      <4>1. q # p
        BY <3>1, <3>3 DEF Owes, Lapsed
      <4> QED
        BY <1>2, <3>3, <4>1 DEF Alone, Owes, Lapsed
    <3> QED
      BY <1>1, <1>3, <3>2, <3>3 DEF Owned
  <2> QED
    BY <2>1, <2>2
<1>6. Executed([kind |-> "apply"]) \/ pc'[p] = "error"
  <2>1. CASE \E e \in Raised : Fail(p, e)
    BY <2>1, FailFacts DEF Inv
  <2>2. Resources[req[p].spec].service \in HollowAck => ~Acknowledged(req[p].spec)
    <3>1. req[p].spec \in DOMAIN Resources
      BY <1>1, ScopeSpecs, ConstantsAssumption DEF Inv, Local, Formed, Critical
    <3> QED
      BY <3>1, CatalogFacts DEF Entry, Acknowledged
  <2>3. "rejected" \in Raised
    BY DEF Raised
  <2> QED
    BY <2>1, <2>2, <2>3, RaisedFacts DEF Apply
<1> QED
  BY <1>4, <1>5, <1>6

LEMMA OtherOwned ==
    ASSUME Inv, Owned, Next, env' = 0, env = 0, UNCHANGED data,
           \A q \in Procs : Owes(q) => Owes(q)'
    PROVE  Owned'
<1>1. Pending' = Pending /\ inflight' = inflight
  BY DEF Pending, data, scope
<1> QED
  BY <1>1, LapsedStays DEF Owned

LEMMA NextOwned == ASSUME Inv, Owned, [Next]_vars PROVE Owned'
<1> SUFFICES ASSUME env' = 0 PROVE Owned'
  BY DEF Owned
<1>1. CASE UNCHANGED vars
  BY <1>1 DEF vars, Owned, Pending, Owes, Lapsed, scope
<1>2. CASE LateExecution
  <2>1. PICK call \in inflight : inflight' = inflight \ {call}
    BY <1>2 DEF LateExecution
  <2>2. env = 0 /\ UNCHANGED <<pc, res, touched>>
    BY <1>2 DEF LateExecution
  <2>3. PICK p \in Procs : Lapsed(p)
    BY <2>1, <2>2 DEF Owned
  <2>4. Lapsed(p)'
    BY <2>2, <2>3 DEF Lapsed
  <2> QED
    BY <2>4 DEF Owned, Owes
<1>3. CASE ExternalWrite \/ Crash
  BY <1>3 DEF ExternalWrite, Crash, Intervene, Inv, TypeOK
<1>4. ASSUME NEW p \in Procs, Begin(p) \/ Refuse(p) \/ Step(p), ~Save(p), ~Apply(p) PROVE Owned'
  <2>1. UNCHANGED <<data, env>> /\ Alone(p) /\ Next
    BY <1>4, RequestInv
       DEF Begin, Refuse, Step, Acquire, Read, Start, Readback, ScanPage, Record, Error, history, Next, Step
  <2>2. ASSUME NEW q \in Procs, Owes(q) PROVE Owes(q)'
    <3>1. CASE Lapsed(q)
      BY <2>1, <3>1, LapsedStays DEF Owes
    <3>2. CASE pc[q] = "apply" /\ q \in touched
      <4>1. q # p
        BY <1>4, <3>2 DEF Begin, Refuse, Step, Acquire, Read, Start, Readback, ScanPage, Record, Error
      <4> QED
        BY <2>1, <3>2, <4>1 DEF Alone, Owes
    <3> QED
      BY <2>2, <3>1, <3>2 DEF Owes
  <2> QED
    BY <2>1, <2>2, OtherOwned
<1> QED
  BY <1>1, <1>2, <1>3, <1>4, SaveOwned, ApplyOwned DEF Next, Done, Step

\* What is stored and not running belongs to somebody who knows: a request that is
\* still to apply it, or that failed and says so in its answer.
THEOREM PendingOwned == Spec => []PendingIsOwned
<1>1. Init => Owned
  BY DEF Init, Owned, Pending
<1>2. Inv /\ Owned => PendingIsOwned
  BY DEF Owned, Pending, Owes, Lapsed, PendingIsOwned, Inv, TypeOK, Local, OnRecord
<1>3. Inv /\ Owned /\ [Next]_vars => Owned'
  BY NextOwned
<1> QED
  BY <1>1, <1>2, <1>3, Invariant, PTL DEF Spec

-----------------------------------------------------------------------------
(* ManagementEngine implements AuditedWrite *)

Event(e) == IF e = "started" THEN "intent" ELSE e

LEMMA TrailGrows ==
    ASSUME NEW p, NEW e, audit' = audit \cup {<<p, e>>}
    PROVE  Trail' = Trail \cup {<<p, Event(e)>>}
<1> DEFINE F(l) == <<l[1], IF l[2] = "started" THEN "intent" ELSE l[2]>>
<1>1. F(<<p, e>>) = <<p, Event(e)>>
  BY DEF Event
<1>2. Trail = {F(l) : l \in audit} /\ Trail' = {F(l) : l \in audit'}
  BY DEF Trail
<1> HIDE DEF F
<1> QED
  BY <1>1, <1>2

LEMMA TrailStays == ASSUME UNCHANGED audit PROVE UNCHANGED Trail
BY DEF Trail

\* A step of p leaves the stages and answers of others alone.
LEMMA StageMoves ==
    ASSUME Inv, NEW p \in Procs, Alone(p)
    PROVE  /\ Stage' = [Stage EXCEPT ![p] = Stage'[p]]
           /\ Answer' = [Answer EXCEPT ![p] = Answer'[p]]
           /\ Stage'[p] = Stage[p] => Stage' = Stage
           /\ Answer'[p] = Answer[p] => Answer' = Answer
<1>1. ASSUME NEW q \in Procs \ {p} PROVE Stage'[q] = Stage[q] /\ Answer'[q] = Answer[q]
  BY DEF Alone, Stage, Answer
<1>2. /\ Stage = [q \in Procs |-> Stage[q]] /\ Stage' = [q \in Procs |-> Stage'[q]]
      /\ Answer = [q \in Procs |-> Answer[q]] /\ Answer' = [q \in Procs |-> Answer'[q]]
  BY DEF Stage, Answer
<1> QED
  BY <1>1, <1>2

LEMMA StageOf ==
    ASSUME NEW p \in Procs
    PROVE  /\ Stage[p] = CASE pc[p] = "done" -> "over"
                           [] pc[p] = "crashed" -> "lost"
                           [] OTHER -> IF Declared(p) THEN "declared" ELSE "new"
           /\ Answer[p] = IF pc[p] # "done" THEN "none"
                          ELSE IF ~Declared(p) THEN "refused"
                          ELSE IF res[p].ok THEN "ok"
                          ELSE IF res[p].auditFailure THEN "unrecorded" ELSE "error"
BY DEF Stage, Answer

AuditedStep == [Audited!Next]_(Audited!vars)

\* The stages of the two specifications correspond.
LEMMA Correspondence ==
    ASSUME Inv, NEW p \in Procs
    PROVE  /\ pc[p] \in {"idle", "wait", "read", "start"} => Stage[p] = "new" /\ Answer[p] = "none"
           /\ pc[p] \in {"save", "apply", "verify", "record", "error"} =>
                Stage[p] = "declared" /\ Answer[p] = "none"
           /\ pc[p] = "done" => Stage[p] = "over"
           /\ pc[p] = "crashed" => Stage[p] = "lost" /\ Answer[p] = "none"
BY StageOf DEF Inv, Local, OnRecord

LEMMA HiddenStep ==
    ASSUME Inv, NEW p \in Procs, Alone(p), UNCHANGED <<audit, touched>>,
           Stage'[p] = Stage[p], Answer'[p] = Answer[p]
    PROVE  AuditedStep
<1>1. UNCHANGED <<Stage, Answer, Trail, touched>>
  BY StageMoves, TrailStays
<1> QED
  BY <1>1 DEF AuditedStep, Audited!vars

\* Before the intent, and after it, a step may stay in its stage.
LEMMA StageKept ==
    ASSUME Inv, NEW p \in Procs, UNCHANGED audit,
           \/ pc[p] \in {"idle", "wait", "read", "start"} /\ pc'[p] \in {"idle", "wait", "read", "start"}
           \/ /\ pc[p] \in {"save", "apply", "verify", "record", "error"}
              /\ pc'[p] \in {"save", "apply", "verify", "record", "error"}
    PROVE  Stage'[p] = Stage[p] /\ Answer'[p] = Answer[p]
BY Correspondence DEF Stage, Answer, Declared, Inv, Local, OnRecord

\* An answer before the intent is on record.
LEMMA RefusedStep ==
    ASSUME Inv, NEW p \in Procs, Alone(p), UNCHANGED <<audit, touched>>,
           pc[p] \in {"idle", "read", "start"}, pc'[p] = "done"
    PROVE  AuditedStep
<1>1. Stage[p] = "new" /\ ~Declared(p)'
  BY Correspondence DEF Inv, Local, OnRecord, Declared
<1>2. Stage'[p] = "over" /\ Answer'[p] = "refused"
  BY <1>1 DEF Stage, Answer
<1>3. Audited!Refuse(p)
  BY <1>1, <1>2, StageMoves, TrailStays DEF Audited!Refuse, Audited!Over
<1> QED
  BY <1>3 DEF AuditedStep, Audited!Next

LEMMA BeginRefines == ASSUME Inv, NEW p \in Procs, Begin(p), Alone(p) PROVE AuditedStep
<1>1. pc[p] = "idle" /\ pc'[p] = "wait" /\ UNCHANGED <<audit, touched>>
  BY DEF Begin, Goto, Inv, TypeOK, history
<1> QED
  BY <1>1, HiddenStep, StageKept

LEMMA ReadRefines == ASSUME Inv, NEW p \in Procs, Alone(p), Read(p) PROVE AuditedStep
<1>1. pc[p] = "read" /\ UNCHANGED <<audit, touched>>
  BY DEF Read
<1>2. pc'[p] \in {"start", "done"}
  BY DEF Read, Raise, Return, Goto, Inv, TypeOK
<1>3. CASE pc'[p] = "start"
  BY <1>1, <1>3, HiddenStep, StageKept
<1>4. CASE pc'[p] = "done"
  BY <1>1, <1>4, RefusedStep
<1> QED
  BY <1>2, <1>3, <1>4

LEMMA BeforeRefines ==
    ASSUME Inv, NEW p \in Procs, Alone(p), Refuse(p) \/ Acquire(p)
    PROVE  AuditedStep
<1>1. UNCHANGED <<audit, touched>>
  BY DEF Refuse, Acquire, history
<1>2. CASE Refuse(p)
  <2>1. pc[p] = "idle" /\ pc'[p] = "done"
    BY <1>2 DEF Refuse, Goto, Inv, TypeOK
  <2> QED
    BY <1>1, <2>1, RefusedStep
<1>3. CASE Acquire(p)
  <2>1. pc[p] = "wait" /\ pc'[p] = "read"
    BY <1>3 DEF Acquire, Goto, Inv, TypeOK
  <2> QED
    BY <1>1, <2>1, HiddenStep, StageKept
<1> QED
  BY <1>2, <1>3

LEMMA StartRefines == ASSUME Inv, NEW p \in Procs, Alone(p), Start(p) PROVE AuditedStep
<1>1. CASE audit' = audit \cup {<<p, "started">>} /\ Goto(p, "save")
  <2>1. Stage[p] = "new" /\ Answer[p] = "none" /\ pc'[p] = "save" /\ Declared(p)'
    BY <1>1, Correspondence DEF Start, Goto, Inv, TypeOK, Declared
  <2>2. Stage'[p] = "declared" /\ Answer'[p] = "none"
    BY <2>1 DEF Stage, Answer
  <2>3. Trail' = Trail \cup {<<p, "intent">>}
    BY <1>1, TrailGrows DEF Event
  <2>4. Audited!Declare(p)
    BY <2>1, <2>2, <2>3, StageMoves DEF Audited!Declare, Start, history
  <2> QED
    BY <2>4 DEF AuditedStep, Audited!Next
<1>2. CASE Raise(p, "audit") /\ UNCHANGED audit
  <2>1. pc[p] = "start" /\ pc'[p] = "done" /\ UNCHANGED touched
    BY <1>2 DEF Start, Raise, Return, Goto, Inv, TypeOK, history
  <2> QED
    BY <1>2, <2>1, RefusedStep
<1> QED
  BY <1>1, <1>2 DEF Start

LEMMA FailStage == ASSUME TypeOK, NEW p \in Procs, NEW e, Fail(p, e) PROVE pc'[p] = "error"
BY DEF TypeOK, Fail, Goto

\* A POST, and the request goes on, or fails.
LEMMA PostRefines == ASSUME Inv, NEW p \in Procs, Alone(p), Save(p) \/ Apply(p) PROVE AuditedStep
<1>1. pc[p] \in {"save", "apply"} /\ UNCHANGED audit /\ (touched' = touched \/ touched' = touched \cup {p})
  BY DEF Save, Apply, Touch
<1>2. pc'[p] \in {"apply", "verify", "error"}
  <2>1. ASSUME NEW next \in {"apply", "verify"}, Goto(p, next) PROVE pc'[p] = next
    BY <2>1 DEF Goto, Inv, TypeOK
  <2> QED
    BY <2>1, FailStage DEF Save, Apply, Inv
<1>3. /\ Stage[p] = "declared" /\ Answer[p] = "none"
      /\ Stage'[p] = Stage[p] /\ Answer'[p] = Answer[p]
  BY <1>1, <1>2, Correspondence, StageKept
<1>4. CASE touched' = touched
  BY <1>1, <1>3, <1>4, HiddenStep
<1>5. CASE touched' = touched \cup {p}
  <2>1. Audited!Change(p)
    BY <1>1, <1>3, <1>5, StageMoves, TrailStays DEF Audited!Change
  <2> QED
    BY <2>1 DEF AuditedStep, Audited!Next
<1> QED
  BY <1>1, <1>4, <1>5

LEMMA VerifyRefines ==
    ASSUME Inv, NEW p \in Procs, Alone(p), Readback(p) \/ ScanPage(p)
    PROVE  AuditedStep
<1>1. pc[p] = "verify" /\ UNCHANGED <<audit, touched>>
  BY DEF Readback, ScanPage, history
<1>2. pc'[p] \in {"verify", "record", "error"}
  <2>1. Goto(p, "record") => pc'[p] = "record"
    BY DEF Goto, Inv, TypeOK
  <2> QED
    BY <1>1, <2>1, FailStage DEF Readback, ScanPage, Inv
<1> QED
  BY <1>1, <1>2, HiddenStep, StageKept

\* An answer with its line, or one that says that the line is missing.
LEMMA ClosedStep ==
    ASSUME Inv, NEW p \in Procs, Alone(p), NEW o \in {"ok", "error"},
           pc[p] \in {"record", "error"}, pc'[p] = "done", touched' = touched,
           audit' = audit \cup {<<p, o>>}, o = "ok" => res'[p].ok,
           o = "error" => ~res'[p].ok /\ ~res'[p].auditFailure
    PROVE  AuditedStep
<1>1. Stage[p] = "declared" /\ Declared(p)'
  BY Correspondence DEF Inv, Local, OnRecord, Declared
<1>2. Stage'[p] = "over" /\ Answer'[p] = o
  BY <1>1 DEF Stage, Answer
<1>3. Trail' = Trail \cup {<<p, o>>}
  BY TrailGrows DEF Event
<1>4. Audited!Close(p, o)
  BY <1>1, <1>2, <1>3, StageMoves DEF Audited!Close, Audited!Over
<1> QED
  BY <1>4 DEF AuditedStep, Audited!Next

LEMMA UnrecordedStep ==
    ASSUME Inv, NEW p \in Procs, Alone(p), pc[p] = "error", pc'[p] = "done", UNCHANGED <<audit, touched>>,
           ~res'[p].ok, res'[p].auditFailure
    PROVE  AuditedStep
<1>1. Stage[p] = "declared" /\ Declared(p)'
  BY Correspondence DEF Inv, Local, OnRecord, Declared
<1>2. Stage'[p] = "over" /\ Answer'[p] = "unrecorded"
  BY <1>1 DEF Stage, Answer
<1>3. Audited!Unrecorded(p)
  BY <1>1, <1>2, StageMoves, TrailStays DEF Audited!Unrecorded, Audited!Over
<1> QED
  BY <1>3 DEF AuditedStep, Audited!Next

LEMMA RecordRefines == ASSUME Inv, NEW p \in Procs, Alone(p), Record(p) PROVE AuditedStep
<1>1. pc[p] = "record" /\ touched' = touched
  BY DEF Record, history
<1>2. CASE /\ audit' = audit \cup {<<p, "ok">>}
           /\ res' = [res EXCEPT ![p].ok = TRUE]
           /\ Return(p)
  <2>1. pc'[p] = "done" /\ res'[p].ok
    BY <1>2 DEF Return, Goto, Inv, TypeOK, Result
  <2> QED
    BY <1>1, <1>2, <2>1, ClosedStep
<1>3. CASE Fail(p, "audit") /\ UNCHANGED audit
  BY <1>1, <1>3, FailStage, HiddenStep, StageKept DEF Inv
<1> QED
  BY <1>2, <1>3 DEF Record

LEMMA ErrorRefines == ASSUME Inv, NEW p \in Procs, Alone(p), Error(p) PROVE AuditedStep
<1>1. pc[p] = "error" /\ pc'[p] = "done" /\ touched' = touched
  BY DEF Error, Return, Goto, Inv, TypeOK, history
<1>2. ~res[p].ok /\ ~res[p].auditFailure
  BY <1>1 DEF Inv, Local, OnRecord
<1>3. CASE audit' = audit \cup {<<p, "error">>} /\ UNCHANGED res
  BY <1>1, <1>2, <1>3, ClosedStep
<1>4. CASE Unrecorded(p) /\ UNCHANGED audit
  <2>1. ~res'[p].ok /\ res'[p].auditFailure
    BY <1>2, <1>4 DEF Unrecorded, Inv, TypeOK, Result
  <2> QED
    BY <1>1, <1>4, <2>1, UnrecordedStep
<1> QED
  BY <1>3, <1>4 DEF Error

LEMMA CrashRefines == ASSUME Inv, Crash PROVE AuditedStep
<1> DEFINE lost == {p \in Procs : pc[p] \notin {"idle", "done", "crashed"}}
<1>1. lost \in SUBSET {p \in Procs : Stage[p] \in {"new", "declared"}}
  BY Correspondence DEF Inv, TypeOK, Stages, Critical
<1>2. UNCHANGED <<audit, touched, res>>
  BY DEF Crash, Die
<1>3. pc' = [p \in Procs |-> IF pc[p] \in {"idle", "done"} THEN pc[p] ELSE "crashed"]
  BY DEF Crash, Die
<1>4. Stage' = [p \in Procs |-> IF p \in lost THEN "lost" ELSE Stage[p]]
  BY <1>2, <1>3 DEF Stage, Declared
<1>5. UNCHANGED <<Answer, Trail, touched>>
  BY <1>2, <1>3, TrailStays DEF Answer, Declared
<1>6. Audited!Crash
  BY <1>1, <1>4, <1>5 DEF Audited!Crash
<1> QED
  BY <1>6 DEF AuditedStep, Audited!Next

LEMMA QuietRefines ==
    ASSUME ExternalWrite \/ LateExecution \/ UNCHANGED vars
    PROVE  AuditedStep
<1>1. UNCHANGED <<Stage, Answer, Trail, touched>>
  BY DEF ExternalWrite, LateExecution, vars, Stage, Answer, Trail, Declared
<1> QED
  BY <1>1 DEF AuditedStep, Audited!vars

LEMMA NextRefines == ASSUME Inv, [Next]_vars PROVE AuditedStep
<1>1. ASSUME NEW p \in Procs, Begin(p) \/ Refuse(p) \/ Step(p) PROVE AuditedStep
  BY <1>1, RequestInv, BeginRefines, BeforeRefines, ReadRefines, StartRefines, PostRefines,
     VerifyRefines, RecordRefines, ErrorRefines DEF Step
<1> QED
  BY <1>1, CrashRefines, QuietRefines DEF Next, Done

\* ManagementService._mutate is an audited write: every step is one of
\* AuditedWrite, or none that it can see, with a line that cannot be written after
\* the save, a second failure of the audit log and a crash at any point included.
THEOREM Refinement == Spec => IsAuditedWrite
<1>1. Init => Audited!Init
  BY DEF Init, Audited!Init, Stage, Answer, Trail, Declared
<1>2. Inv /\ [Next]_vars => [Audited!Next]_(Audited!vars)
  BY NextRefines DEF AuditedStep
<1> QED
  BY <1>1, <1>2, Invariant, PTL DEF Spec, IsAuditedWrite, Audited!Spec

Proved ==
    INSTANCE AuditedWriteProofs WITH stage <- Stage, answer <- Answer, trail <- Trail, changed <- touched

\* Every change that the engine makes to the node can be traced to its line in the
\* audit log, and the outcome too, unless the user was told that it is missing.
THEOREM Traced == Spec => []Audited!Accounted
<1>1. Audited!Init => Proved!Init
  BY DEF Audited!Init, Proved!Init
<1>2. [Audited!Next]_(Audited!vars) => [Proved!Next]_(Proved!vars)
  BY DEF Audited!Next, Audited!vars, Audited!Refuse, Audited!Declare, Audited!Change, Audited!Unrecorded,
         Audited!Close, Audited!Over, Audited!Crash, Proved!Next, Proved!vars, Proved!Refuse,
         Proved!Declare, Proved!Change, Proved!Unrecorded, Proved!Close, Proved!Over, Proved!Crash
<1>3. Proved!Accounted => Audited!Accounted
  BY DEF Audited!Accounted, Proved!Accounted
<1>4. Proved!Spec => []Proved!Accounted
  BY Proved!AccountedFor
<1> QED
  BY <1>1, <1>2, <1>3, <1>4, Refinement, PTL DEF IsAuditedWrite, Audited!Spec, Proved!Spec

-----------------------------------------------------------------------------
(* Every request comes to an end, and every lock comes back *)

Along(s) ==
    CASE s = "idle" -> 0  [] s = "wait" -> 1  [] s = "read" -> 2    [] s = "start" -> 3
      [] s = "save" -> 4  [] s = "apply" -> 5 [] s = "verify" -> 5
      [] s = "record" -> MaxPages + 6         [] s = "error" -> MaxPages + 7
      [] s \in {"done", "crashed"} -> MaxPages + 8

\* How far a request has come; a page of the scan is a step of its own.
Position(p) == Along(pc[p]) + IF pc[p] = "verify" THEN ctl[p].page ELSE 0

Bounded == \A p \in Procs : Position(p) \in 0 .. MaxPages + 8

\* Nothing takes a request back, and each step of its own takes it further.
Advance(p) ==
    /\ Position(p)' >= Position(p)
    /\ Begin(p) \/ Refuse(p) \/ Step(p) => Position(p)' > Position(p)
Advances == [][\A p \in Procs : Advance(p)]_vars

\* A lock is held by the request for the resource that has not returned.
LockOwned(s) == locks[s] # NoProc => pc[locks[s]] \in Critical /\ req[locks[s]].spec = s
LocksOwned == \A s \in scope : LockOwned(s)

\* What a step does to the stage of its request, and to the lock.
Enters(p) ==
    /\ pc[p] = "idle" /\ pc'[p] \in {"wait", "done"} /\ locks' = locks
Takes(p) ==
    /\ pc[p] = "wait" /\ pc'[p] = "read" /\ req'[p] = req[p]
    /\ locks' = [locks EXCEPT ![req[p].spec] = p]
Works(p) ==
    /\ \/ pc[p] = "read" /\ pc'[p] = "start"
       \/ pc[p] = "start" /\ pc'[p] = "save"
       \/ pc[p] = "save" /\ pc'[p] \in {"apply", "verify", "error"}
       \/ pc[p] = "apply" /\ pc'[p] \in {"verify", "error"}
       \/ pc[p] = "verify" /\ pc'[p] \in {"record", "error"}
       \/ pc[p] = "verify" /\ pc'[p] = "verify" /\ ctl'[p].page = ctl[p].page + 1
       \/ pc[p] = "record" /\ pc'[p] = "error"
    /\ req'[p].spec = req[p].spec
    /\ locks' = locks
Leaves(p) ==
    /\ pc[p] \in {"read", "start", "record", "error"} /\ pc'[p] = "done"
    /\ locks' = [locks EXCEPT ![req[p].spec] = NoProc]
Move(p) == Enters(p) \/ Takes(p) \/ Works(p) \/ Leaves(p)

LEMMA GotoStage == ASSUME Inv, NEW p \in Procs, NEW s, Goto(p, s) PROVE pc'[p] = s
  BY DEF Goto, Inv, TypeOK

LEMMA ReturnLeaves ==
    ASSUME Inv, NEW p \in Procs, Return(p), pc[p] \in {"read", "start", "record", "error"}
    PROVE  Move(p)
  BY GotoStage DEF Return, Release, Move, Leaves

LEMMA FailWorks ==
    ASSUME Inv, NEW p \in Procs, NEW e, Fail(p, e), pc[p] \in {"save", "apply", "verify", "record"},
           req'[p].spec = req[p].spec, locks' = locks
    PROVE  Move(p)
<1>1. pc'[p] = "error"
  BY GotoStage DEF Fail
<1> QED
  BY <1>1 DEF Move, Works

LEMMA SaveKeepsSpec ==
    ASSUME Inv, NEW p \in Procs, Save(p)
    PROVE  req'[p].spec = req[p].spec
<1>1. req[p] \in Begun /\ req \in [Procs -> Request]
  BY DEF Save, Inv, TypeOK, Local, Formed, Critical
<1>2. CASE req' = req
  BY <1>2
<1>3. ASSUME NEW u, req' = [req EXCEPT ![p].uuid = u] PROVE req'[p].spec = req[p].spec
  BY <1>1, <1>3 DEF Begun
<1> QED
  BY <1>2, <1>3 DEF Save

LEMMA StepMoves ==
    ASSUME Inv, NEW p \in Procs, Begin(p) \/ Refuse(p) \/ Step(p)
    PROVE  Move(p)
<1>1. CASE Begin(p) \/ Refuse(p)
  BY <1>1, GotoStage DEF Begin, Refuse, Move, Enters
<1>2. CASE Acquire(p)
  BY <1>2, GotoStage DEF Acquire, Move, Takes
<1>3. CASE Read(p)
  <2>1. pc[p] = "read"
    BY <1>3 DEF Read
  <2>2. \/ Goto(p, "start") /\ UNCHANGED <<locks, req>>
        \/ Return(p)
    BY <1>3 DEF Read, Raise
  <2> QED
    BY <2>1, <2>2, GotoStage, ReturnLeaves DEF Move, Works
<1>4. CASE Start(p)
  <2>1. pc[p] = "start"
    BY <1>4 DEF Start
  <2>2. \/ Goto(p, "save") /\ UNCHANGED <<locks, req>>
        \/ Return(p)
    BY <1>4 DEF Start, Raise
  <2> QED
    BY <2>1, <2>2, GotoStage, ReturnLeaves DEF Move, Works
<1>5. CASE Save(p)
  <2>1. pc[p] = "save" /\ locks' = locks
    BY <1>5 DEF Save
  <2>2. (\E s \in {"verify", "apply"} : Goto(p, s)) \/ \E e : Fail(p, e)
    BY <1>5 DEF Save
  <2> QED
    BY <1>5, <2>1, <2>2, GotoStage, FailWorks, SaveKeepsSpec DEF Move, Works
<1>6. CASE Apply(p)
  <2>1. pc[p] = "apply" /\ UNCHANGED <<locks, req>>
    BY <1>6 DEF Apply
  <2>2. Goto(p, "verify") \/ \E e : Fail(p, e)
    BY <1>6 DEF Apply
  <2> QED
    BY <2>1, <2>2, GotoStage, FailWorks DEF Move, Works
<1>7. CASE Readback(p)
  <2>1. pc[p] = "verify" /\ UNCHANGED <<locks, req>>
    BY <1>7 DEF Readback
  <2>2. Goto(p, "record") \/ \E e : Fail(p, e)
    BY <1>7 DEF Readback
  <2> QED
    BY <2>1, <2>2, GotoStage, FailWorks DEF Move, Works
<1>8. CASE ScanPage(p)
  <2>1. pc[p] = "verify" /\ UNCHANGED <<locks, req>>
    BY <1>8 DEF ScanPage
  <2>2. \/ Goto(p, "record") \/ \E e : Fail(p, e)
        \/ \E n \in Nat : ctl' = [ctl EXCEPT ![p].page = ctl[p].page + 1, ![p].seen = n] /\ pc' = pc
    <3> DEFINE rows == Page(req[p].spec, ctl[p].page)
               n == ctl[p].seen + Cardinality(rows)
    <3>1. rows \in SUBSET Ids
      BY DEF Page, Present
    <3>2. Cardinality(rows) \in Nat
      BY <3>1, FiniteListing
    <3>3. ctl[p].seen \in Nat
      BY DEF Inv, TypeOK, Control
    <3>4. n \in Nat
      BY <3>2, <3>3
    <3>5. \/ Goto(p, "record") \/ \E e : Fail(p, e)
          \/ ctl' = [ctl EXCEPT ![p].page = ctl[p].page + 1, ![p].seen = n] /\ pc' = pc
      BY <1>8 DEF ScanPage
    <3> QED
      BY <3>4, <3>5
  <2>3. ASSUME NEW n, ctl' = [ctl EXCEPT ![p].page = ctl[p].page + 1, ![p].seen = n]
        PROVE  ctl'[p].page = ctl[p].page + 1
    BY <2>3 DEF Inv, TypeOK, Control
  <2> QED
    BY <2>1, <2>2, <2>3, GotoStage, FailWorks DEF Move, Works
<1>9. CASE Record(p) \/ Error(p)
  <2>1. pc[p] \in {"record", "error"}
    BY <1>9 DEF Record, Error
  <2>2. \/ pc[p] = "record" /\ UNCHANGED <<locks, req>> /\ \E e : Fail(p, e)
        \/ Return(p)
    BY <1>9 DEF Record, Error
  <2> QED
    BY <2>1, <2>2, ReturnLeaves, FailWorks
<1> QED
  BY <1>1, <1>2, <1>3, <1>4, <1>5, <1>6, <1>7, <1>8, <1>9 DEF Step

LEMMA AlongValues ==
    /\ Along("idle") = 0 /\ Along("wait") = 1 /\ Along("read") = 2 /\ Along("start") = 3
    /\ Along("save") = 4 /\ Along("apply") = 5 /\ Along("verify") = 5
    /\ Along("record") = MaxPages + 6 /\ Along("error") = MaxPages + 7
    /\ Along("done") = MaxPages + 8 /\ Along("crashed") = MaxPages + 8
  BY DEF Along

\* A page is one of MaxPages.
PositionOf(p) ==
    /\ pc[p] # "verify" => Position(p) = Along(pc[p])
    /\ pc[p] = "verify" => Position(p) = 5 + ctl[p].page /\ ctl[p].page \in 1 .. MaxPages
    /\ Position(p) \in 0 .. MaxPages + 8

LEMMA Positions == Inv => \A p \in Procs : PositionOf(p)
<1> SUFFICES ASSUME Inv, NEW p \in Procs PROVE PositionOf(p)
  OBVIOUS
<1>1. MaxPages \in Nat \ {0} /\ pc[p] \in Stages /\ ctl[p].page \in 1 .. MaxPages
  BY ConstantsAssumption DEF Inv, TypeOK, Control
<1> QED
  BY <1>1, AlongValues DEF Position, PositionOf, Stages, Critical

LEMMA MoveAdvances ==
    ASSUME NEW p \in Procs, Move(p), PositionOf(p), PositionOf(p)'
    PROVE  Position(p)' > Position(p)
<1> USE AlongValues, ConstantsAssumption DEF PositionOf
<1>1. CASE Enters(p) \/ Takes(p) \/ Leaves(p)
  BY <1>1 DEF Enters, Takes, Leaves
<1>2. CASE Works(p)
  BY <1>2 DEF Works
<1> QED
  BY <1>1, <1>2 DEF Move

LEMMA NextAdvances ==
    ASSUME Inv, Inv', Next, NEW p \in Procs, PositionOf(p), PositionOf(p)'
    PROVE  Advance(p)
<1>1. MaxPages \in Nat /\ Position(p) \in Nat /\ Position(p)' \in Nat
  BY ConstantsAssumption DEF PositionOf
<1>2. CASE Begin(p) \/ Refuse(p) \/ Step(p)
  BY <1>1, <1>2, StepMoves, MoveAdvances DEF Advance
<1>3. CASE ~(Begin(p) \/ Refuse(p) \/ Step(p))
  <2> SUFFICES Position(p)' >= Position(p)
    BY <1>3 DEF Advance
  <2>1. ASSUME pc'[p] = pc[p], ctl'[p] = ctl[p] PROVE Position(p)' >= Position(p)
    BY <1>1, <2>1 DEF Position
  <2>2. ASSUME NEW q \in Procs \ {p}, Begin(q) \/ Refuse(q) \/ Step(q) PROVE Position(p)' >= Position(p)
    BY <2>1, <2>2, RequestInv DEF Alone
  <2>3. CASE ExternalWrite \/ LateExecution \/ Done
    BY <2>1, <2>3 DEF ExternalWrite, LateExecution, Done, vars
  <2>4. CASE Crash
    <3>1. pc'[p] = IF pc[p] \in {"idle", "done"} THEN pc[p] ELSE "crashed"
      BY <2>4 DEF Crash, Die
    <3> QED
      BY <1>1, <3>1, AlongValues DEF PositionOf
  <2> QED
    BY <1>3, <2>2, <2>3, <2>4 DEF Next
<1> QED
  BY <1>2, <1>3

\* The scan for a deleted object reads at most MaxPages pages, and nothing takes a
\* request back: whatever the node answers and whoever writes meanwhile, the
\* request is answered after at most MaxPages + 8 steps of its own.
THEOREM Advancing == Spec => Advances /\ []Bounded
<1>1. Inv => \A p \in Procs : PositionOf(p)
  BY Positions
<1>2. Inv' => (\A p \in Procs : PositionOf(p))'
  BY <1>1, PTL
<1>3. Inv /\ Inv' /\ [Next]_vars => [\A p \in Procs : Advance(p)]_vars
  <2>1. ASSUME Inv, Inv', Next, NEW p \in Procs PROVE Advance(p)
    <3>1. PositionOf(p) /\ PositionOf(p)'
      BY <1>1, <1>2, <2>1
    <3> QED
      BY <2>1, <3>1, NextAdvances
  <2> QED
    BY <2>1
<1>4. Inv => Bounded
  BY <1>1 DEF PositionOf, Bounded
<1>5. Spec => [][\A p \in Procs : Advance(p)]_vars
  BY <1>3, Invariant, PTL DEF Spec
<1>6. Spec => []Bounded
  BY <1>4, Invariant, PTL
<1> QED
  BY <1>5, <1>6 DEF Advances

LEMMA OwnedLockStep == ASSUME Inv, Inv', LocksOwned, [Next]_vars PROVE LocksOwned'
<1>t. /\ pc \in [Procs -> Stages] /\ locks \in [scope -> Procs \cup {NoProc}]
      /\ NoProc \notin Procs
  BY ConstantsAssumption DEF Inv, TypeOK
<1>1. ASSUME NEW p \in Procs, Begin(p) \/ Refuse(p) \/ Step(p) PROVE LocksOwned'
  <2>1. Move(p) /\ Alone(p)
    BY <1>1, StepMoves, RequestInv
  <2> SUFFICES ASSUME NEW s \in scope PROVE LockOwned(s)'
    BY <2>1 DEF Alone, LocksOwned
  <2>2. LockOwned(s) /\ locks[s] \in Procs \cup {NoProc}
    BY <1>t DEF LocksOwned
  <2>3. \A q \in Procs \ {p} : pc'[q] = pc[q] /\ req'[q] = req[q]
    BY <2>1 DEF Alone
  <2>4. CASE Enters(p)
    BY <2>2, <2>3, <2>4 DEF Enters, LockOwned, Critical
  <2>5. CASE Works(p)
    BY <2>2, <2>3, <2>5 DEF Works, LockOwned, Critical
  <2>6. CASE Takes(p)
    <3>1. CASE s = req[p].spec
      BY <1>t, <2>6, <3>1 DEF Takes, LockOwned, Critical
    <3>2. CASE s # req[p].spec
      BY <1>t, <2>2, <2>3, <2>6, <3>2 DEF Takes, LockOwned, Critical
    <3> QED
      BY <3>1, <3>2
  <2>7. CASE Leaves(p)
    <3>1. CASE s = req[p].spec
      BY <1>t, <2>7, <3>1 DEF Leaves, LockOwned
    <3>2. CASE s # req[p].spec
      <4>1. locks'[s] = locks[s] /\ locks[s] # p
        BY <1>t, <2>2, <2>7, <3>2 DEF Leaves, LockOwned
      <4> QED
        BY <2>2, <2>3, <4>1 DEF LockOwned
    <3> QED
      BY <3>1, <3>2
  <2> QED
    BY <2>1, <2>4, <2>5, <2>6, <2>7 DEF Move
<1>2. CASE ExternalWrite \/ LateExecution
  <2>1. UNCHANGED <<locks, pc, req>>
    BY <1>2 DEF ExternalWrite, LateExecution
  <2>2. scope' = scope
    BY <2>1 DEF Inv, TypeOK
  <2> QED
    BY <2>1, <2>2 DEF LocksOwned, LockOwned
<1>3. CASE Crash
  <2>1. locks' = [s \in scope |-> NoProc] /\ scope' = scope
    BY <1>3 DEF Crash, Die, data, scope
  <2> QED
    BY <2>1 DEF LocksOwned, LockOwned
<1>4. CASE UNCHANGED vars
  <2>1. UNCHANGED <<locks, pc, req, scope>>
    BY <1>4 DEF vars, scope
  <2> QED
    BY <2>1 DEF LocksOwned, LockOwned
<1> QED
  BY <1>1, <1>2, <1>3, <1>4 DEF Next, Done

\* The "with" of mutate() never leaks: every lock of _LOCKS that is taken belongs
\* to a request that is still at work on that resource, so when all requests have
\* returned, or the process has died, every resource can be written again.
THEOREM Unleaked == Spec => []LocksOwned
<1>1. Init => LocksOwned
  BY DEF Init, LocksOwned, LockOwned
<1>2. Inv /\ Inv' /\ LocksOwned /\ [Next]_vars => LocksOwned'
  BY OwnedLockStep
<1> QED
  BY <1>1, <1>2, Invariant, PTL DEF Spec

-----------------------------------------------------------------------------
(* Operations: what an operation answers, and what the requests still      *)
(* promise with operations on the same node                                *)

Posted(o) == OPERATIONS(op[o]).post
Checked(o) == OPERATIONS(op[o]).expected # {}

\* The node executed the POST of o, or will.
Effective(o) == o \in executed \cup olate

\* The attempt is on record before the POST, and the POST before any effect.
Announced(o) ==
    /\ opc[o] \in OStages => op[o] \in Names
    /\ opc[o] \in {"attempt", "verify", "record", "error"} => Posted(o)
    /\ opc[o] \in {"send", "verify", "record", "error"} /\ Posted(o) => <<o, "attempt">> \in otrail
    /\ opc[o] \in {"idle", "attempt", "send"} => ~Effective(o)
    /\ Effective(o) => op[o] \in Names /\ Posted(o) /\ <<o, "attempt">> \in otrail
    /\ opc[o] = "verify" => Checked(o)

\* An operation that failed without partial had no effect, unless the check of
\* its state was denied.
Told(o) ==
    /\ opc[o] \in OStages \cup {"idle"} => ~ores[o].ok
    /\ opc[o] \in {"error", "done"} /\ ~ores[o].ok /\ ~ores[o].partial /\ Effective(o)
         => ores[o].error = "auth" /\ Checked(o)
    /\ opc[o] = "done" /\ Effective(o) =>
         \/ ores[o].ok /\ <<o, "ok">> \in otrail
         \/ ~ores[o].ok /\ <<o, "error">> \in otrail
         \/ ~ores[o].ok /\ ores[o].auditFailure

\* A POST that was acknowledged is not executed again later.
Confirmed(o) ==
    /\ opc[o] \in {"verify", "record"} \/ ores[o].verified => o \notin olate
    /\ opc[o] \in {"idle", "attempt", "send", "verify"} => ~ores[o].verified
    /\ ores[o].verified /\ o \notin moved => up \in OPERATIONS(op[o]).expected

OLocal(o) == Announced(o) /\ Told(o) /\ Confirmed(o)

PlaneInv == Inv /\ OTypeOK /\ \A o \in Ops : OLocal(o)

-----------------------------------------------------------------------------
(* What an operation leaves to the others *)

OAnswer == [ok : BOOLEAN, verified : BOOLEAN, partial : BOOLEAN, auditFailure : BOOLEAN,
            error : {"none", "bad_request", "audit", "verification", "auth", "timeout",
                     "validation", "upstream", "invalid_response"}]

OAlone(o) ==
    /\ otrail \subseteq otrail'
    /\ \A q \in Ops \ {o} :
        /\ opc'[q] = opc[q] /\ op'[q] = op[q] /\ ores'[q] = ores[q]
        /\ (q \in executed') = (q \in executed) /\ (q \in olate') = (q \in olate)
        /\ (q \in moved => q \in moved') /\ (up' = up \/ q \in moved')

LEMMA OElsewhere ==
    ASSUME PlaneInv, NEW o \in Ops, OAlone(o), Inv', OTypeOK', OLocal(o)'
    PROVE  PlaneInv'
<1>1. ASSUME NEW q \in Ops \ {o} PROVE OLocal(q)'
  <2>1. /\ OLocal(q) /\ opc'[q] = opc[q] /\ op'[q] = op[q] /\ ores'[q] = ores[q] /\ otrail \subseteq otrail'
        /\ (q \in executed') = (q \in executed) /\ (q \in olate') = (q \in olate)
        /\ (q \in moved => q \in moved') /\ (up' = up \/ q \in moved')
    BY <1>1 DEF OAlone, PlaneInv
  <2>2. Announced(q)'
    BY <2>1 DEF OLocal, Announced, Effective, Posted, Checked
  <2>3. Told(q)'
    BY <2>1 DEF OLocal, Told, Effective, Checked
  <2>4. Confirmed(q)'
    BY <2>1 DEF OLocal, Confirmed
  <2> QED
    BY <2>2, <2>3, <2>4 DEF OLocal
<1> QED
  BY <1>1 DEF PlaneInv

\* The requests go on as if nothing happened, or find the service reconfigured.
LEMMA RepublishInv ==
    ASSUME Inv, run' \in {run, conf},
           UNCHANGED <<conf, used, inflight, locks, audit, pc, req, ctl, res, touched, foreign, env>>
    PROVE  Inv'
<1>1. TypeOK' /\ scope' = scope
  BY DEF scope, Inv, TypeOK
<1>2. \A o \in inflight' : Sendable(o)'
  BY <1>1 DEF Inv, Sendable
<1>3. ASSUME NEW p \in Procs PROVE Local(p)'
  <2>1. Composed(p)' = Composed(p) /\ Asked(p, conf[req[p].spec][req[p].uuid])' = Asked(p, conf[req[p].spec][req[p].uuid])
    BY DEF Composed, Asked
  <2>2. Before(req[p].spec, ctl[p].page)' = Before(req[p].spec, ctl[p].page)
    BY DEF Before, Present
  <2>3. Formed(p)' /\ Holds(p)' /\ OnRecord(p)' /\ Reported(p)'
    BY <1>1, <2>1 DEF Inv, Local, Formed, Holds, OnRecord, Reported, Declared
  <2>4. Live(p) => Live(p)'
    BY DEF Live
  <2>5. Content(p)'
    BY <2>1, <2>2, <2>4 DEF Inv, Local, Content, Fresh, Scanned, Met
  <2> QED
    BY <2>3, <2>5 DEF Local
<1> QED
  BY <1>1, <1>2, <1>3 DEF Inv

LEMMA QuietPlane == ASSUME Inv, UNCHANGED vars PROVE Inv'
BY StutterInv

\* Whoever else moves the service, the claims of the operations are void.
LEMMA AsideInv ==
    ASSUME PlaneInv, Inv', Aside
    PROVE  PlaneInv'
<1>1. /\ up' \in {"running", "stopped"} /\ moved' \subseteq Ops
      /\ (up' = up /\ moved' = moved) \/ moved' = Ops
      /\ UNCHANGED <<opc, op, ores, otrail, olate, executed>>
  BY DEF Aside, PlaneInv, OTypeOK
<1>2. OTypeOK'
  BY <1>1 DEF PlaneInv, OTypeOK
<1>3. ASSUME NEW o \in Ops PROVE OLocal(o)'
  <2>1. OLocal(o)
    BY DEF PlaneInv
  <2>2. Announced(o)' /\ Told(o)'
    BY <1>1, <2>1 DEF OLocal, Announced, Told, Effective, Posted, Checked
  <2>3. Confirmed(o)'
    BY <1>1, <2>1 DEF OLocal, Confirmed
  <2> QED
    BY <2>2, <2>3 DEF OLocal
<1> QED
  BY <1>2, <1>3 DEF PlaneInv

-----------------------------------------------------------------------------
(* The catalog of operations and the node *)

LEMMA OperationFacts ==
    \A n \in Names :
        /\ OPERATIONS(n).post \in BOOLEAN
        /\ OPERATIONS(n).expected # {} => OPERATIONS(n).post
<1> DEFINE Consistent(r) == r.post \in BOOLEAN /\ (r.expected # {} => r.post)
<1>1. Consistent(Get) /\ Consistent(Post) /\ \A e : Consistent([Post EXCEPT !.expected = e])
  BY DEF Get, Post
<1>2. Consistent([Post EXCEPT !.mutation = FALSE])
  BY DEF Post
<1>3. DOMAIN ServiceOperations = {"status", "start", "restart", "stop", "reconfigure"}
  BY DEF ServiceOperations
<1>4. DOMAIN NodeOperations = {"query", "job", "reboot", "states"}
  BY DEF NodeOperations
<1> HIDE DEF Consistent
<1>5. \A n \in DOMAIN ServiceOperations : Consistent(ServiceOperations[n])
  <2>1. /\ ServiceOperations["status"] = Get /\ ServiceOperations["start"] = [Post EXCEPT !.expected = {"running"}]
        /\ ServiceOperations["restart"] = [Post EXCEPT !.expected = {"running"}]
        /\ ServiceOperations["stop"] = [Post EXCEPT !.expected = {"stopped"}]
        /\ ServiceOperations["reconfigure"] = Post
    BY DEF ServiceOperations
  <2> QED
    BY <1>1, <1>3, <2>1
<1>6. \A n \in DOMAIN NodeOperations : Consistent(NodeOperations[n])
  <2>1. /\ NodeOperations["query"] = Get /\ NodeOperations["job"] = Post /\ NodeOperations["reboot"] = Post
        /\ NodeOperations["states"] = [Post EXCEPT !.mutation = FALSE]
    BY DEF NodeOperations
  <2> QED
    BY <1>1, <1>2, <1>4, <2>1
<1>7. \A n \in Names : Consistent(OPERATIONS(n))
  BY <1>5, <1>6 DEF Names, OPERATIONS
<1> QED
  BY <1>7 DEF Consistent

LEMMA OfferedNames == Offered \subseteq Names
BY DEF Offered, Names

\* An effect moves the service for the others, and publishes what is stored.
LEMMA EffectFacts ==
    ASSUME OTypeOK, NEW o \in Ops, Effect(o)
    PROVE  /\ up' \in {"running", "stopped"} /\ run' \in {run, conf}
           /\ executed' \in {executed, executed \cup {o}}
           /\ moved' \subseteq Ops /\ moved \subseteq moved' /\ (o \in moved' => o \in moved)
           /\ up' = up \/ Ops \ {o} \subseteq moved'
<1>1. up' \in {"running", "stopped"}
  BY DEF OTypeOK, Effect, UpAfter
<1>2. run' \in {run, conf} /\ executed' \in {executed, executed \cup {o}}
  BY DEF Effect
<1>3. /\ moved' \subseteq Ops /\ moved \subseteq moved' /\ (o \in moved' => o \in moved)
      /\ up' = up \/ Ops \ {o} \subseteq moved'
  BY DEF Effect, OTypeOK
<1> QED
  BY <1>1, <1>2, <1>3

-----------------------------------------------------------------------------
(* The steps of an operation *)

LEMMA OBeginInv ==
    ASSUME PlaneInv, NEW o \in Ops, OBegin(o)
    PROVE  PlaneInv'
<1>1. PICK n \in Offered :
        /\ op' = [op EXCEPT ![o] = n]
        /\ opc' = [opc EXCEPT ![o] = IF OPERATIONS(n).post THEN "attempt" ELSE "send"]
  BY DEF OBegin, OGoto
<1>2. /\ opc[o] = "idle" /\ moved' = moved \ {o} /\ UNCHANGED <<vars, up, ores, otrail, olate, executed>>
      /\ n \in Names /\ OTypeOK /\ OLocal(o) /\ Inv
  BY <1>1, OfferedNames DEF OBegin, PlaneInv
<1>3. /\ opc'[o] = (IF OPERATIONS(n).post THEN "attempt" ELSE "send") /\ op'[o] = n
      /\ opc' \in [Ops -> OStages \cup {"idle", "done", "crashed"}]
      /\ op' \in [Ops -> Names \cup {NoOp}]
      /\ OAlone(o)
  BY <1>1, <1>2 DEF OTypeOK, OAlone, OStages
<1>4. OTypeOK' /\ Inv'
  BY <1>2, <1>3, QuietPlane DEF OTypeOK
<1>5. Announced(o)'
  BY <1>2, <1>3 DEF OLocal, Announced, Effective, Posted, Checked, OStages
<1>6. Told(o)' /\ Confirmed(o)'
  <2>1. ~Effective(o) /\ ~ores[o].verified
    BY <1>2 DEF OLocal, Announced, Confirmed
  <2>2. opc'[o] \in {"attempt", "send"} /\ ~Effective(o)'
    BY <1>2, <1>3, <2>1 DEF Effective
  <2>3. ~ores[o].ok
    BY <1>2 DEF OLocal, Told
  <2> QED
    BY <2>1, <2>2, <2>3, <1>2 DEF Told, Confirmed
<1> QED
  BY <1>3, <1>4, <1>5, <1>6, OElsewhere DEF OLocal

LEMMA ORefuseInv ==
    ASSUME PlaneInv, NEW o \in Ops, ORefuse(o)
    PROVE  PlaneInv'
<1>1. /\ opc[o] = "idle" /\ opc' = [opc EXCEPT ![o] = "done"]
      /\ ores' = [ores EXCEPT ![o].error = "bad_request"]
      /\ UNCHANGED <<vars, up, op, otrail, olate, executed, moved>>
      /\ OTypeOK /\ OLocal(o) /\ Inv
  BY DEF ORefuse, OGoto, PlaneInv
<1>2. /\ ores' \in [Ops -> OAnswer] /\ ores'[o].ok = ores[o].ok /\ ores'[o].verified = ores[o].verified
      /\ opc'[o] = "done"
  BY <1>1 DEF OTypeOK, OAnswer
<1>3. OTypeOK' /\ Inv' /\ OAlone(o)
  BY <1>1, <1>2, QuietPlane DEF OTypeOK, OAnswer, OAlone
<1>4. ~Effective(o) /\ ~Effective(o)' /\ ~ores[o].verified
  BY <1>1 DEF OLocal, Announced, Confirmed, Effective
<1>5. OLocal(o)'
  BY <1>1, <1>2, <1>4 DEF OLocal, Announced, Told, Confirmed, OStages
<1> QED
  BY <1>3, <1>5, OElsewhere

LEMMA AttemptInv ==
    ASSUME PlaneInv, NEW o \in Ops, Attempt(o)
    PROVE  PlaneInv'
<1>1. /\ opc[o] = "attempt"
      /\ UNCHANGED <<vars, up, op, olate, executed, moved>>
      /\ OTypeOK /\ OLocal(o) /\ Inv
  BY DEF Attempt, PlaneInv
<1>2. ~Effective(o) /\ ~Effective(o)' /\ ~ores[o].verified /\ ~ores[o].ok /\ op[o] \in Names /\ Posted(o)
  BY <1>1 DEF OLocal, Announced, Told, Confirmed, Effective, OStages
<1>3. CASE /\ otrail' = otrail \cup {<<o, "attempt">>} /\ opc' = [opc EXCEPT ![o] = "send"] /\ ores' = ores
  <2>1. OTypeOK' /\ Inv' /\ OAlone(o) /\ opc'[o] = "send"
    BY <1>1, <1>3, QuietPlane DEF OTypeOK, OAlone, OStages
  <2>2. OLocal(o)'
    BY <1>1, <1>2, <1>3, <2>1 DEF OLocal, Announced, Told, Confirmed, OStages, Effective, Posted
  <2> QED
    BY <2>1, <2>2, OElsewhere
<1>4. CASE /\ ores' = [ores EXCEPT ![o].error = "audit", ![o].auditFailure = TRUE]
           /\ opc' = [opc EXCEPT ![o] = "done"] /\ otrail' = otrail
  <2>1. ores' \in [Ops -> OAnswer] /\ ores'[o].ok = ores[o].ok /\ ores'[o].verified = ores[o].verified
    <3>1. ores \in [Ops -> OAnswer]
      BY <1>1 DEF OTypeOK, OAnswer
    <3> QED
      BY <1>4, <3>1 DEF OAnswer
  <2>2. OTypeOK' /\ Inv' /\ OAlone(o) /\ opc'[o] = "done"
    BY <1>1, <1>4, <2>1, QuietPlane DEF OTypeOK, OAlone, OAnswer
  <2>3. OLocal(o)'
    BY <1>1, <1>2, <2>1, <2>2 DEF OLocal, Announced, Told, Confirmed, OStages
  <2> QED
    BY <2>2, <2>3, OElsewhere
<1> QED
  BY <1>3, <1>4 DEF Attempt, OGoto

\* What the except clause answers.
LEMMA OFailFacts ==
    ASSUME OTypeOK, NEW o \in Ops, NEW e \in Answers \cup {"verification"} , OFail(o, e)
    PROVE  /\ ores' \in [Ops -> OAnswer]
           /\ ores'[o].ok = ores[o].ok /\ ores'[o].verified = ores[o].verified
           /\ ores'[o].partial = OpPartial(o, e) /\ (e = "auth" => ores'[o].error = "auth")
           /\ \A q \in Ops \ {o} : ores'[q] = ores[q]
           /\ opc' = [opc EXCEPT ![o] = IF Posted(o) THEN "error" ELSE "done"]
<1>1. ErrorCode(e) \in {"verification", "auth", "timeout", "validation", "upstream", "invalid_response"}
  BY ConstantsAssumption DEF ErrorCode, Answers
<1>2. OpPartial(o, e) \in BOOLEAN
  BY DEF OpPartial
<1> DEFINE x == ErrorCode(e)
           y == OpPartial(o, e)
<1>3. x \in {"verification", "auth", "timeout", "validation", "upstream", "invalid_response"} /\ y \in BOOLEAN
  BY <1>1, <1>2
<1>4. e = "auth" => x = "auth"
  BY DEF ErrorCode
<1>5. ores' = [ores EXCEPT ![o].error = x, ![o].partial = y]
  BY DEF OFail
<1>6. opc' = [opc EXCEPT ![o] = IF Posted(o) THEN "error" ELSE "done"]
  BY DEF OFail, OGoto, Posted
<1> HIDE DEF x, y
<1>7. /\ [[ores[o] EXCEPT !.error = x] EXCEPT !.partial = y] \in OAnswer
      /\ [[ores[o] EXCEPT !.error = x] EXCEPT !.partial = y].partial = y
      /\ [[ores[o] EXCEPT !.error = x] EXCEPT !.partial = y].error = x
  BY <1>3 DEF OTypeOK, OAnswer
<1>8. /\ ores' \in [Ops -> OAnswer]
      /\ ores'[o].ok = ores[o].ok /\ ores'[o].verified = ores[o].verified
      /\ ores'[o].partial = y /\ ores'[o].error = x
      /\ \A q \in Ops \ {o} : ores'[q] = ores[q]
  BY <1>3, <1>5, <1>7 DEF OTypeOK, OAnswer
<1> QED
  BY <1>4, <1>6, <1>8 DEF x, y

\* What a failed POST leaves behind: an effect, sooner or later, only with an
\* error that answers partial.
LEMMA FailedOpFacts ==
    ASSUME PlaneInv, NEW o \in Ops, NEW e \in Answers, FailedOp(o, e)
    PROVE  /\ up' \in {"running", "stopped"} /\ run' \in {run, conf}
           /\ executed' \in {executed, executed \cup {o}} /\ olate' \in {olate, olate \cup {o}}
           /\ moved' \subseteq Ops /\ moved \subseteq moved'
           /\ up' = up \/ Ops \ {o} \subseteq moved'
           /\ e \in {"validation", "auth"} => executed' = executed /\ olate' = olate
<1>1. CASE NoEffect
  BY <1>1 DEF NoEffect, FailedOp, PlaneInv, OTypeOK, Effect
<1>2. CASE Effect(o) /\ UNCHANGED olate /\ e \in {"rejected", "timeout", "upstream", "invalid_response"}
  BY <1>2, EffectFacts DEF PlaneInv
<1> QED
  BY <1>1, <1>2 DEF FailedOp

LEMMA SendPostInv ==
    ASSUME PlaneInv, NEW o \in Ops, SendPost(o)
    PROVE  PlaneInv'
<1>1. /\ opc[o] = "send" /\ Posted(o)
      /\ UNCHANGED <<conf, used, inflight, locks, audit, pc, req, ctl, res, touched, foreign, env, op, otrail>>
      /\ OTypeOK /\ OLocal(o) /\ Inv
  BY DEF SendPost, Posted, PlaneInv, history
<1>2. /\ ~Effective(o) /\ ~ores[o].verified /\ ~ores[o].ok /\ op[o] \in Names /\ <<o, "attempt">> \in otrail
  BY <1>1 DEF OLocal, Announced, Told, Confirmed, OStages
<1>3. CASE /\ Effect(o) \/ NoEffect
           /\ opc' = [opc EXCEPT ![o] = IF Checked(o) THEN "verify" ELSE "record"]
           /\ UNCHANGED <<ores, olate>>
  <2>1. /\ up' \in {"running", "stopped"} /\ run' \in {run, conf}
        /\ executed' \in {executed, executed \cup {o}} /\ moved' \subseteq Ops /\ moved \subseteq moved'
        /\ up' = up \/ Ops \ {o} \subseteq moved'
    BY <1>1, <1>3, EffectFacts DEF NoEffect, OTypeOK
  <2>2. Inv'
    BY <1>1, <2>1, RepublishInv
  <2>3. OTypeOK' /\ OAlone(o) /\ opc'[o] = (IF Checked(o) THEN "verify" ELSE "record")
    BY <1>1, <1>3, <2>1 DEF OTypeOK, OAlone, OStages
  <2>4. o \notin olate
    BY <1>2 DEF Effective
  <2>5. OLocal(o)'
    BY <1>1, <1>2, <1>3, <2>3, <2>4 DEF OLocal, Announced, Told, Confirmed, OStages, Effective, Posted, Checked
  <2> QED
    BY <2>2, <2>3, <2>5, OElsewhere
<1>4. ASSUME NEW e \in Answers, FailedOp(o, e), OFail(o, e)
      PROVE  PlaneInv'
  <2>1. /\ ores' \in [Ops -> OAnswer]
        /\ ores'[o].ok = ores[o].ok /\ ores'[o].verified = ores[o].verified
        /\ ores'[o].partial = OpPartial(o, e)
        /\ \A q \in Ops \ {o} : ores'[q] = ores[q]
        /\ opc' = [opc EXCEPT ![o] = "error"]
    BY <1>1, <1>4, OFailFacts
  <2>2. /\ up' \in {"running", "stopped"} /\ run' \in {run, conf}
        /\ executed' \in {executed, executed \cup {o}} /\ olate' \in {olate, olate \cup {o}}
        /\ moved' \subseteq Ops /\ moved \subseteq moved'
        /\ up' = up \/ Ops \ {o} \subseteq moved'
        /\ e \in {"validation", "auth"} => executed' = executed /\ olate' = olate
    BY <1>4, FailedOpFacts
  <2>3. Inv'
    BY <1>1, <2>2, RepublishInv
  <2>4. OTypeOK' /\ OAlone(o) /\ opc'[o] = "error"
    BY <1>1, <2>1, <2>2 DEF OTypeOK, OAlone, OStages, OAnswer
  <2>5. ores'[o].partial \/ ~Effective(o)'
    <3>1. CASE e \in {"validation", "auth"}
      BY <3>1, <2>2, <1>2 DEF Effective
    <3>2. CASE e \notin {"validation", "auth"}
      BY <3>2, <2>1, <1>1 DEF OpPartial, Posted
    <3> QED
      BY <3>1, <3>2
  <2>6. OLocal(o)'
    <3>1. Announced(o)'
      BY <1>1, <1>2, <2>4 DEF Announced, Posted, OStages
    <3>2. Told(o)'
      BY <1>2, <2>1, <2>4, <2>5 DEF Told
    <3>3. Confirmed(o)'
      BY <1>2, <2>1, <2>4 DEF Confirmed
    <3> QED
      BY <3>1, <3>2, <3>3 DEF OLocal
  <2> QED
    BY <2>3, <2>4, <2>6, OElsewhere
<1> QED
  BY <1>3, <1>4 DEF SendPost, OGoto, Checked

\* A query has no effect whatever comes back.
LEMMA SendGetInv ==
    ASSUME PlaneInv, NEW o \in Ops, SendGet(o)
    PROVE  PlaneInv'
<1>1. /\ opc[o] = "send" /\ ~Posted(o)
      /\ UNCHANGED <<vars, up, op, otrail, olate, executed, moved>>
      /\ OTypeOK /\ OLocal(o) /\ Inv
  BY DEF SendGet, Posted, PlaneInv
<1>2. ~Effective(o) /\ ~Effective(o)' /\ ~ores[o].verified
  BY <1>1 DEF OLocal, Announced, Confirmed, Effective
<1>3. /\ ores' \in [Ops -> OAnswer] /\ ores'[o].verified = ores[o].verified
      /\ \A q \in Ops \ {o} : ores'[q] = ores[q]
      /\ opc' = [opc EXCEPT ![o] = "done"]
  <2>1. CASE ores' = [ores EXCEPT ![o].ok = TRUE] /\ opc' = [opc EXCEPT ![o] = "done"]
    BY <2>1, <1>1 DEF OTypeOK, OAnswer
  <2>2. ASSUME NEW e \in Answers, OFail(o, e)
        PROVE  /\ ores' \in [Ops -> OAnswer] /\ ores'[o].verified = ores[o].verified
               /\ \A q \in Ops \ {o} : ores'[q] = ores[q]
               /\ opc' = [opc EXCEPT ![o] = "done"]
    BY <2>2, <1>1, OFailFacts
  <2> QED
    BY <2>1, <2>2 DEF SendGet, OGoto
<1>4. OTypeOK' /\ Inv' /\ OAlone(o) /\ opc'[o] = "done"
  BY <1>1, <1>3, QuietPlane DEF OTypeOK, OAlone, OAnswer
<1>5. OLocal(o)'
  BY <1>1, <1>2, <1>3, <1>4 DEF OLocal, Announced, Told, Confirmed, OStages
<1> QED
  BY <1>4, <1>5, OElsewhere

LEMMA OVerifyInv ==
    ASSUME PlaneInv, NEW o \in Ops, OVerify(o)
    PROVE  PlaneInv'
<1>1. /\ opc[o] = "verify"
      /\ UNCHANGED <<vars, up, op, otrail, olate, executed, moved>>
      /\ OTypeOK /\ OLocal(o) /\ Inv
  BY DEF OVerify, PlaneInv
<1>2. /\ op[o] \in Names /\ Posted(o) /\ Checked(o) /\ <<o, "attempt">> \in otrail /\ o \notin olate
      /\ ~ores[o].ok /\ ~ores[o].verified
  BY <1>1 DEF OLocal, Announced, Told, Confirmed, OStages
<1>3. CASE Expected(o) /\ ores' = [ores EXCEPT ![o].verified = TRUE] /\ opc' = [opc EXCEPT ![o] = "record"]
  <2>1. /\ ores' \in [Ops -> OAnswer] /\ ores'[o].ok = ores[o].ok
        /\ \A q \in Ops \ {o} : ores'[q] = ores[q]
    BY <1>1, <1>3 DEF OTypeOK, OAnswer
  <2>2. OTypeOK' /\ Inv' /\ OAlone(o) /\ opc'[o] = "record"
    BY <1>1, <1>3, <2>1, QuietPlane DEF OTypeOK, OAlone, OAnswer, OStages
  <2>3. OLocal(o)'
    BY <1>1, <1>2, <1>3, <2>1, <2>2
       DEF OLocal, Announced, Told, Confirmed, Expected, OStages, Effective, Posted, Checked
  <2> QED
    BY <2>2, <2>3, OElsewhere
<1>4. ASSUME NEW e \in Answers \cup {"verification"}, e # "validation", OFail(o, e)
      PROVE  PlaneInv'
  <2>1. /\ ores' \in [Ops -> OAnswer]
        /\ ores'[o].ok = ores[o].ok /\ ores'[o].verified = ores[o].verified
        /\ ores'[o].partial = OpPartial(o, e) /\ (e = "auth" => ores'[o].error = "auth")
        /\ \A q \in Ops \ {o} : ores'[q] = ores[q]
        /\ opc' = [opc EXCEPT ![o] = "error"]
    BY <1>1, <1>2, <1>4, OFailFacts
  <2>2. OTypeOK' /\ Inv' /\ OAlone(o) /\ opc'[o] = "error"
    BY <1>1, <2>1, QuietPlane DEF OTypeOK, OAlone, OAnswer, OStages
  <2>3. ores'[o].partial \/ ores'[o].error = "auth"
    BY <1>2, <1>4, <2>1 DEF OpPartial, Posted
  <2>4. OLocal(o)'
    <3>1. Announced(o)'
      BY <1>1, <1>2, <2>2 DEF Announced, Posted, OStages
    <3>2. Told(o)'
      BY <1>1, <1>2, <2>1, <2>2, <2>3 DEF Told, Checked
    <3>3. Confirmed(o)'
      BY <1>1, <1>2, <2>1, <2>2 DEF Confirmed
    <3> QED
      BY <3>1, <3>2, <3>3 DEF OLocal
  <2> QED
    BY <2>2, <2>4, OElsewhere
<1>5. \A e \in Transport : e \in Answers /\ e # "validation"
  BY DEF Transport, Answers
<1> QED
  BY <1>3, <1>4, <1>5 DEF OVerify, OGoto

LEMMA ORecordInv ==
    ASSUME PlaneInv, NEW o \in Ops, ORecord(o)
    PROVE  PlaneInv'
<1>1. /\ opc[o] = "record" /\ opc' = [opc EXCEPT ![o] = "done"]
      /\ UNCHANGED <<vars, up, op, olate, executed, moved>>
      /\ OTypeOK /\ OLocal(o) /\ Inv
  BY DEF ORecord, OGoto, PlaneInv
<1>2. /\ ores' \in [Ops -> OAnswer] /\ ores'[o].verified = ores[o].verified
      /\ \A q \in Ops \ {o} : ores'[q] = ores[q]
      /\ \/ otrail' = otrail \cup {<<o, "ok">>} /\ ores'[o].ok
         \/ otrail' = otrail /\ ores'[o].ok = ores[o].ok /\ ores'[o].partial /\ ores'[o].auditFailure
  <2>0. ores \in [Ops -> OAnswer]
    BY <1>1 DEF OTypeOK, OAnswer
  <2>1. CASE otrail' = otrail \cup {<<o, "ok">>} /\ ores' = [ores EXCEPT ![o].ok = TRUE]
    BY <2>0, <2>1 DEF OAnswer
  <2>2. CASE /\ ores' = [ores EXCEPT ![o].error = "audit", ![o].partial = TRUE, ![o].auditFailure = TRUE]
             /\ UNCHANGED otrail
    <3> DEFINE r == [ores[o] EXCEPT !.error = "audit", !.partial = TRUE, !.auditFailure = TRUE]
    <3>1. /\ r \in OAnswer /\ r.partial /\ r.auditFailure
          /\ r.ok = ores[o].ok /\ r.verified = ores[o].verified
      BY <2>0 DEF OAnswer
    <3>2. ores' = [ores EXCEPT ![o] = r]
      BY <2>2
    <3> HIDE DEF r
    <3> QED
      BY <2>0, <2>2, <3>1, <3>2
  <2> QED
    BY <2>1, <2>2 DEF ORecord
<1>3. OTypeOK' /\ Inv' /\ OAlone(o) /\ opc'[o] = "done"
  <2>1. otrail' \subseteq Ops \X {"attempt", "ok", "error"} /\ otrail \subseteq otrail'
    BY <1>1, <1>2 DEF OTypeOK
  <2>2. OTypeOK' /\ opc'[o] = "done"
    BY <1>1, <1>2, <2>1 DEF OTypeOK, OAnswer
  <2>3. OAlone(o)
    BY <1>1, <1>2, <2>1 DEF OAlone, OTypeOK
  <2> QED
    BY <1>1, <2>2, <2>3, QuietPlane
<1>4. ~ores[o].ok
  BY <1>1 DEF OLocal, Told, OStages
<1>5. OLocal(o)'
  <2>1. Announced(o)'
    BY <1>1, <1>2, <1>3 DEF OLocal, Announced, Posted, OStages, Effective
  <2>2. Told(o)'
    BY <1>2, <1>3, <1>4 DEF Told, OStages
  <2>3. Confirmed(o)'
    BY <1>1, <1>2, <1>3 DEF OLocal, Confirmed
  <2> QED
    BY <2>1, <2>2, <2>3 DEF OLocal
<1> QED
  BY <1>3, <1>5, OElsewhere

LEMMA OErrorInv ==
    ASSUME PlaneInv, NEW o \in Ops, OError(o)
    PROVE  PlaneInv'
<1>1. /\ opc[o] = "error" /\ opc' = [opc EXCEPT ![o] = "done"]
      /\ UNCHANGED <<vars, up, op, olate, executed, moved>>
      /\ OTypeOK /\ OLocal(o) /\ Inv
  BY DEF OError, OGoto, PlaneInv
<1>2. /\ ores' \in [Ops -> OAnswer] /\ ores'[o].verified = ores[o].verified
      /\ ores'[o].ok = ores[o].ok /\ ores'[o].partial = ores[o].partial /\ ores'[o].error = ores[o].error
      /\ \A q \in Ops \ {o} : ores'[q] = ores[q]
      /\ \/ otrail' = otrail \cup {<<o, "error">>}
         \/ otrail' = otrail /\ ores'[o].auditFailure
  <2>1. CASE otrail' = otrail \cup {<<o, "error">>} /\ UNCHANGED ores
    BY <2>1, <1>1 DEF OTypeOK, OAnswer
  <2>2. CASE ores' = [ores EXCEPT ![o].auditFailure = TRUE] /\ UNCHANGED otrail
    BY <2>2, <1>1 DEF OTypeOK, OAnswer
  <2> QED
    BY <2>1, <2>2 DEF OError
<1>3. OTypeOK' /\ Inv' /\ OAlone(o) /\ opc'[o] = "done"
  <2>1. otrail' \subseteq Ops \X {"attempt", "ok", "error"} /\ otrail \subseteq otrail'
    BY <1>1, <1>2 DEF OTypeOK
  <2>2. OTypeOK' /\ opc'[o] = "done"
    BY <1>1, <1>2, <2>1 DEF OTypeOK, OAnswer
  <2>3. OAlone(o)
    BY <1>1, <1>2, <2>1 DEF OAlone, OTypeOK
  <2> QED
    BY <1>1, <2>2, <2>3, QuietPlane
<1>4. ~ores[o].ok
  BY <1>1 DEF OLocal, Told, OStages
<1>5. OLocal(o)'
  <2>1. Announced(o)'
    BY <1>1, <1>2, <1>3 DEF OLocal, Announced, Posted, OStages, Effective
  <2>2. Told(o)'
    BY <1>1, <1>2, <1>3, <1>4 DEF OLocal, Told, OStages, Effective, Checked
  <2>3. Confirmed(o)'
    BY <1>1, <1>2, <1>3 DEF OLocal, Confirmed
  <2> QED
    BY <2>1, <2>2, <2>3 DEF OLocal
<1> QED
  BY <1>3, <1>5, OElsewhere

LEMMA OLateInv ==
    ASSUME PlaneInv, OLate
    PROVE  PlaneInv'
<1>1. PICK o \in olate : olate' = olate \ {o} /\ Effect(o)
  BY DEF OLate
<1>2. /\ o \in Ops /\ OTypeOK /\ OLocal(o) /\ Inv
      /\ UNCHANGED <<conf, used, inflight, locks, audit, pc, req, ctl, res, touched, foreign, env, opc, op, ores, otrail>>
  BY <1>1 DEF OLate, history, PlaneInv, OTypeOK
<1>3. /\ up' \in {"running", "stopped"} /\ run' \in {run, conf}
      /\ executed' \in {executed, executed \cup {o}} /\ moved' \subseteq Ops /\ moved \subseteq moved'
      /\ up' = up \/ Ops \ {o} \subseteq moved'
  BY <1>1, <1>2, EffectFacts
<1>4. Inv'
  BY <1>2, <1>3, RepublishInv
<1>5. OTypeOK' /\ OAlone(o)
  BY <1>1, <1>2, <1>3 DEF OTypeOK, OAlone
<1>6. OLocal(o)'
  <2>1. Effective(o) /\ ~ores[o].verified /\ opc[o] \notin {"verify", "record"}
    BY <1>1, <1>2 DEF OLocal, Confirmed, Effective
  <2>2. Announced(o)'
    BY <1>2, <2>1 DEF OLocal, Announced, Posted, Checked
  <2>3. Told(o)'
    BY <1>2, <2>1 DEF OLocal, Told, Checked
  <2>4. Confirmed(o)'
    BY <1>2, <2>1 DEF Confirmed
  <2> QED
    BY <2>2, <2>3, <2>4 DEF OLocal
<1> QED
  BY <1>2, <1>4, <1>5, <1>6, OElsewhere

LEMMA PlaneCrashInv ==
    ASSUME PlaneInv, PlaneCrash
    PROVE  PlaneInv'
<1>1. /\ opc' = [o \in Ops |-> IF opc[o] \in OStages THEN "crashed" ELSE opc[o]]
      /\ UNCHANGED <<up, op, ores, otrail, olate, executed, moved>> /\ OTypeOK
  BY DEF PlaneCrash, PlaneInv
<1>2. Inv'
  BY DieInv DEF PlaneCrash, PlaneInv
<1>3. \A o \in Ops : (opc'[o] = opc[o] /\ opc[o] \notin OStages) \/ opc'[o] = "crashed"
  BY <1>1
<1>4. OTypeOK'
  BY <1>1 DEF OTypeOK
<1>5. ASSUME NEW o \in Ops PROVE OLocal(o)'
  <2>1. OLocal(o) /\ ((opc'[o] = opc[o] /\ opc[o] \notin OStages) \/ opc'[o] = "crashed")
    BY <1>3 DEF PlaneInv
  <2>2. Announced(o)'
    BY <1>1, <2>1 DEF OLocal, Announced, Posted, Checked, OStages, Effective
  <2>3. Told(o)'
    BY <1>1, <2>1 DEF OLocal, Told, Checked, OStages, Effective
  <2>4. Confirmed(o)'
    BY <1>1, <2>1 DEF OLocal, Confirmed, OStages
  <2> QED
    BY <2>2, <2>3, <2>4 DEF OLocal
<1> QED
  BY <1>2, <1>4, <1>5 DEF PlaneInv

-----------------------------------------------------------------------------

LEMMA PlaneInitInv ==
    ASSUME PlaneInit
    PROVE  PlaneInv
<1>1. Inv
  BY InitInv DEF PlaneInit
<1>2. OTypeOK
  BY DEF PlaneInit, OTypeOK
<1>3. ASSUME NEW o \in Ops PROVE OLocal(o)
  BY DEF PlaneInit, OLocal, Announced, Told, Confirmed, Effective, OStages
<1> QED
  BY <1>1, <1>2, <1>3 DEF PlaneInv

LEMMA PlaneStutterInv ==
    ASSUME PlaneInv, UNCHANGED plane
    PROVE  PlaneInv'
<1>1. UNCHANGED vars /\ UNCHANGED <<up, opc, op, ores, otrail, olate, executed, moved>>
  BY DEF plane, ovars
<1>2. Inv' /\ OTypeOK'
  BY <1>1, QuietPlane DEF PlaneInv, OTypeOK
<1>3. ASSUME NEW o \in Ops PROVE OLocal(o)'
  BY <1>1 DEF PlaneInv, OLocal, Announced, Told, Confirmed, Effective, Posted, Checked
<1> QED
  BY <1>2, <1>3 DEF PlaneInv

LEMMA PlaneNextInv ==
    ASSUME PlaneInv, [PlaneNext]_plane
    PROVE  PlaneInv'
<1>1. CASE /\ (\E p \in Procs : Begin(p) \/ Refuse(p) \/ Step(p)) \/ ExternalWrite \/ LateExecution
           /\ Aside
  <2>1. Inv'
    BY <1>1, RequestInv, ExternalWriteInv, LateExecutionInv DEF PlaneInv
  <2> QED
    BY <1>1, <2>1, AsideInv
<1>2. ASSUME NEW o \in Ops, OBegin(o) \/ ORefuse(o) \/ OStep(o) PROVE PlaneInv'
  BY <1>2, OBeginInv, ORefuseInv, AttemptInv, SendPostInv, SendGetInv, OVerifyInv, ORecordInv, OErrorInv
  DEF OStep
<1>3. CASE UNCHANGED plane \/ PlaneDone
  BY <1>3, PlaneStutterInv DEF PlaneDone
<1> QED
  BY <1>1, <1>2, <1>3, OLateInv, PlaneCrashInv DEF PlaneNext

\* Requests and operations side by side keep the inductive invariants of both.
THEOREM PlaneInvariant == PlaneSpec => []PlaneInv
<1>1. PlaneInit => PlaneInv
  BY PlaneInitInv
<1>2. PlaneInv /\ [PlaneNext]_plane => PlaneInv'
  BY PlaneNextInv
<1> QED
  BY <1>1, <1>2, PTL DEF PlaneSpec

\* Every reachable state of the plane is well formed.
THEOREM PlaneTypes == PlaneSpec => [](TypeOK /\ OTypeOK)
<1>1. PlaneInv => TypeOK /\ OTypeOK
  BY DEF PlaneInv, Inv
<1> QED
  BY <1>1, PlaneInvariant, PTL

\* "partial when a mutation may have occurred", but for the login that is denied
\* at the read-back of execute_operation.
THEOREM OpPartialHonest == PlaneSpec => []OpPartialIsHonest
<1>1. PlaneInv => OpPartialIsHonest
  BY DEF PlaneInv, OLocal, Told, OpPartialIsHonest, Effective, Checked
<1> QED
  BY <1>1, PlaneInvariant, PTL

\* No operation has an effect without its attempt on record, nor ends with one
\* whose outcome is neither on record nor reported as missing.
THEOREM OpTraced == PlaneSpec => []OpTrailOrAlarm
<1>1. PlaneInv => OpTrailOrAlarm
  <2> SUFFICES ASSUME PlaneInv, NEW o \in executed \cup olate
               PROVE  /\ <<o, "attempt">> \in otrail
                      /\ opc[o] = "done" => \/ ores[o].ok /\ <<o, "ok">> \in otrail
                                            \/ ~ores[o].ok /\ <<o, "error">> \in otrail
                                            \/ ~ores[o].ok /\ ores[o].auditFailure
    BY DEF OpTrailOrAlarm
  <2>1. o \in Ops /\ OLocal(o)
    BY DEF PlaneInv, OTypeOK
  <2> QED
    BY <2>1 DEF OLocal, Announced, Told, Effective
<1> QED
  BY <1>1, PlaneInvariant, PTL

\* A service that is said to be verified is in the state that was asked for.
THEOREM OpVerified == PlaneSpec => []VerifiedIsTrue
<1>1. PlaneInv => VerifiedIsTrue
  BY DEF PlaneInv, OLocal, Confirmed, VerifiedIsTrue
<1> QED
  BY <1>1, PlaneInvariant, PTL

\* Operations take no lock, publish what others have stored and start and stop
\* services under them; the requests of ManagementEngine keep their promises all
\* the same: their answers are true, and partial is honest.
THEOREM RequestsBeside == PlaneSpec => [](OkIsTrue /\ PartialIsHonest /\ MutualExclusion)
<1>1. Inv => OkIsTrue
  <2>1. ASSUME Inv, NEW p \in Procs, pc[p] = "record", p \notin foreign
        PROVE  LET s == req[p].spec
                   u == req[p].uuid
               IN Asked(p, conf[s][u]) /\ (~Saved(s) => Asked(p, run[s][u]))
    BY <2>1 DEF Inv, Local, Content, Met, Live
  <2> QED
    BY <2>1 DEF OkIsTrue
<1>2. Inv => PartialIsHonest
  BY DEF Inv, Local, Reported, PartialIsHonest
<1>3. Inv => MutualExclusion
  BY OthersElsewhere DEF MutualExclusion
<1>4. PlaneInv => Inv
  BY DEF PlaneInv
<1> QED
  BY <1>1, <1>2, <1>3, <1>4, PlaneInvariant, PTL
=============================================================================
