--------------------------- MODULE VerifiedWriter ---------------------------
(***************************************************************************)
(* VerifiedFirewallWriter (src/src/writers/verified.py): the write path of *)
(* port forwards, filter rules and aliases.  Concurrent requests of one    *)
(* plugin process create, update or delete objects of one resource on an   *)
(* OPNsense node, or on the CARP master of a pair of nodes, through HTTP   *)
(* POSTs that may be acknowledged, rejected, lost or executed late.        *)
(*                                                                         *)
(* A node stores a configuration (conf) and runs one (run); "apply" copies *)
(* the first to the second.  An object is one value: the revision the code *)
(* compares (hash_payload, SHA-256 of the object) is injective, so it is   *)
(* the value itself.  Each member of Procs is one HTTP request.            *)
(***************************************************************************)
EXTENDS Naturals, FiniteSets

CONSTANTS
    Procs,          \* write requests
    Nodes,          \* OPNsense nodes: one, or the two of an HA pair
    Ids,            \* object uuids
    Vals,           \* object contents
    NoProc, NoNode, NoId, NoVal, NoPlan,     \* "none" of each kind
    HaMode,         \* "single", "automatic" or "xmlrpc_pf"
    Resource,       \* "port_forward", "rules" or "aliases"
    Attempts,       \* ha_verify_attempts
    Addresses,      \* addresses[n]: interface addresses of n that are no VIP
    HasyncConfs,    \* settings of /api/core/hasync/get of both nodes
    CarpStates,     \* CARP status of both nodes
    Failures,       \* failures of HTTP calls that happen
    MaxEnv          \* bound: interventions of the environment

Peers == Nodes \cup {NoNode}
HasPeer == HaMode # "single"
Sections == {"aliases", "rules", "nat"}
Hasync == [to : UNION {Addresses[n] : n \in Nodes} \cup {"", "name"},
           items : SUBSET (Sections \cup {"other"})]
Carp == [maintenance : BOOLEAN, vips : [{"vip1", "vip2"} -> {"MASTER", "BACKUP", "INIT", "none"}]]

ASSUME ConstantsAssumption ==
    /\ IsFiniteSet(Nodes)
    /\ NoProc \notin Procs /\ NoNode \notin Nodes /\ NoId \notin Ids /\ NoVal \notin Vals
    /\ HaMode \in {"single", "automatic", "xmlrpc_pf"}
    /\ Resource \in {"port_forward", "rules", "aliases"}
    /\ Attempts \in 1 .. 10
    /\ MaxEnv \in Nat
    /\ Failures \subseteq {"validation", "rejected", "auth", "timeout", "upstream"}
    /\ "upstream" \in Failures
    /\ DOMAIN Addresses = Nodes
    /\ HasyncConfs \subseteq [Nodes -> Hasync] /\ HasyncConfs # {}
    /\ CarpStates \subseteq [Nodes -> Carp] /\ CarpStates # {}

ASSUME PairAssumption ==
    IF HasPeer THEN \E a, b \in Nodes : a # b /\ Nodes = {a, b}
               ELSE \E a \in Nodes : Nodes = {a}

VARIABLES
    conf,       \* conf[n][u]: stored content of object u on node n
    run,        \* run[n][u]: content in the running configuration
    used,       \* uuids that OPNsense has handed out
    inflight,   \* POSTs whose caller timed out and that a node has yet to run
    hasync,     \* hasync[n]: XMLRPC settings of n
    carp,       \* carp[n]: CARP status of n
    locks,      \* _WRITE_LOCKS: holder of the lock of each set of nodes
    audit,      \* lines of audit.jsonl: <<request, event>>
    pc,         \* where each request stands
    req,        \* the request: action, uuid, revision, payload, target
    ctl,        \* locals of _execute, _sync and the writer's fields
    res,        \* the result dictionary
    foreign,    \* history: what others than the plugin changed under p
    env         \* number of environment interventions so far

data == <<conf, run, inflight>>
world == <<hasync, carp, env>>
vars == <<conf, run, used, inflight, hasync, carp, locks, audit, pc, req, ctl, res, foreign, env>>

-----------------------------------------------------------------------------
(* Types *)

Objects == [Ids -> Vals \cup {NoVal}]
Op == [kind : {"add", "set"}, node : Nodes, id : Ids, val : Vals \cup {NoVal}]
        \cup [kind : {"apply", "push"}, node : Nodes]
Plan == [to : {h.to : h \in Hasync}, items : SUBSET (Sections \cup {"other"}),
         vips : SUBSET {"vip1", "vip2"}]
Events == {"started", "peer_delete", "ok", "error"}
Rejections == {"validation", "rejected"} \cap Failures
Transport == {"auth", "timeout", "upstream"} \cap Failures
Errors == {"none", "invalid", "conflict", "ha_unsafe", "ha_unverified", "audit",
           "auth", "timeout", "validation", "upstream"}
\* Stages at which the lock is held.
Critical == {"intent", "preflight", "read", "last", "peerRev", "mutate", "apply", "verify",
             "sync", "push", "peerRead", "cleanup", "cleanIntent", "cleanDelete",
             "cleanApply", "cleanVerify", "rbDelete", "rbApply", "rbVerify", "final"}
Stages == Critical \cup {"idle", "wait", "done", "crashed"}

\* "data": data changed since p got the lock; "check": since p last checked a
\* revision; "ha": CARP or XMLRPC settings changed since p last checked them.
Disturbances == {"data", "check", "ha"}
Undisturbed(p, d) == d \notin foreign[p]

Request == [action : {"create", "update", "delete"}, uuid : Ids \cup {NoId},
            rev : Vals \cup {NoVal}, val : Vals \cup {NoVal}, client : Nodes, peer : Peers]
Control == [plan : Plan \cup {NoPlan}, peerRev : Vals \cup {NoVal}, accepted : BOOLEAN,
            tries : 0 .. Attempts, expect : Vals \cup {NoVal}]
Result == [ok : BOOLEAN, error : Errors, applied : BOOLEAN, verified : BOOLEAN,
           sync : {"none", "unverified", "verified"}, rollback : BOOLEAN,
           rbLocal : BOOLEAN, rbVerified : BOOLEAN]

NoRequest == [action |-> "create", uuid |-> NoId, rev |-> NoVal, val |-> NoVal,
              client |-> CHOOSE n \in Nodes : TRUE, peer |-> NoNode]
NoControl == [plan |-> NoPlan, peerRev |-> NoVal, accepted |-> FALSE, tries |-> 0, expect |-> NoVal]
NoResult == [ok |-> FALSE, error |-> "none", applied |-> FALSE, verified |-> FALSE,
             sync |-> "none", rollback |-> FALSE, rbLocal |-> FALSE, rbVerified |-> FALSE]

TypeOK ==
    /\ conf \in [Nodes -> Objects]
    /\ run \in [Nodes -> Objects]
    /\ used \subseteq Ids
    /\ inflight \subseteq Op
    /\ hasync \in HasyncConfs
    /\ carp \in CarpStates
    /\ locks \in [SUBSET Peers -> Procs \cup {NoProc}]
    /\ audit \subseteq Procs \X Events
    /\ pc \in [Procs -> Stages]
    /\ req \in [Procs -> Request]
    /\ ctl \in [Procs -> Control]
    /\ res \in [Procs -> Result]
    /\ foreign \in [Procs -> SUBSET Disturbances]
    /\ env \in 0 .. MaxEnv

-----------------------------------------------------------------------------
(* What a node does with a POST (external: OPNsense). *)

Other(n) == CHOOSE m \in Nodes : m # n
Present(n) == {u \in Ids : conf[n][u] # NoVal}

\* XMLRPC copies the whole section of n over the peer's, except that an empty
\* nat/rule section leaves the peer's last row alone (26.1.2).
Merged(n, m) ==
    IF Resource = "port_forward" /\ Present(n) = {} THEN conf[m] ELSE conf[n]

ConfAfter(op) ==
    CASE op.kind \in {"add", "set"} -> [conf EXCEPT ![op.node][op.id] = op.val]
      [] op.kind = "push" -> [conf EXCEPT ![Other(op.node)] = Merged(op.node, Other(op.node))]
      [] OTHER -> conf
RunAfter(op) ==
    CASE op.kind = "apply" -> [run EXCEPT ![op.node] = conf[op.node]]
      [] op.kind = "push" -> [run EXCEPT ![Other(op.node)] = Merged(op.node, Other(op.node))]
      [] OTHER -> run

\* A set or del of an object that is gone is refused.
Possible(op) == op.kind = "set" => conf[op.node][op.id] # NoVal
Executed(op) ==
    Possible(op) /\ conf' = ConfAfter(op) /\ run' = RunAfter(op) /\ inflight' = inflight
Ignored == UNCHANGED data
Delayed(op) == inflight' = inflight \cup {op} /\ UNCHANGED <<conf, run>>

\* What may have happened on the node when the caller sees failure e: a
\* validation error or a refused login changes nothing, a reply without a
\* success marker or an HTTP error says nothing, a timed-out request may also
\* be executed later.
FailedPost(op, e) ==
    \/ Ignored
    \/ e \in {"rejected", "timeout", "upstream"} /\ Executed(op)
    \/ e = "timeout" /\ Delayed(op)

-----------------------------------------------------------------------------
(* Reads and checks of the writer. *)

\* verify(): absence through search, content through get and matches.
MutantVerify(n, u, expect) == TRUE     \* mutant: any answer of the node will do
Verify(n, u, expect) == conf[n][u] = expect

VipSet(n) == {v \in {"vip1", "vip2"} : carp[n].vips[v] # "none"}
AllVips(n, role) == VipSet(n) # {} /\ \A v \in VipSet(n) : carp[n].vips[v] = role

\* _firewall_target(cfg, write=True): c is the fresh, unambiguous master.
Target(c, q) ==
    IF HasPeer
      THEN /\ c # q /\ q \in Nodes
           /\ AllVips(c, "MASTER") /\ AllVips(q, "BACKUP")
           /\ VipSet(c) = VipSet(q)
           /\ ~carp[c].maintenance /\ ~carp[q].maintenance
      ELSE q = NoNode

Required == CASE Resource = "port_forward" -> "nat" [] OTHER -> Resource

\* _sync_preflight(): XMLRPC goes one way, to an address only the peer has,
\* covers the section and nothing but firewall sections, from MASTER to BACKUP.
PreflightOK(c, q) ==
    /\ Required \in hasync[c].items
    /\ hasync[c].items \subseteq Sections
    /\ hasync[q].to = ""
    /\ hasync[c].to \in Addresses[q]
    /\ hasync[c].to \notin Addresses[c]
    /\ AllVips(c, "MASTER") /\ AllVips(q, "BACKUP")
    /\ ~carp[c].maintenance /\ ~carp[q].maintenance
    /\ VipSet(c) = VipSet(q)
PlanOf(c) == [to |-> hasync[c].to, items |-> hasync[c].items, vips |-> VipSet(c)]
\* Before a push and before the cleanup: the plan of the first check still holds.
MutantSamePlan(p) == PreflightOK(req[p].client, req[p].peer)     \* mutant: any safe plan will do
SamePlan(p) == PreflightOK(req[p].client, req[p].peer) /\ PlanOf(req[p].client) = ctl[p].plan
NeedsPreflight(p) == req[p].peer # NoNode /\ HaMode = "xmlrpc_pf"

\* The lock is keyed by the sorted pair of node URLs, so both directions of a
\* pair share it.
MutantLockKey(c, q) == {c}     \* mutant: keyed by the target alone
LockKey(c, q) == {c, q}

-----------------------------------------------------------------------------
(* Moves of a request's control state. *)

\* The locals of the requests in S, and the history about them, are gone.
Forget(S) ==
    /\ req' = [p \in Procs |-> IF p \in S THEN NoRequest ELSE req[p]]
    /\ ctl' = [p \in Procs |-> IF p \in S THEN NoControl ELSE ctl[p]]
    /\ foreign' = [p \in Procs |-> IF p \in S THEN {} ELSE foreign[p]]

\* History only: p has just looked, so earlier disturbances of kind d are known.
Checked(p, d) == foreign' = [foreign EXCEPT ![p] = @ \ {d}]

Goto(p, s) == pc' = [pc EXCEPT ![p] = s]

\* The except clause of _execute: only a create that was accepted and then
\* definitely rejected is undone.
MutantRollsBack(p, e) ==     \* mutant: any failure undoes the create
    ctl[p].accepted /\ req[p].action = "create"
RollsBack(p, e) == ctl[p].accepted /\ req[p].action = "create" /\ e \in Rejections
ErrorOf(e) == IF e \in {"rejected", "oserror"} THEN "upstream" ELSE e
Fail(p, e) ==
    /\ res' = [res EXCEPT ![p].error = ErrorOf(e), ![p].rollback = RollsBack(p, e)]
    /\ Goto(p, IF RollsBack(p, e) THEN "rbDelete" ELSE "final")

\* _sync returns to _execute, or to the rollback that called it.
SyncReturns(p, v) ==
    /\ Goto(p, "final")
    /\ res' = IF res[p].rollback
                THEN [res EXCEPT ![p].rbVerified = res[p].rbLocal /\ v = "verified"]
                ELSE [res EXCEPT ![p].sync = v, ![p].ok = (v = "verified"),
                                 ![p].error = IF v = "verified" THEN "none" ELSE "ha_unverified"]

-----------------------------------------------------------------------------
(* The steps of a request. *)

\* A well-formed request reaches the writer with the target of the gate.
Begin(p) ==
    /\ pc[p] = "idle"
    /\ \E a \in {"create", "update", "delete"}, c \in Nodes, q \in Peers,
          u \in Ids \cup {NoId}, r \in Vals \cup {NoVal}, v \in Vals \cup {NoVal} :
             /\ (u = NoId) = (a = "create") /\ (r = NoVal) = (a = "create")
             /\ (v = NoVal) = (a = "delete")
             /\ Target(c, q)
             /\ req' = [req EXCEPT ![p] = [action |-> a, uuid |-> u, rev |-> r, val |-> v,
                                           client |-> c, peer |-> q]]
             /\ ctl' = [ctl EXCEPT ![p].expect = v]
    /\ Goto(p, "wait")
    /\ UNCHANGED <<data, world, used, locks, audit, res, foreign>>

\* A malformed uuid or revision, or a gate that finds no safe target.
Refuse(p) ==
    /\ pc[p] = "idle"
    /\ \E e \in {"invalid", "ha_unsafe"} :
         /\ e = "ha_unsafe" => HasPeer
         /\ res' = [res EXCEPT ![p].error = e]
    /\ Goto(p, "done")
    /\ UNCHANGED <<data, world, used, locks, audit, req, ctl, foreign>>

Acquire(p) ==
    /\ pc[p] = "wait"
    /\ LET k == LockKey(req[p].client, req[p].peer) IN
         /\ locks[k] = NoProc
         /\ locks' = [locks EXCEPT ![k] = p]
    /\ Goto(p, "intent")
    /\ UNCHANGED <<data, world, used, audit, req, ctl, res, foreign>>

\* The audit line cannot be written: OSError, before anything was touched.
MutantIntentLost(p) == Goto(p, "preflight") /\ UNCHANGED res     \* mutant: error swallowed
IntentLost(p) == Fail(p, "oserror")

\* "Reserve durable evidence before touching the firewall."
Intent(p) ==
    /\ pc[p] = "intent"
    /\ \/ /\ audit' = audit \cup {<<p, "started">>}
          /\ Goto(p, "preflight")
          /\ UNCHANGED res
       \/ IntentLost(p) /\ UNCHANGED audit
    /\ UNCHANGED <<data, world, used, locks, req, ctl, foreign>>

Preflight(p) ==
    /\ pc[p] = "preflight"
    /\ LET c == req[p].client
           q == req[p].peer
       IN \/ /\ NeedsPreflight(p) => PreflightOK(c, q)
             /\ ctl' = [ctl EXCEPT ![p].plan = IF NeedsPreflight(p) THEN PlanOf(c) ELSE NoPlan]
             /\ IF NeedsPreflight(p) THEN Checked(p, "ha") ELSE UNCHANGED foreign
             /\ Goto(p, IF req[p].action = "create" THEN "mutate" ELSE "read")
             /\ UNCHANGED res
          \/ /\ NeedsPreflight(p)
             /\ \E e \in Transport \cup {"ha_unsafe"} : Fail(p, e)
             /\ UNCHANGED <<ctl, foreign>>
    /\ UNCHANGED <<data, world, used, locks, audit, req>>

MutantSameRevision(p, now) == now # NoVal     \* mutant: the revision is not compared
SameRevision(p, now) == now # NoVal /\ now = req[p].rev

\* Read the object and compare its revision with the request's.
ReadCurrent(p) ==
    /\ pc[p] = "read"
    /\ LET now == conf[req[p].client][req[p].uuid] IN
         \/ /\ SameRevision(p, now)
            /\ Goto(p, IF /\ req[p].action = "delete" /\ Resource = "port_forward"
                          /\ NeedsPreflight(p)
                       THEN "last" ELSE "mutate")
            /\ Checked(p, "check")
            /\ UNCHANGED res
         \/ now # NoVal /\ ~SameRevision(p, now) /\ Fail(p, "conflict") /\ UNCHANGED foreign
         \/ \E e \in Transport : Fail(p, e) /\ UNCHANGED foreign
    /\ UNCHANGED <<data, world, used, locks, audit, req, ctl>>

\* Is it the last port forward?  Then the peer's copy is qualified first.
CheckLast(p) ==
    /\ pc[p] = "last"
    /\ \/ /\ Goto(p, IF Present(req[p].client) = {req[p].uuid} THEN "peerRev" ELSE "mutate")
          /\ UNCHANGED res
       \/ \E e \in Transport \cup {"ha_unsafe"} : Fail(p, e)
    /\ UNCHANGED <<data, world, used, locks, audit, req, ctl, foreign>>

ReadPeerRevision(p) ==
    /\ pc[p] = "peerRev"
    /\ LET q == req[p].peer
           now == conf[q][req[p].uuid]
           same == now = req[p].rev /\ Present(q) = {req[p].uuid}
       IN \/ /\ now # NoVal /\ same
             /\ ctl' = [ctl EXCEPT ![p].peerRev = now]
             /\ Goto(p, "mutate")
             /\ UNCHANGED res
          \/ now # NoVal /\ ~same /\ Fail(p, "conflict") /\ UNCHANGED ctl
          \/ \E e \in Transport \cup {"ha_unsafe"} : Fail(p, e) /\ UNCHANGED ctl
    /\ UNCHANGED <<data, world, used, locks, audit, req, foreign>>

\* POST add: OPNsense picks the uuid.  An acknowledgement may lack it.
PostCreate(p) ==
    /\ pc[p] = "mutate" /\ req[p].action = "create"
    /\ \/ \E u \in Ids \ used :
            LET op == [kind |-> "add", node |-> req[p].client, id |-> u, val |-> req[p].val]
            IN /\ used' = used \cup {u}
               /\ \/ /\ Executed(op)
                     /\ req' = [req EXCEPT ![p].uuid = u]
                     /\ ctl' = [ctl EXCEPT ![p].accepted = TRUE]
                     /\ Goto(p, "apply")
                     /\ UNCHANGED res
                  \/ Executed(op) /\ Fail(p, "upstream") /\ UNCHANGED <<req, ctl>>
                  \/ /\ \E e \in Rejections \cup Transport : FailedPost(op, e) /\ Fail(p, e)
                     /\ UNCHANGED <<req, ctl>>
       \/ /\ \E e \in Rejections \cup Transport : Fail(p, e)
          /\ Ignored /\ UNCHANGED <<used, req, ctl>>
    /\ UNCHANGED <<world, locks, audit, foreign>>

\* POST set or del of the object that was read.
PostChange(p) ==
    /\ pc[p] = "mutate" /\ req[p].action # "create"
    /\ LET op == [kind |-> "set", node |-> req[p].client, id |-> req[p].uuid, val |-> ctl[p].expect]
       IN \/ /\ Executed(op)
             /\ ctl' = [ctl EXCEPT ![p].accepted = TRUE]
             /\ Goto(p, "apply")
             /\ UNCHANGED res
          \/ \E e \in Rejections \cup Transport : FailedPost(op, e) /\ Fail(p, e) /\ UNCHANGED ctl
    /\ UNCHANGED <<world, used, locks, audit, req, foreign>>

PostApply(p) ==
    /\ pc[p] = "apply"
    /\ LET op == [kind |-> "apply", node |-> req[p].client]
       IN \/ /\ Executed(op)
             /\ res' = [res EXCEPT ![p].applied = TRUE]
             /\ Goto(p, "verify")
          \/ \E e \in Rejections \cup Transport : FailedPost(op, e) /\ Fail(p, e)
    /\ UNCHANGED <<world, used, locks, audit, req, ctl, foreign>>

Readback(p) ==
    /\ pc[p] = "verify"
    /\ LET same == Verify(req[p].client, req[p].uuid, ctl[p].expect)
       IN \/ /\ same
             /\ res' = [res EXCEPT ![p].verified = TRUE, ![p].ok = (req[p].peer = NoNode)]
             /\ Goto(p, IF req[p].peer = NoNode THEN "final" ELSE "sync")
          \/ ~same /\ Fail(p, "upstream")
          \/ \E e \in Transport : Fail(p, e)
    /\ UNCHANGED <<data, world, used, locks, audit, req, ctl, foreign>>

-----------------------------------------------------------------------------
(* _sync: bring the change to the peer, or watch it arrive. *)

StartSync(p) ==
    /\ pc[p] = "sync"
    /\ \/ /\ HaMode = "xmlrpc_pf"
          /\ SamePlan(p)
          /\ Checked(p, "ha")
          /\ Goto(p, "push")
          /\ UNCHANGED res
       \/ HaMode = "xmlrpc_pf" /\ SyncReturns(p, "unverified") /\ UNCHANGED foreign
       \/ HaMode = "automatic" /\ Goto(p, "peerRead") /\ UNCHANGED <<res, foreign>>
    /\ ctl' = [ctl EXCEPT ![p].tries = 0]
    /\ UNCHANGED <<data, world, used, locks, audit, req>>

\* POST restart/pf.  Its acknowledgement does not prove that the peer was
\* synchronized, and no failure of it triggers a rollback.
PostPush(p) ==
    /\ pc[p] = "push"
    /\ LET op == [kind |-> "push", node |-> req[p].client]
       IN \/ (Executed(op) \/ Ignored) /\ Goto(p, "peerRead") /\ UNCHANGED res
          \/ \E e \in Rejections \cup Transport : FailedPost(op, e) /\ SyncReturns(p, "unverified")
    /\ UNCHANGED <<world, used, locks, audit, req, ctl, foreign>>

MutantMoreAttempts(p) == ctl[p].tries <= Attempts     \* mutant: off by one
MoreAttempts(p) == ctl[p].tries + 1 < Attempts

\* One of at most Attempts reads of the peer; a failed read is an attempt too.
PeerRead(p) ==
    /\ pc[p] = "peerRead"
    /\ ctl' = [ctl EXCEPT ![p].tries = @ + 1]
    /\ \/ /\ Verify(req[p].peer, req[p].uuid, ctl[p].expect)
          /\ SyncReturns(p, "verified")
       \/ IF MoreAttempts(p)
            THEN Goto(p, "peerRead") /\ UNCHANGED res
            ELSE IF ctl[p].expect = NoVal /\ ctl[p].peerRev # NoVal
              THEN Goto(p, "cleanup") /\ UNCHANGED res
              ELSE SyncReturns(p, "unverified")
    /\ UNCHANGED <<data, world, used, locks, audit, req, foreign>>

-----------------------------------------------------------------------------
(* _finish_last_dnat_delete: remove the row that the XMLRPC merge keeps. *)

MutantQualified(p) ==     \* mutant: the local table is not read again
    /\ SamePlan(p)
    /\ Present(req[p].peer) = {req[p].uuid}
    /\ conf[req[p].peer][req[p].uuid] = ctl[p].peerRev
\* Nothing but the deleted row is left on the peer, unchanged, and nothing here.
Qualified(p) ==
    /\ SamePlan(p)
    /\ Present(req[p].client) = {}
    /\ Present(req[p].peer) = {req[p].uuid}
    /\ conf[req[p].peer][req[p].uuid] = ctl[p].peerRev

\* The reads that qualify the deletion on the peer.
QualifyCleanup(p) ==
    /\ pc[p] = "cleanup"
    /\ \/ /\ Qualified(p)
          /\ Checked(p, "check")
          /\ Goto(p, "cleanIntent")
          /\ UNCHANGED res
       \/ SyncReturns(p, "unverified") /\ UNCHANGED foreign
    /\ UNCHANGED <<data, world, used, locks, audit, req, ctl>>

CleanupIntent(p) ==
    /\ pc[p] = "cleanIntent"
    /\ \/ /\ audit' = audit \cup {<<p, "peer_delete">>}
          /\ Goto(p, "cleanDelete")
          /\ UNCHANGED res
       \/ SyncReturns(p, "unverified") /\ UNCHANGED audit
    /\ UNCHANGED <<data, world, used, locks, req, ctl, foreign>>

CleanupDelete(p) ==
    /\ pc[p] = "cleanDelete"
    /\ LET op == [kind |-> "set", node |-> req[p].peer, id |-> req[p].uuid, val |-> NoVal]
       IN \/ Executed(op) /\ Goto(p, "cleanApply") /\ UNCHANGED res
          \/ \E e \in Rejections \cup Transport :
               /\ FailedPost(op, e)
               /\ SyncReturns(p, "unverified")
    /\ UNCHANGED <<world, used, locks, audit, req, ctl, foreign>>

CleanupApply(p) ==
    /\ pc[p] = "cleanApply"
    /\ LET op == [kind |-> "apply", node |-> req[p].peer]
       IN \/ Executed(op) /\ Goto(p, "cleanVerify") /\ UNCHANGED res
          \/ \E e \in Rejections \cup Transport : FailedPost(op, e) /\ SyncReturns(p, "unverified")
    /\ UNCHANGED <<world, used, locks, audit, req, ctl, foreign>>

CleanupVerify(p) ==
    /\ pc[p] = "cleanVerify"
    /\ \/ /\ Verify(req[p].client, req[p].uuid, NoVal) /\ Verify(req[p].peer, req[p].uuid, NoVal)
          /\ SyncReturns(p, "verified")
       \/ SyncReturns(p, "unverified")
    /\ UNCHANGED <<data, world, used, locks, audit, req, ctl, foreign>>

-----------------------------------------------------------------------------
(* Rollback of a rejected create, and the end of the request. *)

RollbackDelete(p) ==
    /\ pc[p] = "rbDelete"
    /\ LET op == [kind |-> "set", node |-> req[p].client, id |-> req[p].uuid, val |-> NoVal]
       IN \/ Executed(op) /\ Goto(p, "rbApply")
          \/ \E e \in Rejections \cup Transport :
               /\ FailedPost(op, e)
               /\ Goto(p, "final")
    /\ UNCHANGED <<world, used, locks, audit, req, ctl, res, foreign>>

MutantRollbackApply(p) ==     \* mutant: the deletion is not applied
    /\ pc[p] = "rbApply"
    /\ Goto(p, "rbVerify")
    /\ UNCHANGED <<data, world, used, locks, audit, req, ctl, res, foreign>>
RollbackApply(p) ==
    /\ pc[p] = "rbApply"
    /\ LET op == [kind |-> "apply", node |-> req[p].client]
       IN \/ Executed(op) /\ Goto(p, "rbVerify")
          \/ \E e \in Rejections \cup Transport : FailedPost(op, e) /\ Goto(p, "final")
    /\ UNCHANGED <<world, used, locks, audit, req, ctl, res, foreign>>

RollbackVerify(p) ==
    /\ pc[p] = "rbVerify"
    /\ \/ LET gone == Verify(req[p].client, req[p].uuid, NoVal)
          IN /\ res' = [res EXCEPT ![p].rbLocal = gone,
                                   ![p].rbVerified = gone /\ req[p].peer = NoNode]
             /\ ctl' = [ctl EXCEPT ![p].expect = NoVal]
             /\ Goto(p, IF req[p].peer = NoNode THEN "final" ELSE "sync")
       \/ Goto(p, "final") /\ UNCHANGED <<res, ctl>>
    /\ UNCHANGED <<data, world, used, locks, audit, req, foreign>>

MutantUnrecorded(p) == UNCHANGED res     \* mutant: OSError swallowed
Unrecorded(p) == res' = [res EXCEPT ![p].ok = FALSE, ![p].error = "audit"]

MutantRelease(p) == UNCHANGED locks     \* mutant: the lock is kept
Release(p) == locks' = [locks EXCEPT ![LockKey(req[p].client, req[p].peer)] = NoProc]

\* The closing audit line, still under the lock; without it the request fails.
Finish(p) ==
    /\ pc[p] = "final"
    /\ \/ /\ audit' = audit \cup {<<p, IF res[p].ok THEN "ok" ELSE "error">>}
          /\ UNCHANGED res
       \/ Unrecorded(p) /\ UNCHANGED audit
    /\ Release(p)
    /\ Goto(p, "done")
    /\ Forget({p})
    /\ UNCHANGED <<data, world, used>>

Step(p) ==
    \/ Acquire(p) \/ Intent(p) \/ Preflight(p) \/ ReadCurrent(p) \/ CheckLast(p)
    \/ ReadPeerRevision(p) \/ PostCreate(p) \/ PostChange(p) \/ PostApply(p) \/ Readback(p)
    \/ StartSync(p) \/ PostPush(p) \/ PeerRead(p)
    \/ QualifyCleanup(p) \/ CleanupIntent(p) \/ CleanupDelete(p) \/ CleanupApply(p) \/ CleanupVerify(p)
    \/ RollbackDelete(p) \/ RollbackApply(p) \/ RollbackVerify(p) \/ Finish(p)

-----------------------------------------------------------------------------
(* The environment: administrators, the other node, the network, crashes. *)

Running == {p \in Procs : pc[p] \in Critical \cup {"wait"}}
Disturb(S, d) == foreign' = [p \in Procs |-> IF p \in S THEN foreign[p] \cup d ELSE foreign[p]]
Intervene == env < MaxEnv /\ env' = env + 1

\* Somebody else changes an object on a node, and may apply it.
ExternalWrite ==
    /\ Intervene
    /\ \E n \in Nodes, u \in Ids, v \in Vals \cup {NoVal} :
         /\ conf[n][u] # v
         /\ conf' = [conf EXCEPT ![n][u] = v]
         /\ run' \in {run, [run EXCEPT ![n] = conf'[n]]}
         /\ used' = used \cup {u}
    /\ Disturb({p \in Procs : pc[p] \in Critical}, {"data", "check"})
    /\ UNCHANGED <<inflight, hasync, carp, locks, audit, pc, req, ctl, res>>

\* A POST whose caller has given up is executed after all.
LateExecution ==
    /\ \E op \in inflight :
         /\ inflight' = inflight \ {op}
         /\ IF Possible(op)
              THEN conf' = ConfAfter(op) /\ run' = RunAfter(op)
              ELSE UNCHANGED <<conf, run>>
    /\ Disturb({p \in Procs : pc[p] \in Critical}, {"data", "check"})
    /\ UNCHANGED <<world, used, locks, audit, pc, req, ctl, res>>

\* The pair's own synchronization, from the master, in automatic mode.
AutoSync ==
    /\ HaMode = "automatic"
    /\ \E n \in Nodes :
         /\ AllVips(n, "MASTER")
         /\ Executed([kind |-> "push", node |-> n])
         /\ Disturb({p \in Procs : pc[p] \in Critical /\ req[p].client # n}, {"data", "check"})
    /\ UNCHANGED <<world, used, locks, audit, pc, req, ctl, res>>

CarpChange ==
    /\ Intervene
    /\ carp' \in CarpStates \ {carp}
    /\ Disturb(Running, {"ha"})
    /\ UNCHANGED <<data, used, hasync, locks, audit, pc, req, ctl, res>>

Reconfigure ==
    /\ Intervene
    /\ hasync' \in HasyncConfs \ {hasync}
    /\ Disturb(Running, {"ha"})
    /\ UNCHANGED <<data, used, carp, locks, audit, pc, req, ctl, res>>

\* The plugin process dies: its locks vanish, nodes and audit file remain.
Crash ==
    /\ Intervene
    /\ \E p \in Procs : pc[p] \in Critical
    /\ pc' = [p \in Procs |-> IF pc[p] \in {"idle", "done"} THEN pc[p] ELSE "crashed"]
    /\ locks' = [k \in DOMAIN locks |-> NoProc]
    /\ Forget({p \in Procs : pc'[p] = "crashed"})
    /\ UNCHANGED <<data, used, hasync, carp, audit, res>>

Init ==
    /\ \E c \in Objects :
         /\ conf = [n \in Nodes |-> c]
         /\ used = {u \in Ids : c[u] # NoVal}
    /\ run = conf
    /\ inflight = {}
    /\ hasync \in HasyncConfs
    /\ carp \in CarpStates
    /\ locks = [k \in SUBSET Peers |-> NoProc]
    /\ audit = {}
    /\ pc = [p \in Procs |-> "idle"]
    /\ req = [p \in Procs |-> NoRequest]
    /\ ctl = [p \in Procs |-> NoControl]
    /\ res = [p \in Procs |-> NoResult]
    /\ foreign = [p \in Procs |-> {}]
    /\ env = 0

Done == (\A p \in Procs : pc[p] \in {"done", "crashed"}) /\ UNCHANGED vars

Next ==
    \/ \E p \in Procs : Begin(p) \/ Refuse(p) \/ Step(p)
    \/ ExternalWrite \/ LateExecution \/ AutoSync \/ CarpChange \/ Reconfigure \/ Crash
    \/ Done

Spec == Init /\ [][Next]_vars

-----------------------------------------------------------------------------
(* Properties *)

Moves(p) == pc'[p] # pc[p] /\ pc'[p] # "crashed"

\* No two requests that share a node are past the lock of execute() at the
\* same time, whichever node of the pair each of them writes to.
MutualExclusion ==
    \A p, r \in Procs :
        p # r /\ pc[p] \in Critical /\ pc[r] \in Critical
          => {req[p].client, req[p].peer} \cap {req[r].client, req[r].peer} \cap Nodes = {}

\* A request changes a node, or leaves a POST under way, only after its intent
\* is in the audit log; it deletes on the peer only after the intent of that.
IntentFirst ==
    [][\A p \in Procs :
         Moves(p) /\ <<conf, run, inflight>>' # <<conf, run, inflight>>
           => /\ <<p, "started">> \in audit
              /\ \A n \in Nodes \ {req[p].client} :
                   conf'[n] # conf[n] /\ pc[p] # "push" => <<p, "peer_delete">> \in audit]_vars

\* An update or delete replaces exactly the revision its user saw, unless
\* somebody outside the process wrote between its read and its POST, or a POST
\* that timed out earlier was executed there.
NoLostUpdate ==
    [][\A p \in Procs :
         Moves(p) /\ pc[p] = "mutate" /\ req[p].action # "create" /\ conf' # conf /\ Undisturbed(p, "check")
           => conf[req[p].client][req[p].uuid] = req[p].rev]_vars

\* A result that is ok when the request returns is true on the master, stored
\* and running, and stored on the peer: _execute verified what it reports,
\* whatever the acknowledgements were worth.
OkIsTrue ==
    \A p \in Procs :
        pc[p] = "final" /\ res[p].ok /\ Undisturbed(p, "data")
          => LET u == req[p].uuid IN
             /\ conf[req[p].client][u] = req[p].val
             /\ run[req[p].client][u] = req[p].val
             /\ HasPeer => conf[req[p].peer][u] = req[p].val

\* The audit log and the answer agree: a request answers ok exactly when its
\* intent and its success are both on record.
OkIsRecorded ==
    \A p \in Procs :
        pc[p] = "done" => (res[p].ok <=> {<<p, "started">>, <<p, "ok">>} \subseteq audit)

\* A create whose outcome is in doubt is never undone: what was stored stays.
AmbiguousKept ==
    \A p \in Procs :
        (/\ pc[p] = "final" /\ Undisturbed(p, "data") /\ req[p].action = "create"
         /\ ctl[p].accepted /\ res[p].error \in {"timeout", "auth"})
          => conf[req[p].client][req[p].uuid] = req[p].val

\* A rollback reported as verified left nothing of the create on any node.
RollbackIsTrue ==
    \A p \in Procs :
        pc[p] = "final" /\ res[p].rbVerified /\ Undisturbed(p, "data")
          => /\ \A n \in {req[p].client, req[p].peer} \cap Nodes : conf[n][req[p].uuid] = NoVal
             /\ run[req[p].client][req[p].uuid] = NoVal

\* The deletion on the peer removes the one row that XMLRPC left behind: it
\* makes the peer equal to the master.
CleanupConverges ==
    [][\A p \in Procs :
         Moves(p) /\ pc[p] = "cleanDelete" /\ conf' # conf /\ Undisturbed(p, "check")
           => conf'[req[p].peer] = conf[req[p].client]]_vars

\* XMLRPC is triggered only under the plan that was checked before the write,
\* and only from an unambiguous master, as far as the node's state was known.
PushValidated ==
    [][\A p \in Procs :
         Moves(p) /\ pc[p] = "push" /\ Undisturbed(p, "ha")
           => PlanOf(req[p].client) = ctl[p].plan /\ Target(req[p].client, req[p].peer)]_vars

\* Every HTTP call returns or times out and every verification loop is bounded,
\* so a request that waits for the lock is answered.
Answered == \A p \in Procs : pc[p] = "wait" ~> pc[p] \in {"done", "crashed"}

FairSpec == Spec /\ \A p \in Procs : WF_vars(Step(p))
=============================================================================
