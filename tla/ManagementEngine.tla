-------------------------- MODULE ManagementEngine --------------------------
(***************************************************************************)
(* ManagementService (src/src/management/engine.py): the catalog-driven    *)
(* write path of the administrative workspace.  Concurrent requests        *)
(* create, update or delete objects of catalogued resources on one node:   *)
(* read, compare the revision, merge the named fields into what was read,  *)
(* record the intent, save, apply, verify, record the outcome.  A POST is  *)
(* never repeated and nothing is rolled back; an error says with "partial" *)
(* whether the node may have changed.                                      *)
(*                                                                         *)
(* An object has a public and a secret field.  Requests for resources of   *)
(* different services meet nowhere, so a behaviour is about the resources  *)
(* of one service of the catalog, and one apply publishes all of them.     *)
(***************************************************************************)
EXTENDS Naturals, FiniteSets, Catalog

CONSTANTS
    Procs,          \* HTTP requests
    Scopes,         \* sets of resources of one service that requests are about
    MaxId,          \* bound: objects of a resource, numbered in listing order
    Vals,           \* contents of a field
    Default,        \* the content the form proposes for a field
    Keep,           \* a field the request leaves blank or out
    NoObj, NoProc, NoSpec,
    Bodies,         \* "values" of the requests that are made
    PageSize,       \* rows of a page of the deletion scan (200)
    MaxPages,       \* pages of the scan (1000)
    Failures,       \* failures of HTTP calls that happen
    MaxEnv          \* bound: interventions of the environment

Ids == 1 .. MaxId
SingletonId == 1
NoId == 0
Obj == [pub : Vals, sec : Vals]
Body == [pub : Vals \cup {Keep}, sec : Vals \cup {Keep}]
\* An object without a secret has the default in its place.
ObjectsOf(s) == {o \in Obj : HasSecret(s) \/ o.sec = Default}
Specs == UNION Scopes

ASSUME ConstantsAssumption ==
    /\ MaxId \in Nat \ {0} /\ PageSize \in Nat \ {0} /\ MaxPages \in Nat \ {0}
    /\ MaxEnv \in Nat
    /\ Specs \subseteq DOMAIN Resources
    /\ \A sc \in Scopes : \A s, t \in sc : Resources[s].service = Resources[t].service
    /\ Default \in Vals /\ Keep \notin Vals
    /\ NoObj \notin Obj /\ NoProc \notin Procs /\ NoSpec \notin Specs
    /\ Bodies \subseteq Body
    /\ Failures \subseteq {"validation", "rejected", "auth", "timeout", "upstream"}
    /\ "upstream" \in Failures

VARIABLES
    conf,       \* conf[s][u]: stored object u of resource s of the service
    run,        \* run[s][u]: the same in the running service
    used,       \* used[s]: identifiers that were handed out
    inflight,   \* POSTs whose caller timed out and that are yet to be executed
    locks,      \* _LOCKS: holder of the lock of each resource
    audit,      \* lines of audit.jsonl: <<request, event>>
    pc,         \* where each request stands
    req,        \* the request: resource, action, uuid, revision, values
    ctl,        \* payload, and page and observed_count of the scan
    res,        \* the answer
    touched,    \* history: requests whose POSTs changed the node or may still do
    foreign,    \* history: requests during which others wrote
    env         \* number of environment interventions so far

data == <<conf, run, inflight>>
history == <<touched, foreign, env>>
vars == <<conf, run, used, inflight, locks, audit, pc, req, ctl, res, touched, foreign, env>>

scope == DOMAIN conf

-----------------------------------------------------------------------------
(* Types *)

Payload == Body
Op == [kind : {"add", "set"}, spec : Specs, id : Ids, body : Payload]
        \cup [kind : {"del"}, spec : Specs, id : Ids] \cup [kind : {"apply"}]
Revisions == Obj \cup [pub : Vals, sec : {Keep}]
Critical == {"read", "start", "save", "apply", "verify", "record", "error"}
Stages == Critical \cup {"idle", "wait", "done", "crashed"}
Errors == {"none", "bad_request", "conflict", "audit", "unverified", "invalid_response",
           "auth", "timeout", "validation", "upstream"}
Request == [spec : Specs, action : {"create", "update", "delete"}, uuid : Ids \cup {NoId},
            rev : Revisions \cup {NoObj}, values : Body \cup {NoObj}]
           \cup {NoSpec}
Control == [payload : Payload \cup {NoObj}, page : 1 .. MaxPages, seen : Nat]
Result == [ok : BOOLEAN, error : Errors, partial : BOOLEAN, auditFailure : BOOLEAN]

NoControl == [payload |-> NoObj, page |-> 1, seen |-> 0]
NoResult == [ok |-> FALSE, error |-> "none", partial |-> FALSE, auditFailure |-> FALSE]

TypeOK ==
    /\ scope \in Scopes
    /\ conf \in [scope -> [Ids -> Obj \cup {NoObj}]]
    /\ run \in [scope -> [Ids -> Obj \cup {NoObj}]]
    /\ used \in [scope -> SUBSET Ids]
    /\ inflight \subseteq Op
    /\ locks \in [scope -> Procs \cup {NoProc}]
    /\ audit \subseteq Procs \X {"started", "ok", "error"}
    /\ pc \in [Procs -> Stages]
    /\ req \in [Procs -> Request]
    /\ ctl \in [Procs -> Control]
    /\ res \in [Procs -> Result]
    /\ touched \subseteq Procs
    /\ foreign \subseteq Procs
    /\ env \in 0 .. MaxEnv

-----------------------------------------------------------------------------
(* The node (external: OPNsense). *)

Present(s) == {u \in Ids : conf[s][u] # NoObj}

\* A field that is not sent keeps what is stored.
Stored(old, body) ==
    [pub |-> body.pub,
     sec |-> IF body.sec # Keep THEN body.sec ELSE IF old = NoObj THEN Default ELSE old.sec]

\* Without a certificate and a key in the POST the node generates the two.
Generated(body) ==
    IF body.pub = Keep THEN {[pub |-> v, sec |-> v] : v \in Vals} ELSE {body}

Possible(op) == op.kind \in {"set", "del"} => conf[op.spec][op.id] # NoObj
ConfAfter(op) ==
    CASE op.kind \in {"add", "set"} ->
           [conf EXCEPT ![op.spec][op.id] = Stored(conf[op.spec][op.id], op.body)]
      [] op.kind = "del" -> [conf EXCEPT ![op.spec][op.id] = NoObj]
      [] OTHER -> conf
RunAfter(op) == IF op.kind = "apply" THEN conf ELSE run
Executed(op) ==
    Possible(op) /\ conf' = ConfAfter(op) /\ run' = RunAfter(op) /\ inflight' = inflight
Ignored == UNCHANGED data
Delayed(op) == inflight' = inflight \cup {op} /\ UNCHANGED <<conf, run>>

\* A validation error or a refused login changes nothing; any other failure
\* leaves open whether the node executed the POST, or will.
FailedPost(op, e) ==
    \/ e \in {"rejected", "timeout", "upstream"} /\ Executed(op)
    \/ e = "timeout" /\ Delayed(op)

\* What a GET shows of an object, and what its revision covers.
Shown(s, o) == IF WriteOnly(s) THEN [o EXCEPT !.sec = Keep] ELSE o

-----------------------------------------------------------------------------
(* Helpers of the service *)

Rejections == {"validation", "rejected"} \cap Failures
Transport == {"auth", "timeout", "upstream"} \cap Failures
Goto(p, stage) == pc' = [pc EXCEPT ![p] = stage]

\* _LOCKS is keyed by node and resource.
MutantLockFree(s) == TRUE     \* mutant: nobody waits
LockFree(s) == locks[s] = NoProc

MutantRelease(p) == UNCHANGED locks     \* mutant: the lock is kept
Release(p) == locks' = [locks EXCEPT ![req[p].spec] = NoProc]

\* The request is over: the lock is released and its locals are gone.
Return(p) ==
    /\ Goto(p, "done")
    /\ Release(p)
    /\ req' = [req EXCEPT ![p] = NoSpec]
    /\ ctl' = [ctl EXCEPT ![p] = NoControl]

\* An error before the intent is on record: nothing was posted.
Raise(p, e) ==
    /\ res' = [res EXCEPT ![p].error = e]
    /\ Return(p)

\* The except clause of _mutate: only a save that failed validation is known
\* to have changed nothing.
MutantPartial(p, e) == e \notin {"validation", "auth"}     \* mutant: nor one that was denied
Partial(p, e) == ~(e = "validation" /\ pc[p] = "save")
MutantErrorOf(e) == e     \* mutant: an unacknowledged POST has no error code of its own
ErrorOf(e) == IF e = "rejected" THEN "upstream" ELSE e
Fail(p, e) ==
    /\ res' = [res EXCEPT ![p].error = ErrorOf(e), ![p].partial = Partial(p, e)]
    /\ Goto(p, "error")

\* _values: a create starts from the form's defaults, an update from the object
\* just read; the fields the request names replace what is there.
Merged(values, current) ==
    [pub |-> IF values.pub = Keep THEN current.pub ELSE values.pub,
     sec |-> IF values.sec = Keep THEN current.sec ELSE values.sec]
\* The form of a certificate proposes neither a certificate nor a key.
Form(s) == IF Hooked(s) THEN [pub |-> Keep, sec |-> Keep] ELSE [pub |-> Default, sec |-> Default]

\* A certificate (pub) and its key (sec) belong together when they are equal.
\* The node generates the pair (mode internal or reissue) or is given the
\* certificate, with a key that must belong to it or without one.
Generates(payload) == payload.pub = Keep /\ payload.sec = Keep
Prepared(payload) == payload.sec \in {payload.pub, Keep}
\* _trust_prepare: what may be sent for the merged values.
Sent(s, values, merged) ==
    IF ~Hooked(s) THEN {merged}
      ELSE {b \in {merged} \cup {v \in {values} : Generates(v)} : Prepared(b)}

MutantTrustVerify(expected, actual) == TRUE     \* mutant: the acknowledgement is believed
TrustVerify(expected, actual) ==
    IF Generates(expected) THEN actual.pub = actual.sec
      ELSE actual.pub = expected.pub /\ (expected.sec # Keep => actual.sec = actual.pub)

\* The fields that the readback compares: the named ones that can be read.  All
\* of a certificate is volatile and left to the hook.
Matches(s, values, expected, actual) ==
    IF Hooked(s) THEN TrustVerify(expected, actual)
      ELSE /\ values.pub # Keep => actual.pub = expected.pub
           /\ values.sec # Keep /\ ~WriteOnly(s) => actual.sec = expected.sec

\* History: p's POST changed the node, or will.
Touch(p) == touched' = IF data' # data THEN touched \cup {p} ELSE touched

-----------------------------------------------------------------------------
(* The steps of a request *)

\* mutate(): a well-formed request for an operation the resource supports.
Begin(p) ==
    /\ pc[p] = "idle"
    /\ \E s \in scope : \E a \in Resources[s].verbs, u \in Ids \cup {NoId},
          r \in {Shown(s, o) : o \in ObjectsOf(s)} \cup {NoObj}, v \in Bodies \cup {NoObj} :
         /\ (u = NoId) = (a = "create") /\ (r = NoObj) = (a = "create")
         /\ (v = NoObj) = (a = "delete")
         /\ Singleton(s) => u = SingletonId
         /\ v # NoObj /\ v.sec # Keep => HasSecret(s)
         /\ req' = [req EXCEPT ![p] = [spec |-> s, action |-> a, uuid |-> u, rev |-> r, values |-> v]]
    /\ Goto(p, "wait")
    /\ UNCHANGED <<data, used, locks, audit, ctl, res, history>>

\* A malformed request, an unsupported operation, or a node that has a peer.
Refuse(p) ==
    /\ pc[p] = "idle"
    /\ res' = [res EXCEPT ![p].error = "bad_request"]
    /\ Goto(p, "done")
    /\ UNCHANGED <<data, used, locks, audit, req, ctl, history>>

Acquire(p) ==
    /\ pc[p] = "wait"
    /\ LockFree(req[p].spec)
    /\ locks' = [locks EXCEPT ![req[p].spec] = p]
    /\ Goto(p, "read")
    /\ UNCHANGED <<data, used, audit, req, ctl, res, history>>

SameRevision(p, current) == current = req[p].rev

\* GET the object, or the empty form; compare the revision; merge the values.
Read(p) ==
    /\ pc[p] = "read"
    /\ LET s == req[p].spec
           creating == req[p].action = "create"
           now == IF creating THEN Form(s) ELSE conf[s][req[p].uuid]
           found == now # NoObj
           current == Shown(s, now)
       IN \/ /\ found
             /\ creating \/ SameRevision(p, current)
             /\ \/ req[p].action = "delete" /\ UNCHANGED ctl
                \/ /\ req[p].action # "delete"
                   /\ \E body \in Sent(s, req[p].values, Merged(req[p].values, current)) :
                        ctl' = [ctl EXCEPT ![p].payload = body]
             /\ foreign' = foreign \ {p}
             /\ Goto(p, "start")
             /\ UNCHANGED <<locks, req, res>>
          \/ found /\ ~creating /\ ~SameRevision(p, current) /\ Raise(p, "conflict") /\ UNCHANGED foreign
          \/ ~found /\ Raise(p, "invalid_response") /\ UNCHANGED foreign
          \/ \E e \in Transport : Raise(p, e) /\ UNCHANGED foreign
          \/ \* _values or prepare refuses a field
             req[p].action # "delete" /\ Raise(p, "bad_request") /\ UNCHANGED foreign
    /\ UNCHANGED <<data, used, audit, touched, env>>

MutantStart(p) ==     \* mutant: the save goes on without its line
    /\ pc[p] = "start"
    /\ Goto(p, "save")
    /\ audit' = audit \cup {<<p, "started">>} \/ UNCHANGED audit
    /\ UNCHANGED <<data, used, locks, req, ctl, res, history>>
\* The intent goes to the audit log before the first POST.
Start(p) ==
    /\ pc[p] = "start"
    /\ \/ /\ audit' = audit \cup {<<p, "started">>}
          /\ Goto(p, "save")
          /\ UNCHANGED <<locks, req, ctl, res>>
       \/ Raise(p, "audit") /\ UNCHANGED audit
    /\ UNCHANGED <<data, used, history>>

SaveOps(p, u) ==
    IF req[p].action = "delete"
      THEN {[kind |-> "del", spec |-> req[p].spec, id |-> u]}
      ELSE {[kind |-> IF req[p].action = "create" THEN "add" ELSE "set",
             spec |-> req[p].spec, id |-> u, body |-> b] : b \in Generated(ctl[p].payload)}

\* Identifiers the POST may concern: OPNsense chooses a fresh one for a create.
SaveIds(p) == IF req[p].action = "create" THEN Ids \ used[req[p].spec] ELSE {req[p].uuid}

\* POST add, set or del.  An acknowledgement does not prove that the node did
\* it, and one of a create without a usable uuid is an error of its own.
Save(p) ==
    /\ pc[p] = "save"
    /\ \/ \E u \in SaveIds(p) : \E op \in SaveOps(p, u) :
            /\ used' = [used EXCEPT ![req[p].spec] = @ \cup {u}]
            /\ \/ /\ Executed(op) \/ Ignored
                  /\ req' = [req EXCEPT ![p].uuid = u]
                  /\ Goto(p, IF Saved(req[p].spec) THEN "verify" ELSE "apply")
                  /\ UNCHANGED res
               \/ /\ req[p].action = "create"
                  /\ Executed(op)
                  /\ Fail(p, "invalid_response")
                  /\ UNCHANGED req
               \/ \E e \in Rejections \cup Transport :
                    FailedPost(op, e) /\ Fail(p, e) /\ UNCHANGED req
       \/ \E e \in Rejections \cup Transport :
            Ignored /\ Fail(p, e) /\ UNCHANGED <<used, req>>
    /\ Touch(p)
    /\ UNCHANGED <<locks, audit, ctl, foreign, env>>

\* Services whose "ok" leaves open whether the new configuration was accepted.
HollowAck == {"monit"}
MutantAcknowledged(s) == TRUE     \* mutant: apply_ack is forgotten
\* _ack: a hollow one is told apart by the other fields of the reply.
Acknowledged(s) == ~Resources[s].apply_ack

\* POST reconfigure of the service; its acknowledgement is checked, not its effect.
MutantApply(p) ==     \* mutant: saved is taken for applied
    /\ pc[p] = "apply"
    /\ Goto(p, "verify")
    /\ UNCHANGED <<data, used, locks, audit, req, ctl, res, history>>
Apply(p) ==
    /\ pc[p] = "apply"
    /\ LET op == [kind |-> "apply"]
       IN \/ Executed(op) /\ Goto(p, "verify") /\ UNCHANGED res
          \/ /\ Resources[req[p].spec].service \in HollowAck
             /\ Ignored
             /\ IF Acknowledged(req[p].spec)
                  THEN Goto(p, "verify") /\ UNCHANGED res
                  ELSE Fail(p, "rejected")
          \/ \E e \in Rejections \cup Transport : (Ignored \/ FailedPost(op, e)) /\ Fail(p, e)
    /\ Touch(p)
    /\ UNCHANGED <<used, locks, audit, req, ctl, foreign, env>>

\* The object is read back and the named fields compared.
Readback(p) ==
    /\ pc[p] = "verify" /\ req[p].action # "delete"
    /\ LET s == req[p].spec
           now == conf[s][req[p].uuid]
           same == now # NoObj /\ Matches(s, req[p].values, ctl[p].payload, Shown(s, now))
       IN \/ same /\ Goto(p, "record") /\ UNCHANGED res
          \/ now # NoObj /\ ~same /\ Fail(p, "unverified")
          \/ now = NoObj /\ Fail(p, "invalid_response")
          \/ \E e \in Transport : Fail(p, e)
    /\ UNCHANGED <<data, used, locks, audit, req, ctl, history>>

\* Row i of the listing is on page (i - 1) \div PageSize + 1.
Rank(s, u) == Cardinality({w \in Present(s) : w < u})
Page(s, k) == {u \in Present(s) : Rank(s, u) \div PageSize + 1 = k}

MutantOffByOne(s, seen) == seen > Cardinality(Present(s))     \* mutant: waits for one row more
Complete(s, seen) == seen >= Cardinality(Present(s))

\* One page of the scan for a deleted object.
ScanPage(p) ==
    /\ pc[p] = "verify" /\ req[p].action = "delete"
    /\ LET s == req[p].spec
           k == ctl[p].page
           rows == Page(s, k)
           seen == ctl[p].seen + Cardinality(rows)
       IN \/ req[p].uuid \in rows /\ Fail(p, "unverified") /\ UNCHANGED ctl
          \/ /\ req[p].uuid \notin rows
             /\ \/ Complete(s, seen) /\ Goto(p, "record") /\ UNCHANGED <<ctl, res>>
                \/ /\ ~Complete(s, seen)
                   /\ Cardinality(rows) < PageSize \/ k >= MaxPages
                   /\ Fail(p, "unverified")
                   /\ UNCHANGED ctl
                \/ /\ ~Complete(s, seen)
                   /\ Cardinality(rows) = PageSize /\ k < MaxPages
                   /\ ctl' = [ctl EXCEPT ![p].page = k + 1, ![p].seen = seen]
                   /\ UNCHANGED <<pc, res>>
          \/ \E e \in Transport : Fail(p, e) /\ UNCHANGED ctl
    /\ UNCHANGED <<data, used, locks, audit, req, history>>

\* Without its closing audit line a success is reported as an error.
Record(p) ==
    /\ pc[p] = "record"
    /\ \/ /\ audit' = audit \cup {<<p, "ok">>}
          /\ res' = [res EXCEPT ![p].ok = TRUE]
          /\ Return(p)
       \/ Fail(p, "audit") /\ UNCHANGED <<audit, locks, req, ctl>>
    /\ UNCHANGED <<data, used, history>>

MutantUnrecorded(p) == UNCHANGED res     \* mutant: the second audit failure is swallowed
Unrecorded(p) == res' = [res EXCEPT ![p].auditFailure = TRUE]

Error(p) ==
    /\ pc[p] = "error"
    /\ \/ audit' = audit \cup {<<p, "error">>} /\ UNCHANGED res
       \/ Unrecorded(p) /\ UNCHANGED audit
    /\ Return(p)
    /\ UNCHANGED <<data, used, history>>

Step(p) ==
    \/ Acquire(p) \/ Read(p) \/ Start(p) \/ Save(p) \/ Apply(p)
    \/ Readback(p) \/ ScanPage(p) \/ Record(p) \/ Error(p)

-----------------------------------------------------------------------------
(* The environment *)

Intervene == env < MaxEnv /\ env' = env + 1
Disturb == foreign' = foreign \cup {p \in Procs : pc[p] \in Critical}

\* Somebody else creates, changes or deletes an object.
ExternalWrite ==
    /\ Intervene
    /\ \E s \in scope, u \in Ids : \E o \in ObjectsOf(s) \cup {NoObj} :
         /\ Singleton(s) => o # NoObj /\ u = SingletonId
         /\ conf[s][u] # o
         /\ conf' = [conf EXCEPT ![s][u] = o]
         /\ used' = [used EXCEPT ![s] = @ \cup {u}]
    /\ Disturb
    /\ UNCHANGED <<run, inflight, locks, audit, pc, req, ctl, res, touched>>

\* A POST whose caller has given up is executed after all.
LateExecution ==
    /\ \E op \in inflight :
         /\ inflight' = inflight \ {op}
         /\ IF Possible(op)
              THEN conf' = ConfAfter(op) /\ run' = RunAfter(op)
              ELSE UNCHANGED <<conf, run>>
    /\ Disturb
    /\ UNCHANGED <<used, locks, audit, pc, req, ctl, res, touched, env>>

\* The plugin process dies with the requests in it.
Die ==
    /\ pc' = [p \in Procs |-> IF pc[p] \in {"idle", "done"} THEN pc[p] ELSE "crashed"]
    /\ locks' = [s \in scope |-> NoProc]
    /\ req' = [p \in Procs |-> NoSpec]
    /\ ctl' = [p \in Procs |-> NoControl]
    /\ foreign' = {}
    /\ UNCHANGED <<data, used, audit, res, touched>>
Crash == Intervene /\ (\E p \in Procs : pc[p] \in Critical) /\ Die

Init ==
    /\ \E sc \in Scopes :
         conf \in {c \in [sc -> [Ids -> Obj \cup {NoObj}]] :
                    \A s \in sc, u \in Ids :
                      /\ c[s][u] \in ObjectsOf(s) \cup {NoObj}
                      /\ Singleton(s) => (c[s][u] # NoObj <=> u = SingletonId)}
    /\ run = conf
    /\ used = [s \in scope |-> Present(s)]
    /\ inflight = {}
    /\ locks = [s \in scope |-> NoProc]
    /\ audit = {}
    /\ pc = [p \in Procs |-> "idle"]
    /\ req = [p \in Procs |-> NoSpec]
    /\ ctl = [p \in Procs |-> NoControl]
    /\ res = [p \in Procs |-> NoResult]
    /\ touched = {} /\ foreign = {}
    /\ env = 0

Done == (\A p \in Procs : pc[p] \in {"done", "crashed"}) /\ UNCHANGED vars

Next ==
    \/ \E p \in Procs : Begin(p) \/ Refuse(p) \/ Step(p)
    \/ ExternalWrite \/ LateExecution \/ Crash
    \/ Done

Spec == Init /\ [][Next]_vars
FairSpec == Spec /\ \A p \in Procs : WF_vars(Step(p))

-----------------------------------------------------------------------------
(* Properties *)

Posts(p) == pc[p] = "save" /\ pc'[p] \notin {"save", "crashed"}

\* "Error responses use partial when a mutation may have occurred": an error
\* without partial means that no POST of the request changed the node or is
\* still under way.
PartialIsHonest ==
    \A p \in Procs : pc[p] = "done" /\ ~res[p].ok /\ p \in touched => res[p].partial

\* What the user asked for: the object gone, or the named fields with their new
\* contents; a certificate together with its key, generated or supplied.
Asked(p, o) ==
    LET v == req[p].values
    IN IF req[p].action = "delete" THEN o = NoObj
       ELSE /\ o # NoObj
            /\ v.pub # Keep => o.pub = v.pub
            /\ v.sec # Keep /\ ~WriteOnly(req[p].spec) => o.sec = v.sec
            /\ Hooked(req[p].spec) /\ (v.sec # Keep \/ Generates(ctl[p].payload)) => o.sec = o.pub

\* An ok answer is true: what was asked for is stored and, for a resource that is
\* applied, running, unless others wrote meanwhile.
OkIsTrue ==
    \A p \in Procs :
        pc[p] = "record" /\ p \notin foreign =>
          LET s == req[p].spec
              u == req[p].uuid
          IN Asked(p, conf[s][u]) /\ (~Saved(s) => Asked(p, run[s][u]))

\* An update or delete replaces the revision its user saw, and leaves the fields
\* that it does not name as they are, a blank secret included, unless somebody
\* outside the process wrote between its read and its POST, or a POST that timed
\* out earlier was executed there.
NoLostUpdate ==
    [][\A p \in Procs :
         Posts(p) /\ conf' # conf /\ p \notin foreign /\ req[p].action # "create" =>
           LET s == req[p].spec
               old == conf[s][req[p].uuid]
               new == conf'[s][req[p].uuid]
           IN /\ Shown(s, old) = req[p].rev
              /\ new # NoObj /\ ~Hooked(s) =>
                                /\ req[p].values.pub = Keep => new.pub = old.pub
                                /\ req[p].values.sec = Keep => new.sec = old.sec]_vars

\* A stored change that is not running has an owner: a request that is still at
\* work, or that did not answer ok, whatever was stored and applied for the other
\* resources of the service in the meantime.
PendingIsOwned ==
    (env = 0 /\ \E s \in scope : ~Saved(s) /\ run[s] # conf[s])
      => \E p \in touched : ~(pc[p] = "done" /\ res[p].ok)

\* A deletion that nobody disturbs and that did remove the object is never
\* reported unverified: the scan finds the end of the listing, whatever the
\* number of rows on its last page, as long as the listing fits the page limit.
ScanFindsEnd ==
    [][\A p \in Procs :
         pc[p] = "verify" /\ req[p].action = "delete" /\ pc'[p] = "error" /\ p \notin foreign
         /\ conf[req[p].spec][req[p].uuid] = NoObj
         /\ Cardinality(Present(req[p].spec)) <= PageSize * MaxPages
           => res'[p].error # "unverified"]_vars

Declared(p) == <<p, "started">> \in audit
Stage == [p \in Procs |-> CASE pc[p] = "done" -> "over"
                             [] pc[p] = "crashed" -> "lost"
                             [] OTHER -> IF Declared(p) THEN "declared" ELSE "new"]
Answer == [p \in Procs |-> IF pc[p] # "done" THEN "none"
                          ELSE IF ~Declared(p) THEN "refused"
                          ELSE IF res[p].ok THEN "ok"
                          ELSE IF res[p].auditFailure THEN "unrecorded" ELSE "error"]
Trail == {<<l[1], IF l[2] = "started" THEN "intent" ELSE l[2]>> : l \in audit}
Audited ==
    INSTANCE AuditedWrite WITH stage <- Stage, answer <- Answer, trail <- Trail, changed <- touched

\* The write path is an audited write, step by step: the intent is on record
\* before the first POST, and the outcome when the answer says so.
IsAuditedWrite == Audited!Spec

\* Every call returns or times out and the scan is bounded, so a request that
\* waits for the lock of its resource is answered.
Answered == \A p \in Procs : pc[p] = "wait" ~> pc[p] \in {"done", "crashed"}
=============================================================================
