---------------------------- MODULE LegacyWriter ----------------------------
(***************************************************************************)
(* The legacy writers (src/src/writers/{alias,rule,nat,one_to_one,dhcp,    *)
(* dhcp_subnet,unbound,wireguard_peer}.py): validate, POST, apply, record. *)
(* They all have the same shape.  Requests are not serialized, an HTTP 200 *)
(* counts as success whatever its body says, a create whose apply fails is *)
(* compensated by one DELETE whose outcome is not looked at, and an audit  *)
(* line that cannot be written is skipped.  The routes build the writers   *)
(* without an HAVerifier, so no peer is involved.                          *)
(***************************************************************************)
EXTENDS Naturals, FiniteSets

CONSTANTS
    Procs,          \* HTTP requests
    Ids, NoId,      \* object uuids
    Vals, NoVal,    \* object contents
    Actions,        \* the verbs of the writer: create, delete, and for some update
    Failures        \* failures of HTTP calls that happen

ASSUME LegacyAssumption ==
    /\ NoId \notin Ids /\ NoVal \notin Vals
    /\ Actions \subseteq {"create", "update", "delete"}
    /\ Failures \subseteq {"refused", "auth", "timeout", "upstream"}
    /\ "upstream" \in Failures

VARIABLES
    conf,       \* conf[u]: stored content of object u
    run,        \* run[u]: content in the running service
    used,       \* uuids that OPNsense has handed out
    inflight,   \* POSTs whose caller timed out and that are yet to be executed
    audit,      \* lines of audit.jsonl: <<request, result>>
    pc,         \* where each request stands
    req,        \* action, uuid and payload
    res,        \* the AliasResult: ok, and whether its detail says "rolled back"
    refused,    \* history: requests of which a 200 reply hid a refusal
    crossed     \* history: requests whose object somebody else wrote since

data == <<conf, run, inflight>>
vars == <<conf, run, used, inflight, audit, pc, req, res, refused, crossed>>

Objects == [Ids -> Vals \cup {NoVal}]
Op == [kind : {"add", "set"}, id : Ids, val : Vals \cup {NoVal}] \cup [kind : {"apply"}]
Transport == Failures \ {"refused"}

TypeOK ==
    /\ conf \in Objects /\ run \in Objects
    /\ used \subseteq Ids
    /\ inflight \subseteq Op
    /\ audit \subseteq Procs \X {"ok", "error"}
    /\ pc \in [Procs -> {"idle", "post", "apply", "rollback", "record", "done"}]
    /\ req \in [Procs -> [action : {"create", "update", "delete"}, uuid : Ids \cup {NoId},
                          val : Vals \cup {NoVal}]]
    /\ res \in [Procs -> [ok : BOOLEAN, rolledBack : BOOLEAN]]
    /\ refused \subseteq Procs /\ crossed \subseteq Procs

-----------------------------------------------------------------------------
(* The node (external: OPNsense). *)

ConfAfter(op) == IF op.kind = "apply" THEN conf ELSE [conf EXCEPT ![op.id] = op.val]
RunAfter(op) == IF op.kind = "apply" THEN conf ELSE run
\* A set or del of an object that is gone does nothing.
Possible(op) == op.kind = "set" => conf[op.id] # NoVal
Executed(op) ==
    Possible(op) /\ conf' = ConfAfter(op) /\ run' = RunAfter(op) /\ inflight' = inflight
Ignored == UNCHANGED data
Delayed(op) == inflight' = inflight \cup {op} /\ UNCHANGED <<conf, run>>
FailedPost(op, e) ==
    \/ Ignored
    \/ e \in {"timeout", "upstream"} /\ Executed(op)
    \/ e = "timeout" /\ Delayed(op)

-----------------------------------------------------------------------------

Goto(p, stage) == pc' = [pc EXCEPT ![p] = stage]
WriteOp(p, u) ==
    [kind |-> IF req[p].action = "create" THEN "add" ELSE "set", id |-> u, val |-> req[p].val]

\* History: a write of u by p crosses the other requests about u.
Cross(p, u) ==
    crossed' = (crossed \ {p}) \cup {q \in Procs \ {p} : req[q].uuid = u /\ conf'[u] # conf[u]}
Refusal(p) == refused' = refused \cup {p}

\* The route accepts the request and _validate passes.
Begin(p) ==
    /\ pc[p] = "idle"
    /\ \E a \in Actions, u \in Ids \cup {NoId}, v \in Vals \cup {NoVal} :
         /\ (u = NoId) = (a = "create")
         /\ (v = NoVal) = (a = "delete")
         /\ req' = [req EXCEPT ![p] = [action |-> a, uuid |-> u, val |-> v]]
    /\ Goto(p, "post")
    /\ UNCHANGED <<data, used, audit, res, refused, crossed>>

\* POST add.  A reply without uuid is an error; what the node did is unknown.
PostAdd(p) ==
    /\ pc[p] = "post" /\ req[p].action = "create"
    /\ \/ \E u \in Ids \ used :
            /\ used' = used \cup {u}
            /\ \/ /\ Executed(WriteOp(p, u))
                  /\ req' = [req EXCEPT ![p].uuid = u]
                  /\ Goto(p, "apply")
               \/ \E e \in Failures :
                    FailedPost(WriteOp(p, u), e) /\ Goto(p, "record") /\ UNCHANGED req
       \/ Ignored /\ Goto(p, "record") /\ UNCHANGED <<used, req>>
    /\ UNCHANGED <<audit, res, refused, crossed>>

\* POST set or del: any 200 will do.
PostChange(p) ==
    /\ pc[p] = "post" /\ req[p].action # "create"
    /\ LET op == WriteOp(p, req[p].uuid)
       IN \/ Executed(op) /\ Goto(p, "apply") /\ UNCHANGED refused
          \/ /\ ~Possible(op) \/ "refused" \in Failures
             /\ Ignored
             /\ Goto(p, "apply")
             /\ Refusal(p)
          \/ \E e \in Transport : FailedPost(op, e) /\ Goto(p, "record") /\ UNCHANGED refused
    /\ Cross(p, req[p].uuid)
    /\ UNCHANGED <<used, audit, req, res>>

MutantApply(p) ==     \* mutant: the apply is skipped
    /\ pc[p] = "apply"
    /\ Goto(p, "record")
    /\ res' = [res EXCEPT ![p].ok = TRUE]
    /\ UNCHANGED <<data, used, audit, req, refused, crossed>>
\* Only a create is compensated when its apply fails.
AfterFailure(p) == IF req[p].action = "create" THEN "rollback" ELSE "record"

\* POST apply or reconfigure.
Apply(p) ==
    /\ pc[p] = "apply"
    /\ LET op == [kind |-> "apply"]
       IN \/ /\ Executed(op)
             /\ res' = [res EXCEPT ![p].ok = TRUE]
             /\ Goto(p, "record")
             /\ UNCHANGED refused
          \/ /\ "refused" \in Failures
             /\ Ignored
             /\ res' = [res EXCEPT ![p].ok = TRUE]
             /\ Goto(p, "record")
             /\ Refusal(p)
          \/ \E e \in Transport : FailedPost(op, e) /\ Goto(p, AfterFailure(p)) /\ UNCHANGED <<res, refused>>
    /\ UNCHANGED <<used, audit, req, crossed>>

\* POST del of the new object, whatever comes back, and no second apply.
Rollback(p) ==
    /\ pc[p] = "rollback"
    /\ LET op == [kind |-> "set", id |-> req[p].uuid, val |-> NoVal]
       IN Executed(op) \/ \E e \in Failures : FailedPost(op, e)
    /\ Cross(p, req[p].uuid)
    /\ res' = [res EXCEPT ![p].rolledBack = TRUE]
    /\ Goto(p, "record")
    /\ UNCHANGED <<used, audit, req, refused>>

Line(p) == IF res[p].ok THEN "ok" ELSE "error"

\* _record: the line is written or skipped, then the result is returned.
Record(p) ==
    /\ pc[p] = "record"
    /\ \/ audit' = audit \cup {<<p, Line(p)>>}
       \/ UNCHANGED audit
    /\ Goto(p, "done")
    /\ UNCHANGED <<data, used, req, res, refused, crossed>>

LateExecution ==
    /\ \E op \in inflight :
         /\ inflight' = inflight \ {op}
         /\ IF Possible(op)
              THEN conf' = ConfAfter(op) /\ run' = RunAfter(op)
              ELSE UNCHANGED <<conf, run>>
         /\ crossed' = crossed \cup {p \in Procs : req[p].uuid # NoId /\ conf'[req[p].uuid] # conf[req[p].uuid]}
    /\ UNCHANGED <<used, audit, pc, req, res, refused>>

Init ==
    /\ conf \in Objects
    /\ run = conf
    /\ used = {u \in Ids : conf[u] # NoVal}
    /\ inflight = {}
    /\ audit = {}
    /\ pc = [p \in Procs |-> "idle"]
    /\ req = [p \in Procs |-> [action |-> "create", uuid |-> NoId, val |-> NoVal]]
    /\ res = [p \in Procs |-> [ok |-> FALSE, rolledBack |-> FALSE]]
    /\ refused = {} /\ crossed = {}

Step(p) == PostAdd(p) \/ PostChange(p) \/ Apply(p) \/ Rollback(p) \/ Record(p)
Done == (\A p \in Procs : pc[p] = "done") /\ UNCHANGED vars
Next == (\E p \in Procs : Begin(p) \/ Step(p)) \/ LateExecution \/ Done

Spec == Init /\ [][Next]_vars

-----------------------------------------------------------------------------

\* Without any lock, an ok answer is still true: the object is stored and
\* running as requested, unless somebody else wrote the same object since or
\* OPNsense hid a refusal behind its 200.
OkIsTrue ==
    \A p \in Procs :
        pc[p] = "done" /\ res[p].ok /\ p \notin crossed \cup refused
          => conf[req[p].uuid] = req[p].val /\ run[req[p].uuid] = req[p].val

\* Concurrent requests that all succeed leave nothing unapplied: the last write
\* is followed by an apply.
AllApplied ==
    (/\ \A p \in Procs : pc[p] = "done" /\ res[p].ok
     /\ refused = {})
      => run = conf
=============================================================================
