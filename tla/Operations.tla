----------------------------- MODULE Operations -----------------------------
(***************************************************************************)
(* execute_operation (src/src/management/operations.py) beside the         *)
(* requests of ManagementEngine on the same node: status queries, service  *)
(* control, firmware and diagnostic jobs.  An operation takes no lock.  A  *)
(* POST is announced in the audit log, sent once and, when the service has *)
(* a state to show for it, verified by one GET.  The reconfigure of a      *)
(* service publishes what any request has stored for it.                   *)
(***************************************************************************)
EXTENDS ManagementEngine

CONSTANTS
    Ops,        \* operation requests
    NoOp        \* no operation chosen yet

VARIABLES
    up,         \* state of the service: running or stopped
    opc,        \* where each operation stands
    op,         \* its name
    ores,       \* its answer
    otrail,     \* the lines of audit.jsonl about operations: <<operation, event>>
    olate,      \* operations whose caller timed out and that are yet to be executed
    executed,   \* history: POSTs of operations that the node executed
    moved       \* history: operations during which others moved the service

ovars == <<up, opc, op, ores, otrail, olate, executed, moved>>
plane == <<vars, ovars>>

-----------------------------------------------------------------------------
(* OPERATIONS *)

Get == [post |-> FALSE, mutation |-> FALSE, expected |-> {}]
Post == [post |-> TRUE, mutation |-> TRUE, expected |-> {}]

Controlled == {"wireguard", "ids", "monit", "dnsmasq", "syslog", "ipsec", "captiveportal"}
\* <service>_status, _start, _stop, _restart and _reconfigure.  A reconfigure may
\* leave a disabled service stopped, so its state is not verified.
ServiceOperations ==
    [status |-> Get,
     start |-> [Post EXCEPT !.expected = {"running"}],
     restart |-> [Post EXCEPT !.expected = {"running"}],
     stop |-> [Post EXCEPT !.expected = {"stopped"}],
     reconfigure |-> Post]
\* One operation stands for the ones alike: the firmware_ and diagnostic queries
\* and reverse_dns; firmware_check, _audit, _update, _upgrade and _poweroff,
\* traceroute, ping_* and ipsec_connect and _disconnect; firmware_reboot, after
\* which the node runs what it has stored; the state table, a POST that only reads.
NodeOperations ==
    [query |-> Get, job |-> Post, reboot |-> Post, states |-> [Post EXCEPT !.mutation = FALSE]]

Names == DOMAIN ServiceOperations \cup DOMAIN NodeOperations

ASSUME OperationsAssumption == NoOp \notin Names

OPERATIONS(n) ==
    IF n \in DOMAIN ServiceOperations THEN ServiceOperations[n] ELSE NodeOperations[n]
Offered ==
    DOMAIN NodeOperations
      \cup IF \E s \in scope : Resources[s].service \in Controlled THEN DOMAIN ServiceOperations ELSE {}

OStages == {"attempt", "send", "verify", "record", "error"}
OTypeOK ==
    /\ up \in {"running", "stopped"}
    /\ opc \in [Ops -> OStages \cup {"idle", "done", "crashed"}]
    /\ op \in [Ops -> Names \cup {NoOp}]
    /\ ores \in [Ops -> [ok : BOOLEAN, verified : BOOLEAN, partial : BOOLEAN, auditFailure : BOOLEAN,
                         error : {"none", "bad_request", "audit", "verification", "auth", "timeout",
                                  "validation", "upstream", "invalid_response"}]]
    /\ otrail \subseteq Ops \X {"attempt", "ok", "error"}
    /\ olate \subseteq Ops /\ executed \subseteq Ops /\ moved \subseteq Ops

-----------------------------------------------------------------------------

OGoto(o, stage) == opc' = [opc EXCEPT ![o] = stage]

\* The node executes the POST of o (external: OPNsense).
UpAfter(n) ==
    CASE n \in {"start", "restart", "reboot"} -> {"running"}
      [] n = "stop" -> {"stopped"}
      [] n = "reconfigure" -> {"running", "stopped"}
      [] OTHER -> {up}
Effect(o) ==
    /\ up' \in UpAfter(op[o])
    /\ run' = IF op[o] \in {"reconfigure", "reboot"} THEN conf ELSE run
    /\ executed' = IF OPERATIONS(op[o]).mutation THEN executed \cup {o} ELSE executed
    /\ moved' = IF up' # up THEN moved \cup (Ops \ {o}) ELSE moved
NoEffect == UNCHANGED <<up, run, executed, moved>>

\* A failed POST was executed, or will be, or not.
FailedOp(o, e) ==
    \/ NoEffect /\ UNCHANGED olate
    \/ e \in {"rejected", "timeout", "upstream", "invalid_response"} /\ Effect(o) /\ UNCHANGED olate
    \/ e = "timeout" /\ NoEffect /\ olate' = olate \cup {o}

Answers == Failures \cup {"invalid_response"}

\* The except clause: partial unless the error is a validation or a denied login.
MutantOpPartial(o, e) == e = "verification"     \* mutant: "posted" is forgotten
OpPartial(o, e) ==
    OPERATIONS(op[o]).post /\ (e = "verification" \/ e \notin {"validation", "auth"})
ErrorCode(e) == IF e = "rejected" THEN "upstream" ELSE e
OFail(o, e) ==
    /\ ores' = [ores EXCEPT ![o].error = ErrorCode(e), ![o].partial = OpPartial(o, e)]
    /\ OGoto(o, IF OPERATIONS(op[o]).post THEN "error" ELSE "done")

\* _h_operate and _values: a known operation with valid values.
OBegin(o) ==
    /\ opc[o] = "idle"
    /\ \E n \in Offered :
         /\ op' = [op EXCEPT ![o] = n]
         /\ OGoto(o, IF OPERATIONS(n).post THEN "attempt" ELSE "send")
    /\ moved' = moved \ {o}
    /\ UNCHANGED <<vars, up, ores, otrail, olate, executed>>

ORefuse(o) ==
    /\ opc[o] = "idle"
    /\ ores' = [ores EXCEPT ![o].error = "bad_request"]
    /\ OGoto(o, "done")
    /\ UNCHANGED <<vars, up, op, otrail, olate, executed, moved>>

\* "attempt": without its line nothing is posted.
MutantAttempt(o) ==     \* mutant: the attempt that cannot be recorded is made all the same
    /\ opc[o] = "attempt"
    /\ \/ otrail' = otrail \cup {<<o, "attempt">>}
       \/ UNCHANGED otrail
    /\ OGoto(o, "send")
    /\ UNCHANGED <<vars, up, op, ores, olate, executed, moved>>
Attempt(o) ==
    /\ opc[o] = "attempt"
    /\ \/ /\ otrail' = otrail \cup {<<o, "attempt">>}
          /\ OGoto(o, "send")
          /\ UNCHANGED ores
       \/ /\ ores' = [ores EXCEPT ![o].error = "audit", ![o].auditFailure = TRUE]
          /\ OGoto(o, "done")
          /\ UNCHANGED otrail
    /\ UNCHANGED <<vars, up, op, olate, executed, moved>>

\* The POST.  An acknowledgement does not prove that the node did it.
SendPost(o) ==
    /\ opc[o] = "send" /\ OPERATIONS(op[o]).post
    /\ \/ /\ Effect(o) \/ NoEffect
          /\ OGoto(o, IF OPERATIONS(op[o]).expected # {} THEN "verify" ELSE "record")
          /\ UNCHANGED <<ores, olate>>
       \/ \E e \in Answers : FailedOp(o, e) /\ OFail(o, e)
    /\ UNCHANGED <<conf, used, inflight, locks, audit, pc, req, ctl, res, history, op, otrail>>

\* The GET of a query: what comes back is observed, and not audited.
SendGet(o) ==
    /\ opc[o] = "send" /\ ~OPERATIONS(op[o]).post
    /\ \/ ores' = [ores EXCEPT ![o].ok = TRUE] /\ OGoto(o, "done")
       \/ \E e \in Answers \ {"validation"} : OFail(o, e)
    /\ UNCHANGED <<vars, up, op, otrail, olate, executed, moved>>

MutantExpected(o) == TRUE     \* mutant: any status will do
Expected(o) == up \in OPERATIONS(op[o]).expected

\* GET status.
OVerify(o) ==
    /\ opc[o] = "verify"
    /\ \/ Expected(o) /\ ores' = [ores EXCEPT ![o].verified = TRUE] /\ OGoto(o, "record")
       \/ ~Expected(o) /\ OFail(o, "verification")
       \/ \E e \in Transport : OFail(o, e)
    /\ UNCHANGED <<vars, up, op, otrail, olate, executed, moved>>

\* A success without its closing line is an error, and not recorded either.
ORecord(o) ==
    /\ opc[o] = "record"
    /\ \/ otrail' = otrail \cup {<<o, "ok">>} /\ ores' = [ores EXCEPT ![o].ok = TRUE]
       \/ /\ ores' = [ores EXCEPT ![o].error = "audit", ![o].partial = TRUE, ![o].auditFailure = TRUE]
          /\ UNCHANGED otrail
    /\ OGoto(o, "done")
    /\ UNCHANGED <<vars, up, op, olate, executed, moved>>

OError(o) ==
    /\ opc[o] = "error"
    /\ \/ otrail' = otrail \cup {<<o, "error">>} /\ UNCHANGED ores
       \/ ores' = [ores EXCEPT ![o].auditFailure = TRUE] /\ UNCHANGED otrail
    /\ OGoto(o, "done")
    /\ UNCHANGED <<vars, up, op, olate, executed, moved>>

\* A POST whose caller has given up is executed after all.
OLate ==
    /\ \E o \in olate : olate' = olate \ {o} /\ Effect(o)
    /\ UNCHANGED <<conf, used, inflight, locks, audit, pc, req, ctl, res, history, opc, op, ores, otrail>>

PlaneCrash ==
    /\ Intervene
    /\ (\E p \in Procs : pc[p] \in Critical) \/ \E o \in Ops : opc[o] \in OStages
    /\ Die
    /\ opc' = [o \in Ops |-> IF opc[o] \in OStages THEN "crashed" ELSE opc[o]]
    /\ UNCHANGED <<up, op, ores, otrail, olate, executed, moved>>

PlaneInit ==
    /\ Init
    /\ up \in {"running", "stopped"}
    /\ opc = [o \in Ops |-> "idle"]
    /\ op = [o \in Ops |-> NoOp]
    /\ ores = [o \in Ops |-> [ok |-> FALSE, verified |-> FALSE, partial |-> FALSE,
                              auditFailure |-> FALSE, error |-> "none"]]
    /\ otrail = {} /\ olate = {} /\ executed = {} /\ moved = {}

PlaneDone ==
    /\ \A p \in Procs : pc[p] \in {"done", "crashed"}
    /\ \A o \in Ops : opc[o] \in {"done", "crashed"}
    /\ UNCHANGED plane

OStep(o) ==
    Attempt(o) \/ SendPost(o) \/ SendGet(o) \/ OVerify(o) \/ ORecord(o) \/ OError(o)

\* The apply of a write may start or stop the service as well.
Reconfigured ==
    \/ \E p \in Procs : pc[p] = "apply" /\ pc'[p] # "apply"
    \/ [kind |-> "apply"] \in inflight \ inflight'
Aside ==
    /\ IF Reconfigured THEN up' \in {"running", "stopped"} ELSE UNCHANGED up
    /\ moved' = IF up' # up THEN Ops ELSE moved
    /\ UNCHANGED <<opc, op, ores, otrail, olate, executed>>

PlaneNext ==
    \/ /\ (\E p \in Procs : Begin(p) \/ Refuse(p) \/ Step(p)) \/ ExternalWrite \/ LateExecution
       /\ Aside
    \/ \E o \in Ops : OBegin(o) \/ ORefuse(o) \/ OStep(o)
    \/ OLate \/ PlaneCrash \/ PlaneDone

PlaneSpec == PlaneInit /\ [][PlaneNext]_plane

-----------------------------------------------------------------------------

\* "partial when a mutation may have occurred": an operation that fails without
\* partial has moved nothing, except that a denied login at the read-back of an
\* accepted POST is taken for one at the POST.
OpPartialIsHonest ==
    \A o \in Ops :
        opc[o] = "done" /\ ~ores[o].ok /\ ~ores[o].partial /\ o \in executed \cup olate
          => ores[o].error = "auth" /\ OPERATIONS(op[o]).expected # {}

\* What an operation did to the node can be found: its attempt was on record
\* first, and its outcome is, or the answer says that it is not.
OpTrailOrAlarm ==
    \A o \in executed \cup olate :
        /\ <<o, "attempt">> \in otrail
        /\ opc[o] = "done" => \/ ores[o].ok /\ <<o, "ok">> \in otrail
                              \/ ~ores[o].ok /\ <<o, "error">> \in otrail
                              \/ ~ores[o].ok /\ ores[o].auditFailure

\* "Transport acknowledgements are not evidence of asynchronous completion": an
\* operation that claims to be verified left the service as asked, unless another
\* operation or the apply of a write, a late one included, moved it meanwhile.
VerifiedIsTrue ==
    \A o \in Ops : ores[o].verified /\ o \notin moved => up \in OPERATIONS(op[o]).expected
=============================================================================
