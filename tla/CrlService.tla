----------------------------- MODULE CrlService -----------------------------
(***************************************************************************)
(* CrlService.mutate (src/src/management/crl.py): certificate revocation   *)
(* lists, one per CA.  A request reads the list, compares its revision,    *)
(* computes the whole new list, records the attempt, POSTs the list, reads *)
(* it back and compares content and serial, all under one process-wide     *)
(* lock.  A node increments the serial of a list each time it is saved.    *)
(***************************************************************************)
EXTENDS Naturals

CONSTANTS
    Procs, NoProc,  \* HTTP requests
    Cas, NoCa,      \* certificate authorities
    Certs, NoCert,  \* certificates that can be revoked
    NoList,         \* no list read yet
    Failures,       \* failures of HTTP calls that happen
    MaxSerial,      \* bound: saves of a list
    MaxEnv          \* bound: interventions of the environment

ASSUME CrlAssumption ==
    /\ NoProc \notin Procs /\ NoCa \notin Cas /\ NoCert \notin Certs
    /\ MaxSerial \in Nat \ {0} /\ MaxEnv \in Nat
    /\ Failures \subseteq {"validation", "rejected", "auth", "timeout", "upstream"}
    /\ "upstream" \in Failures

VARIABLES
    crl,        \* crl[c]: the list of c
    inflight,   \* POSTs whose caller timed out and that are yet to be executed
    lock,       \* _LOCK
    audit,      \* lines of audit.jsonl: <<request, event>>
    pc,         \* where each request stands
    req,        \* the request
    current,    \* the list as the request read it
    res,        \* the answer
    touched,    \* history: requests whose POST changed the node or may still do
    foreign,    \* history: requests during which others saved
    env         \* number of environment interventions so far

history == <<touched, foreign, env>>
vars == <<crl, inflight, lock, audit, pc, req, current, res, touched, foreign, env>>

Absent == [exists |-> FALSE, revoked |-> {}, serial |-> 0]
List == {Absent} \cup [exists : {TRUE}, revoked : SUBSET Certs, serial : 1 .. MaxSerial]
Op == [ca : Cas, exists : BOOLEAN, revoked : SUBSET Certs]
Request == [action : {"create", "update", "delete", "revoke"}, ca : Cas \cup {NoCa}, rev : List,
            revoked : SUBSET Certs, cert : Certs \cup {NoCert}]
NoRequest == [action |-> "create", ca |-> NoCa, rev |-> Absent, revoked |-> {}, cert |-> NoCert]
NoResult == [ok |-> FALSE, error |-> "none", partial |-> FALSE, auditFailure |-> FALSE]
Critical == {"read", "attempt", "post", "verify", "record", "error"}

TypeOK ==
    /\ crl \in [Cas -> List]
    /\ inflight \subseteq Op
    /\ lock \in Procs \cup {NoProc}
    /\ audit \subseteq Procs \X {"attempt", "ok", "error"}
    /\ pc \in [Procs -> Critical \cup {"idle", "wait", "done", "crashed"}]
    /\ req \in [Procs -> Request]
    /\ current \in [Procs -> List \cup {NoList}]
    /\ res \in [Procs -> [ok : BOOLEAN, partial : BOOLEAN, auditFailure : BOOLEAN,
                          error : {"none", "bad_request", "conflict", "audit", "verification",
                                   "auth", "timeout", "validation", "upstream"}]]
    /\ touched \subseteq Procs /\ foreign \subseteq Procs
    /\ env \in 0 .. MaxEnv

-----------------------------------------------------------------------------
(* The node (external: OPNsense). *)

\* Bounded by MaxSerial: a list that was saved that often is not saved again.
Possible(op) == op.exists => crl[op.ca].serial < MaxSerial
Saved(op) ==
    [crl EXCEPT ![op.ca] = IF op.exists
       THEN [exists |-> TRUE, revoked |-> op.revoked, serial |-> @.serial + 1]
       ELSE Absent]
Executed(op) == Possible(op) /\ crl' = Saved(op) /\ inflight' = inflight
Ignored == UNCHANGED <<crl, inflight>>
Delayed(op) == inflight' = inflight \cup {op} /\ UNCHANGED crl
FailedPost(op, e) ==
    \/ Ignored
    \/ e \in {"rejected", "timeout", "upstream"} /\ Executed(op)
    \/ e = "timeout" /\ Delayed(op)

-----------------------------------------------------------------------------

Transport == {"auth", "timeout", "upstream"} \cap Failures
Goto(p, stage) == pc' = [pc EXCEPT ![p] = stage]
Touch(p) == touched' = IF <<crl, inflight>>' # <<crl, inflight>> THEN touched \cup {p} ELSE touched

MutantLockFree == TRUE     \* mutant: nobody waits
LockFree == lock = NoProc

Return(p) ==
    /\ Goto(p, "done")
    /\ lock' = NoProc
    /\ req' = [req EXCEPT ![p] = NoRequest]
    /\ current' = [current EXCEPT ![p] = NoList]

\* An error before the attempt is on record: nothing was posted.
Raise(p, e) == res' = [res EXCEPT ![p].error = e] /\ Return(p)

MutantPartial(e) == e = "verification"     \* mutant: a failed POST counts as not made
\* The except clause: partial unless the error is a validation or a denied login.
Partial(e) == e \notin {"validation", "auth"}
MutantErrorOf(e) == e     \* mutant: an unconfirmed POST has no error code of its own
ErrorOf(e) == IF e = "rejected" THEN "upstream" ELSE e
Fail(p, e) ==
    /\ res' = [res EXCEPT ![p].error = ErrorOf(e), ![p].partial = Partial(e)]
    /\ Goto(p, "error")

-----------------------------------------------------------------------------

\* The revision is that of the list as the client read it last, here with the
\* request, which may then wait for as long as it takes others to change the list.
Begin(p) ==
    /\ pc[p] = "idle"
    /\ \E a \in {"create", "update", "delete", "revoke"}, c \in Cas, s \in SUBSET Certs,
          x \in Certs \cup {NoCert} : \E r \in {Absent, crl[c]} :
         /\ (x = NoCert) = (a # "revoke")
         /\ a \notin {"create", "update"} => s = {}
         /\ req' = [req EXCEPT ![p] = [action |-> a, ca |-> c, rev |-> r, revoked |-> s, cert |-> x]]
    /\ Goto(p, "wait")
    /\ UNCHANGED <<crl, inflight, lock, audit, current, res, history>>

\* A malformed request, or a node that has a peer.
Refuse(p) ==
    /\ pc[p] = "idle"
    /\ res' = [res EXCEPT ![p].error = "bad_request"]
    /\ Goto(p, "done")
    /\ UNCHANGED <<crl, inflight, lock, audit, req, current, history>>

Acquire(p) ==
    /\ pc[p] = "wait"
    /\ LockFree
    /\ lock' = p
    /\ Goto(p, "read")
    /\ UNCHANGED <<crl, inflight, audit, req, current, res, history>>

\* The revision covers the list and its serial; only a create needs it absent.
Read(p) ==
    /\ pc[p] = "read"
    /\ LET now == crl[req[p].ca]
           expected == now = req[p].rev /\ (now.exists <=> req[p].action # "create")
       IN \/ /\ expected
             /\ current' = [current EXCEPT ![p] = now]
             /\ foreign' = foreign \ {p}
             /\ Goto(p, "attempt")
             /\ UNCHANGED <<lock, req, res>>
          \/ ~expected /\ Raise(p, "conflict") /\ UNCHANGED foreign
          \/ \E e \in Transport : Raise(p, e) /\ UNCHANGED foreign
          \/ \* _validate refuses a value
             expected /\ req[p].action # "delete" /\ Raise(p, "bad_request") /\ UNCHANGED foreign
    /\ UNCHANGED <<crl, inflight, audit, touched, env>>

MutantAttempt(p) ==     \* mutant: the POST goes on without its line
    /\ pc[p] = "attempt"
    /\ Goto(p, "post")
    /\ audit' = audit \cup {<<p, "attempt">>} \/ UNCHANGED audit
    /\ UNCHANGED <<crl, inflight, lock, req, current, res, history>>
\* The attempt goes to the audit log before the POST.
Attempt(p) ==
    /\ pc[p] = "attempt"
    /\ \/ /\ audit' = audit \cup {<<p, "attempt">>}
          /\ Goto(p, "post")
          /\ UNCHANGED <<lock, req, current, res>>
       \/ /\ res' = [res EXCEPT ![p].error = "audit", ![p].auditFailure = TRUE]
          /\ Return(p)
          /\ UNCHANGED audit
    /\ UNCHANGED <<crl, inflight, history>>

\* revoke rebuilds every reason of the list from what was read.
NewList(p) ==
    CASE req[p].action = "revoke" -> current[p].revoked \cup {req[p].cert}
      [] OTHER -> req[p].revoked
PostOp(p) == [ca |-> req[p].ca, exists |-> req[p].action # "delete", revoked |-> NewList(p)]

Post(p) ==
    /\ pc[p] = "post"
    /\ \/ (Executed(PostOp(p)) \/ Ignored) /\ Goto(p, "verify") /\ UNCHANGED res
       \/ \E e \in Failures : FailedPost(PostOp(p), e) /\ Fail(p, e)
    /\ Touch(p)
    /\ UNCHANGED <<lock, audit, req, current, foreign, env>>

MutantMatches(p, after) ==     \* mutant: the serial is not compared
    IF req[p].action = "delete" THEN ~after.exists ELSE after.exists /\ after.revoked = NewList(p)
Matches(p, after) ==
    IF req[p].action = "delete"
      THEN ~after.exists /\ after.serial = 0
      ELSE after.exists /\ after.revoked = NewList(p) /\ after.serial = current[p].serial + 1

Verify(p) ==
    /\ pc[p] = "verify"
    /\ \/ Matches(p, crl[req[p].ca]) /\ Goto(p, "record") /\ UNCHANGED res
       \/ ~Matches(p, crl[req[p].ca]) /\ Fail(p, "verification")
       \/ \E e \in Transport : Fail(p, e)
    /\ UNCHANGED <<crl, inflight, lock, audit, req, current, history>>

\* A success that cannot be recorded is an error, and not recorded either.
Record(p) ==
    /\ pc[p] = "record"
    /\ \/ audit' = audit \cup {<<p, "ok">>} /\ res' = [res EXCEPT ![p].ok = TRUE]
       \/ /\ res' = [res EXCEPT ![p].error = "audit", ![p].partial = Partial("audit"),
                                ![p].auditFailure = TRUE]
          /\ UNCHANGED audit
    /\ Return(p)
    /\ UNCHANGED <<crl, inflight, history>>

MutantUnrecorded(p) == UNCHANGED res     \* mutant: the audit failure is swallowed
Unrecorded(p) == res' = [res EXCEPT ![p].auditFailure = TRUE]

Error(p) ==
    /\ pc[p] = "error"
    /\ \/ audit' = audit \cup {<<p, "error">>} /\ UNCHANGED res
       \/ Unrecorded(p) /\ UNCHANGED audit
    /\ Return(p)
    /\ UNCHANGED <<crl, inflight, history>>

Step(p) ==
    Acquire(p) \/ Read(p) \/ Attempt(p) \/ Post(p) \/ Verify(p) \/ Record(p) \/ Error(p)

-----------------------------------------------------------------------------

Intervene == env < MaxEnv /\ env' = env + 1
Disturb == foreign' = foreign \cup {p \in Procs : pc[p] \in Critical}

\* Somebody else saves or deletes a list.
ExternalSave ==
    /\ Intervene
    /\ \E op \in Op : (op.exists \/ op.revoked = {}) /\ Executed(op)
    /\ Disturb
    /\ UNCHANGED <<lock, audit, pc, req, current, res, touched>>

LateExecution ==
    /\ \E op \in inflight :
         /\ inflight' = inflight \ {op}
         /\ crl' = IF Possible(op) THEN Saved(op) ELSE crl
    /\ Disturb
    /\ UNCHANGED <<lock, audit, pc, req, current, res, touched, env>>

Crash ==
    /\ Intervene
    /\ \E p \in Procs : pc[p] \in Critical
    /\ pc' = [p \in Procs |-> IF pc[p] \in {"idle", "done"} THEN pc[p] ELSE "crashed"]
    /\ lock' = NoProc
    /\ req' = [p \in Procs |-> NoRequest]
    /\ current' = [p \in Procs |-> NoList]
    /\ UNCHANGED <<crl, inflight, audit, res, touched, foreign>>

Init ==
    /\ crl \in [Cas -> {Absent} \cup [exists : {TRUE}, revoked : SUBSET Certs, serial : {1}]]
    /\ inflight = {}
    /\ lock = NoProc
    /\ audit = {}
    /\ pc = [p \in Procs |-> "idle"]
    /\ req = [p \in Procs |-> NoRequest]
    /\ current = [p \in Procs |-> NoList]
    /\ res = [p \in Procs |-> NoResult]
    /\ touched = {} /\ foreign = {}
    /\ env = 0

Done == (\A p \in Procs : pc[p] \in {"done", "crashed"}) /\ UNCHANGED vars

Next ==
    \/ \E p \in Procs : Begin(p) \/ Refuse(p) \/ Step(p)
    \/ ExternalSave \/ LateExecution \/ Crash
    \/ Done

Spec == Init /\ [][Next]_vars

-----------------------------------------------------------------------------

\* A revocation never takes another one back: the list that CrlService.mutate
\* writes for a revoke contains everything the list it replaces contained, unless
\* somebody outside the process saved between its read and its POST, or a POST
\* that timed out earlier was executed there.
RevocationsKept ==
    [][\A p \in Procs :
         pc[p] = "post" /\ req[p].action = "revoke" /\ crl' # crl /\ p \notin foreign
         /\ pc'[p] # "post"
           => crl[req[p].ca].revoked \cup {req[p].cert} \subseteq crl'[req[p].ca].revoked]_vars

\* The serial proves whose save is read back: when no outsider and no late
\* POST saved during the request, a list that passes the read-back was saved by the request's own POST,
\* exactly once, and holds what was asked for.  An acknowledged POST that the
\* node did not execute never passes, even when it asks for what is there.
VerifiedOnce ==
    \A p \in Procs :
        pc[p] = "record" /\ p \notin foreign
          => /\ p \in touched
             /\ IF req[p].action = "delete"
                  THEN ~crl[req[p].ca].exists
                  ELSE /\ crl[req[p].ca].revoked = NewList(p)
                       /\ crl[req[p].ca].serial = current[p].serial + 1

Declared(p) == <<p, "attempt">> \in audit
Stage == [p \in Procs |-> CASE pc[p] = "done" -> "over"
                             [] pc[p] = "crashed" -> "lost"
                             [] OTHER -> IF Declared(p) THEN "declared" ELSE "new"]
Answer == [p \in Procs |-> IF pc[p] # "done" THEN "none"
                          ELSE IF ~Declared(p) THEN "refused"
                          ELSE IF res[p].ok THEN "ok"
                          ELSE IF res[p].auditFailure THEN "unrecorded" ELSE "error"]
Trail == {<<l[1], IF l[2] = "attempt" THEN "intent" ELSE l[2]>> : l \in audit}
Audited ==
    INSTANCE AuditedWrite WITH stage <- Stage, answer <- Answer, trail <- Trail, changed <- touched

\* CrlService.mutate is an audited write, step by step, as the catalog's write path
\* is, although it is written separately.
IsAuditedWrite == Audited!Spec

\* "Error responses use ... partial ... when a mutation may have occurred": an error
\* without partial means that the list was not changed, except that a login denied
\* at the read-back of an acknowledged save is taken for one at the save.
PartialIsHonest ==
    \A p \in Procs :
        pc[p] = "done" /\ ~res[p].ok /\ ~res[p].partial /\ p \in touched => res[p].error = "auth"
=============================================================================
