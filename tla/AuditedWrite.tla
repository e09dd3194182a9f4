---------------------------- MODULE AuditedWrite ----------------------------
(***************************************************************************)
(* What every write path of the plugin promises about its audit log: the   *)
(* intent of a request is on record before the request changes the node,   *)
(* and its outcome before the answer, or the answer says that it is not    *)
(* (audit_failure).  A crash loses the outcome and never the intent.       *)
(***************************************************************************)
CONSTANT Procs      \* requests

VARIABLES
    stage,      \* new, declared, over or lost
    answer,     \* what the user is told
    trail,      \* lines of audit.jsonl: <<request, event>>
    changed     \* requests that changed the node, or will when a late POST is executed

vars == <<stage, answer, trail, changed>>

TypeOK ==
    /\ stage \in [Procs -> {"new", "declared", "over", "lost"}]
    /\ answer \in [Procs -> {"none", "refused", "ok", "error", "unrecorded"}]
    /\ trail \subseteq Procs \X {"intent", "ok", "error"}
    /\ changed \subseteq Procs

Init ==
    /\ stage = [p \in Procs |-> "new"]
    /\ answer = [p \in Procs |-> "none"]
    /\ trail = {} /\ changed = {}

Over(p, a) == stage' = [stage EXCEPT ![p] = "over"] /\ answer' = [answer EXCEPT ![p] = a]

\* Refused, or failed before anything was posted.
Refuse(p) == stage[p] = "new" /\ Over(p, "refused") /\ UNCHANGED <<trail, changed>>

Declare(p) ==
    /\ stage[p] = "new"
    /\ stage' = [stage EXCEPT ![p] = "declared"]
    /\ trail' = trail \cup {<<p, "intent">>}
    /\ UNCHANGED <<answer, changed>>

\* A POST.
Change(p) ==
    /\ stage[p] = "declared"
    /\ changed' = changed \cup {p}
    /\ UNCHANGED <<stage, answer, trail>>

Close(p, outcome) ==
    /\ stage[p] = "declared"
    /\ trail' = trail \cup {<<p, outcome>>}
    /\ Over(p, outcome)
    /\ UNCHANGED changed

\* The outcome cannot be recorded: the answer is an error that says so.
Unrecorded(p) == stage[p] = "declared" /\ Over(p, "unrecorded") /\ UNCHANGED <<trail, changed>>

\* The process dies with some of the requests.
Crash ==
    /\ \E lost \in SUBSET {p \in Procs : stage[p] \in {"new", "declared"}} :
         stage' = [p \in Procs |-> IF p \in lost THEN "lost" ELSE stage[p]]
    /\ UNCHANGED <<answer, trail, changed>>

Next ==
    \/ \E p \in Procs :
         \/ Refuse(p) \/ Declare(p) \/ Change(p) \/ Unrecorded(p)
         \/ \E outcome \in {"ok", "error"} : Close(p, outcome)
    \/ Crash

Spec == Init /\ [][Next]_vars

-----------------------------------------------------------------------------

\* Every change of the node can be traced to the intent of its request, and a
\* request that is over to its outcome, unless its user was told that the outcome
\* is missing.
Accounted ==
    \A p \in changed :
        /\ <<p, "intent">> \in trail
        /\ stage[p] = "over" => answer[p] = "unrecorded" \/ <<p, answer[p]>> \in trail
=============================================================================
