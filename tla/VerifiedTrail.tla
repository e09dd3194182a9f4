--------------------------- MODULE VerifiedTrail ---------------------------
(***************************************************************************)
(* VerifiedWriter seen as an audited write (AuditedWrite): the requests of *)
(* VerifiedFirewallWriter with a history variable, the requests that       *)
(* changed a node or left a POST under way, and the refinement mapping.    *)
(***************************************************************************)
EXTENDS VerifiedWriter

VARIABLE touched    \* history: requests whose POST was executed, or will be

Touch(p) == touched' = IF data' = data THEN touched ELSE touched \cup {p}

TrailInit == Init /\ touched = {}

TrailNext ==
    \/ \E p \in Procs : (Begin(p) \/ Refuse(p) \/ Step(p)) /\ Touch(p)
    \/ /\ ExternalWrite \/ LateExecution \/ AutoSync \/ CarpChange \/ Reconfigure \/ Crash \/ Done
       /\ UNCHANGED touched

TrailSpec == TrailInit /\ [][TrailNext]_<<vars, touched>>

-----------------------------------------------------------------------------

\* A request whose intent cannot be written ends as one that was refused, and its
\* closing line, if there is one, stands for nothing; the second intent, of the
\* deletion on the peer, is no line of its own either.
Declared(p) == <<p, "started">> \in audit
Event(e) == IF e = "started" THEN "intent" ELSE e
Lines == {l \in audit : Declared(l[1]) /\ l[2] # "peer_delete"}

Stage == [p \in Procs |-> CASE pc[p] = "done" -> "over"
                             [] pc[p] = "crashed" -> "lost"
                             [] OTHER -> IF Declared(p) THEN "declared" ELSE "new"]
Answer == [p \in Procs |-> IF pc[p] # "done" THEN "none"
                          ELSE IF ~Declared(p) THEN "refused"
                          ELSE IF res[p].ok THEN "ok"
                          ELSE IF res[p].error = "audit" THEN "unrecorded" ELSE "error"]
Trail == {<<l[1], Event(l[2])>> : l \in Lines}
Audited ==
    INSTANCE AuditedWrite WITH stage <- Stage, answer <- Answer, trail <- Trail, changed <- touched

\* VerifiedFirewallWriter.execute is an audited write, as the management plane's
\* write paths are, with its rollback, its XMLRPC push and its deletion on the peer.
IsAuditedWrite == Audited!Spec
=============================================================================
