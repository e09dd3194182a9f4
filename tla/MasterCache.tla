---------------------------- MODULE MasterCache ----------------------------
(***************************************************************************)
(* _resolved_master_side (src/__init__.py): which node of the pair the     *)
(* reads go to.  The answer of a CARP probe of both nodes is cached, with  *)
(* the time at which the probing request started, in a module-level        *)
(* dictionary that all threads read and write without a lock.              *)
(***************************************************************************)
EXTENDS Naturals

CONSTANTS
    Threads,        \* request threads of the plugin
    PairStates,     \* CARP states of the two nodes that occur
    TTL,            \* _MASTER_TTL_S
    MaxTime         \* bound: clock values

Sides == {"a", "b"}
Status == [maintenance : BOOLEAN, primary : {"MASTER", "BACKUP", "INIT", "none"}]
Roles == {"master", "backup", "disabled", "unknown"}

ASSUME CacheAssumption ==
    /\ PairStates \subseteq [Sides -> Status] /\ PairStates # {}
    /\ TTL \in Nat \ {0}
    /\ MaxTime \in Nat

VARIABLES
    carp,       \* CARP state of both nodes
    changed,    \* when carp last changed
    now,        \* time.monotonic()
    side, ts,   \* _master_cache
    pc,         \* where each thread stands
    started,    \* "now" as the thread read it
    probe,      \* roles the thread has seen
    answer,     \* the side the thread returns
    failed      \* history: when a probe last failed

cache == <<side, ts>>
locals == <<started, probe, answer>>
vars == <<carp, changed, now, side, ts, pc, started, probe, answer, failed>>

TypeOK ==
    /\ carp \in PairStates
    /\ now \in 0 .. MaxTime /\ changed \in 0 .. now /\ ts \in 0 .. now
    /\ side \in Sides \cup {"none"}
    /\ pc \in [Threads -> {"idle", "check", "hit", "probeA", "probeB", "writeSide", "writeTs", "return"}]
    /\ started \in [Threads -> 0 .. now]
    /\ probe \in [Threads -> [Sides -> Roles]]
    /\ answer \in [Threads -> Sides]
    /\ failed \in 0 .. now

\* _classify_role: the role of a node is that of its primary VIP.
Role(st) ==
    CASE st.primary = "none" -> "disabled"
      [] st.primary # "none" /\ st.maintenance -> "backup"
      [] st.primary = "MASTER" /\ ~st.maintenance -> "master"
      [] st.primary = "BACKUP" /\ ~st.maintenance -> "backup"
      [] OTHER -> "unknown"

\* master_side: A unless B alone is master.
MasterSide(roles) == IF roles["b"] = "master" /\ roles["a"] # "master" THEN "b" ELSE "a"

Master(s) == \A x \in Sides : Role(carp[x]) = "master" <=> x = s

Goto(t, stage) == pc' = [pc EXCEPT ![t] = stage]

-----------------------------------------------------------------------------

Start(t) ==
    /\ pc[t] = "idle"
    /\ started' = [started EXCEPT ![t] = now]
    /\ Goto(t, IF side = "none" THEN "probeA" ELSE "check")
    /\ UNCHANGED <<carp, changed, now, cache, probe, answer, failed>>

Fresh(t) == started[t] < ts + TTL

\* A cached side is good for TTL.
Check(t) ==
    /\ pc[t] = "check"
    /\ Goto(t, IF Fresh(t) THEN "hit" ELSE "probeA")
    /\ UNCHANGED <<carp, changed, now, cache, locals, failed>>

Hit(t) ==
    /\ pc[t] = "hit"
    /\ answer' = [answer EXCEPT ![t] = side]
    /\ Goto(t, "return")
    /\ UNCHANGED <<carp, changed, now, cache, started, probe, failed>>

\* collect_carp_status: a failed call counts as a node without CARP.
Probe(t, s, stage, next) ==
    /\ pc[t] = stage
    /\ \/ probe' = [probe EXCEPT ![t][s] = Role(carp[s])] /\ UNCHANGED failed
       \/ probe' = [probe EXCEPT ![t][s] = "disabled"] /\ failed' = now
    /\ Goto(t, next)
    /\ UNCHANGED <<carp, changed, now, cache, started, answer>>

\* Any other exception: A is the default.
ProbeRaises(t) ==
    /\ pc[t] \in {"probeA", "probeB"}
    /\ probe' = [probe EXCEPT ![t] = [s \in Sides |-> "unknown"]]
    /\ failed' = now
    /\ Goto(t, "writeSide")
    /\ UNCHANGED <<carp, changed, now, cache, started, answer>>

WriteSide(t) ==
    /\ pc[t] = "writeSide"
    /\ side' = MasterSide(probe[t])
    /\ answer' = [answer EXCEPT ![t] = MasterSide(probe[t])]
    /\ Goto(t, "writeTs")
    /\ UNCHANGED <<carp, changed, now, ts, started, probe, failed>>

MutantStamp(t) == now     \* mutant: stamped when the probe is over
Stamp(t) == started[t]
WriteTs(t) ==
    /\ pc[t] = "writeTs"
    /\ ts' = Stamp(t)
    /\ Goto(t, "return")
    /\ UNCHANGED <<carp, changed, now, side, locals, failed>>

Return(t) ==
    /\ pc[t] = "return"
    /\ Goto(t, "idle")
    /\ UNCHANGED <<carp, changed, now, cache, locals, failed>>

Tick ==
    /\ now < MaxTime
    /\ now' = now + 1
    /\ UNCHANGED <<carp, changed, cache, pc, locals, failed>>

CarpChange ==
    /\ carp' \in PairStates \ {carp}
    /\ changed' = now
    /\ UNCHANGED <<now, cache, pc, locals, failed>>

Init ==
    /\ carp \in PairStates
    /\ changed = 0 /\ now = 0
    /\ side = "none" /\ ts = 0
    /\ pc = [t \in Threads |-> "idle"]
    /\ started = [t \in Threads |-> 0]
    /\ probe = [t \in Threads |-> [s \in Sides |-> "unknown"]]
    /\ answer = [t \in Threads |-> "a"]
    /\ failed = 0

Next ==
    \/ \E t \in Threads :
         \/ Start(t) \/ Check(t) \/ Hit(t)
         \/ Probe(t, "a", "probeA", "probeB") \/ Probe(t, "b", "probeB", "writeSide")
         \/ ProbeRaises(t) \/ WriteSide(t) \/ WriteTs(t) \/ Return(t)
    \/ Tick \/ CarpChange

Spec == Init /\ [][Next]_vars

-----------------------------------------------------------------------------

\* "10s TTL is short enough that CARP failovers surface": a request that starts
\* TTL or more after the last change of CARP, and after the last failed probe,
\* goes to the master, if the pair has a single one.
FailoverSurfaces ==
    \A t \in Threads, s \in Sides :
        (/\ pc[t] = "return"
         /\ started[t] >= changed + TTL /\ started[t] >= failed + TTL
         /\ Master(s))
           => answer[t] = s
=============================================================================
