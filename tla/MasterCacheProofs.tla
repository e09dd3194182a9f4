------------------------- MODULE MasterCacheProofs -------------------------
(***************************************************************************)
(* Theorems about MasterCache, for every number of threads, every set of   *)
(* CARP states, every TTL and every time.  What makes a failover surface   *)
(* is that no two threads probe at the same time: _resolved_master_side    *)
(* takes no lock, and the theorem names the condition under which it needs *)
(* none.                                                                   *)
(***************************************************************************)
EXTENDS MasterCache, TLAPS

-----------------------------------------------------------------------------
(* The inductive invariant *)

\* Past a miss of the cache, and before the stamp.
Probing(t) == pc[t] \in {"probeA", "probeB", "writeSide", "writeTs"}
AloneInProbe == \A t, u \in Threads : Probing(t) /\ Probing(u) => t = u

\* A thread looks at the cache only when it holds a side.
Cached(t) == pc[t] \in {"check", "hit"} => side # "none"

\* A thread that probes started after the entry that it replaces, and one that
\* takes the entry found it fresh.
Dated(t) ==
    /\ Probing(t) => started[t] >= ts
    /\ pc[t] = "hit" => started[t] < ts + TTL

\* Time x lies after the last change of CARP and the last failed probe.
Settled(x) == x > changed /\ x > failed

Probed(t, s) ==
    \/ s = "a" /\ pc[t] \in {"probeB", "writeSide", "writeTs"}
    \/ s = "b" /\ pc[t] \in {"writeSide", "writeTs"}

\* What a request probes that started since everything settled is still so.
ProbeTrue(t) ==
    \A s \in Sides : Probed(t, s) /\ Settled(started[t]) => probe[t][s] = Role(carp[s])

\* Between its two writes to the cache a thread finds there what it wrote.
Written(t) == pc[t] = "writeTs" => side = MasterSide(probe[t]) /\ answer[t] = side

Surfaces(t) ==
    \A s \in Sides :
        (/\ pc[t] = "return"
         /\ started[t] >= changed + TTL /\ started[t] >= failed + TTL
         /\ Master(s))
           => answer[t] = s

Thread(t) == Cached(t) /\ Dated(t) /\ ProbeTrue(t) /\ Written(t) /\ Surfaces(t)

\* An entry stamped since everything settled names the master.
EntryTrue == \A s \in Sides : Settled(ts) /\ Master(s) /\ side # "none" => side = s

CacheInv == TypeOK /\ EntryTrue /\ \A t \in Threads : Thread(t)

USE DEF Sides

-----------------------------------------------------------------------------
(* Lemmas *)

\* _classify_role gives one of the four roles.
LEMMA RoleType == ASSUME NEW st PROVE Role(st) \in Roles
  BY DEF Role, Roles

\* With a single master, master_side finds it.
LEMMA SideOfMaster ==
    ASSUME NEW s \in Sides, Master(s), NEW roles, \A x \in Sides : roles[x] = Role(carp[x])
    PROVE  MasterSide(roles) = s
  BY DEF MasterSide, Master

LEMMA MasterSideType == ASSUME NEW roles PROVE MasterSide(roles) \in Sides
  BY DEF MasterSide

LEMMA Clocks ==
    ASSUME TypeOK
    PROVE  /\ now \in Nat /\ ts \in Nat /\ changed \in Nat /\ failed \in Nat /\ TTL \in Nat \ {0}
           /\ ts <= now /\ changed <= now /\ failed <= now
           /\ \A t \in Threads : started[t] \in Nat /\ started[t] <= now
  BY CacheAssumption DEF TypeOK

LEMMA InitCache == Init => CacheInv
<1> SUFFICES ASSUME Init PROVE CacheInv
  OBVIOUS
<1> USE DEF Init
<1>1. TypeOK
  BY CacheAssumption DEF TypeOK, Roles
<1>2. ASSUME NEW t \in Threads PROVE Thread(t)
  BY DEF Thread, Cached, Dated, Probing, ProbeTrue, Probed, Written, Surfaces
<1>3. EntryTrue
  BY DEF EntryTrue
<1> QED
  BY <1>1, <1>2, <1>3 DEF CacheInv

-----------------------------------------------------------------------------
(* Types, for any interleaving *)

Types == TypeOK /\ \A t \in Threads : Cached(t)

LEMMA ProbeTypes ==
    ASSUME TypeOK, NEW t \in Threads, NEW s \in Sides, NEW stage, NEW next, Probe(t, s, stage, next)
    PROVE  probe' \in [Threads -> [Sides -> Roles]] /\ failed' \in 0 .. now
<1>1. PICK role \in Roles : probe' = [probe EXCEPT ![t][s] = role]
  BY RoleType DEF Probe, Roles
<1>2. failed' \in 0 .. now
  BY Clocks DEF Probe, TypeOK
<1> QED
  BY <1>1, <1>2 DEF TypeOK

LEMMA NextTypes == Types /\ [Next]_vars => Types'
<1> SUFFICES ASSUME Types, [Next]_vars PROVE Types'
  OBVIOUS
<1> USE DEF Types, Goto, cache, locals
<1>1. CASE UNCHANGED vars
  BY <1>1 DEF vars, TypeOK, Cached
<1>2. ASSUME NEW t \in Threads, Start(t) PROVE Types'
  BY <1>2, Clocks DEF Start, TypeOK, Cached
<1>3. ASSUME NEW t \in Threads, Check(t) PROVE Types'
  BY <1>3 DEF Check, TypeOK, Cached
<1>4. ASSUME NEW t \in Threads, Hit(t) PROVE Types'
  BY <1>4 DEF Hit, TypeOK, Cached
<1>5. ASSUME NEW t \in Threads, NEW s \in Sides, NEW stage, NEW next, Probe(t, s, stage, next),
             next \in {"probeB", "writeSide"}
      PROVE  Types'
  <2>1. TypeOK'
    BY <1>5, ProbeTypes DEF Probe, TypeOK
  <2>2. \A u \in Threads : Cached(u)'
    BY <1>5 DEF Probe, TypeOK, Cached
  <2> QED
    BY <2>1, <2>2
<1>6. ASSUME NEW t \in Threads, ProbeRaises(t) PROVE Types'
  BY <1>6, Clocks DEF ProbeRaises, TypeOK, Roles, Cached
<1>7. ASSUME NEW t \in Threads, WriteSide(t) PROVE Types'
  <2>1. MasterSide(probe[t]) \in Sides
    BY MasterSideType
  <2>2. TypeOK'
    BY <1>7, <2>1 DEF WriteSide, TypeOK
  <2>3. \A u \in Threads : Cached(u)'
    BY <1>7, <2>1 DEF WriteSide, TypeOK, Cached
  <2> QED
    BY <2>2, <2>3
<1>8. ASSUME NEW t \in Threads, WriteTs(t) PROVE Types'
  BY <1>8, Clocks DEF WriteTs, Stamp, TypeOK, Cached
<1>9. ASSUME NEW t \in Threads, Return(t) PROVE Types'
  BY <1>9 DEF Return, TypeOK, Cached
<1>10. CASE Tick
  BY <1>10, Clocks, CacheAssumption DEF Tick, TypeOK, Cached
<1>11. CASE CarpChange
  BY <1>11, Clocks DEF CarpChange, TypeOK, Cached
<1> QED
  BY <1>1, <1>2, <1>3, <1>4, <1>5, <1>6, <1>7, <1>8, <1>9, <1>10, <1>11 DEF Next

-----------------------------------------------------------------------------
(* Steps that leave the cache alone *)

\* The other threads do not see such a step.
LEMMA OthersKept ==
    ASSUME CacheInv, TypeOK', NEW t \in Threads, Thread(t)',
           UNCHANGED <<carp, changed, cache>>, failed' \in {failed, now},
           \A u \in Threads \ {t} :
              pc'[u] = pc[u] /\ started'[u] = started[u] /\ probe'[u] = probe[u] /\ answer'[u] = answer[u]
    PROVE  CacheInv'
<1>1. EntryTrue'
  BY Clocks DEF CacheInv, EntryTrue, Settled, Master, cache
<1>2. ASSUME NEW u \in Threads \ {t} PROVE Thread(u)'
  <2>1. TypeOK /\ Thread(u)
    BY DEF CacheInv
  <2>2. Settled(started[u])' => Settled(started[u])
    BY <2>1, Clocks DEF Settled
  <2>3. started[u] >= failed' + TTL => started[u] >= failed + TTL
    BY <2>1, Clocks
  <2>4. Cached(u)' /\ Dated(u)' /\ Written(u)'
    BY <2>1 DEF Thread, Cached, Dated, Probing, Written, cache
  <2>5. ProbeTrue(u)'
    BY <2>1, <2>2 DEF Thread, ProbeTrue, Probed
  <2>6. Surfaces(u)'
    BY <2>1, <2>3 DEF Thread, Surfaces, Master
  <2> QED
    BY <2>4, <2>5, <2>6 DEF Thread
<1> QED
  BY <1>1, <1>2 DEF CacheInv

LEMMA StartCache == ASSUME CacheInv, TypeOK', NEW t \in Threads, Start(t) PROVE CacheInv'
<1> USE DEF Start, Goto, cache, CacheInv
<1>1. pc'[t] = (IF side = "none" THEN "probeA" ELSE "check") /\ started'[t] = now
  BY DEF TypeOK
<1>2. Thread(t)'
  BY <1>1, Clocks DEF Thread, Cached, Dated, Probing, ProbeTrue, Probed, Written, Surfaces
<1> QED
  BY <1>2, OthersKept

LEMMA CheckCache == ASSUME CacheInv, TypeOK', NEW t \in Threads, Check(t) PROVE CacheInv'
<1> USE DEF Check, Goto, cache, locals, CacheInv
<1>1. pc'[t] = (IF Fresh(t) THEN "hit" ELSE "probeA") /\ side # "none"
  BY DEF TypeOK, Thread, Cached
<1>2. Thread(t)'
  BY <1>1, Clocks DEF Thread, Cached, Fresh, Dated, Probing, ProbeTrue, Probed, Written, Surfaces
<1> QED
  BY <1>2, OthersKept

LEMMA HitCache == ASSUME CacheInv, TypeOK', NEW t \in Threads, Hit(t) PROVE CacheInv'
<1> USE DEF Hit, Goto, cache, CacheInv
<1>1. side # "none" /\ started[t] < ts + TTL
  BY DEF Thread, Cached, Dated
<1>2. pc'[t] = "return" /\ answer'[t] = side
  BY DEF TypeOK
<1>3. Surfaces(t)'
  <2> SUFFICES ASSUME NEW s \in Sides, started[t] >= changed + TTL, started[t] >= failed + TTL, Master(s)
               PROVE  answer'[t] = s
    BY DEF Surfaces, Master
  <2>1. Settled(ts)
    BY <1>1, Clocks DEF Settled
  <2> QED
    BY <1>1, <1>2, <2>1 DEF EntryTrue
<1>4. Thread(t)'
  BY <1>2, <1>3 DEF Thread, Cached, Dated, Probing, ProbeTrue, Probed, Written
<1> QED
  BY <1>4, OthersKept

\* No request starts in the future, so none is later than what happens now.
LEMMA Unsettled == ASSUME TypeOK, NEW t \in Threads PROVE ~(started[t] > now)
  BY Clocks

LEMMA ProbeCache ==
    ASSUME CacheInv, TypeOK', NEW t \in Threads, NEW s \in Sides, NEW stage, NEW next, Probe(t, s, stage, next),
           <<s, stage, next>> \in {<<"a", "probeA", "probeB">>, <<"b", "probeB", "writeSide">>}
    PROVE  CacheInv'
<1> USE DEF Probe, Goto, cache, CacheInv
<1>1. pc'[t] = next /\ pc[t] = stage
  BY DEF TypeOK
<1>2. ASSUME NEW x \in Sides, Probed(t, x)', Settled(started[t])' PROVE probe'[t][x] = Role(carp[x])
  <2>1. failed' # now
    BY <1>2, Unsettled, Clocks DEF Settled
  <2>2. failed' = failed /\ probe' = [probe EXCEPT ![t][s] = Role(carp[s])]
    BY <2>1
  <2>3. CASE x = s
    BY <2>2, <2>3 DEF TypeOK
  <2>4. CASE x # s
    <3>1. Probed(t, x) /\ Settled(started[t])
      BY <1>1, <1>2, <2>2, <2>4 DEF Probed, Settled
    <3>2. probe[t][x] = Role(carp[x])
      BY <3>1 DEF Thread, ProbeTrue
    <3> QED
      BY <2>2, <2>4, <3>2 DEF TypeOK
  <2> QED
    BY <2>3, <2>4
<1>3. ProbeTrue(t)'
  BY <1>2 DEF ProbeTrue
<1>4. Cached(t)' /\ Dated(t)' /\ Written(t)' /\ Surfaces(t)'
  BY <1>1 DEF Thread, Cached, Dated, Probing, Written, Surfaces
<1>5. Thread(t)'
  BY <1>3, <1>4 DEF Thread
<1>6. \A u \in Threads \ {t} :
        pc'[u] = pc[u] /\ started'[u] = started[u] /\ probe'[u] = probe[u] /\ answer'[u] = answer[u]
  BY DEF TypeOK
<1>7. UNCHANGED <<carp, changed, cache>> /\ failed' \in {failed, now}
  OBVIOUS
<1> HIDE DEF Probe, CacheInv
<1> QED
  BY <1>5, <1>6, <1>7, OthersKept

LEMMA ProbeRaisesCache == ASSUME CacheInv, TypeOK', NEW t \in Threads, ProbeRaises(t) PROVE CacheInv'
<1> USE DEF ProbeRaises, Goto, cache, CacheInv
<1>1. pc'[t] = "writeSide" /\ failed' = now
  BY DEF TypeOK
<1>2. ProbeTrue(t)'
  BY <1>1, Unsettled, Clocks DEF ProbeTrue, Settled
<1>3. Cached(t)' /\ Dated(t)' /\ Written(t)' /\ Surfaces(t)'
  BY <1>1 DEF Thread, Cached, Dated, Probing, Written, Surfaces
<1> QED
  BY <1>2, <1>3, OthersKept DEF Thread

LEMMA ReturnCache == ASSUME CacheInv, TypeOK', NEW t \in Threads, Return(t) PROVE CacheInv'
<1> USE DEF Return, Goto, cache, locals, CacheInv
<1>1. pc'[t] = "idle"
  BY DEF TypeOK
<1>2. Thread(t)'
  BY <1>1 DEF Thread, Cached, Dated, Probing, ProbeTrue, Probed, Written, Surfaces
<1> QED
  BY <1>2, OthersKept

-----------------------------------------------------------------------------
(* The two writes to the cache *)

\* What the thread that probes has seen names the master.
LEMMA SeesMaster ==
    ASSUME CacheInv, NEW t \in Threads, pc[t] \in {"writeSide", "writeTs"},
           Settled(started[t]), NEW s \in Sides, Master(s)
    PROVE  MasterSide(probe[t]) = s
<1>1. \A x \in Sides : probe[t][x] = Role(carp[x])
  BY DEF CacheInv, Thread, ProbeTrue, Probed
<1> QED
  BY <1>1, SideOfMaster

LEMMA WriteSideCache ==
    ASSUME CacheInv, TypeOK', AloneInProbe, NEW t \in Threads, WriteSide(t) PROVE CacheInv'
<1> USE DEF WriteSide, Goto, CacheInv
<1>1. pc[t] = "writeSide" /\ pc'[t] = "writeTs" /\ side' = MasterSide(probe[t]) /\ answer'[t] = side'
  BY DEF TypeOK
<1>2. side' # "none"
  BY <1>1, MasterSideType
<1>3. EntryTrue'
  <2> SUFFICES ASSUME NEW s \in Sides, Settled(ts), Master(s) PROVE side' = s
    BY DEF EntryTrue, Settled, Master
  <2>1. started[t] >= ts
    BY <1>1 DEF Thread, Dated, Probing
  <2>2. Settled(started[t])
    BY <2>1, Clocks DEF Settled
  <2> QED
    BY <1>1, <2>2, SeesMaster
<1>4. Thread(t)'
  <2>1. Cached(t)' /\ Surfaces(t)' /\ Written(t)'
    BY <1>1 DEF Cached, Surfaces, Written
  <2>2. Dated(t)'
    BY <1>1 DEF Thread, Dated, Probing
  <2>3. ProbeTrue(t)'
    BY <1>1 DEF Thread, ProbeTrue, Probed, Settled
  <2> QED
    BY <2>1, <2>2, <2>3 DEF Thread
<1>5. ASSUME NEW u \in Threads \ {t} PROVE Thread(u)'
  <2>1. pc'[u] = pc[u] /\ answer'[u] = answer[u] /\ pc[u] # "writeTs"
    BY <1>1 DEF TypeOK, AloneInProbe, Probing
  <2>2. Cached(u)' /\ Dated(u)' /\ Written(u)'
    BY <1>2, <2>1 DEF Thread, Cached, Dated, Probing, Written
  <2>3. ProbeTrue(u)' /\ Surfaces(u)'
    BY <2>1 DEF Thread, ProbeTrue, Probed, Settled, Surfaces, Master
  <2> QED
    BY <2>2, <2>3 DEF Thread
<1> QED
  BY <1>3, <1>4, <1>5

LEMMA WriteTsCache ==
    ASSUME CacheInv, TypeOK', AloneInProbe, NEW t \in Threads, WriteTs(t) PROVE CacheInv'
<1> USE DEF WriteTs, Stamp, Goto, locals, CacheInv
<1>1. /\ pc[t] = "writeTs" /\ pc'[t] = "return" /\ ts' = started[t] /\ ts' >= ts
      /\ side = MasterSide(probe[t]) /\ answer[t] = side
  BY DEF TypeOK, Thread, Dated, Probing, Written
<1>2. EntryTrue'
  <2> SUFFICES ASSUME NEW s \in Sides, Settled(started[t]), Master(s) PROVE side = s
    BY <1>1 DEF EntryTrue, Settled, Master
  <2> QED
    BY <1>1, SeesMaster
<1>3. Thread(t)'
  <2>1. Cached(t)' /\ Dated(t)' /\ ProbeTrue(t)' /\ Written(t)'
    BY <1>1 DEF Cached, Dated, Probing, ProbeTrue, Probed, Written
  <2>2. Surfaces(t)'
    <3> SUFFICES ASSUME NEW s \in Sides, started[t] >= changed + TTL, started[t] >= failed + TTL, Master(s)
                 PROVE  answer[t] = s
      BY DEF Surfaces, Master
    <3>1. Settled(started[t])
      BY Clocks DEF Settled
    <3> QED
      BY <1>1, <3>1, SeesMaster
  <2> QED
    BY <2>1, <2>2 DEF Thread
<1>4. ASSUME NEW u \in Threads \ {t} PROVE Thread(u)'
  <2>1. pc'[u] = pc[u] /\ ~Probing(u)
    BY <1>1 DEF TypeOK, AloneInProbe, Probing
  <2>2. Dated(u)'
    BY <1>1, <2>1, Clocks DEF Thread, Dated, Probing
  <2>3. Cached(u)' /\ Written(u)' /\ ProbeTrue(u)' /\ Surfaces(u)'
    BY <2>1 DEF Thread, Cached, Written, ProbeTrue, Probed, Settled, Surfaces, Master
  <2> QED
    BY <2>2, <2>3 DEF Thread
<1> QED
  BY <1>2, <1>3, <1>4

-----------------------------------------------------------------------------
(* Time and CARP *)

LEMMA TickCache == ASSUME CacheInv, TypeOK', Tick PROVE CacheInv'
<1> USE DEF Tick, cache, locals, CacheInv
<1>1. EntryTrue'
  BY DEF EntryTrue, Settled, Master
<1>2. ASSUME NEW t \in Threads PROVE Thread(t)'
  BY DEF Thread, Cached, Dated, Probing, ProbeTrue, Probed, Settled, Written, Surfaces, Master
<1> QED
  BY <1>1, <1>2

\* Nothing that anybody knows is younger than a change of CARP.
LEMMA CarpChangeCache == ASSUME CacheInv, TypeOK', CarpChange PROVE CacheInv'
<1> USE DEF CarpChange, cache, locals, CacheInv
<1>1. EntryTrue'
  BY Clocks DEF EntryTrue, Settled
<1>2. ASSUME NEW t \in Threads PROVE Thread(t)'
  <2>1. Cached(t)' /\ Dated(t)' /\ Written(t)'
    BY DEF Thread, Cached, Dated, Probing, Written
  <2>2. ProbeTrue(t)' /\ Surfaces(t)'
    BY Clocks DEF ProbeTrue, Settled, Surfaces
  <2> QED
    BY <2>1, <2>2 DEF Thread
<1> QED
  BY <1>1, <1>2

LEMMA NextCache == CacheInv /\ AloneInProbe /\ [Next]_vars => CacheInv'
<1> SUFFICES ASSUME CacheInv, AloneInProbe, [Next]_vars PROVE CacheInv'
  OBVIOUS
<1> TypeOK'
  BY NextTypes DEF Types, CacheInv, Thread
<1>1. CASE UNCHANGED vars
  <2>1. TypeOK' /\ EntryTrue'
    BY <1>1 DEF vars, cache, locals, CacheInv, TypeOK, EntryTrue, Settled, Master
  <2>2. ASSUME NEW t \in Threads PROVE Thread(t)'
    BY <1>1 DEF vars, cache, locals, CacheInv, Thread, Cached, Dated, Probing, ProbeTrue, Probed, Settled,
                Written, Surfaces, Master
  <2> QED
    BY <2>1, <2>2 DEF CacheInv
<1>2. ASSUME NEW t \in Threads, Start(t) \/ Check(t) \/ Hit(t) \/ Return(t) PROVE CacheInv'
  BY <1>2, StartCache, CheckCache, HitCache, ReturnCache
<1>3. ASSUME NEW t \in Threads, Probe(t, "a", "probeA", "probeB") \/ Probe(t, "b", "probeB", "writeSide")
      PROVE  CacheInv'
  BY <1>3, ProbeCache
<1>4. ASSUME NEW t \in Threads, ProbeRaises(t) \/ WriteSide(t) \/ WriteTs(t) PROVE CacheInv'
  BY <1>4, ProbeRaisesCache, WriteSideCache, WriteTsCache
<1>5. CASE Tick \/ CarpChange
  BY <1>5, TickCache, CarpChangeCache
<1> QED
  BY <1>1, <1>2, <1>3, <1>4, <1>5 DEF Next

-----------------------------------------------------------------------------
(* Theorems *)

LEMMA CacheSurfaces == CacheInv => FailoverSurfaces
  BY DEF CacheInv, Thread, Surfaces, FailoverSurfaces

\* Every reachable state is well formed, whatever the threads of
\* _resolved_master_side do to the cache between each other's steps; in particular
\* a hit returns a side and no stamp lies in the future.
THEOREM CacheTypes == Spec => []TypeOK
<1>1. Init => Types
  BY InitCache DEF Types, CacheInv, Thread
<1>2. Types /\ [Next]_vars => Types'
  BY NextTypes
<1>3. Types => TypeOK
  BY DEF Types
<1> QED
  BY <1>1, <1>2, <1>3, PTL DEF Spec

\* As long as no two requests probe CARP at the same time, however many threads
\* share the cache of _resolved_master_side and however their hits overlap with
\* a probe, a request that starts TTL after the last failover and the last failed
\* probe goes to the master.
THEOREM SurfacesAlone == Spec /\ []AloneInProbe => []FailoverSurfaces
<1>1. Init => CacheInv
  BY InitCache
<1>2. CacheInv /\ AloneInProbe /\ [Next]_vars => CacheInv'
  BY NextCache
<1>3. CacheInv => FailoverSurfaces
  BY CacheSurfaces
<1> QED
  BY <1>1, <1>2, <1>3, PTL DEF Spec

\* With one request at a time, failovers always surface.
THEOREM SurfacesSerial == ASSUME NEW one, Threads = {one} PROVE Spec => []FailoverSurfaces
<1>1. AloneInProbe
  BY DEF AloneInProbe
<1>2. Init => CacheInv
  BY InitCache
<1>3. CacheInv /\ [Next]_vars => CacheInv'
  BY <1>1, NextCache
<1>4. CacheInv => FailoverSurfaces
  BY CacheSurfaces
<1> QED
  BY <1>2, <1>3, <1>4, PTL DEF Spec
=============================================================================
