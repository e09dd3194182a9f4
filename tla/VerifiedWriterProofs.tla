------------------------ MODULE VerifiedWriterProofs ------------------------
(***************************************************************************)
(* Theorems about VerifiedWriter, for every number of requests, objects    *)
(* and contents and every set of CARP and XMLRPC states.                   *)
(***************************************************************************)
EXTENDS VerifiedTrail, TLAPS

PrePost == {"wait", "intent", "preflight", "read", "last", "peerRev", "mutate"}
PeerStages == {"last", "peerRev", "sync", "push", "peerRead", "cleanup", "cleanIntent",
               "cleanDelete", "cleanApply", "cleanVerify"}
UuidStages == (Critical \ (PrePost \cup {"final"})) \cup {"read", "last", "peerRev"}

\* What the stage of a request says of its locals.
StageInv ==
    \A p \in Procs :
        /\ pc[p] \in PeerStages => req[p].peer \in Nodes
        /\ pc[p] \in UuidStages => req[p].uuid \in Ids
        /\ pc[p] \in PrePost \cup {"idle"} => ~ctl[p].accepted
        /\ pc[p] \in PrePost /\ req[p].action # "create" => req[p].uuid \in Ids
        /\ pc[p] = "push" => ctl[p].tries = 0
        /\ pc[p] = "peerRead" => ctl[p].tries < Attempts

Typed == TypeOK /\ StageInv

-----------------------------------------------------------------------------
(* What the pieces of the actions do to the types *)

LEMMA AfterTypes ==
    ASSUME TypeOK, NEW op \in Op
    PROVE  ConfAfter(op) \in [Nodes -> Objects] /\ RunAfter(op) \in [Nodes -> Objects]
<1> DEFINE m == Other(op.node)
<1>1. op.node \in Nodes
  BY DEF Op
<1>2. ASSUME m \in Nodes PROVE Merged(op.node, m) \in Objects
  BY <1>1, <1>2 DEF TypeOK, Merged
<1>3. op.kind \in {"add", "set"} => op.id \in Ids /\ op.val \in Vals \cup {NoVal}
  BY DEF Op
<1>4. ConfAfter(op) \in [Nodes -> Objects]
  <2>1. CASE op.kind \in {"add", "set"}
    BY <2>1, <1>1, <1>3 DEF ConfAfter, TypeOK, Objects
  <2>2. CASE op.kind = "push"
    <3>1. ConfAfter(op) = [conf EXCEPT ![m] = Merged(op.node, m)]
      BY <2>2 DEF ConfAfter
    <3> QED BY <3>1, <1>2 DEF TypeOK
  <2>3. CASE op.kind = "apply"
    BY <2>3 DEF ConfAfter, TypeOK
  <2> QED BY <2>1, <2>2, <2>3 DEF Op
<1>5. RunAfter(op) \in [Nodes -> Objects]
  <2>1. CASE op.kind \in {"add", "set"}
    BY <2>1 DEF RunAfter, TypeOK
  <2>2. CASE op.kind = "push"
    <3>1. RunAfter(op) = [run EXCEPT ![m] = Merged(op.node, m)]
      BY <2>2 DEF RunAfter
    <3> QED BY <3>1, <1>2 DEF TypeOK
  <2>3. CASE op.kind = "apply"
    BY <2>3, <1>1 DEF RunAfter, TypeOK
  <2> QED BY <2>1, <2>2, <2>3 DEF Op
<1> QED BY <1>4, <1>5

LEMMA PostTypes ==
    ASSUME TypeOK, NEW op \in Op, NEW e,
           Executed(op) \/ FailedPost(op, e)
    PROVE  /\ conf' \in [Nodes -> Objects]
           /\ run' \in [Nodes -> Objects]
           /\ inflight' \subseteq Op
  BY AfterTypes DEF TypeOK, Executed, FailedPost, Ignored, Delayed, data

\* The error labels that Fail receives.
Raised == {"validation", "rejected", "auth", "timeout", "upstream", "conflict", "ha_unsafe", "oserror"}

LEMMA FailTypes ==
    ASSUME Typed, NEW p \in Procs, NEW e \in Raised, Fail(p, e)
    PROVE  /\ pc' = [pc EXCEPT ![p] = pc'[p]]
           /\ pc'[p] \in {"rbDelete", "final"}
           /\ pc'[p] = "rbDelete" => ctl[p].accepted
           /\ res' \in [Procs -> Result]
           /\ res'[p].ok = res[p].ok
           /\ \A r \in Procs \ {p} : res'[r] = res[r]
<1>1. ErrorOf(e) \in Errors
  BY DEF ErrorOf, Raised, Errors
<1>2. RollsBack(p, e) \in BOOLEAN
  BY DEF RollsBack
<1>3. res[p] \in Result
  BY DEF Typed, TypeOK
<1> QED
  BY <1>1, <1>2, <1>3 DEF Fail, Goto, Typed, TypeOK, RollsBack, Result

LEMMA FailStage ==
    ASSUME Typed, NEW p \in Procs, NEW e \in Raised, Fail(p, e),
           pc[p] \in PrePost \cup {"apply", "verify"}, req' = req, ctl' = ctl
    PROVE  /\ pc' \in [Procs -> Stages]
           /\ res' \in [Procs -> Result]
           /\ StageInv'
<1> USE FailTypes DEF Typed
<1>1. pc' \in [Procs -> Stages]
  BY DEF TypeOK, Stages, Critical
<1>2. pc'[p] = "rbDelete" => req[p].uuid \in Ids
  BY DEF StageInv, PrePost, UuidStages, Critical
<1>3. StageInv'
  BY <1>2 DEF TypeOK, StageInv, PrePost, PeerStages, UuidStages, Critical
<1> QED BY <1>1, <1>3

LEMMA SyncTypes ==
    ASSUME Typed, NEW p \in Procs, NEW v \in {"verified", "unverified"}, SyncReturns(p, v)
    PROVE  /\ pc' = [pc EXCEPT ![p] = "final"]
           /\ res' \in [Procs -> Result]
           /\ \A r \in Procs \ {p} : res'[r] = res[r]
<1>1. res[p] \in Result /\ res \in [Procs -> Result]
  BY DEF Typed, TypeOK
<1>2. CASE res[p].rollback
  BY <1>1, <1>2 DEF SyncReturns, Goto, Result
<1>3. CASE ~res[p].rollback
  BY <1>1, <1>3 DEF SyncReturns, Goto, Result, Errors
<1> QED BY <1>2, <1>3

LEMMA SyncStage ==
    ASSUME Typed, NEW p \in Procs, NEW v \in {"verified", "unverified"}, SyncReturns(p, v),
           req' = req, \A r \in Procs \ {p} : ctl'[r] = ctl[r]
    PROVE  /\ pc' \in [Procs -> Stages]
           /\ res' \in [Procs -> Result]
           /\ StageInv'
<1> USE SyncTypes DEF Typed
<1>1. pc' \in [Procs -> Stages]
  BY DEF TypeOK, Stages, Critical
<1>2. StageInv'
  BY DEF TypeOK, StageInv, PrePost, PeerStages, UuidStages, Critical
<1> QED BY <1>1, <1>2

-----------------------------------------------------------------------------
(* Type correctness: one lemma per group of actions *)

LEMMA TypedArrival ==
    ASSUME Typed, NEW p \in Procs, Begin(p) \/ Refuse(p) \/ Acquire(p)
    PROVE  Typed'
<1>t. TypeOK /\ StageInv
  BY DEF Typed
<1>1. CASE Begin(p)
  <2>1. PICK a \in {"create", "update", "delete"}, c \in Nodes, q \in Peers,
             u \in Ids \cup {NoId}, r \in Vals \cup {NoVal}, v \in Vals \cup {NoVal} :
             /\ (u = NoId) = (a = "create") /\ (r = NoVal) = (a = "create")
             /\ (v = NoVal) = (a = "delete")
             /\ Target(c, q)
             /\ req' = [req EXCEPT ![p] = [action |-> a, uuid |-> u, rev |-> r, val |-> v,
                                           client |-> c, peer |-> q]]
             /\ ctl' = [ctl EXCEPT ![p].expect = v]
    BY <1>1, Zenon DEF Begin
  <2>2. req' \in [Procs -> Request]
    BY <1>t, <2>1 DEF Request, TypeOK
  <2>v. v \in Vals \cup {NoVal} /\ ctl[p] \in Control /\ ctl \in [Procs -> Control]
    BY <1>t DEF TypeOK
  <2>3. ctl' \in [Procs -> Control]
    BY <2>1, <2>v DEF Control
  <2>4. pc' = [pc EXCEPT ![p] = "wait"] /\ pc' \in [Procs -> Stages]
    BY <1>t, <1>1 DEF Begin, Goto, Stages, TypeOK
  <2>5. TypeOK'
    BY <1>t, <1>1, <2>2, <2>3, <2>4 DEF Begin, TypeOK, data, world
  <2>6. StageInv'
    BY <1>t, <1>1, <2>1, <2>4 DEF Begin, TypeOK, StageInv, Control, PrePost, PeerStages, UuidStages, Critical
  <2> QED
    BY <2>5, <2>6 DEF Typed
<1>2. CASE Refuse(p)
  <2>0. PICK e \in {"invalid", "ha_unsafe"} : res' = [res EXCEPT ![p].error = e]
    BY <1>2 DEF Refuse
  <2>e. e \in Errors /\ res[p] \in Result
    BY <1>t DEF Errors, TypeOK
  <2>1. res' \in [Procs -> Result]
    BY <1>t, <2>0, <2>e DEF Result, TypeOK
  <2>2. pc' \in [Procs -> Stages] /\ pc' = [pc EXCEPT ![p] = "done"]
    BY <1>t, <1>2 DEF Refuse, Goto, Stages, TypeOK
  <2>3. TypeOK'
    BY <1>t, <1>2, <2>1, <2>2 DEF Refuse, TypeOK, data, world
  <2>4. StageInv'
    BY <1>t, <1>2, <2>2 DEF Refuse, TypeOK, StageInv, PrePost, PeerStages, UuidStages, Critical
  <2> QED
    BY <2>3, <2>4 DEF Typed
<1>3. CASE Acquire(p)
  <2>1. pc' \in [Procs -> Stages] /\ pc' = [pc EXCEPT ![p] = "intent"]
    BY <1>t, <1>3 DEF Acquire, Goto, Stages, Critical, TypeOK
  <2>2. TypeOK'
    BY <1>t, <1>3, <2>1 DEF Acquire, TypeOK, data, world
  <2>3. StageInv'
    BY <1>t, <1>3, <2>1 DEF Acquire, TypeOK, StageInv, PrePost, PeerStages, UuidStages, Critical
  <2> QED
    BY <2>2, <2>3 DEF Typed
<1> QED BY <1>1, <1>2, <1>3

LEMMA TypedIntent ==
    ASSUME Typed, NEW p \in Procs, Intent(p)
    PROVE  Typed'
<1>t. TypeOK /\ StageInv /\ pc[p] = "intent"
  BY DEF Typed, Intent
<1>1. CASE IntentLost(p) /\ UNCHANGED audit
  <2>1. Fail(p, "oserror") /\ "oserror" \in Raised /\ pc[p] \in PrePost
    BY <1>1, <1>t DEF IntentLost, Raised, PrePost
  <2>2. req' = req /\ ctl' = ctl
    BY DEF Intent
  <2>3. pc' \in [Procs -> Stages] /\ res' \in [Procs -> Result] /\ StageInv'
    BY <2>1, <2>2, FailStage
  <2> QED
    BY <1>t, <1>1, <2>3 DEF Intent, Typed, TypeOK, data, world
<1>2. CASE audit' = audit \cup {<<p, "started">>} /\ Goto(p, "preflight") /\ UNCHANGED res
  <2>1. pc' \in [Procs -> Stages] /\ pc' = [pc EXCEPT ![p] = "preflight"]
    BY <1>t, <1>2 DEF Goto, Stages, Critical, TypeOK
  <2>2. audit' \subseteq Procs \X Events
    BY <1>t, <1>2 DEF TypeOK, Events
  <2>3. StageInv'
    BY <1>t, <2>1 DEF Intent, TypeOK, StageInv, PrePost, PeerStages, UuidStages, Critical
  <2> QED
    BY <1>t, <1>2, <2>1, <2>2, <2>3 DEF Intent, Typed, TypeOK, data, world
<1> QED BY <1>1, <1>2 DEF Intent

LEMMA PlanType == ASSUME TypeOK, NEW c \in Nodes PROVE PlanOf(c) \in Plan
<1>1. hasync \in [Nodes -> Hasync]
  BY ConstantsAssumption DEF TypeOK
<1>2. hasync[c] \in Hasync
  BY <1>1
<1>3. hasync[c].to \in {h.to : h \in Hasync}
  BY <1>2
<1>4. hasync[c].items \in SUBSET (Sections \cup {"other"})
  BY <1>2 DEF Hasync
<1>5. VipSet(c) \in SUBSET {"vip1", "vip2"}
  BY DEF VipSet
<1> QED BY <1>3, <1>4, <1>5 DEF PlanOf, Plan

LEMMA TypedPreflight ==
    ASSUME Typed, NEW p \in Procs, Preflight(p)
    PROVE  Typed'
<1>t. TypeOK /\ StageInv /\ pc[p] = "preflight" /\ req[p] \in Request
  BY DEF Typed, TypeOK, Preflight
<1>1. CASE UNCHANGED <<ctl, foreign>> /\ \E e \in Transport \cup {"ha_unsafe"} : Fail(p, e)
  <2>1. PICK e \in Transport \cup {"ha_unsafe"} : Fail(p, e)
    BY <1>1
  <2>2. e \in Raised /\ pc[p] \in PrePost /\ req' = req /\ ctl' = ctl
    BY <1>1, <1>t DEF Raised, Transport, PrePost, Preflight
  <2>3. pc' \in [Procs -> Stages] /\ res' \in [Procs -> Result] /\ StageInv'
    BY <2>1, <2>2, FailStage
  <2> QED
    BY <1>t, <1>1, <2>3 DEF Preflight, Typed, TypeOK, data, world
<1>2. CASE /\ ctl' = [ctl EXCEPT ![p].plan = IF NeedsPreflight(p) THEN PlanOf(req[p].client) ELSE NoPlan]
           /\ IF NeedsPreflight(p) THEN Checked(p, "ha") ELSE UNCHANGED foreign
           /\ Goto(p, IF req[p].action = "create" THEN "mutate" ELSE "read")
           /\ UNCHANGED res
  <2>1. PlanOf(req[p].client) \in Plan
    BY <1>t, PlanType DEF Request
  <2>2. ctl' \in [Procs -> Control]
    BY <1>t, <1>2, <2>1 DEF TypeOK, Control
  <2>3. foreign' \in [Procs -> SUBSET Disturbances]
    BY <1>t, <1>2 DEF TypeOK, Checked
  <2>4. /\ pc' \in [Procs -> Stages]
        /\ pc' = [pc EXCEPT ![p] = IF req[p].action = "create" THEN "mutate" ELSE "read"]
    BY <1>t, <1>2 DEF Goto, Stages, Critical, TypeOK
  <2>5. \A r \in Procs : ctl'[r].accepted = ctl[r].accepted /\ ctl'[r].tries = ctl[r].tries
    BY <1>t, <1>2 DEF TypeOK, Control
  <2>6. StageInv'
    BY <1>t, <2>4, <2>5 DEF Preflight, TypeOK, StageInv, PrePost, PeerStages, UuidStages, Critical
  <2> QED
    BY <1>t, <1>2, <2>2, <2>3, <2>4, <2>6 DEF Preflight, Typed, TypeOK, data, world
<1> QED BY <1>1, <1>2 DEF Preflight

\* A step of p to stage s keeps StageInv if p's locals are what s asks for.
LEMMA StageStep ==
    ASSUME Typed, NEW p \in Procs, NEW s \in Stages, Goto(p, s),
           \A r \in Procs \ {p} : req'[r] = req[r] /\ ctl'[r] = ctl[r],
           s \in PeerStages => req'[p].peer \in Nodes,
           s \in UuidStages => req'[p].uuid \in Ids,
           s \in PrePost \cup {"idle"} => ~ctl'[p].accepted,
           s \in PrePost /\ req'[p].action # "create" => req'[p].uuid \in Ids,
           s = "push" => ctl'[p].tries = 0,
           s = "peerRead" => ctl'[p].tries < Attempts
    PROVE  pc' \in [Procs -> Stages] /\ StageInv'
<1>1. pc' \in [Procs -> Stages] /\ pc'[p] = s /\ \A r \in Procs \ {p} : pc'[r] = pc[r]
  BY DEF Typed, TypeOK, Goto
<1> QED
  BY <1>1 DEF Typed, StageInv

LEMMA RaisedFacts ==
    /\ \A e \in Transport \cup {"ha_unsafe"} : e \in Raised
    /\ \A e \in Rejections \cup Transport : e \in Raised
    /\ {"conflict", "upstream", "oserror"} \subseteq Raised
BY DEF Raised, Transport, Rejections

LEMMA StageFacts ==
    /\ Critical \subseteq Stages /\ {"idle", "wait", "done", "crashed"} \subseteq Stages
    /\ {"read", "last", "peerRev", "mutate"} \subseteq PrePost \cap Critical
    /\ {"read", "last", "peerRev", "apply", "verify", "sync", "push", "peerRead", "cleanup",
        "cleanIntent", "cleanDelete", "cleanApply", "cleanVerify", "rbDelete", "rbApply",
        "rbVerify"} \subseteq UuidStages \cap Critical
    /\ {"last", "peerRev", "sync", "push", "peerRead", "cleanup", "cleanIntent", "cleanDelete",
        "cleanApply", "cleanVerify"} \subseteq PeerStages
    /\ \A s \in {"apply", "verify", "sync", "push", "peerRead", "cleanup", "cleanIntent",
                 "cleanDelete", "cleanApply", "cleanVerify", "rbDelete", "rbApply", "rbVerify",
                 "final", "done"} : s \notin PrePost /\ s # "idle"
    /\ \A s \in {"read", "mutate", "apply", "verify", "rbDelete", "rbApply", "rbVerify",
                 "final", "done"} : s \notin PeerStages
    /\ "mutate" \notin UuidStages /\ "final" \notin UuidStages /\ "done" \notin UuidStages
    /\ "final" \in Critical
BY DEF Critical, Stages, PrePost, UuidStages, PeerStages

LEMMA TypedReads ==
    ASSUME Typed, NEW p \in Procs, ReadCurrent(p) \/ CheckLast(p)
    PROVE  Typed'
<1>t. TypeOK /\ StageInv /\ req' = req /\ ctl' = ctl
  BY DEF Typed, ReadCurrent, CheckLast
<1>p. pc[p] \in {"read", "last"} /\ pc[p] \in PrePost /\ pc[p] \in UuidStages
  BY StageFacts DEF ReadCurrent, CheckLast
<1>f. foreign' \in [Procs -> SUBSET Disturbances]
  BY <1>t DEF TypeOK, ReadCurrent, CheckLast, Checked
<1>1. CASE \E e \in Raised : Fail(p, e)
  <2>1. pc' \in [Procs -> Stages] /\ res' \in [Procs -> Result] /\ StageInv'
    BY <1>1, <1>t, <1>p, FailStage
  <2> QED
    BY <1>t, <1>f, <2>1 DEF Typed, TypeOK, ReadCurrent, CheckLast, data, world
<1>2. CASE UNCHANGED res /\ \E s \in {"last", "mutate", "peerRev"} :
               Goto(p, s) /\ (s # "mutate" => req[p].peer \in Nodes)
  <2>1. PICK s \in {"last", "mutate", "peerRev"} :
               Goto(p, s) /\ (s # "mutate" => req[p].peer \in Nodes)
    BY <1>2
  <2>2. pc' \in [Procs -> Stages] /\ StageInv'
    BY <1>t, <1>p, <2>1, StageStep, StageFacts DEF StageInv
  <2> QED
    BY <1>t, <1>f, <1>2, <2>2 DEF Typed, TypeOK, ReadCurrent, CheckLast, data, world
<1>r. req[p] \in Request /\ (req[p].peer # NoNode => req[p].peer \in Nodes)
  BY <1>t DEF TypeOK, Request, Peers
<1>3. CASE ReadCurrent(p)
  BY <1>1, <1>2, <1>3, <1>r, RaisedFacts DEF ReadCurrent, NeedsPreflight
<1>4. CASE CheckLast(p)
  <2>1. req[p].peer \in Nodes
    BY <1>4, <1>t, StageFacts DEF CheckLast, StageInv
  <2> QED BY <1>1, <1>2, <1>4, <2>1, RaisedFacts DEF CheckLast
<1> QED BY <1>3, <1>4

LEMMA TypedPeerRevision ==
    ASSUME Typed, NEW p \in Procs, ReadPeerRevision(p)
    PROVE  Typed'
<1>t. TypeOK /\ StageInv /\ req' = req /\ pc[p] = "peerRev" /\ pc[p] \in PrePost
  BY StageFacts DEF Typed, ReadPeerRevision
<1>r. req[p].peer \in Nodes /\ req[p].uuid \in Ids /\ ~ctl[p].accepted
  BY <1>t, StageFacts DEF StageInv
<1>1. CASE UNCHANGED ctl /\ \E e \in Raised : Fail(p, e)
  <2>1. pc' \in [Procs -> Stages] /\ res' \in [Procs -> Result] /\ StageInv'
    BY <1>1, <1>t, FailStage
  <2> QED
    BY <1>t, <1>1, <2>1 DEF Typed, TypeOK, ReadPeerRevision, data, world
<1>2. CASE /\ ctl' = [ctl EXCEPT ![p].peerRev = conf[req[p].peer][req[p].uuid]]
           /\ Goto(p, "mutate") /\ UNCHANGED res
  <2>1. conf[req[p].peer][req[p].uuid] \in Vals \cup {NoVal} /\ ctl[p] \in Control
    BY <1>t, <1>r DEF TypeOK, Objects
  <2>2. ctl' \in [Procs -> Control] /\ ctl'[p].accepted = ctl[p].accepted
        /\ \A r \in Procs \ {p} : ctl'[r] = ctl[r]
    BY <1>t, <1>2, <2>1 DEF TypeOK, Control
  <2>3. pc' \in [Procs -> Stages] /\ StageInv'
    BY <1>t, <1>r, <1>2, <2>2, StageStep, StageFacts
  <2> QED
    BY <1>t, <1>2, <2>2, <2>3 DEF Typed, TypeOK, ReadPeerRevision, data, world
<1> QED BY <1>1, <1>2, RaisedFacts DEF ReadPeerRevision

LEMMA TypedCreate ==
    ASSUME Typed, NEW p \in Procs, PostCreate(p)
    PROVE  Typed'
<1>t. TypeOK /\ StageInv /\ pc[p] = "mutate" /\ pc[p] \in PrePost /\ req[p] \in Request
  BY StageFacts DEF Typed, TypeOK, PostCreate
<1>1. CASE \E e \in Rejections \cup Transport : Fail(p, e) /\ Ignored /\ UNCHANGED <<used, req, ctl>>
  <2>1. pc' \in [Procs -> Stages] /\ res' \in [Procs -> Result] /\ StageInv'
    BY <1>1, <1>t, FailStage, RaisedFacts
  <2> QED
    BY <1>t, <1>1, <2>1 DEF Typed, TypeOK, PostCreate, Ignored, data, world
<1>2. ASSUME NEW u \in Ids \ used, used' = used \cup {u},
             NEW op, op = [kind |-> "add", node |-> req[p].client, id |-> u, val |-> req[p].val],
             \/ /\ Executed(op) /\ req' = [req EXCEPT ![p].uuid = u]
                /\ ctl' = [ctl EXCEPT ![p].accepted = TRUE] /\ Goto(p, "apply") /\ UNCHANGED res
             \/ Executed(op) /\ Fail(p, "upstream") /\ UNCHANGED <<req, ctl>>
             \/ /\ \E e \in Rejections \cup Transport : FailedPost(op, e) /\ Fail(p, e)
                /\ UNCHANGED <<req, ctl>>
      PROVE  Typed'
  <2>1. op \in Op
    BY <1>2, <1>t DEF Op, Request
  <2>2. conf' \in [Nodes -> Objects] /\ run' \in [Nodes -> Objects] /\ inflight' \subseteq Op
    BY <1>2, <1>t, <2>1, PostTypes
  <2>3. used' \subseteq Ids
    BY <1>2, <1>t DEF TypeOK
  <2>4. CASE UNCHANGED <<req, ctl>> /\ \E e \in Raised : Fail(p, e)
    <3>1. pc' \in [Procs -> Stages] /\ res' \in [Procs -> Result] /\ StageInv'
      BY <2>4, <1>t, FailStage
    <3> QED
      BY <1>t, <2>2, <2>3, <2>4, <3>1 DEF Typed, TypeOK, PostCreate, world
  <2>5. CASE /\ req' = [req EXCEPT ![p].uuid = u]
             /\ ctl' = [ctl EXCEPT ![p].accepted = TRUE] /\ Goto(p, "apply") /\ UNCHANGED res
    <3>1. ctl' \in [Procs -> Control] /\ \A r \in Procs \ {p} : ctl'[r] = ctl[r]
      BY <1>t, <2>5 DEF TypeOK, Control
    <3>2. req' \in [Procs -> Request] /\ req'[p].uuid \in Ids /\ \A r \in Procs \ {p} : req'[r] = req[r]
      BY <1>t, <2>5 DEF TypeOK, Request
    <3>3. pc' \in [Procs -> Stages] /\ StageInv'
      BY <1>t, <2>5, <3>1, <3>2, StageStep, StageFacts
    <3> QED
      BY <1>t, <2>2, <2>3, <2>5, <3>1, <3>2, <3>3 DEF Typed, TypeOK, PostCreate, world
  <2> QED BY <1>2, <2>4, <2>5, RaisedFacts
<1> QED BY <1>1, <1>2 DEF PostCreate

LEMMA TypedChange ==
    ASSUME Typed, NEW p \in Procs, PostChange(p)
    PROVE  Typed'
<1>t. TypeOK /\ StageInv /\ pc[p] = "mutate" /\ pc[p] \in PrePost
  BY StageFacts DEF Typed, PostChange
<1>r. req[p] \in Request /\ ctl[p] \in Control /\ req[p].uuid \in Ids /\ req' = req
  BY <1>t DEF TypeOK, StageInv, PostChange
<1> DEFINE op == [kind |-> "set", node |-> req[p].client, id |-> req[p].uuid, val |-> ctl[p].expect]
<1>1. op \in Op
  BY <1>r DEF Op, Request, Control
<1>2. conf' \in [Nodes -> Objects] /\ run' \in [Nodes -> Objects] /\ inflight' \subseteq Op
  BY <1>t, <1>1, PostTypes DEF PostChange
<1>3. CASE UNCHANGED ctl /\ \E e \in Raised : Fail(p, e)
  <2>1. pc' \in [Procs -> Stages] /\ res' \in [Procs -> Result] /\ StageInv'
    BY <1>3, <1>t, <1>r, FailStage
  <2> QED
    BY <1>t, <1>2, <1>3, <2>1 DEF Typed, TypeOK, PostChange, world
<1>4. CASE ctl' = [ctl EXCEPT ![p].accepted = TRUE] /\ Goto(p, "apply") /\ UNCHANGED res
  <2>1. ctl' \in [Procs -> Control] /\ \A r \in Procs \ {p} : ctl'[r] = ctl[r]
    BY <1>t, <1>r, <1>4 DEF TypeOK, Control
  <2>2. pc' \in [Procs -> Stages] /\ StageInv'
    BY <1>t, <1>r, <1>4, <2>1, StageStep, StageFacts
  <2> QED
    BY <1>t, <1>2, <1>4, <2>1, <2>2 DEF Typed, TypeOK, PostChange, world
<1> QED BY <1>3, <1>4, RaisedFacts DEF PostChange

LEMMA TypedApply ==
    ASSUME Typed, NEW p \in Procs, PostApply(p)
    PROVE  Typed'
<1>t. TypeOK /\ StageInv /\ pc[p] = "apply" /\ req' = req /\ ctl' = ctl
  BY DEF Typed, PostApply
<1>r. req[p] \in Request /\ res[p] \in Result /\ req[p].uuid \in Ids
  BY <1>t, StageFacts DEF TypeOK, StageInv
<1>1. [kind |-> "apply", node |-> req[p].client] \in Op
  BY <1>r DEF Op, Request
<1>2. conf' \in [Nodes -> Objects] /\ run' \in [Nodes -> Objects] /\ inflight' \subseteq Op
  BY <1>t, <1>1, PostTypes DEF PostApply
<1>3. CASE \E e \in Raised : Fail(p, e)
  <2>1. pc' \in [Procs -> Stages] /\ res' \in [Procs -> Result] /\ StageInv'
    BY <1>3, <1>t, FailStage
  <2> QED
    BY <1>t, <1>2, <2>1 DEF Typed, TypeOK, PostApply, world
<1>4. CASE res' = [res EXCEPT ![p].applied = TRUE] /\ Goto(p, "verify")
  <2>1. res' \in [Procs -> Result]
    BY <1>t, <1>r, <1>4 DEF TypeOK, Result
  <2>2. pc' \in [Procs -> Stages] /\ StageInv'
    BY <1>t, <1>r, <1>4, StageStep, StageFacts
  <2> QED
    BY <1>t, <1>2, <2>1, <2>2 DEF Typed, TypeOK, PostApply, world
<1> QED BY <1>3, <1>4, RaisedFacts DEF PostApply

LEMMA TypedReadback ==
    ASSUME Typed, NEW p \in Procs, Readback(p)
    PROVE  Typed'
<1>t. TypeOK /\ StageInv /\ pc[p] = "verify" /\ req' = req /\ ctl' = ctl
  BY DEF Typed, Readback
<1>r. /\ req[p] \in Request /\ res[p] \in Result /\ req[p].uuid \in Ids
      /\ req[p].peer # NoNode => req[p].peer \in Nodes
  BY <1>t, StageFacts DEF TypeOK, StageInv, Request, Peers
<1>3. CASE \E e \in Raised : Fail(p, e)
  <2>1. pc' \in [Procs -> Stages] /\ res' \in [Procs -> Result] /\ StageInv'
    BY <1>3, <1>t, FailStage
  <2> QED
    BY <1>t, <2>1 DEF Typed, TypeOK, Readback, data, world
<1>4. CASE /\ res' = [res EXCEPT ![p].verified = TRUE, ![p].ok = (req[p].peer = NoNode)]
           /\ Goto(p, IF req[p].peer = NoNode THEN "final" ELSE "sync")
  <2>1. res' \in [Procs -> Result]
    BY <1>t, <1>r, <1>4 DEF TypeOK, Result
  <2>2. pc' \in [Procs -> Stages] /\ StageInv'
    BY <1>t, <1>r, <1>4, StageStep, StageFacts
  <2> QED
    BY <1>t, <2>1, <2>2 DEF Typed, TypeOK, Readback, data, world
<1> QED BY <1>3, <1>4, RaisedFacts DEF Readback

LEMMA TypedStartSync ==
    ASSUME Typed, NEW p \in Procs, StartSync(p)
    PROVE  Typed'
<1>t. TypeOK /\ StageInv /\ pc[p] = "sync" /\ req' = req
  BY DEF Typed, StartSync
<1>r. ctl[p] \in Control /\ req[p].uuid \in Ids /\ req[p].peer \in Nodes
  BY <1>t, StageFacts DEF TypeOK, StageInv
<1>0. 0 \in 0 .. Attempts
  BY ConstantsAssumption
<1>1. ctl' \in [Procs -> Control] /\ ctl'[p].tries = 0 /\ \A r \in Procs \ {p} : ctl'[r] = ctl[r]
  BY <1>t, <1>r, <1>0 DEF StartSync, TypeOK, Control
<1>2. foreign' \in [Procs -> SUBSET Disturbances]
  BY <1>t DEF StartSync, TypeOK, Checked
<1>3. CASE SyncReturns(p, "unverified")
  <2>1. pc' \in [Procs -> Stages] /\ res' \in [Procs -> Result] /\ StageInv'
    BY <1>1, <1>3, <1>t, SyncStage
  <2> QED
    BY <1>t, <1>1, <1>2, <2>1 DEF Typed, TypeOK, StartSync, data, world
<1>4. CASE UNCHANGED res /\ \E s \in {"push", "peerRead"} : Goto(p, s)
  <2>1. 0 < Attempts
    BY ConstantsAssumption
  <2>2. pc' \in [Procs -> Stages] /\ StageInv'
    BY <1>t, <1>r, <1>1, <1>4, <2>1, StageStep, StageFacts
  <2> QED
    BY <1>t, <1>1, <1>2, <1>4, <2>2 DEF Typed, TypeOK, StartSync, data, world
<1> QED BY <1>3, <1>4 DEF StartSync

LEMMA TypedPush ==
    ASSUME Typed, NEW p \in Procs, PostPush(p)
    PROVE  Typed'
<1>t. TypeOK /\ StageInv /\ pc[p] = "push" /\ req' = req /\ ctl' = ctl
  BY DEF Typed, PostPush
<1>r. req[p] \in Request /\ req[p].uuid \in Ids /\ req[p].peer \in Nodes /\ ctl[p].tries = 0
  BY <1>t, StageFacts DEF TypeOK, StageInv
<1>1. [kind |-> "push", node |-> req[p].client] \in Op
  BY <1>r DEF Op, Request
<1>2. conf' \in [Nodes -> Objects] /\ run' \in [Nodes -> Objects] /\ inflight' \subseteq Op
  BY <1>t, <1>1, PostTypes DEF PostPush, FailedPost
<1>3. CASE SyncReturns(p, "unverified")
  <2>1. pc' \in [Procs -> Stages] /\ res' \in [Procs -> Result] /\ StageInv'
    BY <1>3, <1>t, SyncStage
  <2> QED
    BY <1>t, <1>2, <2>1 DEF Typed, TypeOK, PostPush, world
<1>4. CASE Goto(p, "peerRead") /\ UNCHANGED res
  <2>1. 0 < Attempts
    BY ConstantsAssumption
  <2>2. pc' \in [Procs -> Stages] /\ StageInv'
    BY <1>t, <1>r, <1>4, <2>1, StageStep, StageFacts
  <2> QED
    BY <1>t, <1>2, <1>4, <2>2 DEF Typed, TypeOK, PostPush, world
<1> QED BY <1>3, <1>4 DEF PostPush

LEMMA TypedPeerRead ==
    ASSUME Typed, NEW p \in Procs, PeerRead(p)
    PROVE  Typed'
<1>t. TypeOK /\ StageInv /\ pc[p] = "peerRead" /\ req' = req
  BY DEF Typed, PeerRead
<1>r. /\ ctl[p] \in Control /\ req[p].uuid \in Ids /\ req[p].peer \in Nodes
      /\ ctl[p].tries \in 0 .. Attempts /\ ctl[p].tries < Attempts
  BY <1>t, StageFacts DEF TypeOK, StageInv, Control
<1>1. ctl[p].tries + 1 \in 0 .. Attempts
  BY <1>r, ConstantsAssumption
<1>2. /\ ctl' \in [Procs -> Control] /\ ctl'[p].tries = ctl[p].tries + 1
      /\ \A r \in Procs \ {p} : ctl'[r] = ctl[r]
  BY <1>t, <1>r, <1>1 DEF PeerRead, TypeOK, Control
<1>3. CASE \E v \in {"verified", "unverified"} : SyncReturns(p, v)
  <2>1. pc' \in [Procs -> Stages] /\ res' \in [Procs -> Result] /\ StageInv'
    BY <1>2, <1>3, <1>t, SyncStage
  <2> QED
    BY <1>t, <1>2, <2>1 DEF Typed, TypeOK, PeerRead, data, world
<1>4. CASE /\ UNCHANGED res
           /\ \/ Goto(p, "peerRead") /\ MoreAttempts(p)
              \/ Goto(p, "cleanup")
  <2>1. pc' \in [Procs -> Stages] /\ StageInv'
    BY <1>t, <1>r, <1>2, <1>4, StageStep, StageFacts DEF MoreAttempts
  <2> QED
    BY <1>t, <1>2, <1>4, <2>1 DEF Typed, TypeOK, PeerRead, data, world
<1> QED BY <1>3, <1>4 DEF PeerRead

LEMMA TypedCleanup ==
    ASSUME Typed, NEW p \in Procs,
           \/ QualifyCleanup(p) \/ CleanupIntent(p) \/ CleanupDelete(p)
           \/ CleanupApply(p) \/ CleanupVerify(p)
    PROVE  Typed'
<1> USE DEF QualifyCleanup, CleanupIntent, CleanupDelete, CleanupApply, CleanupVerify
<1>t. TypeOK /\ StageInv /\ req' = req /\ ctl' = ctl
  BY DEF Typed
<1>r. req[p].uuid \in Ids /\ req[p].peer \in Nodes
  BY <1>t, StageFacts DEF StageInv
<1>1. /\ [kind |-> "set", node |-> req[p].peer, id |-> req[p].uuid, val |-> NoVal] \in Op
      /\ [kind |-> "apply", node |-> req[p].peer] \in Op
  BY <1>r DEF Op
<1>2. conf' \in [Nodes -> Objects] /\ run' \in [Nodes -> Objects] /\ inflight' \subseteq Op
  <2>1. CASE CleanupDelete(p)
    BY <1>t, <1>1, <2>1, PostTypes
  <2>2. CASE CleanupApply(p)
    BY <1>t, <1>1, <2>2, PostTypes
  <2>3. CASE QualifyCleanup(p) \/ CleanupIntent(p) \/ CleanupVerify(p)
    BY <1>t, <2>3 DEF TypeOK, data
  <2> QED BY <2>1, <2>2, <2>3
<1>3. audit' \subseteq Procs \X Events /\ foreign' \in [Procs -> SUBSET Disturbances]
  BY <1>t DEF TypeOK, Events, Checked
<1>4. UNCHANGED <<used, hasync, carp, env, locks>>
  BY DEF world
<1>5. CASE \E v \in {"verified", "unverified"} : SyncReturns(p, v)
  <2>1. pc' \in [Procs -> Stages] /\ res' \in [Procs -> Result] /\ StageInv'
    BY <1>5, <1>t, SyncStage
  <2> HIDE DEF QualifyCleanup, CleanupIntent, CleanupDelete, CleanupApply, CleanupVerify
  <2> QED
    BY <1>t, <1>2, <1>3, <1>4, <2>1 DEF Typed, TypeOK
<1>6. CASE UNCHANGED res /\ \E s \in {"cleanIntent", "cleanDelete", "cleanApply", "cleanVerify"} : Goto(p, s)
  <2> HIDE DEF QualifyCleanup, CleanupIntent, CleanupDelete, CleanupApply, CleanupVerify
  <2>1. PICK s \in {"cleanIntent", "cleanDelete", "cleanApply", "cleanVerify"} : Goto(p, s)
    BY <1>6
  <2>2. pc' \in [Procs -> Stages] /\ StageInv'
    BY <1>t, <1>r, <2>1, StageStep, StageFacts
  <2> QED
    BY <1>t, <1>2, <1>3, <1>4, <1>6, <2>2 DEF Typed, TypeOK
<1> QED BY <1>5, <1>6

LEMMA TypedRollback ==
    ASSUME Typed, NEW p \in Procs, RollbackDelete(p) \/ RollbackApply(p) \/ RollbackVerify(p)
    PROVE  Typed'
<1>t. TypeOK /\ StageInv /\ req' = req
  BY DEF Typed, RollbackDelete, RollbackApply, RollbackVerify
<1>r. /\ req[p].uuid \in Ids /\ req[p] \in Request /\ ctl[p] \in Control /\ res[p] \in Result
      /\ req[p].peer # NoNode => req[p].peer \in Nodes
  BY <1>t, StageFacts DEF TypeOK, StageInv, Request, Peers, RollbackDelete, RollbackApply, RollbackVerify
<1>1. /\ [kind |-> "set", node |-> req[p].client, id |-> req[p].uuid, val |-> NoVal] \in Op
      /\ [kind |-> "apply", node |-> req[p].client] \in Op
  BY <1>r DEF Op, Request
<1>2. conf' \in [Nodes -> Objects] /\ run' \in [Nodes -> Objects] /\ inflight' \subseteq Op
  <2>1. CASE RollbackDelete(p)
    BY <1>t, <1>1, <2>1, PostTypes DEF RollbackDelete
  <2>2. CASE RollbackApply(p)
    BY <1>t, <1>1, <2>2, PostTypes DEF RollbackApply
  <2>3. CASE RollbackVerify(p)
    BY <1>t, <2>3 DEF TypeOK, data, RollbackVerify
  <2> QED BY <2>1, <2>2, <2>3
<1>3. CASE RollbackDelete(p) \/ RollbackApply(p)
  <2>1. UNCHANGED <<used, hasync, carp, env, locks, audit, ctl, res, foreign>>
    BY <1>3 DEF RollbackDelete, RollbackApply, world
  <2>2. PICK s \in {"rbApply", "rbVerify", "final"} : Goto(p, s)
    BY <1>3 DEF RollbackDelete, RollbackApply
  <2>3. pc' \in [Procs -> Stages] /\ StageInv'
    BY <1>t, <1>r, <2>1, <2>2, StageStep, StageFacts
  <2> QED
    BY <1>t, <1>2, <2>1, <2>3 DEF Typed, TypeOK
<1>4. CASE RollbackVerify(p)
  <2>1. UNCHANGED <<used, hasync, carp, env, locks, audit, foreign>>
    BY <1>4 DEF RollbackVerify, world
  <2>0. ctl \in [Procs -> Control] /\ res \in [Procs -> Result]
    BY <1>t DEF TypeOK
  <2>2. ctl' \in [Procs -> Control] /\ \A r \in Procs \ {p} : ctl'[r] = ctl[r]
    BY <2>0, <1>4 DEF RollbackVerify, Control
  <2>3. res' \in [Procs -> Result]
    <3>1. Verify(req[p].client, req[p].uuid, NoVal) \in BOOLEAN
      BY DEF Verify
    <3> QED BY <3>1, <2>0, <1>4 DEF RollbackVerify, Result
  <2>4. \E s \in {"sync", "final"} : Goto(p, s) /\ (s = "sync" => req[p].peer \in Nodes)
    BY <1>4, <1>r DEF RollbackVerify
  <2>5. pc' \in [Procs -> Stages] /\ StageInv'
    BY <1>t, <1>r, <2>2, <2>4, StageStep, StageFacts
  <2> QED
    BY <1>t, <1>2, <2>1, <2>2, <2>3, <2>5 DEF Typed, TypeOK
<1> QED BY <1>3, <1>4

LEMMA NoRecordTypes ==
    /\ NoRequest \in Request
    /\ NoControl \in Control
    /\ NoResult \in Result
<1>1. \E n \in Nodes : TRUE
  BY PairAssumption
<1>2. (CHOOSE n \in Nodes : TRUE) \in Nodes
  BY <1>1
<1>3. 0 \in 0 .. Attempts
  BY ConstantsAssumption
<1> QED
  BY <1>2, <1>3 DEF NoRequest, Request, Peers, NoControl, Control, NoResult, Result, Errors

LEMMA ForgetTypes ==
    ASSUME TypeOK, NEW S, Forget(S)
    PROVE  /\ req' \in [Procs -> Request]
           /\ ctl' \in [Procs -> Control]
           /\ foreign' \in [Procs -> SUBSET Disturbances]
           /\ \A r \in Procs : r \notin S => req'[r] = req[r] /\ ctl'[r] = ctl[r]
  BY NoRecordTypes DEF TypeOK, Forget

LEMMA TypedFinish ==
    ASSUME Typed, NEW p \in Procs, Finish(p)
    PROVE  Typed'
<1>t. TypeOK /\ StageInv
  BY DEF Typed
<1>1. /\ req' \in [Procs -> Request] /\ ctl' \in [Procs -> Control]
      /\ foreign' \in [Procs -> SUBSET Disturbances]
      /\ \A r \in Procs \ {p} : req'[r] = req[r] /\ ctl'[r] = ctl[r]
  BY <1>t, ForgetTypes DEF Finish
<1>2. pc' = [pc EXCEPT ![p] = "done"]
  BY DEF Finish, Goto
<1>3. pc' \in [Procs -> Stages]
  BY <1>2, <1>t DEF TypeOK, Stages
<1>4. StageInv'
  BY <1>1, <1>2, <1>t DEF TypeOK, StageInv, PrePost, PeerStages, UuidStages, Critical
<1>5. locks' \in [SUBSET Peers -> Procs \cup {NoProc}]
  BY <1>t DEF Finish, Release, TypeOK
<1>6. audit' \subseteq Procs \X Events
  BY <1>t DEF Finish, TypeOK, Events
<1>7. res' \in [Procs -> Result]
  <2>1. res[p] \in Result /\ res \in [Procs -> Result]
    BY <1>t DEF TypeOK
  <2>2. res' = res \/ res' = [res EXCEPT ![p].ok = FALSE, ![p].error = "audit"]
    BY DEF Finish, Unrecorded
  <2>3. CASE res' = res
    BY <2>1, <2>3
  <2>4. CASE res' = [res EXCEPT ![p].ok = FALSE, ![p].error = "audit"]
    <3>1. "audit" \in Errors
      BY DEF Errors
    <3> HIDE DEF Errors
    <3> QED BY <2>1, <2>4, <3>1 DEF Result
  <2> QED BY <2>2, <2>3, <2>4
<1> QED
  BY <1>t, <1>1, <1>3, <1>4, <1>5, <1>6, <1>7 DEF Typed, TypeOK, Finish, data, world

LEMMA DisturbTypes ==
    ASSUME TypeOK, NEW S, NEW d \in SUBSET Disturbances, Disturb(S, d)
    PROVE  foreign' \in [Procs -> SUBSET Disturbances]
  BY DEF TypeOK, Disturb

LEMMA TypedEnvironment ==
    ASSUME Typed, \/ ExternalWrite \/ LateExecution \/ AutoSync
                  \/ CarpChange \/ Reconfigure
    PROVE  Typed'
<1>t. TypeOK /\ StageInv
  BY DEF Typed
<1>1. UNCHANGED <<locks, audit, pc, req, ctl, res>>
  BY DEF ExternalWrite, LateExecution, AutoSync, CarpChange, Reconfigure
<1>2. StageInv'
  BY <1>t, <1>1 DEF StageInv
<1>3. foreign' \in [Procs -> SUBSET Disturbances]
  <2>1. {"data", "check"} \in SUBSET Disturbances /\ {"ha"} \in SUBSET Disturbances
    BY DEF Disturbances
  <2> QED
    BY <1>t, <2>1, DisturbTypes
    DEF ExternalWrite, LateExecution, AutoSync, CarpChange, Reconfigure
<1>4. env' \in 0 .. MaxEnv
  BY <1>t, ConstantsAssumption
  DEF ExternalWrite, LateExecution, AutoSync, CarpChange, Reconfigure, Intervene, TypeOK, world
<1>5. hasync' \in HasyncConfs /\ carp' \in CarpStates /\ used' \subseteq Ids
  BY <1>t DEF ExternalWrite, LateExecution, AutoSync, CarpChange, Reconfigure, TypeOK, world
<1>6. conf' \in [Nodes -> Objects] /\ run' \in [Nodes -> Objects] /\ inflight' \subseteq Op
  <2>1. CASE ExternalWrite
    <3>1. PICK n \in Nodes, u \in Ids, v \in Vals \cup {NoVal} :
             /\ conf[n][u] # v
             /\ conf' = [conf EXCEPT ![n][u] = v]
             /\ run' \in {run, [run EXCEPT ![n] = conf'[n]]}
             /\ used' = used \cup {u}
      BY <2>1 DEF ExternalWrite
    <3>2. conf' \in [Nodes -> Objects]
      BY <1>t, <3>1 DEF TypeOK, Objects
    <3>3. run' \in [Nodes -> Objects]
      BY <1>t, <3>1, <3>2 DEF TypeOK
    <3> QED BY <1>t, <2>1, <3>2, <3>3 DEF TypeOK, ExternalWrite
  <2>2. CASE LateExecution
    <3>1. PICK op \in inflight :
             /\ inflight' = inflight \ {op}
             /\ IF Possible(op)
                  THEN conf' = ConfAfter(op) /\ run' = RunAfter(op)
                  ELSE UNCHANGED <<conf, run>>
      BY <2>2 DEF LateExecution
    <3>2. op \in Op
      BY <1>t DEF TypeOK
    <3>3. CASE Possible(op)
      BY <1>t, <3>1, <3>2, <3>3, AfterTypes DEF TypeOK
    <3>4. CASE ~Possible(op)
      BY <1>t, <3>1, <3>4 DEF TypeOK
    <3> QED BY <3>3, <3>4
  <2>3. CASE AutoSync
    <3>1. PICK n \in Nodes : Executed([kind |-> "push", node |-> n])
      BY <2>3 DEF AutoSync
    <3>2. [kind |-> "push", node |-> n] \in Op
      BY DEF Op
    <3> QED BY <1>t, <3>1, <3>2, PostTypes
  <2>4. CASE CarpChange \/ Reconfigure
    BY <1>t, <2>4 DEF CarpChange, Reconfigure, TypeOK, data
  <2> QED BY <2>1, <2>2, <2>3, <2>4
<1> QED
  BY <1>t, <1>1, <1>2, <1>3, <1>4, <1>5, <1>6 DEF Typed, TypeOK

LEMMA TypedCrash ==
    ASSUME Typed, Crash
    PROVE  Typed'
<1>t. TypeOK /\ StageInv
  BY DEF Typed
<1> DEFINE S == {p \in Procs : pc'[p] = "crashed"}
<1>1. /\ req' \in [Procs -> Request] /\ ctl' \in [Procs -> Control]
      /\ foreign' \in [Procs -> SUBSET Disturbances]
      /\ \A r \in Procs : r \notin S => req'[r] = req[r] /\ ctl'[r] = ctl[r]
  <2>1. Forget(S)
    BY DEF Crash
  <2> HIDE DEF S
  <2> QED BY <1>t, <2>1, ForgetTypes
<1>2. pc' = [p \in Procs |-> IF pc[p] \in {"idle", "done"} THEN pc[p] ELSE "crashed"]
  BY DEF Crash
<1>3. pc' \in [Procs -> Stages]
  BY <1>2, <1>t DEF TypeOK, Stages
<1>4. StageInv'
  BY <1>1, <1>2, <1>t DEF TypeOK, StageInv, PrePost, PeerStages, UuidStages, Critical
<1>5. locks' \in [SUBSET Peers -> Procs \cup {NoProc}]
  BY <1>t DEF Crash, TypeOK
<1>6. env' \in 0 .. MaxEnv
  BY <1>t, ConstantsAssumption DEF Crash, Intervene, TypeOK
<1> QED
  BY <1>t, <1>1, <1>3, <1>4, <1>5, <1>6 DEF Typed, TypeOK, Crash, data

LEMMA TypedInit ==
    ASSUME Init
    PROVE  Typed
<1>1. PICK c \in Objects : conf = [n \in Nodes |-> c] /\ used = {u \in Ids : c[u] # NoVal}
  BY DEF Init
<1>2. conf \in [Nodes -> Objects] /\ run \in [Nodes -> Objects] /\ used \subseteq Ids
  BY <1>1 DEF Init
<1>3. /\ req \in [Procs -> Request] /\ ctl \in [Procs -> Control]
      /\ res \in [Procs -> Result] /\ foreign \in [Procs -> SUBSET Disturbances]
  BY NoRecordTypes DEF Init
<1>4. pc \in [Procs -> Stages]
  BY DEF Init, Stages
<1>5. StageInv
  BY DEF Init, StageInv, NoControl, PrePost, PeerStages, UuidStages, Critical
<1>6. env \in 0 .. MaxEnv
  BY ConstantsAssumption DEF Init
<1>7. /\ locks \in [SUBSET Peers -> Procs \cup {NoProc}] /\ inflight \subseteq Op
      /\ hasync \in HasyncConfs /\ carp \in CarpStates /\ audit \subseteq Procs \X Events
  BY DEF Init
<1> QED
  BY <1>2, <1>3, <1>4, <1>5, <1>6, <1>7 DEF Typed, TypeOK

LEMMA TypedStep ==
    ASSUME Typed, [Next]_vars
    PROVE  Typed'
<1>1. ASSUME NEW p \in Procs, Begin(p) \/ Refuse(p) \/ Acquire(p)
      PROVE  Typed'
  BY <1>1, TypedArrival
<1>2. ASSUME NEW p \in Procs, Step(p), ~Acquire(p)
      PROVE  Typed'
  BY <1>2, TypedIntent, TypedPreflight, TypedReads, TypedPeerRevision, TypedCreate, TypedChange,
     TypedApply, TypedReadback, TypedStartSync, TypedPush, TypedPeerRead, TypedCleanup,
     TypedRollback, TypedFinish DEF Step
<1>3. CASE ExternalWrite \/ LateExecution \/ AutoSync \/ CarpChange \/ Reconfigure
  BY <1>3, TypedEnvironment
<1>4. CASE Crash
  BY <1>4, TypedCrash
<1>5. CASE UNCHANGED vars
  BY <1>5 DEF vars, Typed, TypeOK, StageInv
<1> QED
  BY <1>1, <1>2, <1>3, <1>4, <1>5 DEF Next, Done

\* Every reachable state of the writer, whatever its requests, the nodes, the
\* administrators and crashes do, is well formed (verified.py, execute and all it
\* calls).  The strengthening StageInv is what bounds the peer loop of _sync and
\* gives every POST a uuid and every synchronization a peer.
THEOREM TypeCorrect == Spec => []TypeOK
<1>1. Init => Typed
  BY TypedInit
<1>2. Typed /\ [Next]_vars => Typed'
  BY TypedStep
<1>3. Typed => TypeOK
  BY DEF Typed
<1> QED
  BY <1>1, <1>2, <1>3, PTL DEF Spec

-----------------------------------------------------------------------------
(* What a step of a request between Acquire and Finish may do *)

\* p goes on inside its critical section and no other request notices.
Progress(p) ==
    /\ \A r \in Procs \ {p} : pc'[r] = pc[r] /\ res'[r] = res[r]
    /\ pc'[p] \in Critical \ {"intent"}
    /\ pc'[p] # "final" /\ res'[p].ok => res[p].ok

Inner(p) ==
    /\ Progress(p)
    /\ UNCHANGED locks
    /\ pc[p] \in Critical \ {"final"}
    /\ \A r \in Procs \ {p} : req'[r] = req[r]
    /\ req'[p].client = req[p].client /\ req'[p].peer = req[p].peer
    /\ audit \subseteq audit' /\ audit' \subseteq audit \cup {<<p, "started">>, <<p, "peer_delete">>}
    /\ pc[p] = "intent" => <<p, "started">> \in audit' \/ (pc'[p] = "final" /\ res'[p].ok = res[p].ok)
    /\ pc'[p] = "cleanDelete" => <<p, "peer_delete">> \in audit'

LEMMA FailProgress ==
    ASSUME Typed, NEW p \in Procs, NEW e \in Raised, Fail(p, e)
    PROVE  Progress(p) /\ pc'[p] # "cleanDelete" /\ res'[p].ok = res[p].ok
<1>1. pc \in [Procs -> Stages]
  BY DEF Typed, TypeOK
<1> QED
  BY <1>1, FailTypes DEF Progress, Critical

LEMMA SyncProgress ==
    ASSUME Typed, NEW p \in Procs, NEW v \in {"verified", "unverified"}, SyncReturns(p, v)
    PROVE  Progress(p) /\ pc'[p] # "cleanDelete"
<1>1. pc \in [Procs -> Stages]
  BY DEF Typed, TypeOK
<1> QED
  BY <1>1, SyncTypes DEF Progress, Critical

LEMMA GotoProgress ==
    ASSUME Typed, NEW p \in Procs, NEW s \in Critical \ {"intent"}, Goto(p, s),
           \A r \in Procs \ {p} : res'[r] = res[r],
           s = "final" \/ res'[p].ok = res[p].ok \/ ~res'[p].ok
    PROVE  Progress(p) /\ pc'[p] = s
<1>1. pc \in [Procs -> Stages]
  BY DEF Typed, TypeOK
<1> QED
  BY <1>1 DEF Progress, Goto

LEMMA InnerIntent ==
    ASSUME Typed, NEW p \in Procs, Intent(p)
    PROVE  Inner(p)
<1>1. CASE IntentLost(p) /\ UNCHANGED audit
  BY <1>1, FailProgress, RaisedFacts DEF IntentLost, Intent, Inner, Critical, Progress, Fail, Goto, Typed, TypeOK, RollsBack, Rejections
<1>2. CASE /\ audit' = audit \cup {<<p, "started">>}
           /\ Goto(p, "preflight")
           /\ UNCHANGED res
  <2>1. "preflight" \in Critical \ {"intent"}
    BY DEF Critical
  <2> QED
    BY <1>2, <2>1, GotoProgress DEF Intent, Inner, Critical
<1> QED BY <1>1, <1>2 DEF Intent

LEMMA InnerBefore ==
    ASSUME Typed, NEW p \in Procs,
           Preflight(p) \/ ReadCurrent(p) \/ CheckLast(p) \/ ReadPeerRevision(p)
    PROVE  Inner(p)
<1>1. UNCHANGED <<locks, audit, req>> /\ pc[p] \in {"preflight", "read", "last", "peerRev"}
  BY DEF Preflight, ReadCurrent, CheckLast, ReadPeerRevision
<1>2. Progress(p) /\ pc'[p] # "cleanDelete"
  <2>1. CASE \E e \in Raised : Fail(p, e)
    BY <2>1, FailProgress
  <2>2. CASE UNCHANGED res /\ \E s \in {"read", "last", "peerRev", "mutate"} : Goto(p, s)
    BY <2>2, GotoProgress DEF Critical
  <2>3. CASE Preflight(p)
    BY <2>1, <2>2, <2>3, RaisedFacts DEF Preflight
  <2>4. CASE ReadCurrent(p)
    BY <2>1, <2>2, <2>4, RaisedFacts DEF ReadCurrent
  <2>5. CASE CheckLast(p)
    BY <2>1, <2>2, <2>5, RaisedFacts DEF CheckLast
  <2>6. CASE ReadPeerRevision(p)
    BY <2>1, <2>2, <2>6, RaisedFacts DEF ReadPeerRevision
  <2> QED BY <2>3, <2>4, <2>5, <2>6
<1> QED BY <1>1, <1>2 DEF Inner, Critical

LEMMA InnerWrite ==
    ASSUME Typed, NEW p \in Procs,
           PostCreate(p) \/ PostChange(p) \/ PostApply(p) \/ Readback(p)
    PROVE  Inner(p)
<1>1. UNCHANGED <<locks, audit>> /\ pc[p] \in {"mutate", "apply", "verify"}
  BY DEF PostCreate, PostChange, PostApply, Readback
<1>2. /\ \A r \in Procs \ {p} : req'[r] = req[r]
      /\ req'[p].client = req[p].client /\ req'[p].peer = req[p].peer
  <2>1. req' = req \/ \E u \in Ids : req' = [req EXCEPT ![p].uuid = u]
    BY DEF PostCreate, PostChange, PostApply, Readback
  <2>2. req \in [Procs -> Request]
    BY DEF Typed, TypeOK
  <2> QED BY <2>1, <2>2 DEF Request
<1>3. Progress(p) /\ pc'[p] # "cleanDelete"
  <2>t. res \in [Procs -> Result] /\ res[p] \in Result
    BY DEF Typed, TypeOK
  <2>1. CASE \E e \in Raised : Fail(p, e)
    BY <2>1, FailProgress
  <2>2. CASE /\ \A r \in Procs \ {p} : res'[r] = res[r]
             /\ \E s \in {"apply", "verify", "sync", "final"} :
                  Goto(p, s) /\ (s = "final" \/ res'[p].ok = res[p].ok \/ ~res'[p].ok)
    BY <2>2, GotoProgress DEF Critical
  <2>3. CASE PostCreate(p)
    BY <2>1, <2>2, <2>3, RaisedFacts DEF PostCreate
  <2>4. CASE PostChange(p)
    BY <2>1, <2>2, <2>4, RaisedFacts DEF PostChange
  <2>5. CASE PostApply(p)
    BY <2>t, <2>1, <2>2, <2>5, RaisedFacts DEF PostApply, Result
  <2>6. CASE Readback(p)
    BY <2>t, <2>1, <2>2, <2>6, RaisedFacts DEF Readback, Result
  <2> QED BY <2>3, <2>4, <2>5, <2>6
<1> QED BY <1>1, <1>2, <1>3 DEF Inner, Critical

LEMMA InnerSync ==
    ASSUME Typed, NEW p \in Procs, StartSync(p) \/ PostPush(p) \/ PeerRead(p)
    PROVE  Inner(p)
<1>1. UNCHANGED <<locks, audit, req>> /\ pc[p] \in {"sync", "push", "peerRead"}
  BY DEF StartSync, PostPush, PeerRead
<1>2. Progress(p) /\ pc'[p] # "cleanDelete"
  <2>1. CASE \E v \in {"verified", "unverified"} : SyncReturns(p, v)
    BY <2>1, SyncProgress
  <2>2. CASE UNCHANGED res /\ \E s \in {"push", "peerRead", "cleanup"} : Goto(p, s)
    BY <2>2, GotoProgress DEF Critical
  <2>3. CASE StartSync(p)
    BY <2>1, <2>2, <2>3 DEF StartSync
  <2>4. CASE PostPush(p)
    BY <2>1, <2>2, <2>4 DEF PostPush
  <2>5. CASE PeerRead(p)
    BY <2>1, <2>2, <2>5 DEF PeerRead
  <2> QED BY <2>3, <2>4, <2>5
<1> QED BY <1>1, <1>2 DEF Inner, Critical

LEMMA InnerCleanup ==
    ASSUME Typed, NEW p \in Procs,
           \/ QualifyCleanup(p) \/ CleanupIntent(p) \/ CleanupDelete(p)
           \/ CleanupApply(p) \/ CleanupVerify(p)
    PROVE  Inner(p)
<1>1. UNCHANGED <<locks, req>> /\ pc[p] \in {"cleanup", "cleanIntent", "cleanDelete", "cleanApply", "cleanVerify"}
  BY DEF QualifyCleanup, CleanupIntent, CleanupDelete, CleanupApply, CleanupVerify
<1>2. audit' = audit \/ audit' = audit \cup {<<p, "peer_delete">>}
  BY DEF QualifyCleanup, CleanupIntent, CleanupDelete, CleanupApply, CleanupVerify
<1>3. Progress(p) /\ (pc'[p] = "cleanDelete" => <<p, "peer_delete">> \in audit')
  <2>1. CASE \E v \in {"verified", "unverified"} : SyncReturns(p, v)
    BY <2>1, SyncProgress
  <2>2. CASE UNCHANGED res /\ \E s \in {"cleanIntent", "cleanApply", "cleanVerify"} : Goto(p, s)
    BY <2>2, GotoProgress DEF Critical
  <2>3. CASE QualifyCleanup(p)
    BY <2>1, <2>2, <2>3 DEF QualifyCleanup
  <2>4. CASE CleanupIntent(p)
    <3>1. CASE UNCHANGED res /\ Goto(p, "cleanDelete") /\ audit' = audit \cup {<<p, "peer_delete">>}
      BY <3>1, GotoProgress DEF Critical
    <3> QED BY <2>1, <2>4, <3>1 DEF CleanupIntent
  <2>5. CASE CleanupDelete(p)
    BY <2>1, <2>2, <2>5 DEF CleanupDelete
  <2>6. CASE CleanupApply(p)
    BY <2>1, <2>2, <2>6 DEF CleanupApply
  <2>7. CASE CleanupVerify(p)
    BY <2>1, <2>7 DEF CleanupVerify
  <2> QED BY <2>3, <2>4, <2>5, <2>6, <2>7
<1> QED BY <1>1, <1>2, <1>3 DEF Inner, Critical

LEMMA InnerRollback ==
    ASSUME Typed, NEW p \in Procs, RollbackDelete(p) \/ RollbackApply(p) \/ RollbackVerify(p)
    PROVE  Inner(p)
<1>1. UNCHANGED <<locks, req, audit>> /\ pc[p] \in {"rbDelete", "rbApply", "rbVerify"}
  BY DEF RollbackDelete, RollbackApply, RollbackVerify
<1>2. Progress(p) /\ pc'[p] # "cleanDelete"
  <2>t. res \in [Procs -> Result] /\ res[p] \in Result
    BY DEF Typed, TypeOK
  <2>1. CASE /\ \A r \in Procs : res'[r].ok = res[r].ok
             /\ \A r \in Procs \ {p} : res'[r] = res[r]
             /\ \E s \in {"rbApply", "rbVerify", "sync", "final"} : Goto(p, s)
    BY <2>1, GotoProgress DEF Critical
  <2>2. CASE RollbackDelete(p) \/ RollbackApply(p)
    BY <2>1, <2>2 DEF RollbackDelete, RollbackApply
  <2>3. CASE RollbackVerify(p)
    BY <2>t, <2>1, <2>3 DEF RollbackVerify, Result
  <2> QED BY <2>2, <2>3
<1> QED BY <1>1, <1>2 DEF Inner, Critical

LEMMA InnerStep ==
    ASSUME Typed, NEW p \in Procs, Step(p)
    PROVE  Acquire(p) \/ Finish(p) \/ Inner(p)
  BY InnerIntent, InnerBefore, InnerWrite, InnerSync, InnerCleanup, InnerRollback DEF Step

-----------------------------------------------------------------------------
(* The lock of the pair *)

\* The one key that every request of the pair computes.
ThePair == IF HasPeer THEN Nodes ELSE Nodes \cup {NoNode}

LockInv ==
    \A p \in Procs :
        /\ pc[p] \in Critical \cup {"wait"} => LockKey(req[p].client, req[p].peer) = ThePair
        /\ pc[p] \in Critical => locks[ThePair] = p

LEMMA TargetPair ==
    ASSUME NEW c \in Nodes, NEW q \in Peers, Target(c, q)
    PROVE  LockKey(c, q) = ThePair
<1>1. CASE HasPeer
  <2>1. c # q /\ q \in Nodes
    BY <1>1 DEF Target
  <2>2. \E a, b \in Nodes : a # b /\ Nodes = {a, b}
    BY <1>1, PairAssumption
  <2> QED BY <1>1, <2>1, <2>2 DEF LockKey, ThePair
<1>2. CASE ~HasPeer
  <2>1. q = NoNode
    BY <1>2 DEF Target
  <2>2. \E a \in Nodes : Nodes = {a}
    BY <1>2, PairAssumption
  <2> QED BY <1>2, <2>1, <2>2 DEF LockKey, ThePair
<1> QED BY <1>1, <1>2

LEMMA ThePairKey == ThePair \in SUBSET Peers
  BY DEF ThePair, Peers

\* What the steps outside the critical section and of the environment do.
LEMMA BeginFacts ==
    ASSUME Typed, NEW p \in Procs, Begin(p)
    PROVE  /\ pc[p] = "idle" /\ pc' = [pc EXCEPT ![p] = "wait"]
           /\ \A r \in Procs \ {p} : req'[r] = req[r]
           /\ LockKey(req'[p].client, req'[p].peer) = ThePair
           /\ UNCHANGED <<conf, run, inflight, locks, audit, res, foreign>>
<1>1. PICK a \in {"create", "update", "delete"}, c \in Nodes, q \in Peers,
           u \in Ids \cup {NoId}, r \in Vals \cup {NoVal}, v \in Vals \cup {NoVal} :
             /\ (u = NoId) = (a = "create") /\ (r = NoVal) = (a = "create")
             /\ (v = NoVal) = (a = "delete")
             /\ Target(c, q)
             /\ req' = [req EXCEPT ![p] = [action |-> a, uuid |-> u, rev |-> r, val |-> v,
                                           client |-> c, peer |-> q]]
             /\ ctl' = [ctl EXCEPT ![p].expect = v]
  BY DEF Begin
<1>2. req \in [Procs -> Request]
  BY DEF Typed, TypeOK
<1>3. req'[p].client = c /\ req'[p].peer = q /\ \A x \in Procs \ {p} : req'[x] = req[x]
  BY <1>1, <1>2
<1>4. LockKey(c, q) = ThePair
  BY <1>1, TargetPair
<1>5. /\ pc[p] = "idle" /\ pc' = [pc EXCEPT ![p] = "wait"]
      /\ UNCHANGED <<conf, run, inflight, locks, audit, res, foreign>>
  BY DEF Begin, Goto, data
<1> QED BY <1>3, <1>4, <1>5

LEMMA EnvironmentFacts ==
    ASSUME \/ ExternalWrite \/ LateExecution \/ AutoSync \/ CarpChange \/ Reconfigure
    PROVE  UNCHANGED <<locks, audit, pc, req, res>>
  BY DEF ExternalWrite, LateExecution, AutoSync, CarpChange, Reconfigure

LEMMA LockStep ==
    ASSUME Typed, LockInv, [Next]_vars
    PROVE  LockInv'
<1>t. pc \in [Procs -> Stages] /\ req \in [Procs -> Request]
      /\ locks \in [SUBSET Peers -> Procs \cup {NoProc}]
  BY DEF Typed, TypeOK
<1>n. NoProc \notin Procs
  BY ConstantsAssumption
<1>1. ASSUME NEW p \in Procs, Begin(p)
      PROVE  LockInv'
  BY <1>1, <1>t, BeginFacts DEF LockInv, Critical
<1>2. ASSUME NEW p \in Procs, Refuse(p)
      PROVE  LockInv'
  <2>1. pc' = [pc EXCEPT ![p] = "done"] /\ UNCHANGED <<locks, req>>
    BY <1>2 DEF Refuse, Goto
  <2> QED BY <2>1, <1>t DEF LockInv, Critical
<1>3. ASSUME NEW p \in Procs, Acquire(p)
      PROVE  LockInv'
  <2>1. pc[p] = "wait" /\ pc' = [pc EXCEPT ![p] = "intent"] /\ req' = req
    BY <1>3 DEF Acquire, Goto
  <2>2. LockKey(req[p].client, req[p].peer) = ThePair
    BY <2>1 DEF LockInv
  <2>3. locks[ThePair] = NoProc /\ locks' = [locks EXCEPT ![ThePair] = p]
    BY <1>3, <2>2 DEF Acquire
  <2>4. \A r \in Procs : pc[r] \notin Critical
    BY <2>3, <1>n DEF LockInv
  <2> QED BY <2>1, <2>2, <2>3, <2>4, <1>t, ThePairKey DEF LockInv
<1>4. ASSUME NEW p \in Procs, Inner(p)
      PROVE  LockInv'
  BY <1>4 DEF LockInv, Inner, Progress
<1>5. ASSUME NEW p \in Procs, Finish(p)
      PROVE  LockInv'
  <2>1. /\ pc[p] = "final" /\ pc' = [pc EXCEPT ![p] = "done"]
        /\ \A r \in Procs \ {p} : req'[r] = req[r]
    BY <1>5 DEF Finish, Goto, Forget
  <2>2. \A r \in Procs \ {p} : pc[r] \notin Critical
    BY <2>1 DEF LockInv, Critical
  <2> QED BY <2>1, <2>2, <1>t DEF LockInv, Critical
<1>6. CASE ExternalWrite \/ LateExecution \/ AutoSync \/ CarpChange \/ Reconfigure
  BY <1>6, EnvironmentFacts DEF LockInv
<1>7. CASE Crash
  <2>1. pc' = [p \in Procs |-> IF pc[p] \in {"idle", "done"} THEN pc[p] ELSE "crashed"]
    BY <1>7 DEF Crash
  <2> QED BY <2>1 DEF LockInv, Critical
<1>8. CASE UNCHANGED vars
  BY <1>8 DEF vars, LockInv
<1> QED
  BY <1>1, <1>2, <1>3, <1>4, <1>5, <1>6, <1>7, <1>8, InnerStep DEF Next, Done

\* For any number of requests to either node of a pair, in any order and with
\* crashes of the process, the lock that execute() keys by the sorted URLs of the
\* pair keeps two writes from touching the same node at the same time.
THEOREM Exclusive == Spec => []MutualExclusion
<1>1. Init => Typed /\ LockInv
  BY TypedInit DEF Init, LockInv, Critical
<1>2. (Typed /\ LockInv) /\ [Next]_vars => (Typed /\ LockInv)'
  BY TypedStep, LockStep
<1>3. Typed /\ LockInv => MutualExclusion
  BY DEF LockInv, MutualExclusion
<1> QED
  BY <1>1, <1>2, <1>3, PTL DEF Spec

-----------------------------------------------------------------------------
(* The audit log *)

\* What the stage of a request says of its audit lines.
AuditOf(p) ==
    /\ pc[p] \in Critical \ {"intent", "final"} => <<p, "started">> \in audit
    /\ pc[p] = "final" /\ res[p].ok => <<p, "started">> \in audit
    /\ pc[p] \in (Critical \ {"final"}) \cup {"idle", "wait"} => ~res[p].ok
    /\ pc[p] \in Critical \cup {"idle", "wait"} => <<p, "ok">> \notin audit
    /\ pc[p] = "cleanDelete" => <<p, "peer_delete">> \in audit
    /\ pc[p] = "done" => (res[p].ok <=> {<<p, "started">>, <<p, "ok">>} \subseteq audit)

AuditInv == \A p \in Procs : AuditOf(p)

LEMMA AuditStep ==
    ASSUME Typed, AuditInv, [Next]_vars
    PROVE  AuditInv'
<1>t. pc \in [Procs -> Stages] /\ res \in [Procs -> Result]
  BY DEF Typed, TypeOK
<1>1. ASSUME NEW p \in Procs, Begin(p)
      PROVE  AuditInv'
  <2>1. pc[p] = "idle" /\ pc' = [pc EXCEPT ![p] = "wait"] /\ UNCHANGED <<audit, res>>
    BY <1>1, BeginFacts
  <2> QED
    BY <2>1, <1>t DEF AuditInv, AuditOf, Critical
<1>2. ASSUME NEW p \in Procs, Refuse(p)
      PROVE  AuditInv'
  <2>1. pc[p] = "idle" /\ pc' = [pc EXCEPT ![p] = "done"] /\ audit' = audit
    BY <1>2 DEF Refuse, Goto
  <2>2. res'[p].ok = res[p].ok /\ \A r \in Procs \ {p} : res'[r] = res[r]
    BY <1>2, <1>t DEF Refuse, Result
  <2> QED BY <2>1, <2>2, <1>t DEF AuditInv, AuditOf, Critical
<1>3. ASSUME NEW p \in Procs, Acquire(p)
      PROVE  AuditInv'
  <2>1. /\ pc[p] = "wait" /\ pc' = [pc EXCEPT ![p] = "intent"]
        /\ audit' = audit /\ res' = res
    BY <1>3 DEF Acquire, Goto
  <2> QED BY <2>1, <1>t DEF AuditInv, AuditOf, Critical
<1>4. ASSUME NEW p \in Procs, Inner(p)
      PROVE  AuditInv'
  <2>1. ASSUME NEW r \in Procs \ {p}
        PROVE  \A e \in Events : <<r, e>> \in audit' <=> <<r, e>> \in audit
    BY <1>4 DEF Inner
  <2>2. <<p, "ok">> \in audit' <=> <<p, "ok">> \in audit
    BY <1>4 DEF Inner
  <2>3. /\ pc[p] \in Critical \ {"final"} /\ pc'[p] \in Critical \ {"intent"}
        /\ pc'[p] # "final" => ~res'[p].ok
        /\ <<p, "ok">> \notin audit'
        /\ pc'[p] = "cleanDelete" => <<p, "peer_delete">> \in audit'
    BY <1>4, <2>2 DEF AuditInv, AuditOf, Inner, Progress
  <2>4. <<p, "started">> \in audit' \/ (pc'[p] = "final" /\ ~res'[p].ok)
    BY <1>4 DEF AuditInv, AuditOf, Inner
  <2>5. pc'[p] \notin {"idle", "wait", "done"}
    BY <2>3 DEF Critical
  <2>6. \A r \in Procs \ {p} : pc'[r] = pc[r] /\ res'[r] = res[r]
    BY <1>4 DEF Inner, Progress
  <2>7. \A r \in Procs \ {p} : {<<r, "started">>, <<r, "ok">>} \subseteq audit'
                                  <=> {<<r, "started">>, <<r, "ok">>} \subseteq audit
    BY <2>1 DEF Events
  <2>8. ASSUME NEW r \in Procs \ {p}
        PROVE  /\ (<<r, "started">> \in audit') = (<<r, "started">> \in audit)
               /\ (<<r, "ok">> \in audit') = (<<r, "ok">> \in audit)
               /\ (<<r, "peer_delete">> \in audit') = (<<r, "peer_delete">> \in audit)
    BY <1>4 DEF Inner
  <2>9. ASSUME NEW r \in Procs
        PROVE  AuditOf(r)'
    <3>1. CASE r = p
      BY <3>1, <2>3, <2>4, <2>5 DEF AuditOf
    <3>2. CASE r # p
      <4>1. AuditOf(r)
        BY DEF AuditInv
      <4> QED BY <3>2, <4>1, <2>6, <2>7, <2>8 DEF AuditOf
    <3> QED BY <3>1, <3>2
  <2> QED BY <2>9 DEF AuditInv
<1>5. ASSUME NEW p \in Procs, Finish(p)
      PROVE  AuditInv'
  <2>1. pc[p] = "final" /\ pc' = [pc EXCEPT ![p] = "done"]
    BY <1>5 DEF Finish, Goto
  <2>2. CASE audit' = audit \cup {<<p, IF res[p].ok THEN "ok" ELSE "error">>} /\ res' = res
    BY <2>1, <2>2, <1>t DEF AuditInv, AuditOf, Critical
  <2>3. CASE Unrecorded(p) /\ audit' = audit
    <3>1. ~res'[p].ok /\ \A r \in Procs \ {p} : res'[r] = res[r]
      BY <2>3, <1>t DEF Unrecorded, Result
    <3> QED BY <2>1, <2>3, <3>1, <1>t DEF AuditInv, AuditOf, Critical
  <2> QED BY <1>5, <2>2, <2>3 DEF Finish
<1>6. CASE ExternalWrite \/ LateExecution \/ AutoSync \/ CarpChange \/ Reconfigure
  BY <1>6, EnvironmentFacts DEF AuditInv, AuditOf
<1>7. CASE Crash
  <2>1. /\ pc' = [p \in Procs |-> IF pc[p] \in {"idle", "done"} THEN pc[p] ELSE "crashed"]
        /\ audit' = audit /\ res' = res
    BY <1>7 DEF Crash
  <2> QED BY <2>1 DEF AuditInv, AuditOf, Critical
<1>8. CASE UNCHANGED vars
  BY <1>8 DEF vars, AuditInv, AuditOf
<1> QED
  BY <1>1, <1>2, <1>3, <1>4, <1>5, <1>6, <1>7, <1>8, InnerStep DEF Next, Done

LEMMA AuditInit == Init => AuditInv
  BY DEF Init, AuditInv, AuditOf, NoResult, Critical

\* Whatever fails on the way, audit writes included, execute() answers ok exactly
\* when the intent and the success of the request are both in audit.jsonl.
THEOREM Recorded == Spec => []OkIsRecorded
<1>1. Init => Typed /\ AuditInv
  BY TypedInit, AuditInit
<1>2. (Typed /\ AuditInv) /\ [Next]_vars => (Typed /\ AuditInv)'
  BY TypedStep, AuditStep
<1>3. Typed /\ AuditInv => OkIsRecorded
  BY DEF AuditInv, AuditOf, OkIsRecorded
<1> QED
  BY <1>1, <1>2, <1>3, PTL DEF Spec

-----------------------------------------------------------------------------
(* What the writer knows of its own way *)

SyncStages == {"sync", "push", "peerRead", "cleanup", "cleanIntent", "cleanDelete",
               "cleanApply", "cleanVerify"}
RollbackStages == {"rbDelete", "rbApply", "rbVerify"}
LastStages == {"last", "peerRev", "cleanup", "cleanIntent", "cleanDelete", "cleanApply", "cleanVerify"}

\* Before the first POST was acknowledged nothing is applied and nothing undone.
Fresh(p) ==
    pc[p] \in PrePost \cup {"idle"}
      => ~res[p].applied /\ ~res[p].rollback /\ ~res[p].rbLocal /\ ~res[p].rbVerified

\* From the first POST to the peer, or to the undo, and no further back.
Forward(p) ==
    /\ pc[p] \in {"apply", "verify"}
         => ctl[p].accepted /\ ~res[p].rollback /\ ~res[p].rbLocal /\ ~res[p].rbVerified
    /\ pc[p] = "verify" => res[p].applied
    /\ pc[p] \in SyncStages
         => /\ ~res[p].rbVerified
            /\ IF res[p].rollback THEN ctl[p].expect = NoVal ELSE ctl[p].accepted /\ res[p].applied
    /\ pc[p] \in Critical \cup {"wait"} /\ ~res[p].rollback => ctl[p].expect = req[p].val
    /\ pc[p] = "final" /\ res[p].ok => ctl[p].accepted /\ res[p].applied /\ ~res[p].rollback

\* Only a create that was definitely rejected is undone.
Backward(p) ==
    /\ pc[p] \in RollbackStages => res[p].rollback /\ ~res[p].rbLocal /\ ~res[p].rbVerified
    /\ pc[p] \in Critical /\ res[p].rollback => res[p].error \in {"validation", "upstream"}
    /\ pc[p] \in Critical /\ res[p].rbLocal => res[p].rollback
    /\ pc[p] = "final" /\ res[p].rbVerified => res[p].rbLocal

\* The cleanup of the last port forward belongs to XMLRPC, and to a deletion.
XmlrpcOnly(p) ==
    /\ pc[p] \in LastStages \/ ctl[p].peerRev # NoVal
         => HaMode = "xmlrpc_pf" /\ Resource = "port_forward"
    /\ pc[p] \in LastStages \cap SyncStages => ctl[p].expect = NoVal
    /\ pc[p] = "push" => HaMode = "xmlrpc_pf"

Course(p) == Fresh(p) /\ Forward(p) /\ Backward(p) /\ XmlrpcOnly(p)

-----------------------------------------------------------------------------
(* What the writer knows of the nodes, while nobody else changes them *)

Here(p) == conf[req[p].client][req[p].uuid]
Runs(p) == run[req[p].client][req[p].uuid]
There(p) == conf[req[p].peer][req[p].uuid]

\* An accepted write that is not undone is stored, and runs once it is applied.
Achieved(p) ==
    ctl[p].accepted /\ ~res[p].rollback
      => Here(p) = req[p].val /\ (res[p].applied => Runs(p) = req[p].val)

\* A create that is undone is gone, first from what is stored, then from what runs.
Undone(p) ==
    /\ pc[p] \in {"rbApply", "rbVerify"} \/ res[p].rbLocal => Here(p) = NoVal
    /\ pc[p] = "rbVerify" \/ res[p].rbLocal => Runs(p) = NoVal

\* What the end of a request says of the peer.
Arrived(p) ==
    pc[p] = "final" /\ HasPeer
      => (res[p].ok => There(p) = req[p].val) /\ (res[p].rbVerified => There(p) = NoVal)

\* The revision that ReadCurrent compared is the one that the POST replaces.
Revised(p) ==
    pc[p] \in {"last", "peerRev", "mutate"} /\ req[p].action # "create" => Here(p) = req[p].rev

\* The only row of the peer is the one that the master has no more.
Leftover(p) ==
    pc[p] \in {"cleanIntent", "cleanDelete"}
      => Present(req[p].client) = {} /\ Present(req[p].peer) = {req[p].uuid}

Known(p) ==
    pc[p] \in Critical
      => /\ Undisturbed(p, "data") => Achieved(p) /\ Undone(p) /\ Arrived(p)
         /\ Undisturbed(p, "check") => Revised(p) /\ Leftover(p)
         /\ Undisturbed(p, "ha") => (pc[p] = "push" => SamePlan(p))

Local(p) == Course(p) /\ Known(p)

Inv == Typed /\ LockInv /\ AuditInv /\ \A p \in Procs : Local(p)

-----------------------------------------------------------------------------
(* The pair, and the requests that stand aside *)

LEMMA PairFacts ==
    ASSUME Typed, LockInv, NEW p \in Procs, pc[p] \in Critical
    PROVE  /\ req[p].client \in Nodes
           /\ HasPeer => /\ req[p].peer \in Nodes /\ req[p].client # req[p].peer
                         /\ Other(req[p].client) = req[p].peer
           /\ ~HasPeer => req[p].peer = NoNode
<1> DEFINE c == req[p].client
           q == req[p].peer
<1>1. c \in Nodes /\ q \in Peers
  BY DEF Typed, TypeOK, Request
<1>2. {c, q} = ThePair
  BY DEF LockInv, LockKey
<1>3. CASE HasPeer
  <2>1. PICK a, b \in Nodes : a # b /\ Nodes = {a, b}
    BY <1>3, PairAssumption
  <2>2. q \in Nodes /\ c # q /\ Nodes = {c, q}
    BY <1>2, <1>3, <2>1 DEF ThePair
  <2>3. Other(c) = q
    <3>1. \E m \in Nodes : m # c
      BY <2>2
    <3>2. Other(c) \in Nodes /\ Other(c) # c
      BY <3>1 DEF Other
    <3> QED BY <2>2, <3>2
  <2> QED BY <1>1, <1>3, <2>2, <2>3
<1>4. CASE ~HasPeer
  BY <1>1, <1>2, <1>4, ConstantsAssumption DEF ThePair
<1> QED BY <1>1, <1>3, <1>4

\* Whoever is past the lock is there alone.
LEMMA AloneFacts ==
    ASSUME Typed, LockInv, NEW p \in Procs, NEW r \in Procs \ {p}, pc[p] \in Critical
    PROVE  pc[r] \notin Critical
  BY DEF LockInv

\* A request that holds no lock and does not move learns nothing new.
LEMMA AsideLocal ==
    ASSUME NEW r \in Procs, Local(r), pc[r] \notin Critical,
           pc'[r] = pc[r], res'[r] = res[r], req'[r] = req[r], ctl'[r] = ctl[r]
    PROVE  Local(r)'
<1>1. Known(r)'
  BY DEF Known
<1>2. Course(r)'
  BY DEF Local, Course, Fresh, Forward, Backward, XmlrpcOnly, PrePost, SyncStages, RollbackStages, LastStages
<1> QED BY <1>1, <1>2 DEF Local

LEMMA InnerLocal ==
    ASSUME Inv, NEW p \in Procs, Inner(p), Local(p)', \A r \in Procs \ {p} : ctl'[r] = ctl[r]
    PROVE  \A r \in Procs : Local(r)'
<1>1. ASSUME NEW r \in Procs \ {p} PROVE Local(r)'
  <2>1. pc[r] \notin Critical
    BY AloneFacts DEF Inv, Inner
  <2>2. pc'[r] = pc[r] /\ res'[r] = res[r] /\ req'[r] = req[r] /\ ctl'[r] = ctl[r]
    BY DEF Inner, Progress
  <2> QED BY <2>1, <2>2, AsideLocal DEF Inv
<1> QED BY <1>1

-----------------------------------------------------------------------------
(* What a POST does to the nodes *)

\* The node that a POST writes.
Writes(op) == IF op.kind = "push" THEN Other(op.node) ELSE op.node

LEMMA PostElsewhere ==
    ASSUME TypeOK, NEW op \in Op, NEW e, NEW n \in Nodes, n # Writes(op),
           Executed(op) \/ FailedPost(op, e) \/ Ignored
    PROVE  conf'[n] = conf[n] /\ run'[n] = run[n]
<1>1. CASE UNCHANGED <<conf, run>>
  BY <1>1
<1>2. CASE conf' = ConfAfter(op) /\ run' = RunAfter(op)
  <2>0. conf \in [Nodes -> Objects] /\ run \in [Nodes -> Objects]
    BY DEF TypeOK
  <2>1. ConfAfter(op)[n] = conf[n]
    BY <2>0 DEF ConfAfter, Writes
  <2>2. RunAfter(op)[n] = run[n]
    BY <2>0 DEF RunAfter, Writes
  <2> QED BY <1>2, <2>1, <2>2
<1> QED BY <1>1, <1>2 DEF Executed, FailedPost, Ignored, Delayed, data

LEMMA SetEffect ==
    ASSUME TypeOK, NEW op \in Op, op.kind \in {"add", "set"}, Executed(op)
    PROVE  /\ conf' = [conf EXCEPT ![op.node][op.id] = op.val]
           /\ conf'[op.node][op.id] = op.val /\ run' = run
<1>1. op.node \in Nodes /\ op.id \in Ids
  BY DEF Op
<1>2. conf' = [conf EXCEPT ![op.node][op.id] = op.val]
  BY DEF Executed, ConfAfter
<1>3. run' = run
  BY DEF Executed, RunAfter
<1> QED BY <1>1, <1>2, <1>3 DEF TypeOK, Objects

LEMMA ApplyEffect ==
    ASSUME TypeOK, NEW op \in Op, op.kind = "apply", NEW e, Executed(op) \/ FailedPost(op, e)
    PROVE  /\ conf' = conf
           /\ run'[op.node] = conf[op.node] \/ run'[op.node] = run[op.node]
           /\ Executed(op) => run'[op.node] = conf[op.node]
<1>1. op.node \in Nodes
  BY DEF Op
<1>2. ConfAfter(op) = conf /\ RunAfter(op)[op.node] = conf[op.node]
  BY <1>1 DEF ConfAfter, RunAfter, TypeOK
<1> QED BY <1>2 DEF Executed, FailedPost, Ignored, Delayed, data

-----------------------------------------------------------------------------
(* How a request leaves its way forward *)

LEMMA FailFields ==
    ASSUME Typed, NEW p \in Procs, NEW e, Fail(p, e)
    PROVE  /\ res'[p].rollback = RollsBack(p, e) /\ res'[p].error = ErrorOf(e)
           /\ res'[p].ok = res[p].ok /\ res'[p].applied = res[p].applied
           /\ res'[p].rbLocal = res[p].rbLocal /\ res'[p].rbVerified = res[p].rbVerified
           /\ pc'[p] = (IF RollsBack(p, e) THEN "rbDelete" ELSE "final")
  BY DEF Fail, Goto, Typed, TypeOK, Result

LEMMA SyncFields ==
    ASSUME Typed, NEW p \in Procs, NEW v, SyncReturns(p, v)
    PROVE  /\ pc'[p] = "final"
           /\ res'[p].rollback = res[p].rollback /\ res'[p].applied = res[p].applied
           /\ res'[p].rbLocal = res[p].rbLocal
           /\ res[p].rollback => /\ res'[p].error = res[p].error /\ res'[p].ok = res[p].ok
                                 /\ res'[p].rbVerified => res[p].rbLocal /\ v = "verified"
           /\ ~res[p].rollback => /\ res'[p].ok => v = "verified"
                                  /\ res'[p].rbVerified = res[p].rbVerified
<1>t. res \in [Procs -> Result] /\ res[p] \in Result /\ pc \in [Procs -> Stages]
  BY DEF Typed, TypeOK
<1>1. CASE res[p].rollback
  BY <1>1, <1>t DEF SyncReturns, Goto, Result
<1>2. CASE ~res[p].rollback
  BY <1>2, <1>t DEF SyncReturns, Goto, Result
<1> QED BY <1>1, <1>2

\* A failure before the first POST is acknowledged undoes nothing and claims nothing.
LEMMA FailsEarly ==
    ASSUME Inv, NEW p \in Procs, NEW e, Fail(p, e), pc[p] \in Critical \cap PrePost,
           req' = req, ctl' = ctl
    PROVE  Local(p)'
<1>1. ~ctl[p].accepted /\ ~res[p].ok
  BY DEF Inv, Typed, StageInv, AuditInv, AuditOf, PrePost
<1>2. /\ pc'[p] = "final" /\ ~res'[p].rollback /\ ~res'[p].ok /\ ~res'[p].rbLocal
      /\ ~res'[p].rbVerified
  BY <1>1, FailFields DEF RollsBack, Inv, Local, Course, Fresh
<1>3. Course(p)'
  BY <1>1, <1>2 DEF Inv, Local, Course, Fresh, Forward, Backward, XmlrpcOnly, PrePost, SyncStages,
                    RollbackStages, LastStages
<1>4. Known(p)'
  BY <1>1, <1>2 DEF Known, Achieved, Undone, Arrived, Revised, Leftover
<1> QED BY <1>3, <1>4 DEF Local

\* A failure after it undoes the create or leaves what was stored.
LEMMA FailsLate ==
    ASSUME Inv, NEW p \in Procs, NEW e, Fail(p, e), pc[p] \in {"apply", "verify"},
           req' = req, ctl' = ctl, foreign' = foreign, conf' = conf,
           \/ run'[req[p].client] = run[req[p].client]
           \/ run'[req[p].client] = conf[req[p].client]
    PROVE  Local(p)'
<1>1. ctl[p].accepted /\ ~res[p].rollback /\ ~res[p].rbLocal /\ ~res[p].rbVerified /\ ~res[p].ok
  BY DEF Inv, Local, Course, Forward, AuditInv, AuditOf, Critical
<1>2. /\ pc'[p] \in {"rbDelete", "final"} /\ ~res'[p].ok /\ ~res'[p].rbLocal /\ ~res'[p].rbVerified
      /\ pc'[p] = "rbDelete" => res'[p].rollback
      /\ res'[p].rollback => res'[p].error \in {"validation", "upstream"}
      /\ res'[p].applied = res[p].applied
  <2>1. /\ res'[p].rollback = RollsBack(p, e) /\ res'[p].error = ErrorOf(e)
        /\ res'[p].ok = res[p].ok /\ res'[p].applied = res[p].applied
        /\ res'[p].rbLocal = res[p].rbLocal /\ res'[p].rbVerified = res[p].rbVerified
        /\ pc'[p] = (IF RollsBack(p, e) THEN "rbDelete" ELSE "final")
    BY FailFields DEF Inv
  <2>2. RollsBack(p, e) => ErrorOf(e) \in {"validation", "upstream"}
    BY DEF RollsBack, ErrorOf, Rejections
  <2>3. RollsBack(p, e) \in BOOLEAN
    BY DEF RollsBack
  <2> QED
    BY <1>1, <2>1, <2>2, <2>3
<1>3. ctl[p].expect = req[p].val
  BY <1>1 DEF Inv, Local, Course, Forward, Critical
<1>4. Course(p)'
  BY <1>1, <1>2, <1>3 DEF Inv, Local, Course, Fresh, Forward, Backward, XmlrpcOnly, PrePost, SyncStages,
                    RollbackStages, LastStages
<1>5. Known(p)'
  <2>1. ASSUME Undisturbed(p, "data") PROVE Achieved(p)'
    <3>1. Achieved(p)
      BY <2>1 DEF Inv, Local, Known, Critical
    <3> QED BY <1>1, <1>2, <3>1 DEF Achieved, Here, Runs
  <2>2. Undone(p)' /\ Arrived(p)' /\ Revised(p)' /\ Leftover(p)'
    BY <1>2 DEF Undone, Arrived, Revised, Leftover
  <2> QED BY <1>2, <2>1, <2>2 DEF Known, Undisturbed
<1> QED BY <1>4, <1>5 DEF Local

\* The end of a synchronization, successful or not, after a write or an undo.
LEMMA SyncEnds ==
    ASSUME Inv, NEW p \in Procs, NEW v, SyncReturns(p, v), pc[p] \in SyncStages,
           req' = req, foreign'[p] = foreign[p], ctl'[p].accepted = ctl[p].accepted,
           ctl'[p].expect = ctl[p].expect, ctl'[p].peerRev = ctl[p].peerRev,
           conf'[req[p].client] = conf[req[p].client], run'[req[p].client] = run[req[p].client],
           v = "verified" => conf'[req[p].peer][req[p].uuid] = ctl[p].expect
    PROVE  Local(p)'
<1>0. Local(p) /\ Course(p) /\ Known(p) /\ pc[p] \in Critical
  BY DEF Inv, Local, SyncStages, Critical
<1>1. /\ ~res[p].ok /\ ~res[p].rbVerified
      /\ IF res[p].rollback THEN ctl[p].expect = NoVal
                            ELSE ctl[p].accepted /\ res[p].applied /\ ctl[p].expect = req[p].val
      /\ res[p].rbLocal => res[p].rollback
      /\ res[p].rollback => res[p].error \in {"validation", "upstream"}
  BY <1>0 DEF Inv, Course, Forward, Backward, AuditInv, AuditOf, SyncStages
<1>2. /\ pc'[p] = "final"
      /\ res'[p].rollback = res[p].rollback /\ res'[p].applied = res[p].applied
      /\ res'[p].rbLocal = res[p].rbLocal
      /\ res[p].rollback => res'[p].error = res[p].error
      /\ res'[p].ok => ~res[p].rollback /\ v = "verified"
      /\ res'[p].rbVerified => res[p].rollback /\ res[p].rbLocal /\ v = "verified"
  BY <1>1, SyncFields DEF Inv
<1>3. Course(p)'
  BY <1>0, <1>1, <1>2 DEF Course, Fresh, Forward, Backward, XmlrpcOnly, PrePost, SyncStages,
                    RollbackStages, LastStages
<1>4. Known(p)'
  <2>1. ASSUME Undisturbed(p, "data") PROVE Achieved(p)' /\ Undone(p)' /\ Arrived(p)'
    <3>1. Achieved(p) /\ Undone(p)
      BY <1>0, <2>1 DEF Known
    <3>2. Achieved(p)'
      BY <1>2, <3>1 DEF Achieved, Here, Runs
    <3>3. Undone(p)'
      BY <1>2, <3>1 DEF Undone, Here, Runs
    <3>4. Arrived(p)'
      BY <1>1, <1>2 DEF Arrived, There
    <3> QED BY <3>2, <3>3, <3>4
  <2>2. Revised(p)' /\ Leftover(p)'
    BY <1>2 DEF Revised, Leftover
  <2> QED BY <1>2, <2>1, <2>2 DEF Known, Undisturbed
<1> QED BY <1>3, <1>4 DEF Local

\* A step of a synchronization that leaves the master's own node alone.
LEMMA SyncGoes ==
    ASSUME Inv, NEW p \in Procs, NEW s \in SyncStages, Goto(p, s), res' = res, pc[p] \in SyncStages,
           req' = req, ctl'[p].accepted = ctl[p].accepted,
           ctl'[p].expect = ctl[p].expect, ctl'[p].peerRev = ctl[p].peerRev,
           Undisturbed(p, "data")' => Undisturbed(p, "data"),
           conf'[req[p].client] = conf[req[p].client], run'[req[p].client] = run[req[p].client],
           s \in LastStages => /\ HaMode = "xmlrpc_pf" /\ Resource = "port_forward"
                               /\ ctl[p].expect = NoVal,
           s = "push" => HaMode = "xmlrpc_pf",
           Undisturbed(p, "check")' => Leftover(p)',
           Undisturbed(p, "ha")' => (s = "push" => SamePlan(p)')
    PROVE  Local(p)'
<1>0. /\ Local(p) /\ Course(p) /\ Known(p) /\ pc[p] \in Critical
      /\ pc'[p] = s
  BY DEF Inv, Local, SyncStages, Critical, Typed, TypeOK, Goto
<1>1. /\ ~res[p].rbVerified
      /\ IF res[p].rollback THEN ctl[p].expect = NoVal
                            ELSE ctl[p].accepted /\ res[p].applied /\ ctl[p].expect = req[p].val
      /\ res[p].rbLocal => res[p].rollback
      /\ res[p].rollback => res[p].error \in {"validation", "upstream"}
      /\ ctl[p].peerRev # NoVal => HaMode = "xmlrpc_pf" /\ Resource = "port_forward"
  BY <1>0 DEF Course, Forward, Backward, XmlrpcOnly, SyncStages
<1>2. /\ Fresh(p)' /\ Forward(p)'
  BY <1>0, <1>1 DEF Fresh, Forward, PrePost, SyncStages
<1>3. Backward(p)' /\ XmlrpcOnly(p)'
  BY <1>0, <1>1 DEF Backward, XmlrpcOnly, RollbackStages, SyncStages
<1>4. ASSUME Undisturbed(p, "data")' PROVE Achieved(p)' /\ Undone(p)' /\ Arrived(p)'
  <2>1. Achieved(p) /\ Undone(p)
    BY <1>0, <1>4 DEF Known
  <2>2. Achieved(p)'
    BY <2>1 DEF Achieved, Here, Runs
  <2>3. Undone(p)'
    BY <1>0, <2>1 DEF Undone, Here, Runs, SyncStages
  <2>4. Arrived(p)'
    BY <1>0 DEF Arrived, SyncStages
  <2> QED BY <2>2, <2>3, <2>4
<1>5. Revised(p)'
  BY <1>0 DEF Revised, SyncStages
<1>6. Known(p)'
  BY <1>0, <1>4, <1>5 DEF Known
<1> QED BY <1>2, <1>3, <1>6 DEF Local, Course

-----------------------------------------------------------------------------
(* The invariant: one lemma per group of actions *)

LEMMA BeforeLocal ==
    ASSUME Inv, NEW p \in Procs, NEW s \in PrePost, Goto(p, s), res' = res,
           pc[p] \in PrePost \ {"mutate"}, req' = req, ctl'[p].accepted = ctl[p].accepted,
           ctl'[p].expect = ctl[p].expect,
           s \in LastStages \/ ctl'[p].peerRev # NoVal
             => HaMode = "xmlrpc_pf" /\ Resource = "port_forward",
           Undisturbed(p, "check")' => Revised(p)'
    PROVE  Local(p)'
<1>0. /\ Course(p) /\ ~ctl[p].accepted /\ pc'[p] = s
  BY DEF Inv, Local, Typed, StageInv, TypeOK, Goto
<1>1. Fresh(p)' /\ XmlrpcOnly(p)'
  BY <1>0 DEF Course, Fresh, XmlrpcOnly, PrePost, SyncStages
<1>2. Forward(p)' /\ Backward(p)'
  BY <1>0 DEF Course, Fresh, Forward, Backward, PrePost, SyncStages, RollbackStages, Critical
<1>3. Known(p)'
  BY <1>0 DEF Course, Fresh, Known, Achieved, Undone, Arrived, Leftover, PrePost
<1> QED BY <1>1, <1>2, <1>3 DEF Local, Course

LEMMA IntentLocal ==
    ASSUME Inv, NEW p \in Procs, Acquire(p) \/ Intent(p)
    PROVE  Local(p)'
<1>1. CASE Acquire(p)
  <2>1. Revised(p)'
    BY <1>1 DEF Acquire, Goto, Revised, Inv, Typed, TypeOK
  <2> QED
    BY <1>1, <2>1, BeforeLocal DEF Acquire, PrePost, LastStages, Inv, Local, Course, XmlrpcOnly
<1>2. CASE Intent(p) /\ Fail(p, "oserror")
  BY <1>2, FailsEarly DEF Intent, PrePost, Critical
<1>3. CASE Intent(p) /\ Goto(p, "preflight") /\ res' = res
  <2>1. Revised(p)'
    BY <1>3 DEF Goto, Revised, Inv, Typed, TypeOK
  <2> QED
    BY <1>3, <2>1, BeforeLocal DEF Intent, PrePost, LastStages, Inv, Local, Course, XmlrpcOnly
<1> QED BY <1>1, <1>2, <1>3 DEF Intent, IntentLost

LEMMA PreflightLocal ==
    ASSUME Inv, NEW p \in Procs, Preflight(p)
    PROVE  Local(p)' /\ \A r \in Procs \ {p} : ctl'[r] = ctl[r]
<1>t. ctl \in [Procs -> Control] /\ ctl[p] \in Control /\ pc \in [Procs -> Stages]
  BY DEF Inv, Typed, TypeOK
<1>1. CASE \E e \in Transport \cup {"ha_unsafe"} : Fail(p, e) /\ ctl' = ctl
  BY <1>1, FailsEarly DEF Preflight, PrePost, Critical
<1>2. CASE /\ Goto(p, IF req[p].action = "create" THEN "mutate" ELSE "read") /\ res' = res
           /\ ctl' = [ctl EXCEPT ![p].plan = IF NeedsPreflight(p) THEN PlanOf(req[p].client) ELSE NoPlan]
  <2> DEFINE s == IF req[p].action = "create" THEN "mutate" ELSE "read"
  <2>0. s \in PrePost /\ s \notin LastStages /\ pc'[p] = s /\ req' = req /\ pc[p] \in PrePost \ {"mutate"}
    BY <1>2, <1>t DEF Preflight, PrePost, LastStages, Goto
  <2>1. Revised(p)'
    BY <2>0 DEF Revised
  <2>2. /\ ctl'[p].accepted = ctl[p].accepted /\ ctl'[p].expect = ctl[p].expect
        /\ ctl'[p].peerRev = ctl[p].peerRev /\ \A r \in Procs \ {p} : ctl'[r] = ctl[r]
    BY <1>2, <1>t DEF Control
  <2>3. ctl[p].peerRev # NoVal => HaMode = "xmlrpc_pf" /\ Resource = "port_forward"
    BY DEF Inv, Local, Course, XmlrpcOnly
  <2> HIDE DEF s
  <2>4. Goto(p, s)
    BY <1>2 DEF s
  <2> QED
    BY <1>2, <2>0, <2>1, <2>2, <2>3, <2>4, BeforeLocal
<1> QED BY <1>1, <1>2 DEF Preflight

LEMMA ReadsLocal ==
    ASSUME Inv, NEW p \in Procs, ReadCurrent(p) \/ CheckLast(p) \/ ReadPeerRevision(p)
    PROVE  Local(p)' /\ \A r \in Procs \ {p} : ctl'[r] = ctl[r]
<1>t. ctl \in [Procs -> Control] /\ ctl[p] \in Control /\ pc \in [Procs -> Stages]
  BY DEF Inv, Typed, TypeOK
<1>c. /\ Course(p) /\ Known(p) /\ UNCHANGED <<conf, run, req>>
      /\ pc[p] \in {"read", "last", "peerRev"}
      /\ ctl[p].peerRev # NoVal => HaMode = "xmlrpc_pf" /\ Resource = "port_forward"
      /\ pc[p] \in LastStages => HaMode = "xmlrpc_pf" /\ Resource = "port_forward"
  BY DEF Inv, Local, Course, XmlrpcOnly, ReadCurrent, CheckLast, ReadPeerRevision, data
<1>1. CASE \E e : Fail(p, e) /\ ctl' = ctl
  BY <1>1, <1>c, FailsEarly DEF PrePost, Critical
<1>2. ASSUME ReadCurrent(p), SameRevision(p, Here(p)), NEW s \in {"last", "mutate"}, Goto(p, s), res' = res,
             s = "last" => Resource = "port_forward" /\ NeedsPreflight(p)
      PROVE  Local(p)' /\ ctl' = ctl
  <2>1. Revised(p)'
    BY <1>2, <1>c DEF Revised, Here, SameRevision
  <2>2. s \in LastStages => HaMode = "xmlrpc_pf" /\ Resource = "port_forward"
    BY <1>2 DEF NeedsPreflight, LastStages
  <2>3. s \in PrePost /\ pc[p] \in PrePost \ {"mutate"} /\ ctl' = ctl
    BY <1>2, <1>c DEF ReadCurrent, PrePost
  <2> QED BY <1>2, <1>c, <2>1, <2>2, <2>3, BeforeLocal
<1>3. CASE CheckLast(p) /\ \E s \in {"peerRev", "mutate"} : Goto(p, s) /\ res' = res
  <2>1. PICK s \in {"peerRev", "mutate"} : Goto(p, s)
    BY <1>3
  <2>2. pc[p] = "last" /\ ctl' = ctl /\ foreign' = foreign /\ res' = res
    BY <1>3, <2>1 DEF CheckLast, Fail, Goto
  <2>3. ASSUME Undisturbed(p, "check") PROVE Revised(p)'
    <3>1. Revised(p)
      BY <2>2, <2>3, <1>c DEF Known, Critical
    <3> QED BY <2>2, <3>1, <1>c DEF Revised, Here
  <2>4. s \in PrePost /\ pc[p] \in PrePost \ {"mutate"} /\ pc[p] \in LastStages
    BY <2>1, <2>2 DEF PrePost, LastStages
  <2> QED BY <1>c, <2>1, <2>2, <2>3, <2>4, BeforeLocal DEF Undisturbed
<1>4. CASE ReadPeerRevision(p) /\ ~\E e : Fail(p, e) /\ ctl' = ctl
  <2>1. /\ pc[p] = "peerRev" /\ foreign' = foreign /\ res' = res /\ Goto(p, "mutate")
        /\ ctl' = [ctl EXCEPT ![p].peerRev = conf[req[p].peer][req[p].uuid]]
    BY <1>4 DEF ReadPeerRevision
  <2>2. /\ ctl'[p].accepted = ctl[p].accepted /\ ctl'[p].expect = ctl[p].expect
        /\ \A r \in Procs \ {p} : ctl'[r] = ctl[r]
    BY <2>1, <1>t DEF Control
  <2>3. ASSUME Undisturbed(p, "check") PROVE Revised(p)'
    <3>1. Revised(p)
      BY <2>1, <2>3, <1>c DEF Known, Critical
    <3> QED BY <2>1, <3>1, <1>c DEF Revised, Here
  <2>4. "mutate" \in PrePost /\ pc[p] \in PrePost \ {"mutate"} /\ pc[p] \in LastStages
    BY <2>1 DEF PrePost, LastStages
  <2> QED BY <1>c, <2>1, <2>2, <2>3, <2>4, BeforeLocal DEF Undisturbed
<1>5. ASSUME ReadCurrent(p) PROVE Local(p)' /\ ctl' = ctl
  <2>1. CASE \E e : Fail(p, e)
    BY <1>1, <1>5, <2>1 DEF ReadCurrent
  <2> DEFINE s == IF req[p].action = "delete" /\ Resource = "port_forward" /\ NeedsPreflight(p)
                    THEN "last" ELSE "mutate"
  <2>2. CASE SameRevision(p, Here(p)) /\ Goto(p, s) /\ res' = res
    <3>1. s \in {"last", "mutate"} /\ (s = "last" => Resource = "port_forward" /\ NeedsPreflight(p))
      OBVIOUS
    <3> HIDE DEF s
    <3> QED BY <1>2, <1>5, <2>2, <3>1
  <2> QED BY <1>5, <2>1, <2>2 DEF ReadCurrent, Here
<1>6. CheckLast(p) => (\E e : Fail(p, e) /\ ctl' = ctl) \/ \E s \in {"peerRev", "mutate"} : Goto(p, s) /\ res' = res
  BY DEF CheckLast
<1> QED BY <1>1, <1>3, <1>4, <1>5, <1>6

\* The first POST was acknowledged.
LEMMA AcceptedLocal ==
    ASSUME Inv, NEW p \in Procs, pc[p] = "mutate", Goto(p, "apply"), res' = res,
           req'[p].client = req[p].client, req'[p].val = req[p].val,
           ctl' = [ctl EXCEPT ![p].accepted = TRUE],
           conf'[req[p].client][req'[p].uuid] = req[p].val
    PROVE  Local(p)' /\ \A r \in Procs \ {p} : ctl'[r] = ctl[r]
<1>t. ctl \in [Procs -> Control] /\ ctl[p] \in Control /\ pc \in [Procs -> Stages]
  BY DEF Inv, Typed, TypeOK
<1>0. /\ ctl'[p].accepted /\ ctl'[p].expect = ctl[p].expect /\ ctl'[p].peerRev = ctl[p].peerRev
      /\ \A r \in Procs \ {p} : ctl'[r] = ctl[r]
      /\ pc'[p] = "apply"
  BY <1>t DEF Control, Goto
<1>1. /\ ~res[p].applied /\ ~res[p].rollback /\ ~res[p].rbLocal /\ ~res[p].rbVerified
      /\ ctl[p].expect = req[p].val
      /\ ctl[p].peerRev # NoVal => HaMode = "xmlrpc_pf" /\ Resource = "port_forward"
  BY DEF Inv, Local, Course, Fresh, Forward, XmlrpcOnly, PrePost, Critical
<1>2. Fresh(p)' /\ Forward(p)'
  BY <1>0, <1>1 DEF Fresh, Forward, PrePost, SyncStages
<1>3. Backward(p)' /\ XmlrpcOnly(p)'
  BY <1>0, <1>1 DEF Backward, XmlrpcOnly, RollbackStages, LastStages
<1>4. Known(p)'
  BY <1>0, <1>1 DEF Known, Achieved, Here, Runs, Undone, Arrived, Revised, Leftover
<1> QED BY <1>0, <1>2, <1>3, <1>4 DEF Local, Course

LEMMA WriteLocal ==
    ASSUME Inv, NEW p \in Procs, PostCreate(p) \/ PostChange(p)
    PROVE  Local(p)' /\ \A r \in Procs \ {p} : ctl'[r] = ctl[r]
<1>t. TypeOK /\ req \in [Procs -> Request] /\ req[p] \in Request /\ ctl[p] \in Control
  BY DEF Inv, Typed, TypeOK
<1>0. pc[p] = "mutate"
  BY DEF PostCreate, PostChange
<1>1. ASSUME NEW e, Fail(p, e), req' = req, ctl' = ctl
      PROVE  Local(p)'
  BY <1>0, <1>1, FailsEarly DEF PrePost, Critical
<1>2. ASSUME NEW u \in Ids,
             Executed([kind |-> "add", node |-> req[p].client, id |-> u, val |-> req[p].val]),
             req' = [req EXCEPT ![p].uuid = u], ctl' = [ctl EXCEPT ![p].accepted = TRUE],
             Goto(p, "apply"), res' = res
      PROVE  Local(p)' /\ \A r \in Procs \ {p} : ctl'[r] = ctl[r]
  <2> DEFINE op == [kind |-> "add", node |-> req[p].client, id |-> u, val |-> req[p].val]
  <2>1. op \in Op
    BY <1>t DEF Op, Request
  <2>2. conf'[req[p].client][u] = req[p].val
    BY <1>t, <1>2, <2>1, SetEffect
  <2>3. req'[p].client = req[p].client /\ req'[p].val = req[p].val /\ req'[p].uuid = u
    BY <1>t, <1>2 DEF Request
  <2> QED BY <1>0, <1>2, <2>2, <2>3, AcceptedLocal
<1>3. ASSUME PostChange(p), ctl' = [ctl EXCEPT ![p].accepted = TRUE], Goto(p, "apply"), res' = res,
             Executed([kind |-> "set", node |-> req[p].client, id |-> req[p].uuid, val |-> ctl[p].expect])
      PROVE  Local(p)' /\ \A r \in Procs \ {p} : ctl'[r] = ctl[r]
  <2> DEFINE op == [kind |-> "set", node |-> req[p].client, id |-> req[p].uuid, val |-> ctl[p].expect]
  <2>0. req[p].action # "create" /\ req' = req /\ req[p].uuid \in Ids /\ ctl[p].expect = req[p].val
    BY <1>0, <1>3 DEF PostChange, Inv, Typed, StageInv, PrePost, Local, Course, Fresh, Forward, Critical
  <2>1. op \in Op
    BY <1>t, <2>0 DEF Op, Request, Control
  <2>2. conf'[req[p].client][req[p].uuid] = req[p].val
    BY <1>t, <1>3, <2>0, <2>1, SetEffect
  <2> QED BY <1>0, <1>3, <2>0, <2>2, AcceptedLocal
<1>4. CASE PostCreate(p)
  BY <1>1, <1>2, <1>4 DEF PostCreate
<1>5. CASE PostChange(p)
  <2>1. req' = req
    BY <1>5 DEF PostChange
  <2> QED BY <1>1, <1>3, <1>5, <2>1 DEF PostChange
<1> QED BY <1>4, <1>5

LEMMA ApplyLocal ==
    ASSUME Inv, NEW p \in Procs, PostApply(p)
    PROVE  Local(p)'
<1> DEFINE op == [kind |-> "apply", node |-> req[p].client]
<1>t. /\ TypeOK /\ req[p] \in Request /\ res \in [Procs -> Result] /\ res[p] \in Result
      /\ pc \in [Procs -> Stages]
  BY DEF Inv, Typed, TypeOK
<1>0. op \in Op /\ op.kind = "apply" /\ op.node = req[p].client
  BY <1>t DEF Op, Request
<1>c. pc[p] = "apply" /\ UNCHANGED <<req, ctl, foreign>> /\ Course(p) /\ Known(p)
  BY DEF PostApply, Inv, Local
<1> HIDE DEF op
<1>1. ASSUME NEW e, FailedPost(op, e), Fail(p, e)
      PROVE  Local(p)'
  <2>1. conf' = conf /\ (run'[req[p].client] = conf[req[p].client] \/ run'[req[p].client] = run[req[p].client])
    BY <1>t, <1>0, <1>1, ApplyEffect
  <2> QED BY <1>1, <1>c, <2>1, FailsLate
<1>2. ASSUME Executed(op), res' = [res EXCEPT ![p].applied = TRUE], Goto(p, "verify")
      PROVE  Local(p)'
  <2>1. conf' = conf /\ run'[req[p].client] = conf[req[p].client]
    BY <1>t, <1>0, <1>2, ApplyEffect
  <2>2. /\ pc'[p] = "verify" /\ res'[p].applied /\ res'[p].rollback = res[p].rollback
        /\ res'[p].rbLocal = res[p].rbLocal /\ res'[p].rbVerified = res[p].rbVerified
    BY <1>t, <1>2 DEF Result, Goto
  <2>3. /\ ctl[p].accepted /\ ~res[p].rollback /\ ~res[p].rbLocal /\ ~res[p].rbVerified
        /\ ctl[p].expect = req[p].val
        /\ ctl[p].peerRev # NoVal => HaMode = "xmlrpc_pf" /\ Resource = "port_forward"
    BY <1>c DEF Course, Forward, XmlrpcOnly, Critical
  <2>4. Fresh(p)' /\ Forward(p)'
    BY <1>c, <2>2, <2>3 DEF Fresh, Forward, PrePost, SyncStages
  <2>5. Backward(p)' /\ XmlrpcOnly(p)'
    BY <1>c, <2>2, <2>3 DEF Backward, XmlrpcOnly, RollbackStages, LastStages
  <2>6. ASSUME Undisturbed(p, "data") PROVE Achieved(p)'
    <3>1. Here(p) = req[p].val
      BY <1>c, <2>3, <2>6 DEF Known, Achieved, Critical
    <3> QED BY <1>c, <2>1, <3>1 DEF Achieved, Here, Runs
  <2>7. Known(p)'
    BY <1>c, <2>2, <2>3, <2>6 DEF Known, Undisturbed, Undone, Arrived, Revised, Leftover
  <2> QED BY <2>4, <2>5, <2>7 DEF Local, Course
<1>3. PostApply(p) => \/ Executed(op) /\ res' = [res EXCEPT ![p].applied = TRUE] /\ Goto(p, "verify")
                      \/ \E e : FailedPost(op, e) /\ Fail(p, e)
  BY Zenon DEF PostApply, op
<1> QED BY <1>1, <1>2, <1>3

LEMMA ReadbackLocal ==
    ASSUME Inv, NEW p \in Procs, Readback(p)
    PROVE  Local(p)'
<1>t. res \in [Procs -> Result] /\ res[p] \in Result /\ pc \in [Procs -> Stages]
  BY DEF Inv, Typed, TypeOK
<1>c. pc[p] = "verify" /\ UNCHANGED <<conf, run, req, ctl, foreign>> /\ Course(p) /\ Known(p)
  BY DEF Readback, Inv, Local, data
<1>1. ASSUME NEW e, Fail(p, e) PROVE Local(p)'
  BY <1>1, <1>c, FailsLate
<1>2. ASSUME res' = [res EXCEPT ![p].verified = TRUE, ![p].ok = (req[p].peer = NoNode)],
             Goto(p, IF req[p].peer = NoNode THEN "final" ELSE "sync")
      PROVE  Local(p)'
  <2>1. /\ pc'[p] = (IF req[p].peer = NoNode THEN "final" ELSE "sync")
        /\ res'[p].rollback = res[p].rollback /\ res'[p].applied = res[p].applied
        /\ res'[p].rbLocal = res[p].rbLocal /\ res'[p].rbVerified = res[p].rbVerified
    BY <1>t, <1>2 DEF Result, Goto
  <2>2. /\ ctl[p].accepted /\ res[p].applied /\ ~res[p].rollback /\ ~res[p].rbLocal /\ ~res[p].rbVerified
        /\ ctl[p].expect = req[p].val
        /\ ctl[p].peerRev # NoVal => HaMode = "xmlrpc_pf" /\ Resource = "port_forward"
    BY <1>c DEF Course, Forward, XmlrpcOnly, Critical
  <2>3. req[p].peer = NoNode => ~HasPeer
    BY <1>c, PairFacts, ConstantsAssumption DEF Inv, Critical
  <2>4. Fresh(p)' /\ Forward(p)'
    BY <1>c, <2>1, <2>2 DEF Fresh, Forward, PrePost, SyncStages
  <2>5. Backward(p)' /\ XmlrpcOnly(p)'
    BY <1>c, <2>1, <2>2 DEF Backward, XmlrpcOnly, RollbackStages, LastStages
  <2>6. ASSUME Undisturbed(p, "data") PROVE Achieved(p)'
    <3>1. Achieved(p)
      BY <1>c, <2>6 DEF Known, Critical
    <3> QED BY <1>c, <2>1, <3>1 DEF Achieved, Here, Runs
  <2>7. Undone(p)' /\ Arrived(p)'
    BY <1>c, <2>1, <2>2, <2>3 DEF Undone, Arrived
  <2>8. Known(p)'
    BY <1>c, <2>1, <2>6, <2>7 DEF Known, Undisturbed, Revised, Leftover
  <2> QED BY <2>4, <2>5, <2>8 DEF Local, Course
<1> QED BY <1>1, <1>2 DEF Readback

LEMMA SamePlanStays ==
    ASSUME NEW p \in Procs, SamePlan(p), UNCHANGED world, req'[p] = req[p], ctl'[p].plan = ctl[p].plan
    PROVE  SamePlan(p)'
<1>1. hasync' = hasync /\ carp' = carp
  BY DEF world
<1>2. /\ VipSet(req[p].client)' = VipSet(req[p].client)
      /\ VipSet(req[p].peer)' = VipSet(req[p].peer)
  BY <1>1 DEF VipSet
<1>3. /\ AllVips(req[p].client, "MASTER")' = AllVips(req[p].client, "MASTER")
      /\ AllVips(req[p].peer, "BACKUP")' = AllVips(req[p].peer, "BACKUP")
  BY <1>1, <1>2 DEF AllVips
<1>4. PlanOf(req[p].client)' = PlanOf(req[p].client)
  BY <1>1, <1>2 DEF PlanOf
<1>5. PreflightOK(req[p].client, req[p].peer)'
  BY <1>1, <1>2, <1>3 DEF SamePlan, PreflightOK
<1> QED BY <1>4, <1>5 DEF SamePlan

LEMMA StartSyncLocal ==
    ASSUME Inv, NEW p \in Procs, StartSync(p)
    PROVE  Local(p)' /\ \A r \in Procs \ {p} : ctl'[r] = ctl[r]
<1>t. ctl \in [Procs -> Control] /\ ctl[p] \in Control /\ foreign \in [Procs -> SUBSET Disturbances]
  BY DEF Inv, Typed, TypeOK
<1>c. /\ pc[p] = "sync" /\ pc[p] \in SyncStages /\ UNCHANGED <<conf, run, req>> /\ UNCHANGED world
      /\ ctl'[p].accepted = ctl[p].accepted /\ ctl'[p].expect = ctl[p].expect
      /\ ctl'[p].peerRev = ctl[p].peerRev /\ ctl'[p].plan = ctl[p].plan
      /\ \A r \in Procs \ {p} : ctl'[r] = ctl[r]
  BY <1>t DEF StartSync, SyncStages, data, Control
<1>1. CASE HaMode = "xmlrpc_pf" /\ SamePlan(p) /\ Checked(p, "ha") /\ Goto(p, "push") /\ res' = res
  <2>1. Undisturbed(p, "data")' => Undisturbed(p, "data")
    BY <1>1, <1>t DEF Checked, Undisturbed
  <2>2. SamePlan(p)'
    BY <1>1, <1>c, SamePlanStays
  <2>3. "push" \in SyncStages /\ "push" \notin LastStages
    BY DEF SyncStages, LastStages
  <2>4. Leftover(p)'
    BY <1>1 DEF Goto, Leftover, Inv, Typed, TypeOK
  <2> QED BY <1>1, <1>c, <2>1, <2>2, <2>3, <2>4, SyncGoes
<1>2. CASE SyncReturns(p, "unverified") /\ foreign' = foreign
  BY <1>2, <1>c, SyncEnds
<1>3. CASE Goto(p, "peerRead") /\ res' = res /\ foreign' = foreign
  <2>1. "peerRead" \in SyncStages /\ "peerRead" \notin LastStages
    BY DEF SyncStages, LastStages
  <2>2. Leftover(p)'
    BY <1>3 DEF Goto, Leftover, Inv, Typed, TypeOK
  <2> QED BY <1>3, <1>c, <2>1, <2>2, SyncGoes DEF Undisturbed
<1> QED BY <1>c, <1>1, <1>2, <1>3 DEF StartSync

LEMMA PushLocal ==
    ASSUME Inv, NEW p \in Procs, PostPush(p)
    PROVE  Local(p)'
<1> DEFINE op == [kind |-> "push", node |-> req[p].client]
           c == req[p].client
<1>t. TypeOK /\ req[p] \in Request
  BY DEF Inv, Typed, TypeOK
<1>c. /\ pc[p] = "push" /\ pc[p] \in SyncStages /\ pc[p] \in Critical
      /\ UNCHANGED <<req, ctl, foreign>> /\ HaMode = "xmlrpc_pf"
  BY DEF PostPush, SyncStages, Critical, Inv, Local, Course, XmlrpcOnly
<1>0. op \in Op /\ op.kind = "push" /\ op.node = c
  BY <1>t DEF Op, Request
<1>1. c \in Nodes /\ c # Writes(op)
  <2>1. c \in Nodes /\ c # Other(c)
    BY <1>c, PairFacts DEF Inv, HasPeer
  <2> QED BY <1>0, <2>1 DEF Writes
<1> HIDE DEF op
<1>2. ASSUME NEW e, Executed(op) \/ FailedPost(op, e) \/ Ignored
      PROVE  conf'[c] = conf[c] /\ run'[c] = run[c]
  BY <1>t, <1>0, <1>1, <1>2, PostElsewhere
<1>3. CASE (Executed(op) \/ Ignored) /\ Goto(p, "peerRead") /\ res' = res
  <2>1. "peerRead" \in SyncStages /\ "peerRead" \notin LastStages
    BY DEF SyncStages, LastStages
  <2>2. Leftover(p)'
    BY <1>3, <1>t DEF Goto, Leftover, TypeOK
  <2>3. conf'[c] = conf[c] /\ run'[c] = run[c]
    BY <1>2, <1>3
  <2> QED BY <1>3, <1>c, <2>1, <2>2, <2>3, SyncGoes DEF Undisturbed
<1>4. ASSUME NEW e, FailedPost(op, e), SyncReturns(p, "unverified")
      PROVE  Local(p)'
  <2>1. conf'[c] = conf[c] /\ run'[c] = run[c]
    BY <1>2, <1>4
  <2> QED BY <1>4, <1>c, <2>1, SyncEnds
<1>5. PostPush(p) => \/ (Executed(op) \/ Ignored) /\ Goto(p, "peerRead") /\ res' = res
                     \/ \E e : FailedPost(op, e) /\ SyncReturns(p, "unverified")
  BY Zenon DEF PostPush, op
<1> QED BY <1>3, <1>4, <1>5

LEMMA PeerReadLocal ==
    ASSUME Inv, NEW p \in Procs, PeerRead(p)
    PROVE  Local(p)' /\ \A r \in Procs \ {p} : ctl'[r] = ctl[r]
<1>t. ctl \in [Procs -> Control] /\ ctl[p] \in Control
  BY DEF Inv, Typed, TypeOK
<1>c. /\ pc[p] = "peerRead" /\ pc[p] \in SyncStages /\ UNCHANGED <<conf, run, req, foreign>>
      /\ ctl'[p].accepted = ctl[p].accepted /\ ctl'[p].expect = ctl[p].expect
      /\ ctl'[p].peerRev = ctl[p].peerRev
      /\ \A r \in Procs \ {p} : ctl'[r] = ctl[r]
  BY <1>t DEF PeerRead, SyncStages, data, Control
<1>1. CASE Verify(req[p].peer, req[p].uuid, ctl[p].expect) /\ SyncReturns(p, "verified")
  BY <1>1, <1>c, SyncEnds DEF Verify
<1>2. CASE SyncReturns(p, "unverified")
  BY <1>2, <1>c, SyncEnds
<1>3. CASE Goto(p, "peerRead") /\ res' = res
  <2>1. "peerRead" \in SyncStages /\ "peerRead" \notin LastStages
    BY DEF SyncStages, LastStages
  <2>2. Leftover(p)'
    BY <1>3 DEF Goto, Leftover, Inv, Typed, TypeOK
  <2> QED BY <1>3, <1>c, <2>1, <2>2, SyncGoes DEF Undisturbed
<1>4. CASE Goto(p, "cleanup") /\ res' = res /\ ctl[p].peerRev # NoVal /\ ctl[p].expect = NoVal
  <2>1. "cleanup" \in SyncStages
    BY DEF SyncStages
  <2>2. Leftover(p)'
    BY <1>4 DEF Goto, Leftover, Inv, Typed, TypeOK
  <2>3. HaMode = "xmlrpc_pf" /\ Resource = "port_forward"
    BY <1>4 DEF Inv, Local, Course, XmlrpcOnly
  <2> QED BY <1>4, <1>c, <2>1, <2>2, <2>3, SyncGoes DEF Undisturbed
<1> QED BY <1>c, <1>1, <1>2, <1>3, <1>4 DEF PeerRead

LEMMA QualifyLocal ==
    ASSUME Inv, NEW p \in Procs, QualifyCleanup(p) \/ CleanupIntent(p)
    PROVE  Local(p)'
<1>t. foreign \in [Procs -> SUBSET Disturbances] /\ pc \in [Procs -> Stages]
  BY DEF Inv, Typed, TypeOK
<1>c. /\ pc[p] \in {"cleanup", "cleanIntent"} /\ pc[p] \in SyncStages /\ pc[p] \in Critical
      /\ UNCHANGED <<conf, run, req, ctl>>
      /\ HaMode = "xmlrpc_pf" /\ Resource = "port_forward" /\ ctl[p].expect = NoVal
  BY DEF QualifyCleanup, CleanupIntent, SyncStages, data, Critical, Inv, Local, Course, XmlrpcOnly, LastStages
<1>1. CASE SyncReturns(p, "unverified") /\ foreign' = foreign
  BY <1>1, <1>c, SyncEnds
<1>2. CASE Qualified(p) /\ Checked(p, "check") /\ Goto(p, "cleanIntent") /\ res' = res
  <2>1. Undisturbed(p, "data")' => Undisturbed(p, "data")
    BY <1>2, <1>t DEF Checked, Undisturbed
  <2>2. Leftover(p)'
    BY <1>2, <1>c DEF Qualified, Leftover, Present
  <2>3. "cleanIntent" \in SyncStages
    BY DEF SyncStages
  <2> QED BY <1>2, <1>c, <2>1, <2>2, <2>3, SyncGoes
<1>3. CASE pc[p] = "cleanIntent" /\ Goto(p, "cleanDelete") /\ res' = res /\ foreign' = foreign
  <2>1. ASSUME Undisturbed(p, "check") PROVE Leftover(p)'
    <3>1. Present(req[p].client) = {} /\ Present(req[p].peer) = {req[p].uuid}
      BY <1>3, <1>c, <2>1 DEF Inv, Local, Known, Leftover
    <3> QED BY <1>c, <3>1 DEF Leftover, Present
  <2>2. "cleanDelete" \in SyncStages
    BY DEF SyncStages
  <2> QED BY <1>3, <1>c, <2>1, <2>2, SyncGoes DEF Undisturbed
<1> QED BY <1>1, <1>2, <1>3 DEF QualifyCleanup, CleanupIntent

LEMMA CleanupLocal ==
    ASSUME Inv, NEW p \in Procs, CleanupDelete(p) \/ CleanupApply(p)
    PROVE  Local(p)'
<1> DEFINE del == [kind |-> "set", node |-> req[p].peer, id |-> req[p].uuid, val |-> NoVal]
           app == [kind |-> "apply", node |-> req[p].peer]
           c == req[p].client
<1>t. TypeOK /\ req[p] \in Request /\ pc \in [Procs -> Stages]
  BY DEF Inv, Typed, TypeOK
<1>c. /\ pc[p] \in {"cleanDelete", "cleanApply"} /\ pc[p] \in SyncStages /\ pc[p] \in Critical
      /\ UNCHANGED <<req, ctl, foreign>>
      /\ HaMode = "xmlrpc_pf" /\ Resource = "port_forward" /\ ctl[p].expect = NoVal
  BY DEF CleanupDelete, CleanupApply, SyncStages, Critical, Inv, Local, Course, XmlrpcOnly, LastStages
<1>0. c \in Nodes /\ req[p].peer \in Nodes /\ c # req[p].peer /\ req[p].uuid \in Ids
  BY <1>c, PairFacts DEF Inv, HasPeer, Typed, StageInv, UuidStages, PrePost
<1>1. /\ del \in Op /\ c # Writes(del)
      /\ app \in Op /\ c # Writes(app)
  BY <1>0 DEF Op, Writes
<1> HIDE DEF del, app
<1>2. ASSUME NEW op \in {del, app}, NEW e, Executed(op) \/ FailedPost(op, e)
      PROVE  conf'[c] = conf[c] /\ run'[c] = run[c]
  BY <1>t, <1>0, <1>1, <1>2, PostElsewhere
<1>3. ASSUME NEW op \in {del, app}, NEW e, FailedPost(op, e), SyncReturns(p, "unverified")
      PROVE  Local(p)'
  <2>1. conf'[c] = conf[c] /\ run'[c] = run[c]
    BY <1>2, <1>3
  <2> QED BY <1>3, <1>c, <2>1, SyncEnds
<1>4. ASSUME NEW op \in {del, app}, Executed(op), NEW s \in {"cleanApply", "cleanVerify"}, Goto(p, s), res' = res
      PROVE  Local(p)'
  <2>1. conf'[c] = conf[c] /\ run'[c] = run[c]
    BY <1>2, <1>4
  <2>2. s \in SyncStages /\ s # "push"
    BY DEF SyncStages
  <2>3. Leftover(p)'
    BY <1>4, <1>t DEF Goto, Leftover
  <2> QED BY <1>4, <1>c, <2>1, <2>2, <2>3, SyncGoes DEF Undisturbed
<1>5. CleanupDelete(p) => \/ Executed(del) /\ Goto(p, "cleanApply") /\ res' = res
                          \/ \E e : FailedPost(del, e) /\ SyncReturns(p, "unverified")
  BY Zenon DEF CleanupDelete, del
<1>6. CleanupApply(p) => \/ Executed(app) /\ Goto(p, "cleanVerify") /\ res' = res
                         \/ \E e : FailedPost(app, e) /\ SyncReturns(p, "unverified")
  BY Zenon DEF CleanupApply, app
<1> QED BY <1>3, <1>4, <1>5, <1>6

\* The cleanup is only verified when the row is gone from both nodes.
LEMMA CleanupVerifyLocal ==
    ASSUME Inv, NEW p \in Procs, CleanupVerify(p)
    PROVE  Local(p)'
<1>c. /\ pc[p] = "cleanVerify" /\ pc[p] \in SyncStages
      /\ UNCHANGED <<conf, run, req, ctl, foreign>>
      /\ ctl[p].expect = NoVal
  BY DEF CleanupVerify, SyncStages, data, Inv, Local, Course, XmlrpcOnly, LastStages
<1>1. CASE SyncReturns(p, "verified") /\ Verify(req[p].peer, req[p].uuid, NoVal)
  BY <1>1, <1>c, SyncEnds DEF Verify
<1>2. CASE SyncReturns(p, "unverified")
  BY <1>2, <1>c, SyncEnds
<1> QED BY <1>1, <1>2 DEF CleanupVerify

LEMMA RollbackLocal ==
    ASSUME Inv, NEW p \in Procs, RollbackDelete(p) \/ RollbackApply(p)
    PROVE  Local(p)'
<1> DEFINE del == [kind |-> "set", node |-> req[p].client, id |-> req[p].uuid, val |-> NoVal]
           app == [kind |-> "apply", node |-> req[p].client]
           c == req[p].client
<1>t. TypeOK /\ req[p] \in Request /\ pc \in [Procs -> Stages]
  BY DEF Inv, Typed, TypeOK
<1>c. /\ pc[p] \in {"rbDelete", "rbApply"} /\ UNCHANGED <<req, ctl, res, foreign>>
      /\ Course(p) /\ Known(p) /\ pc[p] \in Critical
  BY DEF RollbackDelete, RollbackApply, Inv, Local, Critical
<1>0. req[p].uuid \in Ids
  BY <1>c DEF Inv, Typed, StageInv, UuidStages, PrePost
<1>1. /\ del \in Op /\ del.kind = "set" /\ del.node = c /\ del.id = req[p].uuid /\ del.val = NoVal
      /\ app \in Op /\ app.kind = "apply" /\ app.node = c
  BY <1>t, <1>0 DEF Op, Request
<1> HIDE DEF del, app
<1>2. /\ res[p].rollback /\ ~res[p].rbLocal /\ ~res[p].rbVerified /\ ~res[p].ok
      /\ res[p].error \in {"validation", "upstream"}
      /\ ctl[p].peerRev # NoVal => HaMode = "xmlrpc_pf" /\ Resource = "port_forward"
  BY <1>c DEF Course, Backward, XmlrpcOnly, RollbackStages, Inv, AuditInv, AuditOf
<1>3. ASSUME NEW s \in {"rbApply", "rbVerify", "final"}, Goto(p, s),
             Undisturbed(p, "data") => Undone(p)'
      PROVE  Local(p)'
  <2>0. pc'[p] = s
    BY <1>3, <1>t DEF Goto
  <2>1. Fresh(p)' /\ Forward(p)'
    BY <1>c, <1>2, <2>0 DEF Fresh, Forward, PrePost, SyncStages
  <2>2. Backward(p)' /\ XmlrpcOnly(p)'
    BY <1>c, <1>2, <2>0 DEF Backward, XmlrpcOnly, RollbackStages, LastStages
  <2>3. Known(p)'
    BY <1>c, <1>2, <1>3, <2>0 DEF Known, Undisturbed, Achieved, Arrived, Revised, Leftover
  <2> QED BY <2>1, <2>2, <2>3 DEF Local, Course
<1>4. CASE Goto(p, "final")
  <2>1. Undone(p)'
    BY <1>c, <1>2, <1>4, <1>t DEF Undone, Goto
  <2> QED BY <1>3, <1>4, <2>1
<1>5. CASE Executed(del) /\ Goto(p, "rbApply")
  <2>1. conf'[c][req[p].uuid] = NoVal
    BY <1>t, <1>1, <1>5, SetEffect
  <2>2. Undone(p)'
    BY <1>c, <1>2, <1>5, <1>t, <2>1 DEF Undone, Goto, Here
  <2> QED BY <1>3, <1>5, <2>2
<1>6. CASE pc[p] = "rbApply" /\ Executed(app) /\ Goto(p, "rbVerify")
  <2>1. conf' = conf /\ run'[c] = conf[c]
    BY <1>t, <1>1, <1>6, ApplyEffect
  <2>2. ASSUME Undisturbed(p, "data") PROVE Undone(p)'
    <3>1. Here(p) = NoVal
      BY <1>c, <1>6, <2>2 DEF Known, Undone
    <3> QED BY <1>c, <2>1, <3>1 DEF Undone, Here, Runs
  <2> QED BY <1>3, <1>6, <2>2
<1>7. RollbackDelete(p) => (Executed(del) /\ Goto(p, "rbApply")) \/ Goto(p, "final")
  BY Zenon DEF RollbackDelete, del
<1>8. RollbackApply(p) => pc[p] = "rbApply" /\ ((Executed(app) /\ Goto(p, "rbVerify")) \/ Goto(p, "final"))
  BY Zenon DEF RollbackApply, app
<1> QED BY <1>4, <1>5, <1>6, <1>7, <1>8

LEMMA RollbackVerifyLocal ==
    ASSUME Inv, NEW p \in Procs, RollbackVerify(p)
    PROVE  Local(p)' /\ \A r \in Procs \ {p} : ctl'[r] = ctl[r]
<1> DEFINE gone == Verify(req[p].client, req[p].uuid, NoVal)
<1>t. /\ pc \in [Procs -> Stages] /\ ctl \in [Procs -> Control] /\ ctl[p] \in Control
      /\ res \in [Procs -> Result] /\ res[p] \in Result
  BY DEF Inv, Typed, TypeOK
<1>c. /\ pc[p] = "rbVerify" /\ UNCHANGED <<conf, run, req, foreign>>
      /\ Course(p) /\ Known(p) /\ pc[p] \in Critical
  BY DEF RollbackVerify, Inv, Local, Critical, data
<1>1. /\ res[p].rollback /\ ~res[p].rbLocal /\ ~res[p].rbVerified /\ ~res[p].ok
      /\ res[p].error \in {"validation", "upstream"}
      /\ ctl[p].peerRev # NoVal => HaMode = "xmlrpc_pf" /\ Resource = "port_forward"
  BY <1>c DEF Course, Backward, XmlrpcOnly, RollbackStages, Inv, AuditInv, AuditOf
<1>2. CASE /\ res' = [res EXCEPT ![p].rbLocal = gone, ![p].rbVerified = gone /\ req[p].peer = NoNode]
           /\ ctl' = [ctl EXCEPT ![p].expect = NoVal]
           /\ Goto(p, IF req[p].peer = NoNode THEN "final" ELSE "sync")
  <2>1. /\ pc'[p] = (IF req[p].peer = NoNode THEN "final" ELSE "sync")
        /\ ctl'[p].expect = NoVal /\ ctl'[p].peerRev = ctl[p].peerRev
        /\ \A r \in Procs \ {p} : ctl'[r] = ctl[r]
    BY <1>t, <1>2 DEF Control, Goto
  <2>2. /\ res'[p].rollback = res[p].rollback /\ res'[p].ok = res[p].ok /\ res'[p].error = res[p].error
        /\ res'[p].rbVerified => res'[p].rbLocal /\ req[p].peer = NoNode
        /\ res'[p].rbLocal => gone
    BY <1>t, <1>2 DEF Result
  <2>3. Fresh(p)' /\ Forward(p)'
    BY <1>c, <1>1, <2>1, <2>2 DEF Fresh, Forward, PrePost, SyncStages
  <2>4. Backward(p)' /\ XmlrpcOnly(p)'
    BY <1>c, <1>1, <2>1, <2>2 DEF Backward, XmlrpcOnly, RollbackStages, LastStages
  <2>5. req[p].peer = NoNode => ~HasPeer
    BY <1>c, PairFacts, ConstantsAssumption DEF Inv
  <2>6. ASSUME Undisturbed(p, "data") PROVE Undone(p)'
    <3>1. Here(p) = NoVal /\ Runs(p) = NoVal
      BY <1>c, <2>6 DEF Known, Undone
    <3> QED BY <1>c, <3>1 DEF Undone, Here, Runs
  <2>7. Achieved(p)' /\ Arrived(p)' /\ Revised(p)' /\ Leftover(p)'
    BY <1>c, <1>1, <2>1, <2>2, <2>5 DEF Achieved, Arrived, Revised, Leftover
  <2>8. Known(p)'
    BY <1>c, <2>1, <2>6, <2>7 DEF Known, Undisturbed
  <2> QED BY <2>1, <2>3, <2>4, <2>8 DEF Local, Course
<1>3. CASE Goto(p, "final") /\ res' = res /\ ctl' = ctl
  <2>0. pc'[p] = "final"
    BY <1>3, <1>t DEF Goto
  <2>1. Course(p)'
    BY <1>1, <1>3, <2>0 DEF Course, Fresh, Forward, Backward, XmlrpcOnly, PrePost, SyncStages, RollbackStages, LastStages
  <2>2. Known(p)'
    BY <1>1, <1>3, <2>0 DEF Known, Achieved, Undone, Arrived, Revised, Leftover
  <2> QED BY <1>3, <2>1, <2>2 DEF Local
<1> QED BY <1>2, <1>3 DEF RollbackVerify

-----------------------------------------------------------------------------
(* Arrival, return, the environment and crashes *)

\* Nothing that p looks at has changed.
LEMMA UnmovedLocal ==
    ASSUME NEW r \in Procs, Local(r), UNCHANGED <<conf, run>>, UNCHANGED world,
           pc'[r] = pc[r], res'[r] = res[r], req'[r] = req[r], ctl'[r] = ctl[r],
           foreign'[r] = foreign[r]
    PROVE  Local(r)'
<1>1. Course(r)'
  BY DEF Local, Course, Fresh, Forward, Backward, XmlrpcOnly
<1>2. Achieved(r)' = Achieved(r) /\ Undone(r)' = Undone(r) /\ Arrived(r)' = Arrived(r)
  BY DEF Achieved, Undone, Arrived, Here, Runs, There
<1>3. Revised(r) => Revised(r)'
  BY DEF Revised, Here
<1>4. Leftover(r) => Leftover(r)'
  BY DEF Leftover, Present
<1>5. ASSUME SamePlan(r) PROVE SamePlan(r)'
  BY <1>5, SamePlanStays
<1>6. Known(r)'
  <2>1. ASSUME pc[r] \in Critical, Undisturbed(r, "data") PROVE Achieved(r)' /\ Undone(r)' /\ Arrived(r)'
    BY <1>2, <2>1 DEF Local, Known
  <2>2. ASSUME pc[r] \in Critical, Undisturbed(r, "check") PROVE Revised(r)' /\ Leftover(r)'
    BY <1>3, <1>4, <2>2 DEF Local, Known
  <2>3. ASSUME pc[r] = "push", Undisturbed(r, "ha") PROVE SamePlan(r)'
    BY <1>5, <2>3 DEF Local, Known, Critical
  <2> QED BY <2>1, <2>2, <2>3 DEF Known, Undisturbed
<1> QED BY <1>1, <1>6 DEF Local

LEMMA BeginLocal ==
    ASSUME Inv, NEW p \in Procs, Begin(p)
    PROVE  \A r \in Procs : Local(r)'
<1>t. req \in [Procs -> Request] /\ ctl \in [Procs -> Control] /\ ctl[p] \in Control
  BY DEF Inv, Typed, TypeOK
<1>b. /\ pc[p] = "idle" /\ pc' = [pc EXCEPT ![p] = "wait"]
      /\ \A r \in Procs \ {p} : req'[r] = req[r]
      /\ UNCHANGED <<conf, run, res, foreign>>
  BY BeginFacts DEF Inv
<1>w. UNCHANGED world
  BY DEF Begin
<1>0. PICK a \in {"create", "update", "delete"}, c \in Nodes, q \in Peers,
             u \in Ids \cup {NoId}, w \in Vals \cup {NoVal}, v \in Vals \cup {NoVal} :
          /\ (u = NoId) = (a = "create") /\ (w = NoVal) = (a = "create")
          /\ (v = NoVal) = (a = "delete")
          /\ Target(c, q)
          /\ req' = [req EXCEPT ![p] = [action |-> a, uuid |-> u, rev |-> w, val |-> v,
                                        client |-> c, peer |-> q]]
          /\ ctl' = [ctl EXCEPT ![p].expect = v]
  BY DEF Begin
<1>1. ctl' = [ctl EXCEPT ![p].expect = v] /\ req'[p].val = v
  BY <1>t, <1>0
<1>2. /\ ctl'[p].expect = req'[p].val /\ ctl'[p].peerRev = ctl[p].peerRev
      /\ \A r \in Procs \ {p} : ctl'[r] = ctl[r]
  BY <1>t, <1>1 DEF Control
<1>3. pc'[p] = "wait" /\ \A r \in Procs \ {p} : pc'[r] = pc[r]
  BY <1>b DEF Inv, Typed, TypeOK
<1>4. Local(p)'
  <2>1. /\ ~res[p].rollback /\ ~res[p].applied /\ ~res[p].rbLocal /\ ~res[p].rbVerified
        /\ ctl[p].peerRev # NoVal => HaMode = "xmlrpc_pf" /\ Resource = "port_forward"
    BY <1>b DEF Inv, Local, Course, Fresh, XmlrpcOnly
  <2>2. Course(p)'
    BY <1>b, <1>2, <1>3, <2>1 DEF Course, Fresh, Forward, Backward, XmlrpcOnly, SyncStages, RollbackStages, LastStages, Critical
  <2>3. Known(p)'
    BY <1>3 DEF Known, Critical
  <2> QED BY <2>2, <2>3 DEF Local
<1>5. ASSUME NEW r \in Procs \ {p} PROVE Local(r)'
  BY <1>b, <1>w, <1>2, <1>3, UnmovedLocal DEF Inv
<1> QED BY <1>4, <1>5

\* An answer ends what the invariant says of a request.
LEMMA EndLocal ==
    ASSUME NEW p \in Procs, pc'[p] \in {"done", "crashed"}, ctl'[p].peerRev # NoVal
             => HaMode = "xmlrpc_pf" /\ Resource = "port_forward"
    PROVE  Local(p)'
<1>1. Course(p)'
  BY DEF Course, Fresh, Forward, Backward, XmlrpcOnly, PrePost, SyncStages, RollbackStages, LastStages, Critical
<1>2. Known(p)'
  BY DEF Known, Critical
<1> QED BY <1>1, <1>2 DEF Local

LEMMA ReturnLocal ==
    ASSUME Inv, NEW p \in Procs, Refuse(p) \/ Finish(p)
    PROVE  \A r \in Procs : Local(r)'
<1>t. /\ pc \in [Procs -> Stages] /\ res \in [Procs -> Result] /\ ctl[p] \in Control
  BY DEF Inv, Typed, TypeOK
<1>1. /\ pc'[p] = "done" /\ UNCHANGED <<conf, run>> /\ UNCHANGED world
      /\ \A r \in Procs \ {p} : pc'[r] = pc[r] /\ res'[r] = res[r]
  BY <1>t DEF Refuse, Finish, Goto, data, Unrecorded
<1>2. \A r \in Procs \ {p} : req'[r] = req[r] /\ ctl'[r] = ctl[r] /\ foreign'[r] = foreign[r]
  BY DEF Refuse, Finish, Forget, Inv, Typed, TypeOK
<1>3. ctl'[p].peerRev = ctl[p].peerRev \/ ctl'[p].peerRev = NoVal
  BY DEF Refuse, Finish, Forget, NoControl
<1>4. Local(p)'
  BY <1>1, <1>3, EndLocal DEF Inv, Local, Course, XmlrpcOnly
<1> QED BY <1>1, <1>2, <1>4, UnmovedLocal DEF Inv

LEMMA CrashLocal ==
    ASSUME Inv, Crash
    PROVE  \A r \in Procs : Local(r)'
<1>1. ASSUME NEW r \in Procs, pc[r] \in {"idle", "done"} PROVE Local(r)'
  <2>1. pc'[r] = pc[r] /\ res' = res /\ pc'[r] # "crashed" /\ pc[r] \notin Critical
    BY <1>1 DEF Crash, Critical
  <2>2. req'[r] = req[r] /\ ctl'[r] = ctl[r]
    BY <2>1 DEF Crash, Forget
  <2> QED BY <2>1, <2>2, AsideLocal DEF Inv
<1>2. ASSUME NEW r \in Procs, pc[r] \notin {"idle", "done"} PROVE Local(r)'
  <2>1. pc'[r] = "crashed"
    BY <1>2 DEF Crash
  <2>2. ctl'[r] = NoControl
    BY <2>1 DEF Crash, Forget
  <2> QED BY <2>1, <2>2, EndLocal DEF NoControl
<1> QED BY <1>1, <1>2

\* Somebody else wrote: what p knew of the objects is void, of the roles is not.
LEMMA OutsiderLocal ==
    ASSUME NEW r \in Procs, Local(r), UNCHANGED <<hasync, carp, pc, req, ctl, res>>,
           pc[r] \in Critical => foreign'[r] = foreign[r] \cup {"data", "check"}
    PROVE  Local(r)'
<1>1. Course(r)'
  BY DEF Local, Course, Fresh, Forward, Backward, XmlrpcOnly
<1>2. SamePlan(r)' = SamePlan(r)
  BY DEF SamePlan, PreflightOK, PlanOf, AllVips, VipSet
<1>3. Known(r)'
  BY <1>2 DEF Local, Known, Undisturbed
<1> QED BY <1>1, <1>3 DEF Local

LEMMA RolesLocal ==
    ASSUME NEW r \in Procs, Local(r), UNCHANGED <<conf, run, pc, req, ctl, res>>,
           pc[r] \in Critical => foreign'[r] = foreign[r] \cup {"ha"}
    PROVE  Local(r)'
<1>1. Course(r)'
  BY DEF Local, Course, Fresh, Forward, Backward, XmlrpcOnly
<1>2. /\ Achieved(r)' = Achieved(r) /\ Undone(r)' = Undone(r) /\ Arrived(r)' = Arrived(r)
      /\ Revised(r)' = Revised(r)
  BY DEF Achieved, Undone, Arrived, Revised, Here, Runs, There
<1>3. Leftover(r)' = Leftover(r)
  BY DEF Leftover, Present
<1>4. Known(r)'
  BY <1>2, <1>3 DEF Local, Known, Undisturbed
<1> QED BY <1>1, <1>4 DEF Local

\* The pair's own synchronization brings the peer what the master has.
LEMMA AutoSyncLocal ==
    ASSUME Inv, AutoSync, NEW r \in Procs
    PROVE  Local(r)'
<1>t. TypeOK /\ Typed /\ LockInv /\ Local(r)
  BY DEF Inv, Typed
<1>c. UNCHANGED <<hasync, carp, pc, req, ctl, res>> /\ HaMode = "automatic"
  BY DEF AutoSync, world
<1>n. PICK n \in Nodes :
        /\ Executed([kind |-> "push", node |-> n])
        /\ Disturb({p \in Procs : pc[p] \in Critical /\ req[p].client # n}, {"data", "check"})
  BY DEF AutoSync
<1>1. CASE pc[r] \notin Critical
  BY <1>1, <1>t, <1>c, AsideLocal
<1>2. CASE pc[r] \in Critical /\ req[r].client # n
  <2>1. foreign'[r] = foreign[r] \cup {"data", "check"}
    BY <1>n, <1>2 DEF Disturb
  <2> QED BY <1>t, <1>c, <2>1, OutsiderLocal
<1>3. CASE pc[r] \in Critical /\ req[r].client = n
  <2> DEFINE op == [kind |-> "push", node |-> n]
             q == req[r].peer
             u == req[r].uuid
  <2>0. q \in Nodes /\ n # q /\ Other(n) = q
    BY <1>t, <1>c, <1>3, PairFacts DEF HasPeer
  <2>1. op \in Op /\ op.kind = "push" /\ op.node = n
    BY DEF Op
  <2>2. conf'[n] = conf[n] /\ run'[n] = run[n]
    BY <1>t, <1>n, <2>0, <2>1, PostElsewhere DEF Writes
  <2>3. conf'[q] = conf[q] \/ conf'[q] = conf[n]
    <3>1. conf' = [conf EXCEPT ![q] = Merged(n, q)]
      BY <1>n, <2>0 DEF Executed, ConfAfter
    <3>2. conf'[q] = Merged(n, q)
      BY <1>t, <2>0, <3>1 DEF TypeOK
    <3> QED BY <3>2 DEF Merged
  <2>4. foreign'[r] = foreign[r]
    BY <1>n, <1>3 DEF Disturb
  <2>5. Course(r)' /\ Course(r)
    BY <1>t, <1>c DEF Local, Course, Fresh, Forward, Backward, XmlrpcOnly
  <2>6. ASSUME Undisturbed(r, "data") PROVE Achieved(r)' /\ Undone(r)' /\ Arrived(r)'
    <3>1. Achieved(r) /\ Undone(r) /\ Arrived(r)
      BY <1>t, <1>3, <2>6 DEF Local, Known
    <3>2. Here(r)' = Here(r) /\ Runs(r)' = Runs(r)
      BY <1>c, <1>3, <2>2 DEF Here, Runs
    <3>3. There(r)' = There(r) \/ There(r)' = Here(r)
      BY <1>c, <1>3, <2>3 DEF There, Here
    <3>4. Achieved(r)' /\ Undone(r)'
      BY <1>c, <3>1, <3>2 DEF Achieved, Undone
    <3>5. pc[r] = "final" /\ res[r].ok => Here(r) = req[r].val
      BY <2>5, <3>1 DEF Course, Forward, Achieved
    <3>6. pc[r] = "final" /\ res[r].rbVerified => Here(r) = NoVal
      BY <2>5, <3>1 DEF Course, Backward, Undone
    <3>7. Arrived(r)'
      BY <1>c, <3>1, <3>3, <3>5, <3>6 DEF Arrived
    <3> QED BY <3>4, <3>7
  <2>7. ASSUME Undisturbed(r, "check") PROVE Revised(r)' /\ Leftover(r)'
    <3>1. Revised(r)
      BY <1>t, <1>3, <2>7 DEF Local, Known
    <3>2. Revised(r)'
      BY <1>c, <1>3, <2>2, <3>1 DEF Revised, Here
    <3>3. Leftover(r)'
      BY <1>c, <2>5 DEF Leftover, Course, XmlrpcOnly, LastStages
    <3> QED BY <3>2, <3>3
  <2>8. pc[r] # "push"
    BY <1>c, <2>5 DEF Course, XmlrpcOnly
  <2>9. Known(r)'
    BY <1>c, <2>4, <2>6, <2>7, <2>8 DEF Known, Undisturbed
  <2> QED BY <2>5, <2>9 DEF Local
<1> QED BY <1>1, <1>2, <1>3

LEMMA EnvironmentLocal ==
    ASSUME Inv, ExternalWrite \/ LateExecution \/ AutoSync \/ CarpChange \/ Reconfigure
    PROVE  \A r \in Procs : Local(r)'
<1>1. ASSUME ExternalWrite \/ LateExecution, NEW r \in Procs PROVE Local(r)'
  <2>1. UNCHANGED <<hasync, carp, pc, req, ctl, res>>
    BY <1>1 DEF ExternalWrite, LateExecution, world
  <2>2. pc[r] \in Critical => foreign'[r] = foreign[r] \cup {"data", "check"}
    BY <1>1 DEF ExternalWrite, LateExecution, Disturb
  <2> QED BY <2>1, <2>2, OutsiderLocal DEF Inv
<1>2. ASSUME CarpChange \/ Reconfigure, NEW r \in Procs PROVE Local(r)'
  <2>1. UNCHANGED <<conf, run, pc, req, ctl, res>>
    BY <1>2 DEF CarpChange, Reconfigure, data
  <2>2. pc[r] \in Critical => foreign'[r] = foreign[r] \cup {"ha"}
    BY <1>2 DEF CarpChange, Reconfigure, Disturb, Running
  <2> QED BY <2>1, <2>2, RolesLocal DEF Inv
<1> QED BY <1>1, <1>2, AutoSyncLocal

\* The request that moves, and with it every other.
LEMMA RequestLocal ==
    ASSUME Inv, NEW p \in Procs, Step(p)
    PROVE  \A r \in Procs : Local(r)'
<1>1. CASE Acquire(p)
  <2>1. Local(p)'
    BY <1>1, IntentLocal
  <2>2. ASSUME NEW r \in Procs \ {p} PROVE Local(r)'
    <3>1. UNCHANGED <<conf, run, req, ctl, res, foreign>> /\ UNCHANGED world /\ pc'[r] = pc[r]
      BY <1>1 DEF Acquire, Goto, data, Inv, Typed, TypeOK
    <3> QED BY <3>1, UnmovedLocal DEF Inv
  <2> QED BY <2>1, <2>2
<1>2. CASE Finish(p)
  BY <1>2, ReturnLocal
<1>3. CASE Inner(p)
  <2>1. ASSUME Step(p), ~Acquire(p), ~Finish(p)
        PROVE  Local(p)' /\ \A r \in Procs \ {p} : ctl'[r] = ctl[r]
    <3>1. CASE Intent(p)
      BY <3>1, IntentLocal DEF Intent
    <3>2. CASE Preflight(p)
      BY <3>2, PreflightLocal
    <3>3. CASE ReadCurrent(p) \/ CheckLast(p) \/ ReadPeerRevision(p)
      BY <3>3, ReadsLocal
    <3>4. CASE PostCreate(p) \/ PostChange(p)
      BY <3>4, WriteLocal
    <3>5. CASE PostApply(p)
      BY <3>5, ApplyLocal DEF PostApply
    <3>6. CASE Readback(p)
      BY <3>6, ReadbackLocal DEF Readback
    <3>7. CASE StartSync(p)
      BY <3>7, StartSyncLocal
    <3>8. CASE PostPush(p)
      BY <3>8, PushLocal DEF PostPush
    <3>9. CASE PeerRead(p)
      BY <3>9, PeerReadLocal
    <3>10. CASE QualifyCleanup(p) \/ CleanupIntent(p)
      BY <3>10, QualifyLocal DEF QualifyCleanup, CleanupIntent
    <3>11. CASE CleanupDelete(p) \/ CleanupApply(p)
      BY <3>11, CleanupLocal DEF CleanupDelete, CleanupApply
    <3>12. CASE CleanupVerify(p)
      BY <3>12, CleanupVerifyLocal DEF CleanupVerify
    <3>13. CASE RollbackDelete(p) \/ RollbackApply(p)
      BY <3>13, RollbackLocal DEF RollbackDelete, RollbackApply
    <3>14. CASE RollbackVerify(p)
      BY <3>14, RollbackVerifyLocal
    <3> QED BY <2>1, <3>1, <3>2, <3>3, <3>4, <3>5, <3>6, <3>7, <3>8, <3>9, <3>10, <3>11, <3>12,
               <3>13, <3>14 DEF Step
  <2> QED BY <1>1, <1>2, <1>3, <2>1, InnerLocal
<1> QED BY <1>1, <1>2, <1>3, InnerStep DEF Inv

LEMMA NextInv == ASSUME Inv, [Next]_vars PROVE Inv'
<1>1. Typed' /\ LockInv' /\ AuditInv'
  BY TypedStep, LockStep, AuditStep DEF Inv
<1>2. \A r \in Procs : Local(r)'
  <2>1. CASE UNCHANGED vars
    BY <2>1, UnmovedLocal DEF vars, world, Inv
  <2> QED
    BY <2>1, BeginLocal, ReturnLocal, RequestLocal, EnvironmentLocal, CrashLocal DEF Next, Done
<1> QED BY <1>1, <1>2 DEF Inv

LEMMA InitInv == Init => Inv
<1> SUFFICES ASSUME Init PROVE Inv
  OBVIOUS
<1>1. Typed /\ LockInv /\ AuditInv
  BY TypedInit, AuditInit DEF Init, LockInv, Critical
<1>2. ASSUME NEW p \in Procs PROVE Local(p)
  BY DEF Init, NoResult, NoControl, Local, Course, Fresh, Forward, Backward, XmlrpcOnly, Known,
         SyncStages, RollbackStages, LastStages, Critical
<1> QED BY <1>1, <1>2 DEF Inv

-----------------------------------------------------------------------------
(* What follows *)

\* Reachable states satisfy the inductive invariant.
THEOREM Invariant == Spec => []Inv
BY InitInv, NextInv, PTL DEF Spec

\* What execute() reports as verified is stored and running on the master, and
\* stored on the peer, whatever failed, was late or was acknowledged in vain.
THEOREM TrueOk == Spec => []OkIsTrue
<1>1. ASSUME Inv, NEW p \in Procs, pc[p] = "final", res[p].ok, Undisturbed(p, "data")
      PROVE  /\ Here(p) = req[p].val /\ Runs(p) = req[p].val
             /\ HasPeer => There(p) = req[p].val
  <2>1. ctl[p].accepted /\ res[p].applied /\ ~res[p].rollback
    BY <1>1 DEF Inv, Local, Course, Forward
  <2>2. Achieved(p) /\ Arrived(p)
    BY <1>1 DEF Inv, Local, Known, Critical
  <2> QED BY <1>1, <2>1, <2>2 DEF Achieved, Arrived
<1>2. Inv => OkIsTrue
  BY <1>1 DEF OkIsTrue, Here, Runs, There
<1> QED BY <1>2, Invariant, PTL

\* rollback_verified is only reported when the create is gone from both nodes.
THEOREM TrueRollback == Spec => []RollbackIsTrue
<1>1. ASSUME Inv, NEW p \in Procs, pc[p] = "final", res[p].rbVerified, Undisturbed(p, "data")
      PROVE  /\ \A n \in {req[p].client, req[p].peer} \cap Nodes : conf[n][req[p].uuid] = NoVal
             /\ run[req[p].client][req[p].uuid] = NoVal
  <2>1. res[p].rbLocal /\ pc[p] \in Critical
    BY <1>1 DEF Inv, Local, Course, Backward, Critical
  <2>2. Undone(p) /\ Arrived(p)
    BY <1>1, <2>1 DEF Inv, Local, Known
  <2>3. Here(p) = NoVal /\ Runs(p) = NoVal /\ (HasPeer => There(p) = NoVal)
    BY <1>1, <2>1, <2>2 DEF Undone, Arrived
  <2>4. ~HasPeer => req[p].peer \notin Nodes
    BY <1>1, <2>1, PairFacts, ConstantsAssumption DEF Inv
  <2> QED BY <2>3, <2>4 DEF Here, Runs, There
<1>2. Inv => RollbackIsTrue
  BY <1>1 DEF RollbackIsTrue
<1> QED BY <1>2, Invariant, PTL

\* The except clause of _execute undoes nothing whose outcome is in doubt.
THEOREM AmbiguousStays == Spec => []AmbiguousKept
<1>1. ASSUME Inv, NEW p \in Procs, pc[p] = "final", Undisturbed(p, "data"), ctl[p].accepted,
             res[p].error \in {"timeout", "auth"}
      PROVE  Here(p) = req[p].val
  <2>1. ~res[p].rollback
    BY <1>1 DEF Inv, Local, Course, Backward, Critical
  <2>2. Achieved(p)
    BY <1>1 DEF Inv, Local, Known, Critical
  <2> QED BY <1>1, <2>1, <2>2 DEF Achieved
<1>2. Inv => AmbiguousKept
  BY <1>1 DEF AmbiguousKept, Here
<1> QED BY <1>2, Invariant, PTL

\* The lock makes the comparison of the revision hold until the POST.
THEOREM UpdatesStay == Spec => NoLostUpdate
<1> DEFINE Replaces(p) ==
      Moves(p) /\ pc[p] = "mutate" /\ req[p].action # "create" /\ conf' # conf /\ Undisturbed(p, "check")
        => conf[req[p].client][req[p].uuid] = req[p].rev
<1>1. Inv => \A p \in Procs : Replaces(p)
  BY DEF Inv, Local, Known, Revised, Here, Critical
<1>2. Inv /\ [Next]_vars => [\A p \in Procs : Replaces(p)]_vars
  BY <1>1
<1> QED BY <1>2, Invariant, PTL DEF Spec, NoLostUpdate

\* A request moves by its own step only, unless the process dies.
LEMMA Mover ==
    ASSUME Inv, [Next]_vars, NEW p \in Procs, Moves(p)
    PROVE  Begin(p) \/ Refuse(p) \/ Step(p)
<1>t. Typed /\ pc \in [Procs -> Stages]
  BY DEF Inv, Typed, TypeOK
<1>1. ASSUME NEW q \in Procs \ {p}, Begin(q) \/ Refuse(q) \/ Step(q)
      PROVE  FALSE
  <2>1. CASE Begin(q) \/ Refuse(q) \/ Acquire(q) \/ Finish(q)
    BY <1>t, <2>1 DEF Begin, Refuse, Acquire, Finish, Goto, Moves
  <2>2. CASE Inner(q)
    BY <2>2 DEF Inner, Progress, Moves
  <2> QED BY <1>t, <1>1, <2>1, <2>2, InnerStep
<1>2. ASSUME ExternalWrite \/ LateExecution \/ AutoSync \/ CarpChange \/ Reconfigure PROVE FALSE
  BY <1>2, EnvironmentFacts DEF Moves
<1>3. ASSUME Crash PROVE FALSE
  BY <1>3 DEF Crash, Moves
<1>4. ASSUME UNCHANGED vars PROVE FALSE
  BY <1>4 DEF vars, Moves
<1> QED BY <1>1, <1>2, <1>3, <1>4 DEF Next, Done

\* The intent is in audit.jsonl before anything that the request does to a node,
\* and the second intent before what it deletes on the peer.
THEOREM DeclaredFirst == Spec => IntentFirst
<1> DEFINE First(p) ==
      Moves(p) /\ <<conf, run, inflight>>' # <<conf, run, inflight>>
        => /\ <<p, "started">> \in audit
           /\ \A n \in Nodes \ {req[p].client} :
                conf'[n] # conf[n] /\ pc[p] # "push" => <<p, "peer_delete">> \in audit
<1>1. ASSUME Inv, [Next]_vars, NEW p \in Procs, Moves(p), <<conf, run, inflight>>' # <<conf, run, inflight>>
      PROVE  /\ <<p, "started">> \in audit
             /\ \A n \in Nodes \ {req[p].client} :
                  conf'[n] # conf[n] /\ pc[p] # "push" => <<p, "peer_delete">> \in audit
  <2>t. TypeOK /\ req[p] \in Request /\ ctl[p] \in Control
    BY <1>1 DEF Inv, Typed, TypeOK
  <2>1. \/ PostCreate(p) \/ PostChange(p) \/ PostApply(p) \/ PostPush(p) \/ CleanupDelete(p)
        \/ CleanupApply(p) \/ RollbackDelete(p) \/ RollbackApply(p)
    BY <1>1, Mover DEF Step, Begin, Refuse, Acquire, Intent, Preflight, ReadCurrent, CheckLast,
       ReadPeerRevision, Readback, StartSync, PeerRead, QualifyCleanup, CleanupIntent, CleanupVerify,
       RollbackVerify, Finish, data
  <2>2. pc[p] \in Critical \ {"intent", "final"}
    BY <2>1 DEF PostCreate, PostChange, PostApply, PostPush, CleanupDelete, CleanupApply,
       RollbackDelete, RollbackApply, Critical
  <2>3. <<p, "started">> \in audit
    BY <1>1, <2>2 DEF Inv, AuditInv, AuditOf
  <2>4. ASSUME NEW n \in Nodes \ {req[p].client}, conf'[n] # conf[n], pc[p] # "push"
        PROVE  pc[p] = "cleanDelete"
    <3>1. ASSUME NEW op \in Op, op.kind \in {"add", "set", "apply"}, op.node = req[p].client, NEW e,
                 Executed(op) \/ FailedPost(op, e) \/ Ignored
          PROVE  FALSE
      BY <2>t, <2>4, <3>1, PostElsewhere DEF Writes
    <3>2. ASSUME NEW op \in Op, op.kind = "apply", NEW e, Executed(op) \/ FailedPost(op, e)
          PROVE  FALSE
      BY <2>t, <2>4, <3>2, ApplyEffect
    <3>u. pc[p] \in {"mutate", "rbDelete"} /\ (pc[p] = "mutate" => req[p].action # "create")
            => req[p].uuid \in Ids
      BY <1>1 DEF Inv, Typed, StageInv, PrePost, UuidStages, Critical
    <3>3. ASSUME PostCreate(p) PROVE FALSE
      <4>1. \A u \in Ids : [kind |-> "add", node |-> req[p].client, id |-> u, val |-> req[p].val] \in Op
        BY <2>t DEF Op, Request
      <4> QED BY <3>1, <3>3, <4>1, <2>4 DEF PostCreate, Ignored, data
    <3>4. ASSUME PostChange(p) PROVE FALSE
      <4>1. [kind |-> "set", node |-> req[p].client, id |-> req[p].uuid, val |-> ctl[p].expect] \in Op
        BY <2>t, <3>4, <3>u DEF Op, Request, Control, PostChange
      <4> QED BY <3>1, <3>4, <4>1 DEF PostChange
    <3>5. ASSUME PostApply(p) \/ RollbackApply(p) PROVE FALSE
      <4>1. [kind |-> "apply", node |-> req[p].client] \in Op
        BY <2>t DEF Op, Request
      <4> QED BY <3>2, <3>5, <4>1 DEF PostApply, RollbackApply
    <3>6. ASSUME CleanupApply(p) PROVE FALSE
      <4>1. [kind |-> "apply", node |-> req[p].peer] \in Op
        BY <1>1, <3>6 DEF Op, CleanupApply, Inv, Typed, StageInv, PeerStages
      <4> QED BY <3>2, <3>6, <4>1 DEF CleanupApply
    <3>7. ASSUME RollbackDelete(p) PROVE FALSE
      <4>1. [kind |-> "set", node |-> req[p].client, id |-> req[p].uuid, val |-> NoVal] \in Op
        BY <2>t, <3>7, <3>u DEF Op, Request, RollbackDelete
      <4> QED BY <3>1, <3>7, <4>1 DEF RollbackDelete
    <3> QED BY <2>1, <2>4, <3>3, <3>4, <3>5, <3>6, <3>7 DEF PostPush, CleanupDelete
  <2> QED BY <1>1, <2>3, <2>4 DEF Inv, AuditInv, AuditOf
<1>2. Inv /\ [Next]_vars => [\A p \in Procs : First(p)]_vars
  BY <1>1
<1> QED BY <1>2, Invariant, PTL DEF Spec, IntentFirst

\* _finish_last_dnat_delete deletes the one row that XMLRPC left on the peer, and
\* the peer is then what the master is: empty.
THEOREM CleanupEndsWell == Spec => CleanupConverges
<1> DEFINE Converges(p) ==
      Moves(p) /\ pc[p] = "cleanDelete" /\ conf' # conf /\ Undisturbed(p, "check")
        => conf'[req[p].peer] = conf[req[p].client]
<1>1. ASSUME Inv, [Next]_vars, NEW p \in Procs, Moves(p), pc[p] = "cleanDelete", conf' # conf,
             Undisturbed(p, "check")
      PROVE  conf'[req[p].peer] = conf[req[p].client]
  <2> DEFINE c == req[p].client
             q == req[p].peer
             u == req[p].uuid
             op == [kind |-> "set", node |-> q, id |-> u, val |-> NoVal]
  <2>1. TypeOK /\ c \in Nodes /\ q \in Nodes /\ u \in Ids
    BY <1>1 DEF Inv, Typed, TypeOK, StageInv, PeerStages, UuidStages, PrePost, Critical, Request
  <2>2. CleanupDelete(p)
    BY <1>1, Mover DEF Step, Begin, Refuse, Acquire, Intent, Preflight, ReadCurrent, CheckLast,
       ReadPeerRevision, PostCreate, PostChange, PostApply, Readback, StartSync, PostPush, PeerRead,
       QualifyCleanup, CleanupIntent, CleanupApply, CleanupVerify, RollbackDelete, RollbackApply,
       RollbackVerify, Finish
  <2>3. op \in Op /\ op.kind = "set" /\ op.node = q /\ op.id = u /\ op.val = NoVal
    BY <2>1 DEF Op
  <2>4. Executed(op)
    BY <1>1, <2>2 DEF CleanupDelete, FailedPost, Ignored, Delayed, data
  <2> HIDE DEF op
  <2>5. conf' = [conf EXCEPT ![q][u] = NoVal]
    BY <2>1, <2>3, <2>4, SetEffect
  <2>6. Present(c) = {} /\ Present(q) = {u}
    BY <1>1 DEF Inv, Local, Known, Leftover, Critical
  <2>7. \A i \in Ids : conf[c][i] = NoVal /\ (i # u => conf[q][i] = NoVal)
    BY <2>6 DEF Present
  <2>8. conf'[q] = [conf[q] EXCEPT ![u] = NoVal]
    BY <2>1, <2>5 DEF TypeOK
  <2>9. conf[q] \in Objects /\ conf[c] \in Objects
    BY <2>1 DEF TypeOK
  <2> QED BY <2>1, <2>7, <2>8, <2>9 DEF Objects
<1>2. Inv /\ [Next]_vars => [\A p \in Procs : Converges(p)]_vars
  BY <1>1
<1> QED BY <1>2, Invariant, PTL DEF Spec, CleanupConverges

\* The plan and the roles that _sync_preflight accepted are those of the push.
THEOREM PushAsChecked == Spec => PushValidated
<1> DEFINE Validated(p) ==
      Moves(p) /\ pc[p] = "push" /\ Undisturbed(p, "ha")
        => PlanOf(req[p].client) = ctl[p].plan /\ Target(req[p].client, req[p].peer)
<1>1. ASSUME Inv, NEW p \in Procs, pc[p] = "push", Undisturbed(p, "ha")
      PROVE  PlanOf(req[p].client) = ctl[p].plan /\ Target(req[p].client, req[p].peer)
  <2>1. pc[p] \in Critical
    BY <1>1 DEF Critical
  <2>2. SamePlan(p) /\ HasPeer
    BY <1>1, <2>1 DEF Inv, Local, Known, Course, XmlrpcOnly, HasPeer
  <2>3. req[p].peer \in Nodes /\ req[p].client # req[p].peer
    BY <1>1, <2>1, <2>2, PairFacts DEF Inv
  <2> QED BY <2>2, <2>3 DEF SamePlan, PreflightOK, Target
<1>2. Inv /\ [Next]_vars => [\A p \in Procs : Validated(p)]_vars
  BY <1>1
<1> QED BY <1>2, Invariant, PTL DEF Spec, PushValidated

-----------------------------------------------------------------------------
(* The writer as an audited write: what a step of a request shows *)

Quiet(p) ==
    /\ pc[p] \in {"idle", "wait"} /\ pc'[p] \in {"wait", "intent"}
    /\ UNCHANGED <<data, audit, res>>
TurnedAway(p) == pc[p] = "idle" /\ pc'[p] = "done" /\ UNCHANGED <<data, audit>>
Announces(p) ==
    /\ pc[p] = "intent" /\ pc'[p] = "preflight"
    /\ audit' = audit \cup {<<p, "started">>}
    /\ UNCHANGED <<data, res>>
Unannounced(p) ==
    /\ pc[p] = "intent" /\ pc'[p] = "final"
    /\ UNCHANGED <<data, audit>>
    /\ res'[p].error # "audit"
Works(p) ==
    /\ pc[p] \in Critical \ {"intent", "final"} /\ pc'[p] \in Critical \ {"intent"}
    /\ audit' = audit \/ audit' = audit \cup {<<p, "peer_delete">>}
    /\ res[p].error # "audit" => res'[p].error # "audit"
Closes(p) ==
    /\ pc[p] = "final" /\ pc'[p] = "done" /\ UNCHANGED data
    /\ \/ audit' = audit \cup {<<p, IF res[p].ok THEN "ok" ELSE "error">>} /\ UNCHANGED res
       \/ UNCHANGED audit /\ ~res'[p].ok /\ res'[p].error = "audit"

Shape(p) ==
    /\ \A r \in Procs \ {p} : pc'[r] = pc[r] /\ res'[r] = res[r]
    /\ Quiet(p) \/ TurnedAway(p) \/ Announces(p) \/ Unannounced(p) \/ Works(p) \/ Closes(p)

\* No failure is reported as one of the audit log but the one of the closing line.
LEMMA FailError ==
    ASSUME Typed, NEW p \in Procs, NEW e \in Raised, Fail(p, e)
    PROVE  res'[p].error # "audit"
<1>1. ErrorOf(e) # "audit"
  BY DEF ErrorOf, Raised
<1>2. res \in [Procs -> Result] /\ res[p] \in Result
  BY DEF Typed, TypeOK
<1> QED
  BY <1>1, <1>2 DEF Fail, Result

LEMMA SyncError ==
    ASSUME Typed, NEW p \in Procs, NEW v, SyncReturns(p, v), res[p].error # "audit"
    PROVE  res'[p].error # "audit"
<1>1. res \in [Procs -> Result] /\ res[p] \in Result
  BY DEF Typed, TypeOK
<1> QED
  BY <1>1 DEF SyncReturns, Result

LEMMA WorkError ==
    ASSUME Typed, NEW p \in Procs, Step(p), pc[p] \in Critical \ {"intent", "final"},
           res[p].error # "audit"
    PROVE  res'[p].error # "audit"
<1>t. res \in [Procs -> Result] /\ res[p] \in Result
  BY DEF Typed, TypeOK
<1>1. CASE \E e \in Raised : Fail(p, e)
  BY <1>1, FailError
<1>2. CASE \E v \in {"verified", "unverified"} : SyncReturns(p, v)
  BY <1>2, SyncError
<1>3. CASE res'[p].error = res[p].error
  BY <1>3
<1>4. CASE Preflight(p) \/ ReadCurrent(p) \/ CheckLast(p) \/ ReadPeerRevision(p)
  BY <1>1, <1>3, <1>4, RaisedFacts DEF Preflight, ReadCurrent, CheckLast, ReadPeerRevision
<1>5. CASE PostCreate(p) \/ PostChange(p)
  BY <1>1, <1>3, <1>5, RaisedFacts DEF PostCreate, PostChange
<1>6. CASE PostApply(p)
  BY <1>1, <1>3, <1>6, <1>t, RaisedFacts DEF PostApply, Result
<1>7. CASE Readback(p)
  BY <1>1, <1>3, <1>7, <1>t, RaisedFacts DEF Readback, Result
<1>8. CASE StartSync(p) \/ PostPush(p) \/ PeerRead(p)
  BY <1>2, <1>3, <1>8 DEF StartSync, PostPush, PeerRead
<1>9. CASE \/ QualifyCleanup(p) \/ CleanupIntent(p) \/ CleanupDelete(p)
          \/ CleanupApply(p) \/ CleanupVerify(p)
  BY <1>2, <1>3, <1>9 DEF QualifyCleanup, CleanupIntent, CleanupDelete, CleanupApply, CleanupVerify
<1>10. CASE RollbackDelete(p) \/ RollbackApply(p)
  BY <1>3, <1>10 DEF RollbackDelete, RollbackApply
<1>11. CASE RollbackVerify(p)
  BY <1>3, <1>11, <1>t DEF RollbackVerify, Result
<1> QED
  BY <1>4, <1>5, <1>6, <1>7, <1>8, <1>9, <1>10, <1>11 DEF Step, Acquire, Intent, Finish, Critical

LEMMA Shapes ==
    ASSUME Typed, NEW p \in Procs, Begin(p) \/ Refuse(p) \/ Step(p)
    PROVE  Shape(p)
<1>t. pc \in [Procs -> Stages] /\ res \in [Procs -> Result] /\ res[p] \in Result
  BY DEF Typed, TypeOK
<1>1. CASE Begin(p)
  BY <1>1, <1>t, BeginFacts DEF Shape, Quiet, data
<1>2. CASE Refuse(p)
  BY <1>2, <1>t DEF Refuse, Goto, Shape, TurnedAway
<1>3. CASE Acquire(p)
  BY <1>3, <1>t DEF Acquire, Goto, Shape, Quiet
<1>4. CASE Intent(p)
  <2>1. UNCHANGED data /\ pc[p] = "intent" /\ \A r \in Procs \ {p} : pc'[r] = pc[r] /\ res'[r] = res[r]
    BY <1>4, InnerIntent DEF Inner, Progress, Intent
  <2>2. CASE IntentLost(p) /\ UNCHANGED audit
    <3>1. Fail(p, "oserror") /\ "oserror" \in Raised
      BY <2>2 DEF IntentLost, Raised
    <3>2. res'[p].error # "audit"
      BY <3>1, FailError
    <3>3. pc'[p] = "final"
      BY <1>t, <3>1 DEF Fail, Goto, RollsBack, Rejections
    <3> QED
      BY <2>1, <2>2, <3>2, <3>3 DEF Shape, Unannounced
  <2>3. CASE audit' = audit \cup {<<p, "started">>} /\ Goto(p, "preflight") /\ UNCHANGED res
    BY <1>t, <2>1, <2>3 DEF Shape, Announces, Goto
  <2> QED
    BY <1>4, <2>2, <2>3 DEF Intent
<1>5. CASE Step(p) /\ Inner(p) /\ ~Intent(p)
  <2>1. pc[p] \in Critical \ {"intent", "final"}
    BY <1>5 DEF Inner, Step, Acquire, Preflight, ReadCurrent, CheckLast, ReadPeerRevision, PostCreate,
       PostChange, PostApply, Readback, StartSync, PostPush, PeerRead, QualifyCleanup, CleanupIntent,
       CleanupDelete, CleanupApply, CleanupVerify, RollbackDelete, RollbackApply, RollbackVerify, Finish
  <2>2. audit' = audit \/ audit' = audit \cup {<<p, "peer_delete">>}
    BY <1>5, <2>1 DEF Step, Critical, Acquire, Preflight, ReadCurrent, CheckLast, ReadPeerRevision,
       PostCreate, PostChange, PostApply, Readback, StartSync, PostPush, PeerRead, QualifyCleanup,
       CleanupIntent, CleanupDelete, CleanupApply, CleanupVerify, RollbackDelete, RollbackApply,
       RollbackVerify, Finish
  <2>3. res[p].error # "audit" => res'[p].error # "audit"
    BY <1>5, <2>1, WorkError
  <2> QED
    BY <1>5, <2>1, <2>2, <2>3 DEF Inner, Progress, Shape, Works
<1>6. CASE Finish(p)
  <2>1. pc[p] = "final" /\ pc' = [pc EXCEPT ![p] = "done"] /\ UNCHANGED data
    BY <1>6 DEF Finish, Goto
  <2>2. CASE audit' = audit \cup {<<p, IF res[p].ok THEN "ok" ELSE "error">>} /\ UNCHANGED res
    BY <1>t, <2>1, <2>2 DEF Shape, Closes
  <2>3. CASE Unrecorded(p) /\ UNCHANGED audit
    <3>1. ~res'[p].ok /\ res'[p].error = "audit" /\ \A r \in Procs \ {p} : res'[r] = res[r]
      BY <1>t, <2>3 DEF Unrecorded, Result
    <3> QED
      BY <1>t, <2>1, <2>3, <3>1 DEF Shape, Closes
  <2> QED
    BY <1>6, <2>2, <2>3 DEF Finish
<1> QED
  BY <1>1, <1>2, <1>3, <1>4, <1>5, <1>6, InnerStep

\* The lines and the error of a request before its answer.
TrailOf(p) ==
    /\ pc[p] \in {"idle", "wait", "intent"} => \A e \in Events : <<p, e>> \notin audit
    /\ pc[p] \in Critical \cup {"idle", "wait"} => <<p, "ok">> \notin audit /\ <<p, "error">> \notin audit
    /\ pc[p] \in Critical \cup {"idle", "wait"} => res[p].error # "audit"

TrailInv == \A p \in Procs : TrailOf(p)

LEMMA OthersTrail ==
    ASSUME NEW p \in Procs, Shape(p), NEW r \in Procs \ {p}
    PROVE  \A e \in Events : (<<r, e>> \in audit') = (<<r, e>> \in audit)
  BY DEF Shape, Quiet, TurnedAway, Announces, Unannounced, Works, Closes

LEMMA TrailStep == ASSUME Typed, TrailInv, [Next]_vars PROVE TrailInv'
<1>1. ASSUME NEW p \in Procs, Shape(p) PROVE TrailInv'
  <2>1. ASSUME NEW r \in Procs \ {p} PROVE TrailOf(r)'
    <3>1. TrailOf(r) /\ pc'[r] = pc[r] /\ res'[r] = res[r]
      BY <1>1 DEF TrailInv, Shape
    <3>2. \A e \in Events : (<<r, e>> \in audit') = (<<r, e>> \in audit)
      BY <1>1, OthersTrail
    <3> QED
      BY <3>1, <3>2 DEF TrailOf, Events
  <2>2. TrailOf(p)'
    <3>1. TrailOf(p)
      BY DEF TrailInv
    <3>2. CASE Quiet(p)
      BY <3>1, <3>2 DEF TrailOf, Quiet, Critical
    <3>3. CASE TurnedAway(p) \/ Closes(p)
      BY <3>3 DEF TrailOf, TurnedAway, Closes, Critical
    <3>4. CASE Announces(p)
      BY <3>1, <3>4 DEF TrailOf, Announces, Critical, Events
    <3>5. CASE Unannounced(p)
      BY <3>1, <3>5 DEF TrailOf, Unannounced, Critical
    <3>6. CASE Works(p)
      <4>1. pc'[p] \notin {"idle", "wait", "intent"}
        BY <3>6 DEF Works, Critical
      <4> QED
        BY <3>1, <3>6, <4>1 DEF TrailOf, Works
    <3> QED
      BY <1>1, <3>2, <3>3, <3>4, <3>5, <3>6 DEF Shape
  <2> QED
    BY <2>1, <2>2 DEF TrailInv
<1>2. CASE ExternalWrite \/ LateExecution \/ AutoSync \/ CarpChange \/ Reconfigure
  BY <1>2, EnvironmentFacts DEF TrailInv, TrailOf
<1>3. CASE Crash
  <2>1. /\ pc' = [p \in Procs |-> IF pc[p] \in {"idle", "done"} THEN pc[p] ELSE "crashed"]
        /\ audit' = audit /\ res' = res
    BY <1>3 DEF Crash
  <2> QED
    BY <2>1 DEF TrailInv, TrailOf, Critical
<1>4. CASE UNCHANGED vars
  BY <1>4 DEF vars, TrailInv, TrailOf
<1> QED
  BY <1>1, <1>2, <1>3, <1>4, Shapes DEF Next, Done

Trailed == Typed /\ AuditInv /\ TrailInv

LEMMA TrailedInit == Init => Trailed
<1>1. Init => TrailInv
  BY DEF Init, TrailInv, TrailOf, NoResult, Critical
<1> QED
  BY <1>1, TypedInit, AuditInit DEF Trailed

-----------------------------------------------------------------------------
(* What a step does to the trail of AuditedWrite *)

LEMMA TrailSame == ASSUME Lines' = Lines PROVE Trail' = Trail
  BY DEF Trail

LEMMA TrailGrows ==
    ASSUME NEW p, NEW e, Lines' = Lines \cup {<<p, e>>}
    PROVE  Trail' = Trail \cup {<<p, Event(e)>>}
<1> DEFINE F(l) == <<l[1], Event(l[2])>>
<1>1. F(<<p, e>>) = <<p, Event(e)>>
  OBVIOUS
<1>2. Trail = {F(l) : l \in Lines} /\ Trail' = {F(l) : l \in Lines'}
  BY DEF Trail
<1> HIDE DEF F
<1> QED
  BY <1>1, <1>2

LEMMA Line == ASSUME TypeOK, NEW l \in audit PROVE l = <<l[1], l[2]>> /\ l[1] \in Procs /\ l[2] \in Events
  BY DEF TypeOK

\* A line that Lines does not show, or shows.
LEMMA LinesAfter ==
    ASSUME TypeOK, NEW p \in Procs, NEW e, e # "started", audit' = audit \cup {<<p, e>>}
    PROVE  Lines' = Lines \cup (IF Declared(p) /\ e # "peer_delete" THEN {<<p, e>>} ELSE {})
<1> DEFINE new == <<p, e>>
<1>1. new[1] = p /\ new[2] = e
  OBVIOUS
<1>2. \A q : Declared(q)' = Declared(q)
  <2>1. \A q : <<q, "started">> # new
    OBVIOUS
  <2> QED
    BY <2>1 DEF Declared
<1> HIDE DEF new
<1>3. audit' = audit \cup {new}
  BY DEF new
<1>4. Lines' = Lines \cup (IF Declared(p) /\ e # "peer_delete" THEN {new} ELSE {})
  BY <1>1, <1>2, <1>3 DEF Lines
<1> QED
  BY <1>4 DEF new

\* Lines of p that stand for none of AuditedWrite.
LEMMA TrailUnseen ==
    ASSUME TypeOK, NEW p \in Procs, NEW e \in Events \ {"started"},
           audit' = audit \/ audit' = audit \cup {<<p, e>>},
           e = "peer_delete" \/ ~Declared(p)
    PROVE  Trail' = Trail
<1>1. CASE audit' = audit
  BY <1>1, TrailSame DEF Lines, Declared
<1>2. CASE audit' = audit \cup {<<p, e>>}
  BY <1>2, LinesAfter, TrailSame
<1> QED
  BY <1>1, <1>2

LEMMA TrailIntent ==
    ASSUME TypeOK, NEW p \in Procs, audit' = audit \cup {<<p, "started">>},
           \A e \in Events : <<p, e>> \notin audit
    PROVE  Trail' = Trail \cup {<<p, "intent">>}
<1> DEFINE new == <<p, "started">>
<1>1. new[1] = p /\ new[2] = "started"
  OBVIOUS
<1>2. \A l \in audit : l[1] # p
  BY Line
<1>3. /\ \A q : q # p => Declared(q)' = Declared(q)
      /\ Declared(p)'
  BY DEF Declared
<1> HIDE DEF new
<1>4. audit' = audit \cup {new}
  BY DEF new
<1>5. Lines' = Lines \cup {new}
  BY <1>1, <1>2, <1>3, <1>4 DEF Lines
<1>6. Lines' = Lines \cup {<<p, "started">>}
  BY <1>5 DEF new
<1> QED
  BY <1>6, TrailGrows DEF Event

LEMMA TrailOutcome ==
    ASSUME TypeOK, NEW p \in Procs, NEW o \in {"ok", "error"},
           audit' = audit \cup {<<p, o>>}, Declared(p)
    PROVE  Trail' = Trail \cup {<<p, o>>}
<1>1. Lines' = Lines \cup {<<p, o>>}
  BY LinesAfter
<1> QED
  BY <1>1, TrailGrows DEF Event

-----------------------------------------------------------------------------
(* The writer implements AuditedWrite *)

AuditedStep == [Audited!Next]_(Audited!vars)

LEMMA StageOf ==
    ASSUME NEW p \in Procs
    PROVE  /\ Stage[p] = CASE pc[p] = "done" -> "over"
                           [] pc[p] = "crashed" -> "lost"
                           [] OTHER -> IF Declared(p) THEN "declared" ELSE "new"
           /\ Answer[p] = IF pc[p] # "done" THEN "none"
                          ELSE IF ~Declared(p) THEN "refused"
                          ELSE IF res[p].ok THEN "ok"
                          ELSE IF res[p].error = "audit" THEN "unrecorded" ELSE "error"
  BY DEF Stage, Answer

\* A step of p leaves the stages and answers of others alone.
LEMMA StageMoves ==
    ASSUME NEW p \in Procs, Shape(p)
    PROVE  /\ Stage' = [Stage EXCEPT ![p] = Stage'[p]]
           /\ Answer' = [Answer EXCEPT ![p] = Answer'[p]]
           /\ Stage'[p] = Stage[p] => Stage' = Stage
           /\ Answer'[p] = Answer[p] => Answer' = Answer
<1>1. ASSUME NEW q \in Procs \ {p} PROVE Stage'[q] = Stage[q] /\ Answer'[q] = Answer[q]
  <2>1. pc'[q] = pc[q] /\ res'[q] = res[q]
    BY DEF Shape
  <2>2. Declared(q)' = Declared(q)
    BY OthersTrail DEF Declared, Events
  <2> QED
    BY <2>1, <2>2 DEF Stage, Answer
<1>2. /\ Stage = [q \in Procs |-> Stage[q]] /\ Stage' = [q \in Procs |-> Stage'[q]]
      /\ Answer = [q \in Procs |-> Answer[q]] /\ Answer' = [q \in Procs |-> Answer'[q]]
  BY DEF Stage, Answer
<1> QED
  BY <1>1, <1>2

\* The stages of the two specifications correspond.
LEMMA Correspondence ==
    ASSUME Trailed, NEW p \in Procs
    PROVE  /\ pc[p] \in {"idle", "wait", "intent"} => ~Declared(p)
           /\ pc[p] \in Critical \ {"intent", "final"} => Declared(p)
           /\ pc[p] \in Critical \cup {"idle", "wait"}
                => Stage[p] = (IF Declared(p) THEN "declared" ELSE "new") /\ Answer[p] = "none"
  BY StageOf DEF Trailed, TrailInv, TrailOf, AuditInv, AuditOf, Declared, Events, Critical

LEMMA HiddenStep ==
    ASSUME NEW p \in Procs, Shape(p), Trail' = Trail, touched' = touched,
           Stage'[p] = Stage[p], Answer'[p] = Answer[p]
    PROVE  AuditedStep
<1>1. UNCHANGED <<Stage, Answer, Trail, touched>>
  BY StageMoves
<1> QED
  BY <1>1 DEF AuditedStep, Audited!vars

LEMMA QuietRefines ==
    ASSUME Trailed, Trailed', NEW p \in Procs, Shape(p), Touch(p), Quiet(p) \/ Unannounced(p)
    PROVE  AuditedStep
<1>1. UNCHANGED <<audit, touched, Trail>>
  BY DEF Quiet, Unannounced, Touch, Trail, Lines, Declared
<1>2. /\ pc[p] \in {"idle", "wait", "intent"} /\ pc'[p] \in {"wait", "intent", "final"}
      /\ Declared(p)' = Declared(p)
  BY <1>1 DEF Quiet, Unannounced, Declared
<1>3. Stage'[p] = Stage[p] /\ Answer'[p] = Answer[p]
  BY <1>2 DEF Stage, Answer
<1> QED
  BY <1>1, <1>3, HiddenStep

LEMMA RefuseRefines ==
    ASSUME Trailed, Trailed', NEW p \in Procs, Shape(p), touched' = touched, Trail' = Trail,
           pc[p] \in Critical \cup {"idle"}, ~Declared(p), ~Declared(p)', pc'[p] = "done"
    PROVE  AuditedStep
<1>1. Stage[p] = "new"
  BY Correspondence
<1>2. Stage'[p] = "over" /\ Answer'[p] = "refused"
  BY DEF Stage, Answer
<1>3. Audited!Refuse(p)
  BY <1>1, <1>2, StageMoves DEF Audited!Refuse, Audited!Over
<1> QED
  BY <1>3 DEF AuditedStep, Audited!Next

LEMMA AnnounceRefines ==
    ASSUME Trailed, Trailed', NEW p \in Procs, Shape(p), Touch(p), Announces(p)
    PROVE  AuditedStep
<1>1. touched' = touched /\ pc[p] = "intent" /\ pc'[p] = "preflight" /\ audit' = audit \cup {<<p, "started">>}
  BY DEF Announces, Touch
<1>2. \A e \in Events : <<p, e>> \notin audit
  BY <1>1 DEF Trailed, TrailInv, TrailOf
<1>3. Trail' = Trail \cup {<<p, "intent">>}
  BY <1>1, <1>2, TrailIntent DEF Trailed, Typed
<1>4. Stage[p] = "new" /\ Answer[p] = "none" /\ Stage'[p] = "declared" /\ Answer'[p] = "none"
  BY <1>1, Correspondence DEF Stage, Answer, Declared, Critical
<1>5. Audited!Declare(p)
  BY <1>1, <1>3, <1>4, StageMoves DEF Audited!Declare
<1> QED
  BY <1>5 DEF AuditedStep, Audited!Next

LEMMA WorkRefines ==
    ASSUME Trailed, Trailed', NEW p \in Procs, Shape(p), Touch(p), Works(p)
    PROVE  AuditedStep
<1>1. Trail' = Trail
  <2>1. "peer_delete" \in Events \ {"started"}
    BY DEF Events
  <2>2. audit' = audit \/ audit' = audit \cup {<<p, "peer_delete">>}
    BY DEF Works
  <2>3. TypeOK /\ TypeOK'
    BY DEF Trailed, Typed
  <2> QED
    BY <2>1, <2>2, <2>3, TrailUnseen
<1>2. Declared(p) /\ Declared(p)'
  BY Correspondence DEF Works, Declared
<1>3. /\ Stage[p] = "declared" /\ Answer[p] = "none"
      /\ Stage'[p] = "declared" /\ Answer'[p] = "none"
  BY <1>2 DEF Works, Stage, Answer, Critical
<1>4. CASE touched' = touched
  BY <1>1, <1>3, <1>4, HiddenStep
<1>5. CASE touched' = touched \cup {p}
  <2>1. Audited!Change(p)
    BY <1>1, <1>3, <1>5, StageMoves DEF Audited!Change
  <2> QED
    BY <2>1 DEF AuditedStep, Audited!Next
<1> QED
  BY <1>4, <1>5 DEF Touch

LEMMA CloseRefines ==
    ASSUME Trailed, Trailed', NEW p \in Procs, Shape(p), Touch(p), Closes(p)
    PROVE  AuditedStep
<1>1. touched' = touched /\ pc[p] = "final" /\ pc'[p] = "done" /\ TypeOK /\ TypeOK' /\ "final" \in Critical
  BY DEF Closes, Touch, Trailed, Typed, Critical
<1> DEFINE o == IF res[p].ok THEN "ok" ELSE "error"
<1>2. o \in {"ok", "error"} /\ o \in Events \ {"started"}
  BY DEF Events
<1>3. Declared(p)' = Declared(p)
  BY DEF Closes, Declared
<1>4. CASE ~Declared(p)
  <2>1. audit' = audit \/ audit' = audit \cup {<<p, o>>}
    BY DEF Closes
  <2> HIDE DEF o
  <2>2. Trail' = Trail
    BY <1>1, <1>2, <1>4, <2>1, TrailUnseen
  <2> QED
    BY <1>1, <1>3, <1>4, <2>2, RefuseRefines
<1>5. CASE Declared(p) /\ audit' = audit \cup {<<p, o>>} /\ UNCHANGED res
  <2>1. Trail' = Trail \cup {<<p, o>>}
    <3> HIDE DEF o
    <3> QED
      BY <1>1, <1>2, <1>5, TrailOutcome
  <2>2. Stage[p] = "declared"
    BY <1>1, <1>5, Correspondence
  <2>3. res[p].error # "audit"
    BY <1>1 DEF Trailed, TrailInv, TrailOf
  <2>4. Stage'[p] = "over" /\ Answer'[p] = o
    BY <1>1, <1>3, <1>5, <2>3 DEF Stage, Answer
  <2>5. Audited!Close(p, o)
    BY <1>1, <2>1, <2>2, <2>4, StageMoves DEF Audited!Close, Audited!Over
  <2> QED
    BY <1>2, <2>5 DEF AuditedStep, Audited!Next
<1>6. CASE Declared(p) /\ UNCHANGED audit /\ ~res'[p].ok /\ res'[p].error = "audit"
  <2>1. Trail' = Trail
    BY <1>6 DEF Trail, Lines, Declared
  <2>2. Stage[p] = "declared"
    BY <1>1, <1>6, Correspondence
  <2>3. Stage'[p] = "over" /\ Answer'[p] = "unrecorded"
    BY <1>1, <1>3, <1>6 DEF Stage, Answer
  <2>4. Audited!Unrecorded(p)
    BY <1>1, <2>1, <2>2, <2>3, StageMoves DEF Audited!Unrecorded, Audited!Over
  <2> QED
    BY <2>4 DEF AuditedStep, Audited!Next
<1> QED
  BY <1>4, <1>5, <1>6 DEF Closes

LEMMA CrashRefines == ASSUME Trailed, Crash, touched' = touched PROVE AuditedStep
<1> DEFINE lost == {p \in Procs : pc[p] \notin {"idle", "done", "crashed"}}
<1>1. /\ pc' = [p \in Procs |-> IF pc[p] \in {"idle", "done"} THEN pc[p] ELSE "crashed"]
      /\ UNCHANGED <<audit, res>>
  BY DEF Crash
<1>2. \A p \in Procs : pc[p] \in Critical \cup {"idle", "wait", "done", "crashed"}
  BY DEF Trailed, Typed, TypeOK, Stages
<1>3. lost \in SUBSET {p \in Procs : Stage[p] \in {"new", "declared"}}
  BY <1>2, Correspondence
<1>4. Stage' = [p \in Procs |-> IF p \in lost THEN "lost" ELSE Stage[p]]
  BY <1>1 DEF Stage, Declared
<1>5. UNCHANGED <<Answer, Trail>>
  BY <1>1 DEF Answer, Trail, Lines, Declared
<1>6. Audited!Crash
  BY <1>3, <1>4, <1>5 DEF Audited!Crash
<1> QED
  BY <1>6 DEF AuditedStep, Audited!Next

LEMMA AsideRefines ==
    ASSUME UNCHANGED <<audit, pc, res, touched>>
    PROVE  AuditedStep
<1>1. UNCHANGED <<Stage, Answer, Trail, touched>>
  BY DEF Stage, Answer, Trail, Lines, Declared
<1> QED
  BY <1>1 DEF AuditedStep, Audited!vars

LEMMA TrailRefines ==
    ASSUME Trailed, Trailed', [TrailNext]_<<vars, touched>>
    PROVE  AuditedStep
<1>1. ASSUME NEW p \in Procs, Begin(p) \/ Refuse(p) \/ Step(p), Touch(p) PROVE AuditedStep
  <2>1. Shape(p)
    BY <1>1, Shapes DEF Trailed
  <2>2. CASE TurnedAway(p)
    <3>1. UNCHANGED <<audit, touched, Trail>> /\ pc[p] = "idle" /\ pc'[p] = "done"
      BY <1>1, <2>2 DEF TurnedAway, Touch, Trail, Lines, Declared
    <3>2. ~Declared(p) /\ ~Declared(p)'
      BY <3>1, Correspondence DEF Declared
    <3> QED
      BY <2>1, <3>1, <3>2, RefuseRefines
  <2> QED
    BY <1>1, <2>1, <2>2, QuietRefines, AnnounceRefines, WorkRefines, CloseRefines DEF Shape
<1>2. CASE Crash /\ UNCHANGED touched
  BY <1>2, CrashRefines
<1>3. CASE (ExternalWrite \/ LateExecution \/ AutoSync \/ CarpChange \/ Reconfigure) /\ UNCHANGED touched
  BY <1>3, EnvironmentFacts, AsideRefines
<1>4. CASE UNCHANGED vars /\ UNCHANGED touched
  BY <1>4, AsideRefines DEF vars
<1> QED
  BY <1>1, <1>2, <1>3, <1>4 DEF TrailNext, Done

LEMMA TrailForgotten == [TrailNext]_<<vars, touched>> => [Next]_vars
  BY DEF TrailNext, Next, vars

\* VerifiedFirewallWriter.execute is an audited write: every step of a request,
\* its rollback, its push and its deletion on the peer included, is one of
\* AuditedWrite, or none that it can see.
THEOREM Refinement == TrailSpec => IsAuditedWrite
<1>1. TrailInit => Trailed /\ Audited!Init
  <2>1. TrailInit => Audited!Init
    BY DEF TrailInit, Init, Audited!Init, Stage, Answer, Trail, Lines, Declared
  <2> QED
    BY <2>1, TrailedInit DEF TrailInit
<1>2. Trailed /\ [TrailNext]_<<vars, touched>> => Trailed'
  BY TrailForgotten, TypedStep, AuditStep, TrailStep DEF Trailed
<1>3. Trailed /\ Trailed' /\ [TrailNext]_<<vars, touched>> => [Audited!Next]_(Audited!vars)
  BY TrailRefines DEF AuditedStep
<1> QED
  BY <1>1, <1>2, <1>3, PTL DEF TrailSpec, IsAuditedWrite, Audited!Spec

Proved ==
    INSTANCE AuditedWriteProofs WITH stage <- Stage, answer <- Answer, trail <- Trail, changed <- touched

\* Every change that the verified writer makes to a node of the pair can be traced
\* to the intent in audit.jsonl, and every answer to such a request to its outcome,
\* unless the answer says that the audit log failed.
THEOREM Traced == TrailSpec => []Audited!Accounted
<1>1. Audited!Init => Proved!Init
  BY DEF Audited!Init, Proved!Init
<1>2. [Audited!Next]_(Audited!vars) => [Proved!Next]_(Proved!vars)
  BY DEF Audited!Next, Audited!vars, Audited!Refuse, Audited!Declare, Audited!Change, Audited!Unrecorded,
         Audited!Close, Audited!Over, Audited!Crash, Proved!Next, Proved!vars, Proved!Refuse,
         Proved!Declare, Proved!Change, Proved!Unrecorded, Proved!Close, Proved!Over, Proved!Crash
<1>3. Proved!Accounted => Audited!Accounted
  BY DEF Audited!Accounted, Proved!Accounted
<1>4. Proved!Spec => []Proved!Accounted
  BY Proved!AccountedFor
<1> QED
  BY <1>1, <1>2, <1>3, <1>4, Refinement, PTL DEF IsAuditedWrite, Audited!Spec, Proved!Spec

-----------------------------------------------------------------------------
(* Every request comes to an end *)

Rank(s) ==
    CASE s = "idle" -> 0      [] s = "wait" -> 1      [] s = "intent" -> 2
      [] s = "preflight" -> 3 [] s = "read" -> 4      [] s = "last" -> 5
      [] s = "peerRev" -> 6   [] s = "mutate" -> 7    [] s = "apply" -> 8
      [] s = "verify" -> 9    [] s = "rbDelete" -> 10 [] s = "rbApply" -> 11
      [] s = "rbVerify" -> 12 [] s = "sync" -> 13     [] s = "push" -> 14
      [] s = "peerRead" -> 15
      [] s = "cleanup" -> Attempts + 15     [] s = "cleanIntent" -> Attempts + 16
      [] s = "cleanDelete" -> Attempts + 17 [] s = "cleanApply" -> Attempts + 18
      [] s = "cleanVerify" -> Attempts + 19 [] s = "final" -> Attempts + 20
      [] s \in {"done", "crashed"} -> Attempts + 21

\* How far a request has come.
Position(p) == Rank(pc[p]) + IF pc[p] = "peerRead" THEN ctl[p].tries ELSE 0

Bounded == \A p \in Procs : Position(p) \in 0 .. Attempts + 21

\* Nothing takes a request back, and each step of its own takes it further.
Advances ==
    [][\A p \in Procs :
         /\ Position(p)' >= Position(p)
         /\ Begin(p) \/ Refuse(p) \/ Step(p) => Position(p)' > Position(p)]_vars

\* Where a step leads from stage s.
Ahead(s) ==
    CASE s = "idle" -> {"wait", "done"}
      [] s = "wait" -> {"intent"}
      [] s = "intent" -> {"preflight", "final"}
      [] s = "preflight" -> {"read", "mutate", "final"}
      [] s = "read" -> {"last", "mutate", "final"}
      [] s = "last" -> {"peerRev", "mutate", "final"}
      [] s = "peerRev" -> {"mutate", "final"}
      [] s = "mutate" -> {"apply", "final"}
      [] s = "apply" -> {"verify", "rbDelete", "final"}
      [] s = "verify" -> {"sync", "rbDelete", "final"}
      [] s = "rbDelete" -> {"rbApply", "final"}
      [] s = "rbApply" -> {"rbVerify", "final"}
      [] s = "rbVerify" -> {"sync", "final"}
      [] s = "sync" -> {"push", "peerRead", "final"}
      [] s = "push" -> {"peerRead", "final"}
      [] s = "peerRead" -> {"peerRead", "cleanup", "final"}
      [] s = "cleanup" -> {"cleanIntent", "final"}
      [] s = "cleanIntent" -> {"cleanDelete", "final"}
      [] s = "cleanDelete" -> {"cleanApply", "final"}
      [] s = "cleanApply" -> {"cleanVerify", "final"}
      [] s = "cleanVerify" -> {"final"}
      [] s = "final" -> {"done"}

LEMMA RankType == ASSUME NEW s \in Stages PROVE Rank(s) \in 0 .. Attempts + 21
<1>1. /\ Rank("idle") = 0 /\ Rank("wait") = 1 /\ Rank("intent") = 2 /\ Rank("preflight") = 3
      /\ Rank("read") = 4 /\ Rank("last") = 5 /\ Rank("peerRev") = 6 /\ Rank("mutate") = 7
  BY DEF Rank
<1>2. /\ Rank("apply") = 8 /\ Rank("verify") = 9 /\ Rank("rbDelete") = 10 /\ Rank("rbApply") = 11
      /\ Rank("rbVerify") = 12 /\ Rank("sync") = 13 /\ Rank("push") = 14 /\ Rank("peerRead") = 15
  BY DEF Rank
<1>3. /\ Rank("cleanup") = Attempts + 15 /\ Rank("cleanIntent") = Attempts + 16
      /\ Rank("cleanDelete") = Attempts + 17 /\ Rank("cleanApply") = Attempts + 18
  BY DEF Rank
<1>4. /\ Rank("cleanVerify") = Attempts + 19 /\ Rank("final") = Attempts + 20
      /\ Rank("done") = Attempts + 21 /\ Rank("crashed") = Attempts + 21
  BY DEF Rank
<1> QED
  BY <1>1, <1>2, <1>3, <1>4, ConstantsAssumption DEF Stages, Critical

LEMMA RankAhead ==
    ASSUME NEW s \in Stages \ {"done", "crashed"}, NEW t \in Ahead(s)
    PROVE  /\ s # "peerRead" => Rank(t) > Rank(s)
           /\ s = "peerRead" /\ t # "peerRead" => Rank(t) >= Attempts + 15
<1> USE ConstantsAssumption DEF Rank, Ahead
<1>1. CASE s \in {"idle", "wait", "intent", "preflight", "read", "last", "peerRev"}
  BY <1>1
<1>2. CASE s \in {"mutate", "apply", "verify", "rbDelete", "rbApply", "rbVerify"}
  BY <1>2
<1>3. CASE s \in {"sync", "push", "peerRead"}
  BY <1>3
<1>4. CASE s \in {"cleanup", "cleanIntent", "cleanDelete", "cleanApply", "cleanVerify", "final"}
  BY <1>4
<1> QED
  BY <1>1, <1>2, <1>3, <1>4 DEF Stages, Critical

\* The peer is read at most Attempts times.
PositionOf(p) ==
    /\ Position(p) \in 0 .. Attempts + 21
    /\ pc[p] = "peerRead" => Position(p) = 15 + ctl[p].tries /\ ctl[p].tries \in 0 .. Attempts - 1
    /\ pc[p] # "peerRead" => Position(p) = Rank(pc[p])

LEMMA Positions == Typed => \A p \in Procs : PositionOf(p)
<1> SUFFICES ASSUME Typed, NEW p \in Procs PROVE PositionOf(p)
  OBVIOUS
<1>1. pc[p] \in Stages /\ ctl[p].tries \in Nat /\ (pc[p] = "peerRead" => ctl[p].tries < Attempts)
  BY DEF Typed, TypeOK, Control, StageInv
<1>2. Attempts \in Nat
  BY ConstantsAssumption
<1>3. Rank("peerRead") = 15 /\ Rank(pc[p]) \in 0 .. Attempts + 21
  BY <1>1, RankType DEF Rank
<1> QED
  BY <1>1, <1>2, <1>3 DEF Position, PositionOf

\* The except clause of _execute leads to the rollback or to the closing line.
LEMMA FailAhead ==
    ASSUME Typed, NEW p \in Procs, \E e \in Raised : Fail(p, e), pc[p] \in PrePost \cup {"apply", "verify"}
    PROVE  pc'[p] \in {"rbDelete", "final"} /\ (pc[p] \in PrePost => pc'[p] = "final")
  BY FailTypes DEF Typed, StageInv

LEMMA SyncAhead ==
    ASSUME Typed, NEW p \in Procs, \E v \in {"verified", "unverified"} : SyncReturns(p, v)
    PROVE  pc'[p] = "final"
  BY SyncTypes DEF Typed, TypeOK

LEMMA GotoAhead == ASSUME Typed, NEW p \in Procs, NEW s, Goto(p, s) PROVE pc'[p] = s
  BY DEF Goto, Typed, TypeOK

LEMMA StepAhead ==
    ASSUME Typed, NEW p \in Procs, Begin(p) \/ Refuse(p) \/ Step(p)
    PROVE  pc[p] \in Stages \ {"done", "crashed"} /\ pc'[p] \in Ahead(pc[p])
<1>t. pc[p] \in Stages
  BY DEF Typed, TypeOK
<1>1. CASE Begin(p) \/ Refuse(p)
  BY <1>1, <1>t, GotoAhead DEF Begin, Refuse, Ahead
<1>2. CASE Acquire(p)
  BY <1>2, <1>t, GotoAhead DEF Acquire, Ahead
<1>3. CASE Intent(p)
  <2>1. pc'[p] \in {"preflight", "final"}
    BY <1>3, GotoAhead, FailAhead, RaisedFacts DEF Intent, IntentLost, PrePost
  <2> QED
    BY <1>3, <1>t, <2>1 DEF Intent, Ahead
<1>4. CASE Preflight(p)
  <2>1. pc'[p] \in {"read", "mutate", "final"}
    BY <1>4, GotoAhead, FailAhead, RaisedFacts DEF Preflight, PrePost
  <2> QED
    BY <1>4, <1>t, <2>1 DEF Preflight, Ahead
<1>5. CASE ReadCurrent(p)
  <2>1. pc'[p] \in {"last", "mutate", "final"}
    BY <1>5, GotoAhead, FailAhead, RaisedFacts DEF ReadCurrent, PrePost
  <2> QED
    BY <1>5, <1>t, <2>1 DEF ReadCurrent, Ahead
<1>6. CASE CheckLast(p)
  <2>1. pc'[p] \in {"peerRev", "mutate", "final"}
    BY <1>6, GotoAhead, FailAhead, RaisedFacts DEF CheckLast, PrePost
  <2> QED
    BY <1>6, <1>t, <2>1 DEF CheckLast, Ahead
<1>7. CASE ReadPeerRevision(p)
  <2>1. pc'[p] \in {"mutate", "final"}
    BY <1>7, GotoAhead, FailAhead, RaisedFacts DEF ReadPeerRevision, PrePost
  <2> QED
    BY <1>7, <1>t, <2>1 DEF ReadPeerRevision, Ahead
<1>8. CASE PostCreate(p) \/ PostChange(p)
  <2>1. pc[p] = "mutate" /\ pc'[p] \in {"apply", "final"}
    BY <1>8, GotoAhead, FailAhead, RaisedFacts DEF PostCreate, PostChange, PrePost
  <2> QED
    BY <1>t, <2>1 DEF Ahead
<1>9. CASE PostApply(p)
  <2>1. pc'[p] \in {"verify", "rbDelete", "final"}
    BY <1>9, GotoAhead, FailAhead, RaisedFacts DEF PostApply
  <2> QED
    BY <1>9, <1>t, <2>1 DEF PostApply, Ahead
<1>10. CASE Readback(p)
  <2>1. pc'[p] \in {"sync", "rbDelete", "final"}
    BY <1>10, GotoAhead, FailAhead, RaisedFacts DEF Readback
  <2> QED
    BY <1>10, <1>t, <2>1 DEF Readback, Ahead
<1>11. CASE StartSync(p)
  <2>1. pc'[p] \in {"push", "peerRead", "final"}
    BY <1>11, GotoAhead, SyncAhead DEF StartSync
  <2> QED
    BY <1>11, <1>t, <2>1 DEF StartSync, Ahead
<1>12. CASE PostPush(p)
  <2>1. pc'[p] \in {"peerRead", "final"}
    BY <1>12, GotoAhead, SyncAhead DEF PostPush
  <2> QED
    BY <1>12, <1>t, <2>1 DEF PostPush, Ahead
<1>13. CASE PeerRead(p)
  <2>1. pc'[p] \in {"peerRead", "cleanup", "final"}
    BY <1>13, GotoAhead, SyncAhead DEF PeerRead
  <2> QED
    BY <1>13, <1>t, <2>1 DEF PeerRead, Ahead
<1>14. CASE QualifyCleanup(p) \/ CleanupIntent(p)
  BY <1>14, <1>t, GotoAhead, SyncAhead DEF QualifyCleanup, CleanupIntent, Ahead
<1>15. CASE CleanupDelete(p) \/ CleanupApply(p) \/ CleanupVerify(p)
  BY <1>15, <1>t, GotoAhead, SyncAhead DEF CleanupDelete, CleanupApply, CleanupVerify, Ahead
<1>16. CASE RollbackDelete(p) \/ RollbackApply(p) \/ RollbackVerify(p)
  BY <1>16, <1>t, GotoAhead DEF RollbackDelete, RollbackApply, RollbackVerify, Ahead
<1>17. CASE Finish(p)
  BY <1>17, <1>t, GotoAhead DEF Finish, Ahead
<1> QED
  BY <1>1, <1>2, <1>3, <1>4, <1>5, <1>6, <1>7, <1>8, <1>9, <1>10, <1>11, <1>12, <1>13, <1>14, <1>15,
     <1>16, <1>17 DEF Step

LEMMA StepAdvances ==
    ASSUME Typed, Typed', NEW p \in Procs, Begin(p) \/ Refuse(p) \/ Step(p),
           PositionOf(p), PositionOf(p)'
    PROVE  Position(p)' > Position(p)
<1>1. pc[p] \in Stages \ {"done", "crashed"} /\ pc'[p] \in Ahead(pc[p])
  BY StepAhead
<1>2. Attempts \in Nat /\ pc'[p] \in Stages /\ ctl[p].tries \in Nat
  BY ConstantsAssumption DEF Typed, TypeOK, Control
<1>3. Rank(pc[p]) \in Nat /\ Rank(pc'[p]) \in Nat
  BY <1>1, <1>2, RankType
<1>4. CASE pc[p] # "peerRead"
  <2>1. Rank(pc'[p]) > Rank(pc[p])
    BY <1>1, <1>4, RankAhead
  <2>2. Rank("peerRead") = 15
    BY DEF Rank
  <2>3. Position(p)' >= Rank(pc'[p])
    BY <1>3, <2>2 DEF PositionOf
  <2> QED
    BY <1>3, <1>4, <2>1, <2>3 DEF PositionOf
<1>5. CASE pc[p] = "peerRead" /\ pc'[p] # "peerRead"
  <2>1. Rank(pc'[p]) >= Attempts + 15
    BY <1>1, <1>5, RankAhead
  <2> QED
    BY <1>2, <1>3, <1>5, <2>1 DEF PositionOf
<1>6. CASE pc[p] = "peerRead" /\ pc'[p] = "peerRead"
  <2>1. PeerRead(p)
    BY <1>6 DEF Begin, Refuse, Step, Acquire, Intent, Preflight, ReadCurrent, CheckLast, ReadPeerRevision,
       PostCreate, PostChange, PostApply, Readback, StartSync, PostPush, QualifyCleanup, CleanupIntent,
       CleanupDelete, CleanupApply, CleanupVerify, RollbackDelete, RollbackApply, RollbackVerify, Finish
  <2>2. ctl'[p].tries = ctl[p].tries + 1
    BY <2>1 DEF PeerRead, Typed, TypeOK, Control
  <2> QED
    BY <1>2, <1>6, <2>2 DEF PositionOf
<1> QED
  BY <1>4, <1>5, <1>6

\* A request stays where it is while another one moves.
LEMMA OthersWait ==
    ASSUME Typed, NEW p \in Procs, NEW r \in Procs \ {p}, Begin(p) \/ Refuse(p) \/ Step(p)
    PROVE  pc'[r] = pc[r] /\ ctl'[r] = ctl[r]
<1>t. ctl \in [Procs -> Control]
  BY DEF Typed, TypeOK
<1>1. pc'[r] = pc[r]
  BY Shapes DEF Shape
<1>2. CASE Begin(p)
  BY <1>t, <1>1, <1>2 DEF Begin
<1>3. CASE Finish(p)
  BY <1>1, <1>3 DEF Finish, Forget
<1>4. CASE Refuse(p) \/ Acquire(p) \/ Intent(p) \/ ReadCurrent(p) \/ CheckLast(p) \/ PostApply(p) \/ Readback(p)
  BY <1>1, <1>4 DEF Refuse, Acquire, Intent, ReadCurrent, CheckLast, PostApply, Readback
<1>5. CASE Preflight(p) \/ ReadPeerRevision(p) \/ PostCreate(p) \/ PostChange(p)
  BY <1>t, <1>1, <1>5 DEF Preflight, ReadPeerRevision, PostCreate, PostChange
<1>6. CASE StartSync(p) \/ PeerRead(p) \/ RollbackVerify(p)
  BY <1>t, <1>1, <1>6 DEF StartSync, PeerRead, RollbackVerify
<1>7. CASE \/ PostPush(p) \/ QualifyCleanup(p) \/ CleanupIntent(p) \/ CleanupDelete(p)
           \/ CleanupApply(p) \/ CleanupVerify(p) \/ RollbackDelete(p) \/ RollbackApply(p)
  BY <1>1, <1>7 DEF PostPush, QualifyCleanup, CleanupIntent, CleanupDelete, CleanupApply, CleanupVerify,
              RollbackDelete, RollbackApply
<1> QED
  BY <1>1, <1>2, <1>3, <1>4, <1>5, <1>6, <1>7 DEF Step

Advance(p) ==
    /\ Position(p)' >= Position(p)
    /\ Begin(p) \/ Refuse(p) \/ Step(p) => Position(p)' > Position(p)

LEMMA NextAdvances ==
    ASSUME Typed, Typed', Next, NEW p \in Procs, PositionOf(p), PositionOf(p)'
    PROVE  Advance(p)
<1>1. Attempts \in Nat /\ Position(p) \in Nat /\ Position(p)' \in Nat
  BY ConstantsAssumption DEF PositionOf
<1>2. CASE Begin(p) \/ Refuse(p) \/ Step(p)
  BY <1>1, <1>2, StepAdvances DEF Advance
<1>3. CASE ~(Begin(p) \/ Refuse(p) \/ Step(p))
  <2> SUFFICES Position(p)' >= Position(p)
    BY <1>3 DEF Advance
  <2>1. ASSUME pc'[p] = pc[p], ctl'[p] = ctl[p] PROVE Position(p)' >= Position(p)
    BY <1>1, <2>1 DEF Position
  <2>2. ASSUME NEW r \in Procs \ {p}, Begin(r) \/ Refuse(r) \/ Step(r) PROVE Position(p)' >= Position(p)
    BY <2>1, <2>2, OthersWait
  <2>3. CASE ExternalWrite \/ LateExecution \/ AutoSync \/ CarpChange \/ Reconfigure
    BY <2>1, <2>3 DEF ExternalWrite, LateExecution, AutoSync, CarpChange, Reconfigure
  <2>4. CASE Crash
    <3>1. pc'[p] = IF pc[p] \in {"idle", "done"} THEN pc[p] ELSE "crashed"
      BY <2>4 DEF Crash
    <3>2. CASE pc[p] \in {"idle", "done"}
      BY <1>1, <3>1, <3>2 DEF PositionOf
    <3>3. CASE pc[p] \notin {"idle", "done"}
      <4>1. Position(p)' = Rank("crashed")
        BY <3>1, <3>3 DEF PositionOf
      <4>2. Rank("crashed") = Attempts + 21
        BY DEF Rank
      <4> QED
        BY <1>1, <4>1, <4>2 DEF PositionOf
    <3> QED
      BY <3>2, <3>3
  <2>5. CASE Done
    BY <2>1, <2>5 DEF Done, vars
  <2> QED
    BY <1>3, <2>2, <2>3, <2>4, <2>5 DEF Next
<1> QED
  BY <1>2, <1>3

\* Nothing, neither another request nor the environment nor a crash, takes a
\* request back, and every step of its own takes it further: whatever the nodes
\* answer and whatever happens meanwhile, execute() returns after at most
\* Attempts + 21 steps of its own.
THEOREM Advancing == Spec => Advances /\ []Bounded
<1>1. Typed => \A p \in Procs : PositionOf(p)
  BY Positions
<1>2. Typed' => (\A p \in Procs : PositionOf(p))'
  BY <1>1, PTL
<1>3. Typed /\ Typed' /\ [Next]_vars => [\A p \in Procs : Advance(p)]_vars
  <2>1. ASSUME Typed, Typed', Next, NEW p \in Procs PROVE Advance(p)
    <3>1. PositionOf(p) /\ PositionOf(p)'
      BY <1>1, <1>2, <2>1
    <3> QED
      BY <2>1, <3>1, NextAdvances
  <2> QED
    BY <2>1
<1>4. Typed => Bounded
  BY <1>1 DEF PositionOf, Bounded
<1>5. Init => Typed
  BY TypedInit
<1>6. Typed /\ [Next]_vars => Typed'
  BY TypedStep
<1>7. Spec => [][\A p \in Procs : Advance(p)]_vars
  BY <1>3, <1>5, <1>6, PTL DEF Spec
<1>8. Spec => Advances
  BY <1>7 DEF Advance, Advances
<1>9. Spec => []Bounded
  BY <1>4, <1>5, <1>6, PTL DEF Spec
<1> QED
  BY <1>8, <1>9

-----------------------------------------------------------------------------
(* Every lock comes back *)

\* A lock is held by the request that computed its key and has not returned.
LockOwned(k) ==
    locks[k] # NoProc =>
      /\ pc[locks[k]] \in Critical
      /\ k = LockKey(req[locks[k]].client, req[locks[k]].peer)

LocksOwned == \A k \in SUBSET Peers : LockOwned(k)

LEMMA OwnedStep ==
    ASSUME Typed, Typed', LockInv, LockInv', LocksOwned, [Next]_vars
    PROVE  LocksOwned'
<1>t. pc \in [Procs -> Stages] /\ locks \in [SUBSET Peers -> Procs \cup {NoProc}]
  BY DEF Typed, TypeOK
<1>n. NoProc \notin Procs
  BY ConstantsAssumption
<1> SUFFICES ASSUME NEW k \in SUBSET Peers PROVE LockOwned(k)'
  BY DEF LocksOwned
<1>k. LockOwned(k) /\ locks[k] \in Procs \cup {NoProc}
  BY <1>t DEF LocksOwned
<1>1. ASSUME NEW p \in Procs, Begin(p) PROVE LockOwned(k)'
  BY <1>1, <1>k, <1>t, BeginFacts DEF LockOwned, Critical
<1>2. ASSUME NEW p \in Procs, Refuse(p) PROVE LockOwned(k)'
  <2>1. pc[p] = "idle" /\ pc' = [pc EXCEPT ![p] = "done"] /\ UNCHANGED <<locks, req>>
    BY <1>2 DEF Refuse, Goto
  <2> QED
    BY <2>1, <1>k, <1>t DEF LockOwned, Critical
<1>3. ASSUME NEW p \in Procs, Acquire(p) PROVE LockOwned(k)'
  <2>1. pc[p] = "wait" /\ pc' = [pc EXCEPT ![p] = "intent"] /\ req' = req
    BY <1>3 DEF Acquire, Goto
  <2>2. locks' = [locks EXCEPT ![LockKey(req[p].client, req[p].peer)] = p]
    BY <1>3 DEF Acquire
  <2>3. CASE k = LockKey(req[p].client, req[p].peer)
    BY <2>1, <2>2, <2>3, <1>t DEF LockOwned, Critical
  <2>4. CASE k # LockKey(req[p].client, req[p].peer)
    BY <2>1, <2>2, <2>4, <1>k, <1>t DEF LockOwned, Critical
  <2> QED
    BY <2>3, <2>4
<1>4. ASSUME NEW p \in Procs, Inner(p) PROVE LockOwned(k)'
  <2>1. \A r \in Procs : pc[r] \in Critical => pc'[r] \in Critical
    BY <1>4 DEF Inner, Progress
  <2>2. \A r \in Procs : req'[r].client = req[r].client /\ req'[r].peer = req[r].peer
    BY <1>4 DEF Inner
  <2>3. locks' = locks
    BY <1>4 DEF Inner
  <2> QED
    BY <2>1, <2>2, <2>3, <1>k DEF LockOwned
<1>5. ASSUME NEW p \in Procs, Finish(p) PROVE LockOwned(k)'
  <2>1. /\ pc[p] = "final" /\ pc' = [pc EXCEPT ![p] = "done"]
        /\ \A r \in Procs \ {p} : req'[r] = req[r]
        /\ locks' = [locks EXCEPT ![LockKey(req[p].client, req[p].peer)] = NoProc]
    BY <1>5 DEF Finish, Goto, Forget, Release
  <2>2. CASE k = LockKey(req[p].client, req[p].peer)
    BY <2>1, <2>2, <1>t DEF LockOwned
  <2>3. CASE k # LockKey(req[p].client, req[p].peer)
    <3>1. locks'[k] = locks[k]
      BY <2>1, <2>3, <1>t
    <3>2. locks[k] # p
      BY <1>k, <1>n, <2>3 DEF LockOwned
    <3> QED
      BY <2>1, <3>1, <3>2, <1>k, <1>t DEF LockOwned
  <2> QED
    BY <2>2, <2>3
<1>6. CASE ExternalWrite \/ LateExecution \/ AutoSync \/ CarpChange \/ Reconfigure
  BY <1>6, <1>k, EnvironmentFacts DEF LockOwned
<1>7. CASE Crash
  BY <1>7, <1>t DEF Crash, LockOwned
<1>8. CASE UNCHANGED vars
  BY <1>8, <1>k DEF vars, LockOwned
<1> QED
  BY <1>1, <1>2, <1>3, <1>4, <1>5, <1>6, <1>7, <1>8, InnerStep DEF Next, Done

\* The "with" of execute() never leaks: every lock of _WRITE_LOCKS that is taken
\* belongs to a request that is still at work on that pair of nodes, so when all
\* requests have returned, or the process has died, every lock is free.
THEOREM Unleaked == Spec => []LocksOwned
<1>1. Init => Typed /\ LockInv /\ LocksOwned
  <2>1. Init => LocksOwned
    BY DEF Init, LocksOwned, LockOwned
  <2> QED
    BY <2>1, TypedInit DEF Init, LockInv, Critical
<1>2. Typed /\ LockInv /\ LocksOwned /\ [Next]_vars => (Typed /\ LockInv /\ LocksOwned)'
  BY TypedStep, LockStep, OwnedStep
<1> QED
  BY <1>1, <1>2, PTL DEF Spec
=============================================================================
