------------------------- MODULE LegacyWriterProofs -------------------------
(***************************************************************************)
(* Theorems about LegacyWriter, for every number of requests and objects,  *)
(* every content and every set of failures.                                *)
(***************************************************************************)
EXTENDS LegacyWriter, TLAPS

-----------------------------------------------------------------------------
(* The inductive invariant *)

\* An object that is there, or that a late POST may still create, has an
\* identifier that is not handed out again.
UsedUp ==
    /\ \A u \in Ids : conf[u] # NoVal => u \in used
    /\ \A op \in inflight : op.kind = "add" => op.id \in used

\* A request does not know that it succeeded before its apply is answered.
Unanswered(p) ==
    /\ pc[p] \in {"idle", "post", "apply", "rollback"} => ~res[p].ok
    /\ pc[p] \in {"apply", "rollback"} => req[p].uuid \in Ids
    /\ pc[p] = "post" => (req[p].uuid = NoId) = (req[p].action = "create")

\* What was acknowledged is stored, and after the apply running.
Succeeded(p) == pc[p] \in {"record", "done"} /\ res[p].ok
Written(p) ==
    (pc[p] = "apply" \/ Succeeded(p)) /\ p \notin crossed \cup refused =>
      /\ req[p].uuid \in Ids \cap used
      /\ conf[req[p].uuid] = req[p].val
      /\ Succeeded(p) => run[req[p].uuid] = req[p].val

\* A change that is not applied, or a POST yet to be executed, has a request that
\* is not, or will not be, answered ok.
Unsuccessful(p, stages) == pc[p] \in stages /\ ~res[p].ok
Pending ==
    /\ inflight # {} => \E p \in Procs : Unsuccessful(p, {"rollback", "record", "done"})
    /\ refused = {} /\ run # conf =>
         \E p \in Procs : Unsuccessful(p, {"apply", "rollback", "record", "done"})

Local(p) == Unanswered(p) /\ Written(p)
Inv == TypeOK /\ UsedUp /\ Pending /\ \A p \in Procs : Local(p)

-----------------------------------------------------------------------------
(* The node *)

LEMMA OpFacts ==
    \A op \in Op :
        /\ op.kind \in {"add", "set", "apply"}
        /\ op.kind # "apply" => op.id \in Ids /\ op.val \in Vals \cup {NoVal}
BY DEF Op

LEMMA ApplyOp ==
    /\ [kind |-> "apply"] \in Op
    /\ [kind |-> "apply"].kind = "apply"
BY DEF Op

LEMMA ChangeOp ==
    ASSUME NEW k \in {"add", "set"}, NEW u \in Ids, NEW v \in Vals \cup {NoVal}
    PROVE  LET op == [kind |-> k, id |-> u, val |-> v]
           IN op \in Op /\ op.kind = k /\ op.id = u /\ op.val = v
BY DEF Op

\* An execution: the stored object of a change, or everything that is stored.
LEMMA ExecutionFacts ==
    ASSUME TypeOK, NEW op \in Op
    PROVE  /\ ConfAfter(op) \in Objects /\ RunAfter(op) \in Objects
           /\ op.kind = "apply" => ConfAfter(op) = conf /\ RunAfter(op) = conf
           /\ op.kind # "apply" =>
                /\ RunAfter(op) = run /\ ConfAfter(op)[op.id] = op.val
                /\ \A u \in Ids \ {op.id} : ConfAfter(op)[u] = conf[u]
BY OpFacts DEF ConfAfter, RunAfter, Objects, TypeOK

\* What any POST may do to the node, with the handler that sent it.
Touches(op) ==
    /\ conf' \in Objects /\ run' \in Objects
    /\ op.kind = "apply" => conf' = conf /\ run' \in {run, conf}
    /\ op.kind # "apply" =>
         /\ run' = run /\ (op.kind = "set" => conf' = conf \/ conf[op.id] # NoVal)
         /\ conf' = conf \/ conf'[op.id] = op.val
         /\ \A u \in Ids \ {op.id} : conf'[u] = conf[u]
Sends(op) == Touches(op) /\ inflight' \in {inflight, inflight \cup {op}}

LEMMA PostFacts ==
    ASSUME TypeOK, NEW op \in Op, Executed(op) \/ Ignored \/ \E e : FailedPost(op, e)
    PROVE  Sends(op)
<1>1. CASE conf' = conf /\ run' = run /\ inflight' \in {inflight, inflight \cup {op}}
  BY <1>1 DEF Sends, Touches, TypeOK
<1>2. CASE Executed(op)
  BY <1>2, ExecutionFacts, OpFacts DEF Executed, Possible, Sends, Touches
<1> QED
  BY <1>1, <1>2 DEF Ignored, FailedPost, Delayed, data

LEMMA WriteOpFacts ==
    ASSUME TypeOK, NEW p \in Procs, NEW u \in Ids
    PROVE  LET op == WriteOp(p, u)
           IN /\ op \in Op /\ op.id = u /\ op.val = req[p].val /\ op.kind # "apply"
              /\ op.kind = (IF req[p].action = "create" THEN "add" ELSE "set")
<1> DEFINE k == IF req[p].action = "create" THEN "add" ELSE "set"
<1>1. k \in {"add", "set"} /\ req[p].val \in Vals \cup {NoVal}
  BY DEF TypeOK
<1>2. WriteOp(p, u) = [kind |-> k, id |-> u, val |-> req[p].val]
  BY DEF WriteOp
<1> HIDE DEF k
<1>3. WriteOp(p, u) \in Op /\ WriteOp(p, u).kind = k /\ WriteOp(p, u).id = u /\ WriteOp(p, u).val = req[p].val
  BY <1>1, <1>2, ChangeOp
<1> QED
  BY <1>3 DEF k

\* The identifiers stay used up.
LEMMA UsedUpKept ==
    ASSUME TypeOK, UsedUp, NEW op \in Op, Sends(op), used \subseteq used',
           op.kind = "add" => op.id \in used'
    PROVE  UsedUp'
<1>1. ASSUME NEW u \in Ids, conf'[u] # NoVal PROVE u \in used'
  BY <1>1, OpFacts DEF Sends, Touches, UsedUp
<1>2. ASSUME NEW o \in inflight', o.kind = "add" PROVE o.id \in used'
  BY <1>2 DEF Sends, UsedUp
<1> QED
  BY <1>1, <1>2 DEF UsedUp

-----------------------------------------------------------------------------
(* What a request leaves to the others *)

Others(p) ==
    \A q \in Procs \ {p} :
        /\ pc'[q] = pc[q] /\ req'[q] = req[q] /\ res'[q] = res[q]
        /\ q \notin refused' => q \notin refused
        /\ q \notin crossed' => q \notin crossed
        /\ q \notin crossed' /\ req[q].uuid \in Ids \cap used => conf'[req[q].uuid] = conf[req[q].uuid]

LEMMA OthersLocal ==
    ASSUME Inv, NEW p \in Procs, Others(p), NEW op \in Op, Touches(op), used \subseteq used',
           NEW q \in Procs \ {p}
    PROVE  Local(q)'
<1>1. Local(q)
  BY DEF Inv
<1>2. Unanswered(q)'
  BY <1>1 DEF Others, Local, Unanswered
<1>3. Written(q)'
  <2> SUFFICES ASSUME pc[q] = "apply" \/ Succeeded(q), q \notin crossed' \cup refused'
               PROVE  /\ req[q].uuid \in Ids \cap used'
                      /\ conf'[req[q].uuid] = req[q].val
                      /\ Succeeded(q) => run'[req[q].uuid] = req[q].val
    BY DEF Others, Written, Succeeded
  <2>1. /\ req[q].uuid \in Ids \cap used /\ conf[req[q].uuid] = req[q].val
        /\ Succeeded(q) => run[req[q].uuid] = req[q].val
        /\ conf'[req[q].uuid] = conf[req[q].uuid]
    BY <1>1 DEF Others, Local, Written
  <2>2. run' = run \/ run' = conf
    BY DEF Touches
  <2> QED
    BY <2>1, <2>2
<1> QED
  BY <1>2, <1>3 DEF Local

-----------------------------------------------------------------------------
(* The actions *)

LEMMA InitInv == ASSUME Init PROVE Inv
<1>1. TypeOK
  BY DEF Init, TypeOK
<1>2. UsedUp /\ Pending
  BY DEF Init, UsedUp, Pending
<1>3. ASSUME NEW p \in Procs PROVE Local(p)
  BY DEF Init, Local, Unanswered, Written, Succeeded
<1> QED
  BY <1>1, <1>2, <1>3 DEF Inv

\* A request moves on and leaves the node alone.
LEMMA QuietInv ==
    ASSUME Inv, TypeOK', NEW p \in Procs, UNCHANGED <<conf, run, inflight, used, refused, crossed>>,
           \A q \in Procs \ {p} : pc'[q] = pc[q] /\ req'[q] = req[q] /\ res'[q] = res[q],
           Local(p)',
           \A stages \in {{"rollback", "record", "done"}, {"apply", "rollback", "record", "done"}} :
              Unsuccessful(p, stages) => Unsuccessful(p, stages)'
    PROVE  Inv'
<1>1. UsedUp'
  BY DEF Inv, UsedUp
<1>2. ASSUME NEW q \in Procs \ {p} PROVE Local(q)'
  BY DEF Inv, Local, Unanswered, Written, Succeeded
<1>3. Pending'
  <2>1. \A q \in Procs : \A stages \in {{"rollback", "record", "done"}, {"apply", "rollback", "record", "done"}} :
              Unsuccessful(q, stages) => Unsuccessful(q, stages)'
    BY DEF Unsuccessful
  <2> QED
    BY <2>1 DEF Inv, Pending
<1> QED
  BY <1>1, <1>2, <1>3 DEF Inv

LEMMA BeginInv == ASSUME Inv, NEW p \in Procs, Begin(p) PROVE Inv'
<1>1. PICK a \in Actions, u \in Ids \cup {NoId}, v \in Vals \cup {NoVal} :
        /\ (u = NoId) = (a = "create")
        /\ req' = [req EXCEPT ![p] = [action |-> a, uuid |-> u, val |-> v]]
  BY DEF Begin
<1>2. /\ pc[p] = "idle" /\ pc' = [pc EXCEPT ![p] = "post"]
      /\ UNCHANGED <<conf, run, inflight, used, audit, res, refused, crossed>> /\ TypeOK
  BY DEF Begin, Goto, data, Inv
<1>3. [action |-> a, uuid |-> u, val |-> v] \in
         [action : {"create", "update", "delete"}, uuid : Ids \cup {NoId}, val : Vals \cup {NoVal}]
  BY LegacyAssumption
<1>4. TypeOK' /\ pc'[p] = "post" /\ req'[p] = [action |-> a, uuid |-> u, val |-> v]
  BY <1>1, <1>2, <1>3 DEF TypeOK
<1>5. \A q \in Procs \ {p} : pc'[q] = pc[q] /\ req'[q] = req[q] /\ res'[q] = res[q]
  BY <1>1, <1>2 DEF TypeOK
<1>6. Local(p)'
  BY <1>1, <1>2, <1>4 DEF Inv, Local, Unanswered, Written, Succeeded
<1>7. \A stages \in {{"rollback", "record", "done"}, {"apply", "rollback", "record", "done"}} :
         ~Unsuccessful(p, stages)
  BY <1>2 DEF Unsuccessful
<1> QED
  BY <1>2, <1>4, <1>5, <1>6, <1>7, QuietInv

LEMMA RecordInv == ASSUME Inv, NEW p \in Procs, Record(p) PROVE Inv'
<1>1. /\ pc[p] = "record" /\ pc' = [pc EXCEPT ![p] = "done"]
      /\ UNCHANGED <<conf, run, inflight, used, req, res, refused, crossed>> /\ TypeOK
  BY DEF Record, Goto, data, Inv
<1>2. audit' \subseteq Procs \X {"ok", "error"}
  BY <1>1 DEF Record, Line, TypeOK
<1>3. TypeOK' /\ pc'[p] = "done"
  BY <1>1, <1>2 DEF TypeOK
<1>4. \A q \in Procs \ {p} : pc'[q] = pc[q] /\ req'[q] = req[q] /\ res'[q] = res[q]
  BY <1>1 DEF TypeOK
<1>5. Local(p)'
  BY <1>1, <1>3 DEF Inv, Local, Unanswered, Written, Succeeded
<1>6. \A stages \in {{"rollback", "record", "done"}, {"apply", "rollback", "record", "done"}} :
         Unsuccessful(p, stages) => Unsuccessful(p, stages)'
  BY <1>1, <1>3 DEF Unsuccessful
<1> QED
  BY <1>1, <1>3, <1>4, <1>5, <1>6, QuietInv

\* After a POST its request is at its apply, or will not be answered ok; whatever
\* is under way is its own POST that timed out, or was under way before.
LEMMA SentInv ==
    ASSUME Inv, TypeOK', NEW p \in Procs, Others(p), NEW op \in Op, Sends(op), used \subseteq used',
           op.kind = "add" => op.id \in used',
           refused \subseteq refused', Local(p)',
           pc[p] \in {"post", "apply", "rollback"},
           \/ Unsuccessful(p, {"apply"})' /\ inflight' = inflight /\ pc[p] = "post"
           \/ Unsuccessful(p, {"rollback", "record", "done"})'
    PROVE  Inv'
<1>1. UsedUp'
  BY UsedUpKept DEF Inv
<1>2. ASSUME NEW q \in Procs \ {p} PROVE Local(q)'
  BY OthersLocal DEF Sends
<1>3. Pending'
  <2>1. \A q \in Procs \ {p} : \A stages \in {{"rollback", "record", "done"}, {"apply", "rollback", "record", "done"}} :
              Unsuccessful(q, stages) => Unsuccessful(q, stages)'
    BY DEF Others, Unsuccessful
  <2>2. inflight' # {} => \E q \in Procs : Unsuccessful(q, {"rollback", "record", "done"})'
    <3>1. CASE Unsuccessful(p, {"rollback", "record", "done"})'
      BY <3>1
    <3>2. CASE inflight' = inflight /\ pc[p] = "post"
      <4>1. ~Unsuccessful(p, {"rollback", "record", "done"})
        BY <3>2 DEF Unsuccessful
      <4> QED
        BY <4>1, <2>1, <3>2 DEF Inv, Pending
    <3> QED
      BY <3>1, <3>2
  <2>3. \E q \in Procs : Unsuccessful(q, {"apply", "rollback", "record", "done"})'
    BY DEF Unsuccessful
  <2> QED
    BY <2>2, <2>3 DEF Pending
<1> QED
  BY <1>1, <1>2, <1>3 DEF Inv

LEMMA PostAddInv == ASSUME Inv, NEW p \in Procs, PostAdd(p) PROVE Inv'
<1>1. /\ pc[p] = "post" /\ req[p].action = "create" /\ ~res[p].ok
      /\ UNCHANGED <<audit, res, refused, crossed>> /\ TypeOK /\ Local(p)
  BY DEF PostAdd, Inv, Local, Unanswered
<1>2. CASE Ignored /\ Goto(p, "record") /\ UNCHANGED <<used, req>>
  <2>1. /\ UNCHANGED <<conf, run, inflight, used, req>> /\ pc' = [pc EXCEPT ![p] = "record"]
    BY <1>2 DEF Ignored, data, Goto
  <2>2. TypeOK' /\ pc'[p] = "record"
    BY <1>1, <2>1 DEF TypeOK
  <2>3. \A q \in Procs \ {p} : pc'[q] = pc[q] /\ req'[q] = req[q] /\ res'[q] = res[q]
    BY <1>1, <2>1 DEF TypeOK
  <2>4. Local(p)' /\ ~Unsuccessful(p, {"rollback", "record", "done"})
        /\ ~Unsuccessful(p, {"apply", "rollback", "record", "done"})
    BY <1>1, <2>1, <2>2 DEF Local, Unanswered, Written, Succeeded, Unsuccessful
  <2> QED
    BY <1>1, <2>1, <2>2, <2>3, <2>4, QuietInv
<1>3. ASSUME NEW u \in Ids \ used, used' = used \cup {u},
             \/ Executed(WriteOp(p, u)) /\ req' = [req EXCEPT ![p].uuid = u] /\ Goto(p, "apply")
             \/ \E e \in Failures : FailedPost(WriteOp(p, u), e) /\ Goto(p, "record") /\ UNCHANGED req
      PROVE  Inv'
  <2> DEFINE op == WriteOp(p, u)
  <2>1. op \in Op /\ op.id = u /\ op.val = req[p].val /\ op.kind = "add"
    BY <1>1, WriteOpFacts
  <2>2. Executed(op) => conf'[u] = req[p].val /\ inflight' = inflight
    BY <1>1, <2>1, ExecutionFacts DEF Executed
  <2>3. Executed(op) \/ Ignored \/ \E e : FailedPost(op, e)
    BY <1>3
  <2>4. \/ Executed(op) /\ req' = [req EXCEPT ![p].uuid = u] /\ Goto(p, "apply")
        \/ Goto(p, "record") /\ UNCHANGED req
    BY <1>3
  <2> HIDE DEF op
  <2>5. Sends(op)
    BY <1>1, <2>1, <2>3, PostFacts
  <2>6. /\ pc' = [pc EXCEPT ![p] = pc'[p]] /\ pc'[p] \in {"apply", "record"}
        /\ \A q \in Procs \ {p} : pc'[q] = pc[q] /\ req'[q] = req[q]
        /\ req' \in [Procs -> [action : {"create", "update", "delete"}, uuid : Ids \cup {NoId},
                               val : Vals \cup {NoVal}]]
        /\ req'[p].val = req[p].val
    <3>1. CASE req' = [req EXCEPT ![p].uuid = u] /\ Goto(p, "apply")
      BY <3>1, <1>1 DEF Goto, TypeOK
    <3>2. CASE Goto(p, "record") /\ UNCHANGED req
      BY <3>2, <1>1 DEF Goto, TypeOK
    <3> QED
      BY <2>4, <3>1, <3>2
  <2>7. inflight' \subseteq Op
    BY <1>1, <2>1, <2>5 DEF Sends, TypeOK
  <2>8. TypeOK'
    BY <1>1, <1>3, <2>5, <2>6, <2>7 DEF TypeOK, Sends, Touches
  <2>9. Others(p)
    <3>1. ASSUME NEW q \in Procs \ {p}, req[q].uuid \in Ids \cap used PROVE conf'[req[q].uuid] = conf[req[q].uuid]
      <4>1. u \notin used /\ \A w \in Ids \ {u} : conf'[w] = conf[w]
        BY <2>1, <2>5 DEF Sends, Touches
      <4> QED
        BY <3>1, <4>1
    <3> QED
      BY <1>1, <2>6, <3>1 DEF Others
  <2>10. Local(p)'
    <3>1. CASE Executed(op) /\ req' = [req EXCEPT ![p].uuid = u] /\ Goto(p, "apply")
      <4>1. pc'[p] = "apply" /\ req'[p].uuid = u /\ conf'[u] = req[p].val /\ u \in Ids \cap used'
        BY <3>1, <1>1, <1>3, <2>2 DEF Goto, TypeOK
      <4> QED
        BY <4>1, <1>1, <2>6 DEF Local, Unanswered, Written, Succeeded
    <3>2. CASE Goto(p, "record") /\ UNCHANGED req
      <4>1. pc'[p] = "record"
        BY <3>2, <1>1 DEF Goto, TypeOK
      <4> QED
        BY <4>1, <1>1 DEF Local, Unanswered, Written, Succeeded
    <3> QED
      BY <2>4, <3>1, <3>2
  <2>11. \/ Unsuccessful(p, {"apply"})' /\ inflight' = inflight /\ pc[p] = "post"
         \/ Unsuccessful(p, {"rollback", "record", "done"})'
    <3>1. CASE Executed(op) /\ Goto(p, "apply")
      BY <3>1, <1>1, <2>2 DEF Goto, TypeOK, Unsuccessful
    <3>2. CASE Goto(p, "record")
      BY <3>2, <1>1 DEF Goto, TypeOK, Unsuccessful
    <3> QED
      BY <2>4, <3>1, <3>2
  <2> QED
    BY <1>1, <1>3, <2>1, <2>5, <2>8, <2>9, <2>10, <2>11, SentInv
<1> QED
  BY <1>2, <1>3 DEF PostAdd

\* The history of who was crossed by a write of u.
LEMMA CrossFacts ==
    ASSUME TypeOK, NEW p \in Procs, NEW u \in Ids, Cross(p, u),
           \A w \in Ids \ {u} : conf'[w] = conf[w]
    PROVE  /\ crossed' \subseteq Procs
           /\ \A q \in Procs \ {p} :
                /\ q \notin crossed' => q \notin crossed
                /\ q \notin crossed' /\ req[q].uuid \in Ids => conf'[req[q].uuid] = conf[req[q].uuid]
BY DEF Cross, TypeOK

LEMMA PostChangeInv == ASSUME Inv, NEW p \in Procs, PostChange(p) PROVE Inv'
<1> DEFINE u == req[p].uuid
           op == WriteOp(p, req[p].uuid)
<1>1. /\ pc[p] = "post" /\ req[p].action # "create" /\ ~res[p].ok
      /\ UNCHANGED <<used, audit, req, res>> /\ TypeOK /\ Local(p)
      /\ u \in Ids /\ Cross(p, u)
  BY DEF PostChange, Inv, Local, Unanswered, TypeOK
<1>2. op \in Op /\ op.id = u /\ op.val = req[p].val /\ op.kind = "set"
  BY <1>1, WriteOpFacts
<1>3. \/ Executed(op) /\ Goto(p, "apply") /\ UNCHANGED refused
      \/ Ignored /\ Goto(p, "apply") /\ refused' = refused \cup {p}
      \/ (\E e : FailedPost(op, e)) /\ Goto(p, "record") /\ UNCHANGED refused
  BY DEF PostChange, Refusal
<1>4. Executed(op) => conf'[u] = req[p].val /\ inflight' = inflight /\ conf[u] # NoVal
  BY <1>1, <1>2, ExecutionFacts DEF Executed, Possible
<1>5. Ignored => inflight' = inflight
  BY DEF Ignored, data
<1> HIDE DEF op, u
<1>6. Sends(op)
  BY <1>1, <1>2, <1>3, PostFacts
<1>7. /\ pc' = [pc EXCEPT ![p] = pc'[p]] /\ pc'[p] \in {"apply", "record"}
      /\ refused \subseteq refused' /\ refused' \subseteq refused \cup {p}
  BY <1>1, <1>3 DEF Goto, TypeOK
<1>8. \A w \in Ids \ {u} : conf'[w] = conf[w]
  BY <1>2, <1>6 DEF Sends, Touches
<1>9. /\ crossed' \subseteq Procs
      /\ \A q \in Procs \ {p} :
           /\ q \notin crossed' => q \notin crossed
           /\ q \notin crossed' /\ req[q].uuid \in Ids => conf'[req[q].uuid] = conf[req[q].uuid]
  BY <1>1, <1>8, CrossFacts
<1>10. TypeOK'
  <2>1. inflight' \subseteq Op
    BY <1>1, <1>2, <1>6 DEF Sends, TypeOK
  <2>2. pc' \in [Procs -> {"idle", "post", "apply", "rollback", "record", "done"}] /\ refused' \subseteq Procs
    BY <1>1, <1>7 DEF TypeOK
  <2> QED
    BY <1>1, <1>6, <1>9, <2>1, <2>2 DEF TypeOK, Sends, Touches
<1>11. Others(p)
  BY <1>1, <1>7, <1>9 DEF Others, TypeOK
<1>12. Local(p)'
  <2>1. CASE Executed(op) /\ Goto(p, "apply")
    <3>1. pc'[p] = "apply" /\ u \in used /\ conf'[u] = req[p].val
      BY <2>1, <1>1, <1>4 DEF Goto, TypeOK, Inv, UsedUp
    <3> QED
      BY <3>1, <1>1 DEF Local, Unanswered, Written, Succeeded, u
  <2>2. CASE Goto(p, "apply") /\ refused' = refused \cup {p}
    <3>1. pc'[p] = "apply" /\ p \in refused'
      BY <2>2, <1>1 DEF Goto, TypeOK
    <3> QED
      BY <3>1, <1>1 DEF Local, Unanswered, Written, u
  <2>3. CASE Goto(p, "record")
    <3>1. pc'[p] = "record"
      BY <2>3, <1>1 DEF Goto, TypeOK
    <3> QED
      BY <3>1, <1>1 DEF Local, Unanswered, Written, Succeeded
  <2> QED
    BY <1>3, <2>1, <2>2, <2>3
<1>13. \/ Unsuccessful(p, {"apply"})' /\ inflight' = inflight /\ pc[p] = "post"
       \/ Unsuccessful(p, {"rollback", "record", "done"})'
  <2>1. CASE Goto(p, "apply") /\ inflight' = inflight
    BY <2>1, <1>1 DEF Goto, TypeOK, Unsuccessful
  <2>2. CASE Goto(p, "record")
    BY <2>2, <1>1 DEF Goto, TypeOK, Unsuccessful
  <2> QED
    BY <1>3, <1>4, <1>5, <2>1, <2>2
<1> QED
  BY <1>1, <1>2, <1>6, <1>7, <1>10, <1>11, <1>12, <1>13, SentInv

LEMMA ApplyInv == ASSUME Inv, NEW p \in Procs, Apply(p) PROVE Inv'
<1> DEFINE op == [kind |-> "apply"]
<1>1. /\ pc[p] = "apply" /\ ~res[p].ok /\ req[p].uuid \in Ids
      /\ UNCHANGED <<used, audit, req, crossed>> /\ TypeOK /\ Local(p)
  BY DEF Apply, Inv, Local, Unanswered
<1>2. op \in Op /\ op.kind = "apply"
  BY ApplyOp
<1>3. \/ /\ Executed(op) /\ res' = [res EXCEPT ![p].ok = TRUE] /\ Goto(p, "record") /\ UNCHANGED refused
      \/ /\ Ignored /\ res' = [res EXCEPT ![p].ok = TRUE] /\ Goto(p, "record") /\ refused' = refused \cup {p}
      \/ /\ \E e : FailedPost(op, e)
         /\ Goto(p, AfterFailure(p)) /\ UNCHANGED <<res, refused>>
  BY DEF Apply, Refusal
<1>4. /\ Executed(op) => conf' = conf /\ run' = conf /\ inflight' = inflight
      /\ Ignored => conf' = conf /\ run' = run /\ inflight' = inflight
  BY <1>1, <1>2, ExecutionFacts DEF Executed, Ignored, data
<1> HIDE DEF op
<1>5. Sends(op)
  BY <1>1, <1>2, <1>3, PostFacts
<1>6. conf' = conf /\ (run' = run \/ run' = conf)
  BY <1>2, <1>5 DEF Sends, Touches
<1>7. /\ pc'[p] \in {"rollback", "record"} /\ pc' = [pc EXCEPT ![p] = pc'[p]]
      /\ refused \subseteq refused' /\ refused' \subseteq refused \cup {p}
      /\ res' \in [Procs -> [ok : BOOLEAN, rolledBack : BOOLEAN]]
      /\ \A q \in Procs \ {p} : res'[q] = res[q]
  <2>1. CASE res' = [res EXCEPT ![p].ok = TRUE] /\ Goto(p, "record")
    BY <2>1, <1>1, <1>3 DEF Goto, TypeOK
  <2>2. CASE Goto(p, AfterFailure(p)) /\ UNCHANGED <<res, refused>>
    BY <2>2, <1>1 DEF Goto, TypeOK, AfterFailure
  <2> QED
    BY <1>3, <2>1, <2>2
<1>8. TypeOK'
  <2>1. inflight' \subseteq Op
    BY <1>1, <1>2, <1>5 DEF Sends, TypeOK
  <2>2. pc' \in [Procs -> {"idle", "post", "apply", "rollback", "record", "done"}] /\ refused' \subseteq Procs
    BY <1>1, <1>7 DEF TypeOK
  <2> QED
    BY <1>1, <1>5, <1>7, <2>1, <2>2 DEF TypeOK, Sends, Touches
<1>9. Others(p)
  BY <1>1, <1>6, <1>7 DEF Others, TypeOK
<1>10. ASSUME NEW q \in Procs \ {p} PROVE Local(q)'
  BY <1>1, <1>2, <1>5, <1>9, OthersLocal DEF Sends
<1>11. UsedUp'
  BY <1>1, <1>2, <1>5, UsedUpKept DEF Inv
<1>12. CASE Executed(op) /\ res' = [res EXCEPT ![p].ok = TRUE] /\ Goto(p, "record") /\ UNCHANGED refused
  <2>1. pc'[p] = "record" /\ res'[p].ok
    BY <1>12, <1>1 DEF Goto, TypeOK
  <2>2. Local(p)'
    BY <1>1, <1>4, <1>12, <2>1 DEF Local, Unanswered, Written, Succeeded
  <2>3. Pending'
    <3>1. ~Unsuccessful(p, {"rollback", "record", "done"})
      BY <1>1 DEF Unsuccessful
    <3>2. \A q \in Procs \ {p} :
            Unsuccessful(q, {"rollback", "record", "done"}) => Unsuccessful(q, {"rollback", "record", "done"})'
      BY <1>9 DEF Others, Unsuccessful
    <3> QED
      BY <1>4, <1>12, <3>1, <3>2 DEF Inv, Pending
  <2> QED
    BY <1>8, <1>10, <1>11, <2>2, <2>3 DEF Inv
<1>13. CASE Ignored /\ res' = [res EXCEPT ![p].ok = TRUE] /\ Goto(p, "record") /\ refused' = refused \cup {p}
  <2>1. pc'[p] = "record" /\ res'[p].ok
    BY <1>13, <1>1 DEF Goto, TypeOK
  <2>2. Local(p)'
    BY <1>1, <1>13, <2>1 DEF Local, Unanswered, Written
  <2>3. Pending'
    <3>1. ~Unsuccessful(p, {"rollback", "record", "done"})
      BY <1>1 DEF Unsuccessful
    <3>2. \A q \in Procs \ {p} :
            Unsuccessful(q, {"rollback", "record", "done"}) => Unsuccessful(q, {"rollback", "record", "done"})'
      BY <1>9 DEF Others, Unsuccessful
    <3> QED
      BY <1>4, <1>13, <3>1, <3>2 DEF Inv, Pending
  <2> QED
    BY <1>8, <1>10, <1>11, <2>2, <2>3 DEF Inv
<1>14. CASE Goto(p, AfterFailure(p)) /\ UNCHANGED <<res, refused>>
  <2>1. pc'[p] \in {"rollback", "record"} /\ ~res'[p].ok
    BY <1>1, <1>7, <1>14
  <2>2. Local(p)'
    BY <1>1, <1>14, <2>1 DEF Local, Unanswered, Written, Succeeded
  <2>3. Unsuccessful(p, {"rollback", "record", "done"})'
    BY <2>1 DEF Unsuccessful
  <2> QED
    BY <1>1, <1>2, <1>5, <1>7, <1>8, <1>9, <2>2, <2>3, SentInv
<1> QED
  BY <1>3, <1>12, <1>13, <1>14

LEMMA RollbackInv == ASSUME Inv, NEW p \in Procs, Rollback(p) PROVE Inv'
<1> DEFINE u == req[p].uuid
           op == [kind |-> "set", id |-> req[p].uuid, val |-> NoVal]
<1>1. /\ pc[p] = "rollback" /\ ~res[p].ok /\ u \in Ids /\ Cross(p, u)
      /\ res' = [res EXCEPT ![p].rolledBack = TRUE] /\ pc' = [pc EXCEPT ![p] = "record"]
      /\ UNCHANGED <<used, audit, req, refused>> /\ TypeOK /\ Local(p)
  BY DEF Rollback, Inv, Local, Unanswered, Goto
<1>2. op \in Op /\ op.kind = "set" /\ op.id = u
  BY <1>1, ChangeOp
<1>3. Executed(op) \/ \E e : FailedPost(op, e)
  BY DEF Rollback
<1> HIDE DEF op, u
<1>4. Sends(op)
  BY <1>1, <1>2, <1>3, PostFacts
<1>5. /\ pc'[p] = "record" /\ res' \in [Procs -> [ok : BOOLEAN, rolledBack : BOOLEAN]]
      /\ res'[p].ok = res[p].ok /\ \A q \in Procs \ {p} : pc'[q] = pc[q] /\ res'[q] = res[q]
  BY <1>1 DEF TypeOK
<1>6. \A w \in Ids \ {u} : conf'[w] = conf[w]
  BY <1>2, <1>4 DEF Sends, Touches
<1>7. /\ crossed' \subseteq Procs
      /\ \A q \in Procs \ {p} :
           /\ q \notin crossed' => q \notin crossed
           /\ q \notin crossed' /\ req[q].uuid \in Ids => conf'[req[q].uuid] = conf[req[q].uuid]
  BY <1>1, <1>6, CrossFacts
<1>8. TypeOK'
  <2>1. inflight' \subseteq Op
    BY <1>1, <1>2, <1>4 DEF Sends, TypeOK
  <2>2. pc' \in [Procs -> {"idle", "post", "apply", "rollback", "record", "done"}]
    BY <1>1 DEF TypeOK
  <2> QED
    BY <1>1, <1>4, <1>5, <1>7, <2>1, <2>2 DEF TypeOK, Sends, Touches
<1>9. Others(p)
  BY <1>1, <1>5, <1>7 DEF Others
<1>10. Local(p)' /\ Unsuccessful(p, {"rollback", "record", "done"})'
  BY <1>1, <1>5 DEF Local, Unanswered, Written, Succeeded, Unsuccessful
<1> QED
  BY <1>1, <1>2, <1>4, <1>8, <1>9, <1>10, SentInv

LEMMA LateExecutionInv == ASSUME Inv, LateExecution PROVE Inv'
<1>1. PICK op \in inflight :
        /\ inflight' = inflight \ {op}
        /\ IF Possible(op)
             THEN conf' = ConfAfter(op) /\ run' = RunAfter(op)
             ELSE UNCHANGED <<conf, run>>
        /\ crossed' = crossed \cup {p \in Procs : req[p].uuid # NoId /\ conf'[req[p].uuid] # conf[req[p].uuid]}
  BY DEF LateExecution
<1>2. /\ TypeOK /\ op \in Op /\ UNCHANGED <<used, audit, pc, req, res, refused>>
      /\ op.kind = "add" => op.id \in used
  BY DEF LateExecution, Inv, TypeOK, UsedUp
<1>3. Touches(op)
  <2>1. CASE Possible(op)
    BY <1>1, <1>2, <2>1, ExecutionFacts, OpFacts DEF Possible, Touches
  <2>2. CASE ~Possible(op)
    BY <1>1, <1>2, <2>2 DEF Touches, TypeOK
  <2> QED
    BY <2>1, <2>2
<1>4. TypeOK'
  BY <1>1, <1>2, <1>3 DEF TypeOK, Touches
<1>5. UsedUp'
  BY <1>1, <1>2, <1>3, OpFacts DEF Touches, Inv, UsedUp
<1>6. ASSUME NEW q \in Procs PROVE Local(q)'
  <2>1. Local(q)
    BY DEF Inv
  <2>2. Unanswered(q)'
    BY <2>1, <1>2 DEF Local, Unanswered
  <2>3. q \notin crossed' /\ req[q].uuid \in Ids => q \notin crossed /\ conf'[req[q].uuid] = conf[req[q].uuid]
    BY <1>1, LegacyAssumption
  <2>4. run' = run \/ (run' = conf /\ conf' = conf)
    BY <1>2, <1>3 DEF Touches
  <2>5. crossed \subseteq crossed'
    BY <1>1
  <2>6. Written(q)'
    BY <2>1, <2>3, <2>4, <2>5, <1>2 DEF Local, Written, Succeeded
  <2> QED
    BY <2>2, <2>6 DEF Local
<1>7. Pending'
  <2>1. PICK q \in Procs : Unsuccessful(q, {"rollback", "record", "done"})
    BY <1>1 DEF Inv, Pending
  <2>2. Unsuccessful(q, {"rollback", "record", "done"})' /\ Unsuccessful(q, {"apply", "rollback", "record", "done"})'
    BY <2>1, <1>2 DEF Unsuccessful
  <2> QED
    BY <2>2 DEF Pending
<1> QED
  BY <1>4, <1>5, <1>6, <1>7 DEF Inv

LEMMA NextInv == ASSUME Inv, [Next]_vars PROVE Inv'
<1>1. CASE UNCHANGED vars
  <2>1. TypeOK' /\ UsedUp' /\ Pending'
    BY <1>1 DEF vars, data, Inv, TypeOK, UsedUp, Pending, Unsuccessful
  <2>2. ASSUME NEW p \in Procs PROVE Local(p)'
    BY <1>1 DEF vars, data, Inv, Local, Unanswered, Written, Succeeded
  <2> QED
    BY <2>1, <2>2 DEF Inv
<1> QED
  BY <1>1, BeginInv, PostAddInv, PostChangeInv, ApplyInv, RollbackInv, RecordInv, LateExecutionInv
  DEF Next, Step, Done

-----------------------------------------------------------------------------
(* What follows *)

\* The legacy writers keep the inductive invariant without any lock.
THEOREM Invariant == Spec => []Inv
<1>1. Init => Inv
  BY InitInv
<1>2. Inv /\ [Next]_vars => Inv'
  BY NextInv
<1> QED
  BY <1>1, <1>2, PTL DEF Spec

\* Every reachable state is well formed.
THEOREM TypeCorrect == Spec => []TypeOK
<1>1. Inv => TypeOK
  BY DEF Inv
<1> QED
  BY <1>1, Invariant, PTL

\* An AliasResult with ok and no hidden refusal is true of what is stored and of
\* what runs, unless somebody else wrote the object since.
THEOREM TrueOk == Spec => []OkIsTrue
<1>1. Inv => OkIsTrue
  BY DEF Inv, Local, Written, Succeeded, OkIsTrue
<1> QED
  BY <1>1, Invariant, PTL

\* Writers whose apply was accepted leave no stored change behind unapplied,
\* however they interleave.
THEOREM Applied == Spec => []AllApplied
<1>1. Inv => AllApplied
  BY DEF Inv, Pending, Unsuccessful, AllApplied
<1> QED
  BY <1>1, Invariant, PTL
=============================================================================
