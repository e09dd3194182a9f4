-------------------------- MODULE CrlServiceProofs --------------------------
(***************************************************************************)
(* Theorems about CrlService, for every number of requests, authorities,   *)
(* certificates, saves and interventions.                                  *)
(***************************************************************************)
EXTENDS CrlService, TLAPS

AfterRead == {"attempt", "post", "verify", "record", "error"}

Answers == [ok : BOOLEAN, partial : BOOLEAN, auditFailure : BOOLEAN,
            error : {"none", "bad_request", "conflict", "audit", "verification",
                     "auth", "timeout", "validation", "upstream"}]

\* What the stage of a request says of its locals.
Formed(p) ==
    /\ pc[p] \in {"wait"} \cup Critical =>
         req[p].ca \in Cas /\ (req[p].action = "revoke" => req[p].cert \in Certs)
    /\ pc[p] \in AfterRead =>
         current[p] \in List /\ (current[p].exists <=> req[p].action # "create")

Holds(p) == pc[p] \in Critical => lock = p

\* The attempt is on record from the POST on; the outcome is not known before the end.
OnRecord(p) ==
    /\ pc[p] \in {"idle", "wait", "read", "attempt"} => ~Declared(p)
    /\ pc[p] \in {"post", "verify", "record", "error"} => Declared(p)
    /\ pc[p] \notin {"done", "crashed"} => ~res[p].ok /\ ~res[p].auditFailure

\* The list of p's authority once p's POST has been executed.
Wanted(p) ==
    IF req[p].action = "delete" THEN Absent
    ELSE [exists |-> TRUE, revoked |-> NewList(p), serial |-> current[p].serial + 1]

\* Unless others save, the list is what p read until p's POST, and then either
\* still that or what p asked for; the read-back tells which.
Content(p) ==
    p \notin foreign =>
        /\ pc[p] \in {"attempt", "post"} => crl[req[p].ca] = current[p]
        /\ pc[p] = "verify" => \/ crl[req[p].ca] = current[p]
                               \/ p \in touched /\ crl[req[p].ca] = Wanted(p)
        /\ pc[p] = "record" => p \in touched /\ crl[req[p].ca] = Wanted(p)

\* Only a POST touches the list, and what follows it is partial.
Reported(p) ==
    /\ pc[p] \in {"idle", "wait", "read", "attempt", "post"} => p \notin touched
    /\ pc[p] \in {"error", "done"} /\ ~res[p].ok /\ ~res[p].partial /\ p \in touched
         => res[p].error = "auth"

Local(p) == Formed(p) /\ Holds(p) /\ OnRecord(p) /\ Content(p) /\ Reported(p)
Inv == TypeOK /\ \A p \in Procs : Local(p)

-----------------------------------------------------------------------------
(* Steps of one request *)

\* Nothing that Local(q) reads of another request q changes.
Alone(p) ==
    \A q \in Procs \ {p} :
        /\ pc'[q] = pc[q] /\ req'[q] = req[q] /\ current'[q] = current[q] /\ res'[q] = res[q]
        /\ (q \in touched') = (q \in touched) /\ (q \in foreign') = (q \in foreign)
        /\ Declared(q)' = Declared(q)
        /\ pc[q] \in Critical => lock' = lock /\ crl' = crl

LEMMA Elsewhere ==
    ASSUME Inv, NEW p \in Procs, Alone(p), TypeOK', Local(p)'
    PROVE  Inv'
<1>1. ASSUME NEW q \in Procs, q # p PROVE Local(q)'
  <2>1. Local(q)
    BY DEF Inv
  <2>2. /\ pc'[q] = pc[q] /\ req'[q] = req[q] /\ current'[q] = current[q] /\ res'[q] = res[q]
        /\ (q \in touched') = (q \in touched) /\ (q \in foreign') = (q \in foreign)
        /\ Declared(q)' = Declared(q)
        /\ pc[q] \in Critical => lock' = lock /\ crl' = crl
    BY <1>1 DEF Alone
  <2>3. NewList(q)' = NewList(q) /\ Wanted(q)' = Wanted(q)
    BY <2>2 DEF NewList, Wanted
  <2>4. Formed(q)' /\ Holds(q)'
    BY <2>1, <2>2 DEF Local, Formed, Holds
  <2>5. OnRecord(q)' /\ Reported(q)'
    BY <2>1, <2>2 DEF Local, OnRecord, Reported
  <2>6. Content(q)'
    BY <2>1, <2>2, <2>3 DEF Local, Content, Critical
  <2> QED
    BY <2>4, <2>5, <2>6 DEF Local
<1> QED
  BY <1>1 DEF Inv

\* The lock keeps every other request out.
LEMMA OthersOut ==
    ASSUME Inv, NEW p \in Procs, pc[p] \in Critical
    PROVE  \A q \in Procs \ {p} : pc[q] \notin Critical
BY DEF Inv, Local, Holds

LEMMA ListFacts ==
    /\ Absent \in List
    /\ \A l \in List : /\ l = Absent \/ l \in [exists : {TRUE}, revoked : SUBSET Certs, serial : 1 .. MaxSerial]
                       /\ l.revoked \in SUBSET Certs /\ l.serial \in Nat /\ l.exists \in BOOLEAN
                       /\ ~l.exists => l = Absent
<1> DEFINE Saves == [exists : {TRUE}, revoked : SUBSET Certs, serial : 1 .. MaxSerial]
<1>1. ASSUME NEW l \in Saves
      PROVE  l.revoked \in SUBSET Certs /\ l.serial \in 1 .. MaxSerial /\ l.exists = TRUE
  OBVIOUS
<1>2. \A n \in 1 .. MaxSerial : n \in Nat
  BY CrlAssumption
<1>3. Absent.revoked = {} /\ Absent.serial = 0 /\ Absent.exists = FALSE
  BY DEF Absent
<1>4. List = {Absent} \cup Saves
  BY DEF List
<1> HIDE DEF Saves
<1>5. ASSUME NEW l \in List PROVE l.revoked \in SUBSET Certs /\ l.serial \in Nat /\ l.exists \in BOOLEAN
  <2>1. CASE l = Absent
    BY <2>1 DEF Absent
  <2>2. CASE l \in Saves
    BY <1>1, <1>2, <2>2
  <2> QED
    BY <1>4, <1>5, <2>1, <2>2
<1>6. ASSUME NEW l \in List, ~l.exists PROVE l = Absent
  BY <1>1, <1>4, <1>6
<1> QED
  BY <1>4, <1>5, <1>6 DEF Saves

LEMMA ResultTypes ==
    ASSUME TypeOK, NEW p \in Procs, NEW e \in {"validation", "rejected", "auth", "timeout",
                                               "upstream", "verification"}
    PROVE  ErrorOf(e) \in {"verification", "auth", "timeout", "validation", "upstream"}
           /\ Partial(e) \in BOOLEAN
BY DEF ErrorOf, Partial

LEMMA InitInv == Init => Inv
<1> SUFFICES ASSUME Init PROVE Inv
  OBVIOUS
<1>1. TypeOK
  <2>1. crl \in [Cas -> List]
    <3>0. 1 \in 1 .. MaxSerial
      BY CrlAssumption
    <3>1. [exists : {TRUE}, revoked : SUBSET Certs, serial : {1}] \subseteq List
      BY <3>0 DEF List
    <3>2. Absent \in List
      BY DEF List
    <3> QED
      BY <3>1, <3>2 DEF Init
  <2>2. req \in [Procs -> Request]
    BY DEF Init, Request, NoRequest, List
  <2>3. res \in [Procs -> [ok : BOOLEAN, partial : BOOLEAN, auditFailure : BOOLEAN,
                           error : {"none", "bad_request", "conflict", "audit", "verification",
                                    "auth", "timeout", "validation", "upstream"}]]
    BY DEF Init, NoResult
  <2>4. env \in 0 .. MaxEnv /\ current \in [Procs -> List \cup {NoList}]
    BY CrlAssumption DEF Init
  <2>5. /\ inflight \subseteq Op /\ lock \in Procs \cup {NoProc}
        /\ audit \subseteq Procs \X {"attempt", "ok", "error"}
        /\ pc \in [Procs -> Critical \cup {"idle", "wait", "done", "crashed"}]
        /\ touched \subseteq Procs /\ foreign \subseteq Procs
    BY DEF Init
  <2> QED
    BY <2>1, <2>2, <2>3, <2>4, <2>5 DEF TypeOK
<1>2. ASSUME NEW p \in Procs PROVE Local(p)
  BY DEF Init, Local, Formed, Holds, OnRecord, Content, Reported, Declared, NoResult, AfterRead, Critical
<1> QED
  BY <1>1, <1>2 DEF Inv

LEMMA BeginInv == ASSUME Inv, NEW p \in Procs, Begin(p) PROVE Inv' /\ Alone(p)
<1>1. PICK a \in {"create", "update", "delete", "revoke"}, c \in Cas, s \in SUBSET Certs,
           x \in Certs \cup {NoCert} : \E r \in {Absent, crl[c]} :
         /\ (x = NoCert) = (a # "revoke")
         /\ a \notin {"create", "update"} => s = {}
         /\ req' = [req EXCEPT ![p] = [action |-> a, ca |-> c, rev |-> r, revoked |-> s, cert |-> x]]
  BY DEF Begin
<1>2. PICK r \in {Absent, crl[c]} :
         req' = [req EXCEPT ![p] = [action |-> a, ca |-> c, rev |-> r, revoked |-> s, cert |-> x]]
  BY <1>1
<1>3. TypeOK'
  <2>1. r \in List
    BY ListFacts DEF Inv, TypeOK
  <2>2. [action |-> a, ca |-> c, rev |-> r, revoked |-> s, cert |-> x] \in Request
    BY <2>1 DEF Request
  <2>3. req' \in [Procs -> Request] /\ pc' \in [Procs -> Critical \cup {"idle", "wait", "done", "crashed"}]
    BY <1>2, <2>2 DEF Begin, Goto, Inv, TypeOK
  <2> QED
    BY <2>3 DEF Begin, Inv, TypeOK, history
<1>4. Local(p)'
  BY <1>1, <1>2 DEF Begin, Goto, Inv, TypeOK, Local, Formed, Holds, OnRecord, Content, Reported,
                    Declared, history, AfterRead, Critical
<1>5. Alone(p)
  BY <1>2 DEF Begin, Goto, Inv, TypeOK, Alone, Declared, history
<1> QED
  BY <1>3, <1>4, <1>5, Elsewhere

LEMMA RefuseInv == ASSUME Inv, NEW p \in Procs, Refuse(p) PROVE Inv' /\ Alone(p)
<1>1. TypeOK'
  BY DEF Refuse, Goto, Inv, TypeOK, history
<1>2. Local(p)'
  BY DEF Refuse, Goto, Inv, TypeOK, Local, Formed, Holds, OnRecord, Content, Reported,
         Declared, history, AfterRead, Critical
<1>3. Alone(p)
  BY DEF Refuse, Goto, Inv, TypeOK, Alone, Declared, history
<1> QED
  BY <1>1, <1>2, <1>3, Elsewhere

LEMMA AcquireInv == ASSUME Inv, NEW p \in Procs, Acquire(p) PROVE Inv' /\ Alone(p)
<1>1. TypeOK'
  BY DEF Acquire, Goto, Inv, TypeOK, history, Critical
<1>2. Local(p)'
  BY DEF Acquire, Goto, Inv, TypeOK, Local, Formed, Holds, OnRecord, Content, Reported,
         Declared, history, AfterRead, Critical
<1>3. \A q \in Procs : pc[q] \notin Critical
  BY CrlAssumption DEF Acquire, LockFree, Inv, Local, Holds
<1>4. Alone(p)
  BY <1>3 DEF Acquire, Goto, Inv, TypeOK, Alone, Declared, history
<1> QED
  BY <1>1, <1>2, <1>4, Elsewhere

LEMMA ReturnTypes ==
    ASSUME Inv, NEW p \in Procs, Return(p)
    PROVE  /\ pc' \in [Procs -> Critical \cup {"idle", "wait", "done", "crashed"}]
           /\ lock' \in Procs \cup {NoProc}
           /\ req' \in [Procs -> Request]
           /\ current' \in [Procs -> List \cup {NoList}]
           /\ pc'[p] = "done"
           /\ \A q \in Procs \ {p} : pc'[q] = pc[q] /\ req'[q] = req[q] /\ current'[q] = current[q]
<1>1. NoRequest \in Request
  BY DEF Request, NoRequest, List
<1> QED
  BY <1>1 DEF Return, Goto, Inv, TypeOK

LEMMA RaiseInv ==
    ASSUME Inv, NEW p \in Procs, NEW e \in {"bad_request", "conflict", "auth", "timeout", "upstream"},
           Raise(p, e), pc[p] = "read", UNCHANGED <<crl, inflight, audit, history>>
    PROVE  Inv' /\ Alone(p)
<1>1. TypeOK'
  <2>1. res' \in [Procs -> [ok : BOOLEAN, partial : BOOLEAN, auditFailure : BOOLEAN,
                           error : {"none", "bad_request", "conflict", "audit", "verification",
                                    "auth", "timeout", "validation", "upstream"}]]
    BY DEF Raise, Inv, TypeOK
  <2> QED
    BY <2>1, ReturnTypes DEF Raise, Inv, TypeOK, history
<1>2. Local(p)'
  BY ReturnTypes DEF Raise, Inv, TypeOK, Local, Formed, Holds, OnRecord, Content, Reported,
         Declared, history, AfterRead, Critical
<1>3. Alone(p)
  BY ReturnTypes, OthersOut DEF Raise, Inv, TypeOK, Alone, Declared, history, Critical
<1> QED
  BY <1>1, <1>2, <1>3, Elsewhere

LEMMA ReadInv == ASSUME Inv, NEW p \in Procs, Read(p) PROVE Inv' /\ Alone(p)
<1> DEFINE now == crl[req[p].ca]
           expected == now = req[p].rev /\ (now.exists <=> req[p].action # "create")
<1>1. CASE /\ expected
           /\ current' = [current EXCEPT ![p] = now]
           /\ foreign' = foreign \ {p}
           /\ Goto(p, "attempt")
           /\ UNCHANGED <<lock, req, res>>
  <2>0. now \in List
    BY DEF Read, Inv, TypeOK, Local, Formed, Critical
  <2>1. TypeOK'
    BY <1>1, <2>0 DEF Read, Goto, Inv, TypeOK, Critical
  <2>2. Local(p)'
    BY <1>1, <2>0 DEF Read, Goto, Inv, TypeOK, Local, Formed, Holds, OnRecord, Content, Reported,
         Declared, AfterRead, Critical
  <2>3. Alone(p)
    BY <1>1 DEF Read, Goto, Inv, TypeOK, Alone, Declared
  <2> QED
    BY <2>1, <2>2, <2>3, Elsewhere
<1>2. CASE UNCHANGED foreign /\ \E e \in {"bad_request", "conflict"} \cup Transport : Raise(p, e)
  <2>1. PICK e \in {"bad_request", "conflict", "auth", "timeout", "upstream"} : Raise(p, e)
    BY <1>2 DEF Transport
  <2> QED
    BY <1>2, <2>1, RaiseInv DEF Read, history
<1> QED
  BY <1>1, <1>2 DEF Read

LEMMA AttemptInv == ASSUME Inv, NEW p \in Procs, Attempt(p) PROVE Inv' /\ Alone(p)
<1>1. CASE /\ audit' = audit \cup {<<p, "attempt">>}
           /\ Goto(p, "post")
           /\ UNCHANGED <<lock, req, current, res>>
  <2>1. TypeOK'
    BY <1>1 DEF Attempt, Goto, Inv, TypeOK, history, Critical
  <2>2. Local(p)'
    BY <1>1 DEF Attempt, Goto, Inv, TypeOK, Local, Formed, Holds, OnRecord, Content, Reported,
         Declared, AfterRead, Critical, history
  <2>3. Alone(p)
    BY <1>1 DEF Attempt, Goto, Inv, TypeOK, Alone, Declared, history
  <2> QED
    BY <2>1, <2>2, <2>3, Elsewhere
<1>2. CASE /\ res' = [res EXCEPT ![p].error = "audit", ![p].auditFailure = TRUE]
           /\ Return(p)
           /\ UNCHANGED audit
  <2>0. res \in [Procs -> Answers]
    BY DEF Inv, TypeOK, Answers
  <2>1. res' \in [Procs -> [ok : BOOLEAN, partial : BOOLEAN, auditFailure : BOOLEAN,
                           error : {"none", "bad_request", "conflict", "audit", "verification",
                                    "auth", "timeout", "validation", "upstream"}]]
    BY <1>2, <2>0 DEF Answers
  <2>2. TypeOK'
    BY <1>2, <2>1, ReturnTypes DEF Attempt, Inv, TypeOK, history
  <2>3. Local(p)'
    BY <1>2, ReturnTypes DEF Attempt, Inv, TypeOK, Local, Formed, Holds, OnRecord, Content, Reported,
         Declared, AfterRead, Critical, history
  <2>4. Alone(p)
    BY <1>2, ReturnTypes, OthersOut DEF Attempt, Inv, TypeOK, Alone, Declared, history, Critical
  <2> QED
    BY <2>2, <2>3, <2>4, Elsewhere
<1> QED
  BY <1>1, <1>2 DEF Attempt

-----------------------------------------------------------------------------
(* The POST and what follows it *)

LEMMA PostOpType ==
    ASSUME Inv, NEW p \in Procs, pc[p] \in AfterRead
    PROVE  PostOp(p) \in Op /\ NewList(p) \in SUBSET Certs
<1>1. req[p] \in Request /\ Formed(p)
  BY DEF Inv, TypeOK, Local
<1>2. current[p].revoked \in SUBSET Certs
  BY <1>1, ListFacts DEF Formed
<1>3. NewList(p) \in SUBSET Certs
  BY <1>1, <1>2 DEF NewList, Formed, Request, AfterRead, Critical
<1> QED
  BY <1>1, <1>3 DEF PostOp, Op, Formed, AfterRead, Critical

\* A save stores the whole list under the next serial.
LEMMA SavedType ==
    ASSUME TypeOK, NEW op \in Op, Possible(op)
    PROVE  Saved(op) \in [Cas -> List]
<1>1. crl[op.ca] \in List /\ op.revoked \in SUBSET Certs
  BY DEF TypeOK, Op
<1>2. crl[op.ca].serial \in Nat
  BY <1>1, ListFacts
<1>3. op.exists => crl[op.ca].serial + 1 \in 1 .. MaxSerial
  BY <1>2, CrlAssumption DEF Possible
<1>4. op.exists => [exists |-> TRUE, revoked |-> op.revoked, serial |-> crl[op.ca].serial + 1] \in List
  BY <1>1, <1>3 DEF List
<1> QED
  BY <1>4, ListFacts DEF Saved, TypeOK

LEMMA FailTypes ==
    ASSUME Inv, NEW p \in Procs, NEW e \in Failures \cup {"verification"}, Fail(p, e)
    PROVE  /\ res' \in [Procs -> [ok : BOOLEAN, partial : BOOLEAN, auditFailure : BOOLEAN,
                           error : {"none", "bad_request", "conflict", "audit", "verification",
                                    "auth", "timeout", "validation", "upstream"}]]
           /\ pc' \in [Procs -> Critical \cup {"idle", "wait", "done", "crashed"}]
           /\ pc'[p] = "error" /\ \A q \in Procs \ {p} : pc'[q] = pc[q] /\ res'[q] = res[q]
           /\ res'[p].ok = res[p].ok /\ res'[p].auditFailure = res[p].auditFailure
           /\ res'[p].partial = (e \notin {"validation", "auth"})
           /\ e = "auth" => res'[p].error = "auth"
<1>0. e \in {"validation", "rejected", "auth", "timeout", "upstream", "verification"}
  BY CrlAssumption
<1>1. ErrorOf(e) \in {"verification", "auth", "timeout", "validation", "upstream"} /\ Partial(e) \in BOOLEAN
  BY <1>0, ResultTypes DEF Inv
<1>2. res[p] \in [ok : BOOLEAN, partial : BOOLEAN, auditFailure : BOOLEAN,
                  error : {"none", "bad_request", "conflict", "audit", "verification",
                           "auth", "timeout", "validation", "upstream"}]
  BY DEF Inv, TypeOK
<1>3. "error" \in Critical
  BY DEF Critical
<1> QED
  BY <1>1, <1>2, <1>3 DEF Fail, Goto, Inv, TypeOK, ErrorOf, Partial

\* What a POST, acknowledged or failed, can do to the list: nothing, or the request.
LEMMA PostEffect ==
    ASSUME Inv, NEW p \in Procs, NEW e, pc[p] = "post",
           Executed(PostOp(p)) \/ Ignored \/ FailedPost(PostOp(p), e)
    PROVE  /\ crl' \in [Cas -> List] /\ inflight' \subseteq Op
           /\ crl' # crl => /\ p \notin foreign => crl'[req[p].ca] = Wanted(p)
                            /\ crl' = Saved(PostOp(p))
           /\ e \in {"validation", "auth"} =>
                <<crl, inflight>>' = <<crl, inflight>> \/ Executed(PostOp(p))
<1>1. PostOp(p) \in Op /\ NewList(p) \in SUBSET Certs
  BY PostOpType DEF AfterRead
<1>2. CASE Executed(PostOp(p))
  <2>1. crl' = Saved(PostOp(p)) /\ inflight' = inflight /\ crl' \in [Cas -> List]
    BY <1>1, <1>2, SavedType DEF Executed, Inv
  <2>2. p \notin foreign => crl'[req[p].ca] = Wanted(p)
    BY <2>1 DEF Saved, PostOp, Wanted, Inv, TypeOK, Local, Content, Formed, Critical, Request
  <2> QED
    BY <1>2, <2>1, <2>2 DEF Inv, TypeOK
<1>3. CASE Ignored
  BY <1>3 DEF Ignored, Inv, TypeOK
<1>4. CASE e = "timeout" /\ Delayed(PostOp(p))
  BY <1>1, <1>4 DEF Delayed, Inv, TypeOK
<1> QED
  BY <1>2, <1>3, <1>4 DEF FailedPost

LEMMA PostInv == ASSUME Inv, NEW p \in Procs, Post(p) PROVE Inv' /\ Alone(p)
<1>1. CASE (Executed(PostOp(p)) \/ Ignored) /\ Goto(p, "verify") /\ UNCHANGED res
  <2>1. /\ crl' \in [Cas -> List] /\ inflight' \subseteq Op
        /\ crl' # crl => (p \notin foreign => crl'[req[p].ca] = Wanted(p))
    BY <1>1, PostEffect DEF Post
  <2>2. TypeOK'
    BY <1>1, <2>1 DEF Post, Goto, Inv, TypeOK, Touch, Critical
  <2>3. Wanted(p)' = Wanted(p)
    BY <1>1 DEF Post, Wanted, NewList
  <2>4. p \notin foreign => crl'[req[p].ca] = current[p] \/ (p \in touched' /\ crl'[req[p].ca] = Wanted(p))
    BY <1>1, <2>1 DEF Post, Touch, Inv, Local, Content
  <2>5. Local(p)'
    BY <1>1, <2>3, <2>4 DEF Post, Goto, Inv, TypeOK, Local, Formed, Holds, OnRecord, Content, Reported,
         Declared, AfterRead, Critical
  <2>6. Alone(p)
    BY <1>1, OthersOut DEF Post, Goto, Inv, TypeOK, Alone, Declared, Touch, Critical
  <2> QED
    BY <2>2, <2>5, <2>6, Elsewhere
<1>2. CASE \E e \in Failures : FailedPost(PostOp(p), e) /\ Fail(p, e)
  <2>1. PICK e \in Failures : FailedPost(PostOp(p), e) /\ Fail(p, e)
    BY <1>2
  <2>2. /\ crl' \in [Cas -> List] /\ inflight' \subseteq Op
    BY <2>1, PostEffect DEF Post
  <2>3. TypeOK'
    BY <2>1, <2>2, FailTypes DEF Post, Inv, TypeOK, Touch
  <2>4. e = "validation" => p \notin touched'
    BY <2>1 DEF FailedPost, Ignored, Touch, Post, Inv, Local, Reported
  <2>5. Local(p)'
    BY <2>1, <2>4, FailTypes DEF Post, Inv, TypeOK, Local, Formed, Holds, OnRecord, Content, Reported,
         Declared, AfterRead, Critical
  <2>6. Alone(p)
    BY <2>1, OthersOut, FailTypes DEF Post, Inv, TypeOK, Alone, Declared, Touch, Critical
  <2> QED
    BY <2>3, <2>5, <2>6, Elsewhere
<1> QED
  BY <1>1, <1>2 DEF Post

\* Content and serial tell the request's own save from the list it read.
LEMMA MatchesWanted ==
    ASSUME Inv, NEW p \in Procs, pc[p] = "verify", p \notin foreign, Matches(p, crl[req[p].ca])
    PROVE  p \in touched /\ crl[req[p].ca] = Wanted(p)
<1>1. crl[req[p].ca] = current[p] \/ (p \in touched /\ crl[req[p].ca] = Wanted(p))
  BY DEF Inv, Local, Content
<1>2. current[p] \in List /\ (current[p].exists <=> req[p].action # "create") /\ current[p].serial \in Nat
  BY ListFacts DEF Inv, Local, Formed, AfterRead
<1>3. crl[req[p].ca] # current[p]
  BY <1>2 DEF Matches
<1> QED
  BY <1>1, <1>3

LEMMA VerifyInv == ASSUME Inv, NEW p \in Procs, Verify(p) PROVE Inv' /\ Alone(p)
<1>1. CASE Matches(p, crl[req[p].ca]) /\ Goto(p, "record") /\ UNCHANGED res
  <2>1. TypeOK'
    BY <1>1 DEF Verify, Goto, Inv, TypeOK, history, Critical
  <2>2. Wanted(p)' = Wanted(p)
    BY DEF Verify, Wanted, NewList
  <2>3. p \notin foreign => p \in touched /\ crl[req[p].ca] = Wanted(p)
    BY <1>1, MatchesWanted DEF Verify
  <2>4. Local(p)'
    BY <1>1, <2>2, <2>3 DEF Verify, Goto, Inv, TypeOK, Local, Formed, Holds, OnRecord, Content, Reported,
         Declared, AfterRead, Critical, history
  <2>5. Alone(p)
    BY <1>1 DEF Verify, Goto, Inv, TypeOK, Alone, Declared, history
  <2> QED
    BY <2>1, <2>4, <2>5, Elsewhere
<1>2. CASE \E e \in {"verification"} \cup Transport : Fail(p, e)
  <2>1. PICK e \in Failures \cup {"verification"} : Fail(p, e) /\ e # "validation"
    BY <1>2 DEF Transport
  <2>2. TypeOK'
    BY <2>1, FailTypes DEF Verify, Inv, TypeOK, history
  <2>3. Local(p)'
    BY <2>1, FailTypes DEF Verify, Inv, TypeOK, Local, Formed, Holds, OnRecord, Content, Reported,
         Declared, AfterRead, Critical, history
  <2>4. Alone(p)
    BY <2>1, FailTypes DEF Verify, Inv, TypeOK, Alone, Declared, history
  <2> QED
    BY <2>2, <2>3, <2>4, Elsewhere
<1> QED
  BY <1>1, <1>2 DEF Verify

LEMMA RecordInv == ASSUME Inv, NEW p \in Procs, Record(p) PROVE Inv' /\ Alone(p)
<1>1. /\ res' \in [Procs -> [ok : BOOLEAN, partial : BOOLEAN, auditFailure : BOOLEAN,
                             error : {"none", "bad_request", "conflict", "audit", "verification",
                                      "auth", "timeout", "validation", "upstream"}]]
      /\ res'[p].ok \/ res'[p].partial
      /\ \A q \in Procs \ {p} : res'[q] = res[q]
  <2>0. res \in [Procs -> Answers]
    BY DEF Inv, TypeOK, Answers
  <2>1. CASE res' = [res EXCEPT ![p].ok = TRUE]
    BY <2>0, <2>1 DEF Answers
  <2>2. CASE res' = [res EXCEPT ![p].error = "audit", ![p].partial = Partial("audit"),
                                ![p].auditFailure = TRUE]
    <3>1. Partial("audit") = TRUE
      BY DEF Partial
    <3>2. PICK r \in Answers : r.partial /\ res' = [res EXCEPT ![p] = r]
      <4> DEFINE r == [res[p] EXCEPT !.error = "audit", !.partial = TRUE, !.auditFailure = TRUE]
      <4>1. r \in Answers /\ r.partial
        BY <2>0 DEF Answers
      <4>2. res' = [res EXCEPT ![p] = r]
        BY <2>2, <3>1
      <4> QED
        BY <4>1, <4>2
    <3> QED
      BY <2>0, <3>2 DEF Answers
  <2> QED
    BY <2>1, <2>2 DEF Record
<1>2. /\ audit' \subseteq Procs \X {"attempt", "ok", "error"}
      /\ \A q \in Procs : Declared(q)' = Declared(q)
  BY DEF Record, Inv, TypeOK, Declared
<1>3. TypeOK'
  BY <1>1, <1>2, ReturnTypes DEF Record, Inv, TypeOK, history
<1>4. Local(p)'
  BY <1>1, <1>2, ReturnTypes DEF Record, Inv, TypeOK, Local, Formed, Holds, OnRecord, Content, Reported,
     AfterRead, Critical, history
<1>5. Alone(p)
  BY <1>1, <1>2, ReturnTypes, OthersOut DEF Record, Inv, TypeOK, Alone, history, Critical
<1> QED
  BY <1>3, <1>4, <1>5, Elsewhere

LEMMA ErrorInv == ASSUME Inv, NEW p \in Procs, Error(p) PROVE Inv' /\ Alone(p)
<1>1. /\ res' \in [Procs -> [ok : BOOLEAN, partial : BOOLEAN, auditFailure : BOOLEAN,
                             error : {"none", "bad_request", "conflict", "audit", "verification",
                                      "auth", "timeout", "validation", "upstream"}]]
      /\ res'[p].ok = res[p].ok /\ res'[p].partial = res[p].partial /\ res'[p].error = res[p].error
      /\ \A q \in Procs \ {p} : res'[q] = res[q]
  <2>1. res \in [Procs -> Answers]
    BY DEF Inv, TypeOK, Answers
  <2>2. CASE UNCHANGED res
    BY <2>1, <2>2 DEF Answers
  <2>3. CASE Unrecorded(p)
    BY <2>1, <2>3 DEF Unrecorded, Answers
  <2> QED
    BY <2>2, <2>3 DEF Error
<1>2. /\ audit' \subseteq Procs \X {"attempt", "ok", "error"}
      /\ \A q \in Procs : Declared(q)' = Declared(q)
  BY DEF Error, Inv, TypeOK, Declared
<1>3. TypeOK'
  BY <1>1, <1>2, ReturnTypes DEF Error, Inv, TypeOK, history
<1>4. Local(p)'
  BY <1>1, <1>2, ReturnTypes DEF Error, Inv, TypeOK, Local, Formed, Holds, OnRecord, Content, Reported,
     AfterRead, Critical, history
<1>5. Alone(p)
  BY <1>1, <1>2, ReturnTypes, OthersOut DEF Error, Inv, TypeOK, Alone, history, Critical
<1> QED
  BY <1>3, <1>4, <1>5, Elsewhere

-----------------------------------------------------------------------------
(* Everybody else *)

\* Whoever saves from outside marks every request that is under way.
LEMMA OutsideInv ==
    ASSUME Inv, TypeOK', UNCHANGED <<lock, audit, pc, req, current, res, touched>>, Disturb
    PROVE  Inv'
<1>1. ASSUME NEW p \in Procs PROVE Local(p)'
  <2>1. pc[p] \in Critical => p \in foreign'
    BY DEF Disturb
  <2>2. Formed(p)' /\ Holds(p)' /\ OnRecord(p)' /\ Reported(p)'
    BY DEF Inv, Local, Formed, Holds, OnRecord, Reported, Declared
  <2>3. Content(p)'
    BY <2>1 DEF Content, Critical
  <2> QED
    BY <2>2, <2>3 DEF Local
<1> QED
  BY <1>1 DEF Inv

LEMMA EnvironmentInv == ASSUME Inv, ExternalSave \/ LateExecution PROVE Inv'
<1>1. CASE ExternalSave
  <2>1. PICK op \in Op : Executed(op)
    BY <1>1 DEF ExternalSave
  <2>2. crl' \in [Cas -> List] /\ inflight' = inflight
    BY <2>1, SavedType DEF Executed, Inv
  <2>3. env' \in 0 .. MaxEnv /\ foreign' \subseteq Procs
    BY <1>1, CrlAssumption DEF ExternalSave, Intervene, Disturb, Inv, TypeOK
  <2>4. TypeOK'
    BY <1>1, <2>2, <2>3 DEF ExternalSave, Inv, TypeOK
  <2> QED
    BY <1>1, <2>4, OutsideInv DEF ExternalSave
<1>2. CASE LateExecution
  <2>1. PICK op \in inflight : /\ inflight' = inflight \ {op}
                               /\ crl' = IF Possible(op) THEN Saved(op) ELSE crl
    BY <1>2 DEF LateExecution
  <2>2. op \in Op
    BY DEF Inv, TypeOK
  <2>3. crl' \in [Cas -> List]
    BY <2>1, <2>2, SavedType DEF Inv, TypeOK
  <2>4. TypeOK'
    BY <1>2, <2>1, <2>3 DEF LateExecution, Disturb, Inv, TypeOK
  <2> QED
    BY <1>2, <2>4, OutsideInv DEF LateExecution
<1> QED
  BY <1>1, <1>2

LEMMA CrashInv == ASSUME Inv, Crash PROVE Inv'
<1>1. NoRequest \in Request
  BY ListFacts DEF Request, NoRequest
<1>2. env' \in 0 .. MaxEnv
  BY CrlAssumption DEF Crash, Intervene, Inv, TypeOK
<1>3. TypeOK'
  BY <1>1, <1>2 DEF Crash, Inv, TypeOK
<1>4. ASSUME NEW p \in Procs PROVE Local(p)'
  <2>1. (pc'[p] \in {"idle", "done"} /\ pc'[p] = pc[p]) \/ pc'[p] = "crashed"
    BY DEF Crash
  <2> QED
    BY <2>1 DEF Crash, Inv, Local, Formed, Holds, OnRecord, Content, Reported, Declared, AfterRead, Critical
<1> QED
  BY <1>3, <1>4 DEF Inv

LEMMA StutterInv == ASSUME Inv, UNCHANGED vars PROVE Inv'
<1>1. TypeOK'
  BY DEF vars, Inv, TypeOK
<1>2. ASSUME NEW p \in Procs PROVE Local(p)'
  BY DEF vars, Inv, Local, Formed, Holds, OnRecord, Content, Reported, Declared, Wanted, NewList
<1> QED
  BY <1>1, <1>2 DEF Inv

LEMMA RequestInv ==
    ASSUME Inv, NEW p \in Procs, Begin(p) \/ Refuse(p) \/ Step(p)
    PROVE  Inv' /\ Alone(p)
BY BeginInv, RefuseInv, AcquireInv, ReadInv, AttemptInv, PostInv, VerifyInv, RecordInv, ErrorInv DEF Step

LEMMA NextInv == ASSUME Inv, [Next]_vars PROVE Inv'
  BY RequestInv, EnvironmentInv, CrashInv, StutterInv DEF Next, Done

\* Reachable states satisfy the inductive invariant.
THEOREM Invariant == Spec => []Inv
BY InitInv, NextInv, PTL DEF Spec

\* Every reachable state is well formed; a list never holds anything but
\* certificates, nor a serial above that of its last save.
THEOREM TypeCorrect == Spec => []TypeOK
<1>1. Inv => TypeOK
  BY DEF Inv
<1> QED
  BY <1>1, Invariant, PTL

\* CrlService._LOCK admits one request between its read and its answer.
MutualExclusion == \A p, q \in Procs : pc[p] \in Critical /\ pc[q] \in Critical => p = q

\* Two requests are never both between their lock and their answer.
THEOREM Exclusive == Spec => []MutualExclusion
<1>1. Inv => MutualExclusion
  BY DEF Inv, Local, Holds, MutualExclusion
<1> QED
  BY <1>1, Invariant, PTL

\* A save that passes the read-back of CrlService.mutate is the request's own.
THEOREM SavedOnce == Spec => []VerifiedOnce
<1>1. Inv => VerifiedOnce
  <2>1. ASSUME Inv, NEW p \in Procs, pc[p] = "record", p \notin foreign
        PROVE  p \in touched /\ crl[req[p].ca] = Wanted(p)
    BY <2>1 DEF Inv, Local, Content
  <2>2. ASSUME NEW p \in Procs
        PROVE  IF req[p].action = "delete" THEN ~Wanted(p).exists
               ELSE Wanted(p).revoked = NewList(p) /\ Wanted(p).serial = current[p].serial + 1
    BY DEF Wanted, Absent
  <2> QED
    BY <2>1, <2>2 DEF VerifiedOnce
<1> QED
  BY <1>1, Invariant, PTL

\* The partial flag of an error is honest, up to a login denied at the read-back.
THEOREM HonestPartial == Spec => []PartialIsHonest
<1>1. Inv => PartialIsHonest
  BY DEF Inv, Local, Reported, PartialIsHonest
<1> QED
  BY <1>1, Invariant, PTL

\* A revocation never takes another one back, unless somebody outside the process
\* or a late POST saved between the read and the POST of CrlService.mutate.
THEOREM RevocationsStay == Spec => RevocationsKept
<1> DEFINE Kept(p) ==
      pc[p] = "post" /\ req[p].action = "revoke" /\ crl' # crl /\ p \notin foreign /\ pc'[p] # "post"
        => crl[req[p].ca].revoked \cup {req[p].cert} \subseteq crl'[req[p].ca].revoked
<1>1. ASSUME Inv, Next, NEW p \in Procs PROVE Kept(p)
  <2>1. SUFFICES ASSUME pc[p] = "post", req[p].action = "revoke", crl' # crl, p \notin foreign,
                        pc'[p] # "post"
                 PROVE  crl[req[p].ca].revoked \cup {req[p].cert} \subseteq crl'[req[p].ca].revoked
    OBVIOUS
  <2>2. Post(p)
    <3>1. ASSUME NEW q \in Procs, Begin(q) \/ Refuse(q) \/ Step(q) PROVE Post(p)
      <4>1. q = p
        BY <1>1, <2>1, <3>1, RequestInv DEF Alone
      <4> QED
        BY <2>1, <3>1, <4>1 DEF Begin, Refuse, Step, Acquire, Read, Attempt, Verify, Record, Error
    <3> QED
      BY <1>1, <2>1, <3>1 DEF Next, ExternalSave, LateExecution, Crash, Done, vars
  <2>3. crl[req[p].ca] = current[p]
    BY <1>1, <2>1 DEF Inv, Local, Content
  <2>4. crl'[req[p].ca] = Wanted(p)
    BY <1>1, <2>1, <2>2, PostEffect DEF Post
  <2>5. Wanted(p).revoked = current[p].revoked \cup {req[p].cert}
    BY <2>1 DEF Wanted, NewList
  <2> QED
    BY <2>3, <2>4, <2>5
<1>2. Inv /\ [Next]_vars => [\A p \in Procs : Kept(p)]_vars
  BY <1>1
<1> QED
  BY <1>2, Invariant, PTL DEF Spec, RevocationsKept

-----------------------------------------------------------------------------
(* CrlService implements AuditedWrite *)

Event(e) == IF e = "attempt" THEN "intent" ELSE e

LEMMA TrailGrows ==
    ASSUME NEW p, NEW e, audit' = audit \cup {<<p, e>>}
    PROVE  Trail' = Trail \cup {<<p, Event(e)>>}
<1> DEFINE F(l) == <<l[1], IF l[2] = "attempt" THEN "intent" ELSE l[2]>>
<1>1. F(<<p, e>>) = <<p, Event(e)>>
  BY DEF Event
<1>2. Trail = {F(l) : l \in audit} /\ Trail' = {F(l) : l \in audit'}
  BY DEF Trail
<1> HIDE DEF F
<1> QED
  BY <1>1, <1>2

LEMMA TrailStays == ASSUME UNCHANGED audit PROVE UNCHANGED Trail
BY DEF Trail

\* A step of p leaves the stages and answers of others alone.
LEMMA StageMoves ==
    ASSUME Inv, NEW p \in Procs, Alone(p)
    PROVE  /\ Stage' = [Stage EXCEPT ![p] = Stage'[p]]
           /\ Answer' = [Answer EXCEPT ![p] = Answer'[p]]
           /\ Stage'[p] = Stage[p] => Stage' = Stage
           /\ Answer'[p] = Answer[p] => Answer' = Answer
<1>1. ASSUME NEW q \in Procs \ {p} PROVE Stage'[q] = Stage[q] /\ Answer'[q] = Answer[q]
  BY DEF Alone, Stage, Answer
<1>2. /\ Stage = [q \in Procs |-> Stage[q]] /\ Stage' = [q \in Procs |-> Stage'[q]]
      /\ Answer = [q \in Procs |-> Answer[q]] /\ Answer' = [q \in Procs |-> Answer'[q]]
  BY DEF Stage, Answer
<1> QED
  BY <1>1, <1>2

LEMMA StageOf ==
    ASSUME Inv, NEW p \in Procs
    PROVE  /\ Stage[p] = CASE pc[p] = "done" -> "over"
                           [] pc[p] = "crashed" -> "lost"
                           [] OTHER -> IF Declared(p) THEN "declared" ELSE "new"
           /\ Answer[p] = IF pc[p] # "done" THEN "none"
                          ELSE IF ~Declared(p) THEN "refused"
                          ELSE IF res[p].ok THEN "ok"
                          ELSE IF res[p].auditFailure THEN "unrecorded" ELSE "error"
BY DEF Stage, Answer

AuditedStep == [Audited!Next]_(Audited!vars)

\* The stages of the two specifications correspond.
LEMMA Correspondence ==
    ASSUME Inv, NEW p \in Procs
    PROVE  /\ pc[p] \in {"idle", "wait", "read", "attempt"} => Stage[p] = "new" /\ Answer[p] = "none"
           /\ pc[p] \in {"post", "verify", "record", "error"} => Stage[p] = "declared" /\ Answer[p] = "none"
           /\ pc[p] = "done" => Stage[p] = "over"
           /\ pc[p] = "crashed" => Stage[p] = "lost" /\ Answer[p] = "none"
BY StageOf DEF Inv, Local, OnRecord

LEMMA HiddenStep ==
    ASSUME Inv, Inv', NEW p \in Procs, Alone(p), UNCHANGED <<audit, touched>>,
           Stage'[p] = Stage[p], Answer'[p] = Answer[p]
    PROVE  AuditedStep
<1>1. UNCHANGED <<Stage, Answer, Trail, touched>>
  BY StageMoves, TrailStays
<1> QED
  BY <1>1 DEF AuditedStep, Audited!vars

\* An answer before the attempt is on record.
LEMMA RefusedStep ==
    ASSUME Inv, Inv', NEW p \in Procs, Alone(p), UNCHANGED <<audit, touched>>,
           pc[p] \in {"idle", "read", "attempt"}, pc'[p] = "done"
    PROVE  AuditedStep
<1>1. Stage[p] = "new" /\ ~Declared(p)'
  BY Correspondence DEF Inv, Local, OnRecord, Declared
<1>2. Stage'[p] = "over" /\ Answer'[p] = "refused"
  BY <1>1, StageOf DEF Stage, Answer
<1>3. Audited!Refuse(p)
  BY <1>1, <1>2, StageMoves, TrailStays DEF Audited!Refuse, Audited!Over
<1> QED
  BY <1>3 DEF AuditedStep, Audited!Next

LEMMA BeginRefines == ASSUME Inv, Inv', NEW p \in Procs, Begin(p), Alone(p) PROVE AuditedStep
<1>1. pc[p] = "idle" /\ pc'[p] = "wait" /\ UNCHANGED <<audit, touched>>
  BY DEF Begin, Goto, Inv, TypeOK, history
<1> QED
  BY <1>1, HiddenStep, Correspondence DEF Stage, Answer, Declared

LEMMA BeforeRefines ==
    ASSUME Inv, Inv', NEW p \in Procs, Alone(p), Refuse(p) \/ Acquire(p) \/ Read(p)
    PROVE  AuditedStep
<1>1. pc[p] \in {"idle", "wait", "read"} /\ UNCHANGED <<audit, touched>>
  BY DEF Refuse, Acquire, Read, history
<1>2. CASE pc'[p] \in {"read", "attempt"}
  BY <1>1, <1>2, HiddenStep, Correspondence DEF Stage, Answer, Declared
<1>3. CASE pc[p] # "wait" /\ pc'[p] = "done"
  BY <1>1, <1>3, RefusedStep
<1> QED
  BY <1>2, <1>3, ReturnTypes DEF Refuse, Acquire, Read, Raise, Goto, Inv, TypeOK

LEMMA AttemptRefines == ASSUME Inv, Inv', NEW p \in Procs, Alone(p), Attempt(p) PROVE AuditedStep
<1>1. CASE audit' = audit \cup {<<p, "attempt">>} /\ Goto(p, "post")
  <2>1. Stage[p] = "new" /\ Answer[p] = "none" /\ pc'[p] = "post" /\ Declared(p)'
    BY <1>1, Correspondence DEF Attempt, Goto, Inv, TypeOK, Declared
  <2>2. Stage'[p] = "declared" /\ Answer'[p] = "none"
    BY <2>1 DEF Stage, Answer
  <2>3. Trail' = Trail \cup {<<p, "intent">>}
    BY <1>1, TrailGrows DEF Event
  <2>4. Audited!Declare(p)
    BY <2>1, <2>2, <2>3, StageMoves DEF Audited!Declare, Attempt, history
  <2> QED
    BY <2>4 DEF AuditedStep, Audited!Next
<1>2. CASE Return(p) /\ UNCHANGED audit
  BY <1>2, RefusedStep, ReturnTypes DEF Attempt, history
<1> QED
  BY <1>1, <1>2 DEF Attempt

LEMMA PostRefines == ASSUME Inv, Inv', NEW p \in Procs, Alone(p), Post(p) PROVE AuditedStep
<1>1. pc[p] = "post" /\ UNCHANGED audit /\ (touched' = touched \/ touched' = touched \cup {p})
  BY DEF Post, Touch
<1>2. pc'[p] \in {"verify", "error"}
  BY FailTypes DEF Post, Goto, Inv, TypeOK
<1>3. Stage[p] = "declared" /\ Answer[p] = "none" /\ Stage'[p] = "declared" /\ Answer'[p] = "none"
  BY <1>1, <1>2, Correspondence DEF Stage, Answer, Declared
<1>4. CASE touched' = touched
  BY <1>1, <1>3, <1>4, HiddenStep
<1>5. CASE touched' = touched \cup {p}
  <2>1. Audited!Change(p)
    BY <1>1, <1>3, <1>5, StageMoves, TrailStays DEF Audited!Change
  <2> QED
    BY <2>1 DEF AuditedStep, Audited!Next
<1> QED
  BY <1>1, <1>4, <1>5

LEMMA VerifyRefines == ASSUME Inv, Inv', NEW p \in Procs, Alone(p), Verify(p) PROVE AuditedStep
<1>1. pc[p] = "verify" /\ UNCHANGED <<audit, touched>>
  BY DEF Verify, history
<1>2. pc'[p] \in {"record", "error"}
  <2>1. CASE Goto(p, "record")
    BY <2>1 DEF Goto, Inv, TypeOK
  <2>2. CASE \E e \in Failures \cup {"verification"} : Fail(p, e)
    BY <2>2, FailTypes
  <2> QED
    BY <2>1, <2>2 DEF Verify, Transport
<1> QED
  BY <1>1, <1>2, HiddenStep, Correspondence DEF Stage, Answer, Declared

\* An answer with its line, or one that says that the line is missing.
LEMMA ClosedStep ==
    ASSUME Inv, NEW p \in Procs, Alone(p), NEW o \in {"ok", "error"},
           pc[p] \in {"record", "error"}, pc'[p] = "done", touched' = touched,
           audit' = audit \cup {<<p, o>>}, o = "ok" => res'[p].ok, o = "error" => ~res'[p].ok, ~res'[p].auditFailure
    PROVE  AuditedStep
<1>1. Stage[p] = "declared" /\ Declared(p)'
  BY Correspondence DEF Inv, Local, OnRecord, Declared
<1>2. Stage'[p] = "over" /\ Answer'[p] = o
  BY <1>1 DEF Stage, Answer
<1>3. Trail' = Trail \cup {<<p, o>>}
  BY TrailGrows DEF Event
<1>4. Audited!Close(p, o)
  BY <1>1, <1>2, <1>3, StageMoves DEF Audited!Close, Audited!Over
<1> QED
  BY <1>4 DEF AuditedStep, Audited!Next

LEMMA UnrecordedStep ==
    ASSUME Inv, NEW p \in Procs, Alone(p),
           pc[p] \in {"record", "error"}, pc'[p] = "done", UNCHANGED <<audit, touched>>,
           ~res'[p].ok, res'[p].auditFailure
    PROVE  AuditedStep
<1>1. Stage[p] = "declared" /\ Declared(p)'
  BY Correspondence DEF Inv, Local, OnRecord, Declared
<1>2. Stage'[p] = "over" /\ Answer'[p] = "unrecorded"
  BY <1>1 DEF Stage, Answer
<1>3. Audited!Unrecorded(p)
  BY <1>1, <1>2, StageMoves, TrailStays DEF Audited!Unrecorded, Audited!Over
<1> QED
  BY <1>3 DEF AuditedStep, Audited!Next

LEMMA EndRefines ==
    ASSUME Inv, Inv', NEW p \in Procs, Alone(p), Record(p) \/ Error(p)
    PROVE  AuditedStep
<1>1. pc[p] \in {"record", "error"} /\ pc'[p] = "done" /\ touched' = touched
  BY ReturnTypes DEF Record, Error, history
<1>2. ~res[p].ok /\ ~res[p].auditFailure /\ p \in DOMAIN res
  BY <1>1 DEF Inv, TypeOK, Local, OnRecord
<1>3. CASE audit' = audit \cup {<<p, "ok">>} /\ res' = [res EXCEPT ![p].ok = TRUE]
  <2>1. res'[p].ok /\ ~res'[p].auditFailure
    BY <1>2, <1>3 DEF Inv, TypeOK
  <2> QED
    BY <1>1, <1>3, <2>1, ClosedStep
<1>4. CASE audit' = audit \cup {<<p, "error">>} /\ UNCHANGED res
  <2>1. ~res'[p].ok /\ ~res'[p].auditFailure
    BY <1>2, <1>4
  <2> QED
    BY <1>1, <1>4, <2>1, ClosedStep
<1>5. CASE UNCHANGED audit /\ ~res'[p].ok /\ res'[p].auditFailure
  BY <1>1, <1>5, UnrecordedStep
<1>6. CASE Record(p)
  <2>1. CASE UNCHANGED audit /\ res' = [res EXCEPT ![p].error = "audit", ![p].partial = Partial("audit"),
                                                  ![p].auditFailure = TRUE]
    <3>1. ~res'[p].ok /\ res'[p].auditFailure
      BY <1>2, <2>1 DEF Inv, TypeOK
    <3> QED
      BY <1>5, <2>1, <3>1
  <2> QED
    BY <1>3, <1>6, <2>1 DEF Record
<1>7. CASE Error(p)
  BY <1>2, <1>4, <1>5, <1>7 DEF Error, Unrecorded, Inv, TypeOK
<1> QED
  BY <1>6, <1>7

LEMMA CrashRefines == ASSUME Inv, Crash PROVE AuditedStep
<1> DEFINE lost == {p \in Procs : pc[p] \notin {"idle", "done", "crashed"}}
<1>1. lost \in SUBSET {p \in Procs : Stage[p] \in {"new", "declared"}}
  BY Correspondence DEF Inv, TypeOK, Critical
<1>2. Stage' = [p \in Procs |-> IF p \in lost THEN "lost" ELSE Stage[p]]
  BY DEF Crash, Stage, Declared
<1>3. UNCHANGED <<Answer, Trail, touched>>
  BY TrailStays DEF Crash, Answer, Declared
<1>4. Audited!Crash
  BY <1>1, <1>2, <1>3 DEF Audited!Crash
<1> QED
  BY <1>4 DEF AuditedStep, Audited!Next

LEMMA QuietRefines ==
    ASSUME ExternalSave \/ LateExecution \/ UNCHANGED vars
    PROVE  AuditedStep
<1>1. UNCHANGED <<Stage, Answer, Trail, touched>>
  BY DEF ExternalSave, LateExecution, vars, Stage, Answer, Trail, Declared
<1> QED
  BY <1>1 DEF AuditedStep, Audited!vars

LEMMA NextRefines == ASSUME Inv, Inv', [Next]_vars PROVE AuditedStep
<1>1. ASSUME NEW p \in Procs, Begin(p) \/ Refuse(p) \/ Step(p) PROVE AuditedStep
  BY <1>1, RequestInv, BeginRefines, BeforeRefines, AttemptRefines, PostRefines, VerifyRefines,
     EndRefines DEF Step
<1> QED
  BY <1>1, CrashRefines, QuietRefines DEF Next, Done

\* CrlService.mutate is an audited write: every step is one of AuditedWrite, or
\* none that it can see.
THEOREM Refinement == Spec => IsAuditedWrite
<1>1. Init => Audited!Init
  BY DEF Init, Audited!Init, Stage, Answer, Trail, Declared
<1>2. Inv /\ Inv' /\ [Next]_vars => [Audited!Next]_(Audited!vars)
  BY NextRefines DEF AuditedStep
<1> QED
  BY <1>1, <1>2, Invariant, PTL DEF Spec, IsAuditedWrite, Audited!Spec

Proved ==
    INSTANCE AuditedWriteProofs WITH stage <- Stage, answer <- Answer, trail <- Trail, changed <- touched

\* Every change that CrlService makes to a list can be traced to its line.
THEOREM Traced == Spec => []Audited!Accounted
<1>1. Audited!Init => Proved!Init
  BY DEF Audited!Init, Proved!Init
<1>2. [Audited!Next]_(Audited!vars) => [Proved!Next]_(Proved!vars)
  BY DEF Audited!Next, Audited!vars, Audited!Refuse, Audited!Declare, Audited!Change, Audited!Unrecorded,
         Audited!Close, Audited!Over, Audited!Crash, Proved!Next, Proved!vars, Proved!Refuse,
         Proved!Declare, Proved!Change, Proved!Unrecorded, Proved!Close, Proved!Over, Proved!Crash
<1>3. Proved!Accounted => Audited!Accounted
  BY DEF Audited!Accounted, Proved!Accounted
<1>4. Proved!Spec => []Proved!Accounted
  BY Proved!AccountedFor
<1> QED
  BY <1>1, <1>2, <1>3, <1>4, Refinement, PTL DEF IsAuditedWrite, Audited!Spec, Proved!Spec

-----------------------------------------------------------------------------
(* Every request comes to an end, and the lock comes back *)

Along(s) ==
    CASE s = "idle" -> 0   [] s = "wait" -> 1   [] s = "read" -> 2  [] s = "attempt" -> 3
      [] s = "post" -> 4   [] s = "verify" -> 5 [] s = "record" -> 6 [] s = "error" -> 7
      [] s \in {"done", "crashed"} -> 8

\* Nothing takes a request back, and each step of its own takes it further.
Advance(p) ==
    /\ Along(pc'[p]) >= Along(pc[p])
    /\ Begin(p) \/ Refuse(p) \/ Step(p) => Along(pc'[p]) > Along(pc[p])
Advances == [][\A p \in Procs : Advance(p)]_vars

\* CrlService._LOCK is held by a request that has not returned.
LockOwned == lock # NoProc => pc[lock] \in Critical

\* What a step does to the stage of its request, and to the lock.
Enters(p) == pc[p] = "idle" /\ pc'[p] \in {"wait", "done"} /\ lock' = lock
Takes(p) == pc[p] = "wait" /\ pc'[p] = "read" /\ lock' = p
Works(p) ==
    /\ \/ pc[p] = "read" /\ pc'[p] = "attempt"
       \/ pc[p] = "attempt" /\ pc'[p] = "post"
       \/ pc[p] = "post" /\ pc'[p] \in {"verify", "error"}
       \/ pc[p] = "verify" /\ pc'[p] \in {"record", "error"}
    /\ lock' = lock
Leaves(p) == pc[p] \in {"read", "attempt", "record", "error"} /\ pc'[p] = "done" /\ lock' = NoProc
Move(p) == Enters(p) \/ Takes(p) \/ Works(p) \/ Leaves(p)

LEMMA GotoStage == ASSUME Inv, NEW p \in Procs, NEW s, Goto(p, s) PROVE pc'[p] = s
  BY DEF Goto, Inv, TypeOK

LEMMA StepMoves ==
    ASSUME Inv, NEW p \in Procs, Begin(p) \/ Refuse(p) \/ Step(p)
    PROVE  Move(p)
<1>1. CASE Begin(p) \/ Refuse(p) \/ Acquire(p)
  BY <1>1, GotoStage DEF Begin, Refuse, Acquire, Move, Enters, Takes
<1>2. CASE Read(p)
  BY <1>2, GotoStage DEF Read, Raise, Return, Move, Works, Leaves
<1>3. CASE Attempt(p)
  BY <1>3, GotoStage DEF Attempt, Return, Move, Works, Leaves
<1>4. CASE Post(p) \/ Verify(p)
  BY <1>4, GotoStage DEF Post, Verify, Fail, Move, Works
<1>5. CASE Record(p) \/ Error(p)
  BY <1>5, GotoStage DEF Record, Error, Return, Move, Leaves
<1> QED
  BY <1>1, <1>2, <1>3, <1>4, <1>5 DEF Step

LEMMA AlongValues ==
    /\ Along("idle") = 0 /\ Along("wait") = 1 /\ Along("read") = 2 /\ Along("attempt") = 3
    /\ Along("post") = 4 /\ Along("verify") = 5 /\ Along("record") = 6 /\ Along("error") = 7
    /\ Along("done") = 8 /\ Along("crashed") = 8
  BY DEF Along

LEMMA NextAdvances == ASSUME Inv, Inv', Next, NEW p \in Procs PROVE Advance(p)
<1> DEFINE Stages == Critical \cup {"idle", "wait", "done", "crashed"}
<1>s. \A s \in Stages : Along(s) \in 0 .. 8
  BY AlongValues DEF Critical
<1>t. pc[p] \in Stages /\ pc'[p] \in Stages
  BY DEF Inv, TypeOK
<1> HIDE DEF Stages
<1>1. Along(pc[p]) \in 0 .. 8 /\ Along(pc'[p]) \in 0 .. 8
  BY <1>s, <1>t
<1>2. CASE Begin(p) \/ Refuse(p) \/ Step(p)
  <2>1. Along(pc'[p]) > Along(pc[p])
    BY <1>2, StepMoves, AlongValues DEF Move, Enters, Takes, Works, Leaves
  <2> QED
    BY <1>1, <2>1 DEF Advance
<1>3. CASE ~(Begin(p) \/ Refuse(p) \/ Step(p))
  <2>1. pc'[p] = pc[p] \/ pc'[p] = "crashed"
    <3>1. ASSUME NEW q \in Procs \ {p}, Begin(q) \/ Refuse(q) \/ Step(q) PROVE pc'[p] = pc[p]
      BY <3>1, RequestInv DEF Alone
    <3>2. CASE ExternalSave \/ LateExecution \/ Crash \/ Done
      BY <3>2 DEF ExternalSave, LateExecution, Crash, Done, vars
    <3> QED
      BY <1>3, <3>1, <3>2 DEF Next
  <2> QED
    BY <1>1, <1>3, <2>1, AlongValues DEF Advance
<1> QED
  BY <1>2, <1>3

\* Nothing takes a request back, and each step of its own takes it further: it is
\* answered after at most eight of them, the one that takes the lock included.
THEOREM Advancing == Spec => Advances
<1>1. Inv /\ Inv' /\ [Next]_vars => [\A p \in Procs : Advance(p)]_vars
  BY NextAdvances
<1> QED
  BY <1>1, Invariant, PTL DEF Spec, Advances

LEMMA OwnedStep == ASSUME Inv, LockOwned, [Next]_vars PROVE LockOwned'
<1>t. lock \in Procs \cup {NoProc} /\ NoProc \notin Procs
  BY CrlAssumption DEF Inv, TypeOK
<1>1. ASSUME NEW p \in Procs, Begin(p) \/ Refuse(p) \/ Step(p) PROVE LockOwned'
  <2>1. Move(p) /\ \A q \in Procs \ {p} : pc'[q] = pc[q]
    BY <1>1, StepMoves, RequestInv DEF Alone
  <2> QED
    BY <1>t, <2>1 DEF Move, Enters, Takes, Works, Leaves, LockOwned, Critical
<1>2. CASE ExternalSave \/ LateExecution \/ UNCHANGED vars
  BY <1>2 DEF ExternalSave, LateExecution, vars, LockOwned
<1>3. CASE Crash
  BY <1>3 DEF Crash, LockOwned
<1> QED
  BY <1>1, <1>2, <1>3 DEF Next, Done

\* The "with" of CrlService.mutate never leaks: when the lock is taken, its holder
\* is still at work, so when all requests have returned, or the process has died,
\* the lists can be written again.
THEOREM Unleaked == Spec => []LockOwned
<1>1. Init => LockOwned
  BY DEF Init, LockOwned
<1>2. Inv /\ LockOwned /\ [Next]_vars => LockOwned'
  BY OwnedStep
<1> QED
  BY <1>1, <1>2, Invariant, PTL DEF Spec
=============================================================================
