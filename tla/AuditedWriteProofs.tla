------------------------- MODULE AuditedWriteProofs -------------------------
(***************************************************************************)
(* What an audited write promises, for any set of requests.  The write     *)
(* paths of engine.py, crl.py and verified.py implement AuditedWrite       *)
(* (IsAuditedWrite of ManagementEngine, CrlService and VerifiedTrail), and *)
(* inherit it.                                                             *)
(***************************************************************************)
EXTENDS AuditedWrite, TLAPS

\* A request that was announced is on record, and only such a request changes the
\* node, so that it can no longer be refused as one that posted nothing.
Announced ==
    /\ \A p \in Procs : stage[p] = "declared" => <<p, "intent">> \in trail
    /\ \A p \in changed : stage[p] # "new"

AuditInv == TypeOK /\ Announced /\ Accounted

LEMMA InitAudit == Init => AuditInv
  BY DEF Init, AuditInv, TypeOK, Announced, Accounted

LEMMA RefuseAudit == ASSUME AuditInv, NEW p \in Procs, Refuse(p) PROVE AuditInv'
<1> USE DEF AuditInv, Refuse, Over
<1>1. TypeOK'
  BY DEF TypeOK
<1>2. Announced' /\ Accounted'
  BY DEF TypeOK, Announced, Accounted
<1> QED
  BY <1>1, <1>2

LEMMA DeclareAudit == ASSUME AuditInv, NEW p \in Procs, Declare(p) PROVE AuditInv'
<1> USE DEF AuditInv, Declare
<1>1. TypeOK'
  BY DEF TypeOK
<1>2. Announced'
  BY DEF TypeOK, Announced
<1>3. Accounted'
  BY DEF TypeOK, Announced, Accounted
<1> QED
  BY <1>1, <1>2, <1>3

LEMMA ChangeAudit == ASSUME AuditInv, NEW p \in Procs, Change(p) PROVE AuditInv'
<1> USE DEF AuditInv, Change
<1>1. TypeOK'
  BY DEF TypeOK
<1>2. Announced' /\ Accounted'
  BY DEF TypeOK, Announced, Accounted
<1> QED
  BY <1>1, <1>2

LEMMA CloseAudit ==
  ASSUME AuditInv, NEW p \in Procs, NEW outcome \in {"ok", "error"}, Close(p, outcome)
  PROVE  AuditInv'
<1> USE DEF AuditInv, Close, Over
<1>1. TypeOK'
  BY DEF TypeOK
<1>2. Announced'
  BY DEF TypeOK, Announced
<1>3. Accounted'
  BY DEF TypeOK, Announced, Accounted
<1> QED
  BY <1>1, <1>2, <1>3

LEMMA UnrecordedAudit == ASSUME AuditInv, NEW p \in Procs, Unrecorded(p) PROVE AuditInv'
<1> USE DEF AuditInv, Unrecorded, Over
<1>1. TypeOK'
  BY DEF TypeOK
<1>2. Announced' /\ Accounted'
  BY DEF TypeOK, Announced, Accounted
<1> QED
  BY <1>1, <1>2

LEMMA CrashAudit == ASSUME AuditInv, Crash PROVE AuditInv'
<1> USE DEF AuditInv
<1>1. PICK lost \in SUBSET {p \in Procs : stage[p] \in {"new", "declared"}} :
        stage' = [p \in Procs |-> IF p \in lost THEN "lost" ELSE stage[p]]
  BY DEF Crash
<1>2. UNCHANGED <<answer, trail, changed>>
  BY DEF Crash
<1>3. TypeOK'
  BY <1>1, <1>2 DEF TypeOK
<1>4. Announced' /\ Accounted'
  BY <1>1, <1>2 DEF TypeOK, Announced, Accounted
<1> QED
  BY <1>3, <1>4

LEMMA NextAudit == ASSUME AuditInv, [Next]_vars PROVE AuditInv'
<1>1. CASE UNCHANGED vars
  BY <1>1 DEF vars, AuditInv, TypeOK, Announced, Accounted
<1>2. ASSUME NEW p \in Procs, Refuse(p) PROVE AuditInv'
  BY <1>2, RefuseAudit
<1>3. ASSUME NEW p \in Procs, Declare(p) PROVE AuditInv'
  BY <1>3, DeclareAudit
<1>4. ASSUME NEW p \in Procs, Change(p) PROVE AuditInv'
  BY <1>4, ChangeAudit
<1>5. ASSUME NEW p \in Procs, Unrecorded(p) PROVE AuditInv'
  BY <1>5, UnrecordedAudit
<1>6. ASSUME NEW p \in Procs, NEW outcome \in {"ok", "error"}, Close(p, outcome) PROVE AuditInv'
  BY <1>6, CloseAudit
<1>7. CASE Crash
  BY <1>7, CrashAudit
<1> QED
  BY <1>1, <1>2, <1>3, <1>4, <1>5, <1>6, <1>7 DEF Next

\* Every change of the node can be traced (AuditLog.append before the first POST),
\* and every answer to a request that changed it is on record or says that it is not.
THEOREM AccountedFor == Spec => []Accounted
<1>1. Init => AuditInv
  BY InitAudit
<1>2. AuditInv /\ [Next]_vars => AuditInv'
  BY NextAudit
<1>3. AuditInv => Accounted
  BY DEF AuditInv
<1> QED
  BY <1>1, <1>2, <1>3, PTL DEF Spec
=============================================================================
