-------------------------- MODULE BackupStoreProofs --------------------------
(***************************************************************************)
(* Theorems about BackupStore, for every number of requests, backups, key  *)
(* contents, crashes and losses of the key file.                           *)
(***************************************************************************)
EXTENDS BackupStore, FiniteSetTheorems, FunctionTheorems, TLAPS

-----------------------------------------------------------------------------
(* The inductive invariant *)

\* The identifier of a creation is taken, and its backup not yet in place.
Reserved == Serialized \ {"chmod"}
Creation(p) == req[p].action = "create" /\ req[p].id # NoId
Deletion(p) == pc[p] = "done" /\ req[p].action = "delete" /\ ans[p] = "ok"

\* What the stage of a request says of its action and its locals.
Shape(p) ==
    /\ pc[p] = "idle" => req[p] = [action |-> "none", id |-> NoId] /\ mem[p] = NoMemory
    /\ pc[p] = "record" =>
         \/ req[p].action = "create" /\ req[p].id = NoId
         \/ req[p].action \in {"read", "delete"} /\ req[p].id \in Ids
    /\ pc[p] \in {"download", "wait"} => req[p].action = "create" /\ req[p].id = NoId
    /\ pc[p] \in Serialized => req[p].action = "create" /\ req[p].id \in Ids /\ lock = p
    /\ pc[p] = "scan" => req[p].action = "list" /\ mem[p] = NoMemory
    /\ pc[p] \in {"load", "decrypt"} => req[p].action \in {"list", "read", "delete"} /\ req[p].id \in Ids
    /\ pc[p] = "unlink" => req[p].action = "delete" /\ req[p].id \in Ids

\* The key of the store, as it is created, and as creations and loads hold it.
Keyed(p) ==
    /\ pc[p] = "keycreate" => keyfile = Absent /\ Present = {}
    /\ pc[p] = "keywrite" => keyfile \in {Absent, Empty} /\ Present = {} /\ (~lost => keyfile = Empty)
    /\ pc[p] = "keyread" => (~lost => keyfile # Absent)
    /\ pc[p] \in {"temp", "write", "replace"} => mem[p].key \in Keys /\ (~lost => mem[p].key = keyfile)
    /\ pc[p] = "decrypt" => mem[p].envelope \in Keys /\ (~lost => mem[p].envelope = keyfile)

\* An empty key file is one that is being written, or whose writing failed.
EmptyKey == keyfile = Empty => spoiled \/ \E p \in Procs : pc[p] = "keywrite"

\* Nobody else creates under the same identifier.
Distinct == \A p, q \in Procs : Creation(p) /\ Creation(q) /\ req[p].id = req[q].id => p = q

Created(p) ==
    Creation(p) =>
      LET i == req[p].id
      IN /\ pc[p] \in Reserved => files[i] = Absent
         /\ pc[p] \in Serialized \ {"write", "replace"} => temps[i] = Absent
         /\ pc[p] = "done" /\ temps[i] # Absent => ans[p] = "500" /\ p \in failed
         /\ pc[p] = "replace" => temps[i] = mem[p].key
         /\ pc[p] = "done" /\ files[i] # Absent => ans[p] = "ok" \/ p \in unfinished
         /\ pc[p] = "done" /\ ans[p] = "ok" =>
              files[i] # Absent \/ \E q \in Procs : Deletion(q) /\ req[q].id = i

\* A deleted backup does not come back.
Deleted(p) ==
    /\ req[p].action = "delete" /\ pc[p] \in {"load", "decrypt", "unlink"} => p \in trail
    /\ Deletion(p) =>
         /\ p \in trail /\ req[p].id \in Ids
         /\ files[req[p].id] = Absent
         /\ \A q \in Procs : pc[q] \in Reserved => req[q].id # req[p].id
         /\ \A q \in Procs : Deletion(q) /\ req[q].id = req[p].id => q = p

\* A list has shown, or is still to show, what was there and did not move.
Listing(p) ==
    req[p].action = "list" /\ pc[p] \in {"load", "decrypt"} =>
      /\ req[p].id \in mem[p].todo
      /\ (mem[p].todo \cup mem[p].got) \ moved[p] = Present \ moved[p]

\* What a request that is over has answered.
Blocked(p) ==
    pc[p] = "done" /\ req[p].action \in {"create", "read", "delete"} /\ ans[p] = "409"
      => lost \/ spoiled \/ p \in failed
ListTold(p) ==
    pc[p] = "done" /\ req[p].action = "list" =>
      /\ ans[p] = "ok" => mem[p].got \ moved[p] = Present \ moved[p]
      /\ ans[p] = "404" => \E q \in Procs : Deletion(q) /\ req[q].id \in moved[p]
      /\ ans[p] \notin {"ok", "404"} => lost \/ spoiled \/ p \in failed

Local(p) ==
    Shape(p) /\ Keyed(p) /\ Created(p) /\ Deleted(p) /\ Listing(p) /\ Blocked(p) /\ ListTold(p)

\* What was put in place is there until it is deleted.
Gone ==
    \A p \in Procs : \A i \in moved[p] :
        files[i] # Absent \/ \E q \in Procs : Deletion(q) /\ req[q].id = i

Inv == TypeOK /\ Readable /\ EmptyKey /\ Distinct /\ Gone /\ \A p \in Procs : Local(p)

-----------------------------------------------------------------------------
(* What a step of a request leaves to the others *)

Others(p) ==
    \A q \in Procs \ {p} :
        /\ pc'[q] = pc[q] /\ req'[q] = req[q] /\ mem'[q] = mem[q] /\ ans'[q] = ans[q]
        /\ (q \in trail') = (q \in trail) /\ (q \in unfinished') = (q \in unfinished)
        /\ (q \in failed') = (q \in failed)
        /\ lock = q => lock' = q
        /\ moved[q] \subseteq moved'[q]
        /\ \A i \in Ids : files'[i] = files[i] \/ i \in moved'[q]

\* Of the directory it changes the backup and the temporary file it creates, or
\* the backup it deletes, and the key only as long as there is none.
Reach(p) ==
    /\ lost' = lost /\ (spoiled => spoiled')
    /\ keyfile \in Keys => keyfile' = keyfile
    /\ pc[p] \in Serialized \/ (keyfile' = keyfile /\ \A i \in Ids : files[i] = Absent => files'[i] = Absent)
    /\ \A i \in Ids :
         /\ \/ files'[i] = files[i]
            \/ pc[p] = "replace" /\ i = req[p].id
            \/ files'[i] = Absent /\ Deletion(p)' /\ i = req'[p].id
         /\ temps'[i] = temps[i] \/ (Creation(p) /\ i = req[p].id)

\* An identifier is new, or was its own before.
Named(p) ==
    \/ \A q \in Procs \ {p} : req'[p].id # req[q].id
    \/ ~Creation(p)' /\ pc'[p] \notin Reserved
    \/ Creation(p) /\ req'[p] = req[p] /\ (pc'[p] \in Reserved => pc[p] \in Reserved)

Alone(p) == pc[p] # "done" /\ Others(p) /\ Reach(p) /\ Named(p)

LEMMA Identifiers ==
    /\ NoId \notin Ids
    /\ Absent \notin Keys /\ Empty \notin Keys /\ Torn \notin Keys
BY BackupAssumption DEF Ids, NoId

LEMMA Elsewhere ==
    ASSUME Inv, NEW p \in Procs, Alone(p), TypeOK', Readable', EmptyKey', Gone', Local(p)'
    PROVE  Inv'
<1> USE DEF Alone
<1>1. ASSUME NEW q \in Procs \ {p} PROVE Local(q)'
  <2>1. Local(q) /\ Local(p)
    BY DEF Inv
  <2>2. /\ pc'[q] = pc[q] /\ req'[q] = req[q] /\ mem'[q] = mem[q] /\ ans'[q] = ans[q]
        /\ (q \in trail') = (q \in trail) /\ (q \in unfinished') = (q \in unfinished)
        /\ (q \in failed') = (q \in failed)
        /\ lock = q => lock' = q
    BY DEF Others
  <2>3. Shape(q)'
    BY <2>1, <2>2 DEF Local, Shape
  <2>4. Keyed(q)'
    <3>1. CASE pc[q] = "decrypt"
      BY <2>1, <2>2, <3>1 DEF Local, Keyed, Reach
    <3>2. CASE pc[q] \in Serialized
      <4>1. pc[p] \notin Serialized
        BY <2>1, <3>2 DEF Local, Shape
      <4>2. keyfile' = keyfile /\ lost' = lost /\ (Present = {} => Present' = {})
        BY <4>1 DEF Reach, Present
      <4> QED
        BY <2>1, <2>2, <4>2 DEF Local, Keyed
    <3> QED
      BY <2>2, <3>1, <3>2 DEF Keyed, Serialized
  <2>5. Created(q)'
    <3> DEFINE i == req[q].id
    <3> SUFFICES ASSUME Creation(q) PROVE Created(q)'
      BY <2>2 DEF Created, Creation
    <3>1. i \in Ids /\ (Creation(p) => req[p].id # i)
      BY DEF Inv, Distinct, TypeOK, Creation
    <3>2. temps'[i] = temps[i]
      BY <3>1 DEF Reach
    <3>3. files'[i] = files[i] \/ (files'[i] = Absent /\ Deletion(p)' /\ i = req'[p].id)
      <4>1. pc[p] = "replace" => Creation(p)
        BY <2>1, Identifiers DEF Local, Shape, Creation, Serialized
      <4> QED
        BY <3>1, <4>1 DEF Reach
    <3>4. ASSUME NEW r \in Procs, Deletion(r) PROVE Deletion(r)' /\ req'[r] = req[r]
      BY <3>4 DEF Deletion, Others
    <3> QED
      BY <2>1, <2>2, <3>2, <3>3, <3>4 DEF Local, Created, Creation
  <2>6. Deleted(q)'
    <3> DEFINE i == req[q].id
    <3>1. Deletion(q)' = Deletion(q)
      BY <2>2 DEF Deletion
    <3>2. ASSUME Deletion(q) PROVE files'[i] = Absent
      <4>1. i \in Ids /\ files[i] = Absent /\ (pc[p] \in Reserved => req[p].id # i)
        BY <2>1, <3>2 DEF Local, Deleted
      <4>2. ~(pc[p] = "replace" /\ i = req[p].id)
        BY <4>1 DEF Reserved, Serialized
      <4> QED
        BY <4>1, <4>2 DEF Reach
    <3>3. ASSUME Deletion(q), NEW r \in Procs, pc'[r] \in Reserved PROVE req'[r].id # i
      <4>1. CASE r # p
        BY <2>1, <3>3, <4>1 DEF Local, Deleted, Others
      <4>2. CASE r = p
        BY <2>1, <3>3, <4>2 DEF Local, Deleted, Named
      <4> QED
        BY <4>1, <4>2
    <3>4. ASSUME Deletion(q), NEW r \in Procs, Deletion(r)', req'[r].id = i PROVE r = q
      <4>1. CASE r # p
        <5>1. Deletion(r) /\ req[r].id = i
          BY <3>4, <4>1 DEF Deletion, Others
        <5> QED
          BY <2>1, <3>4, <5>1 DEF Local, Deleted
      <4>2. CASE r = p
        BY <2>2, <3>1, <3>4, <4>2 DEF Local, Deleted
      <4> QED
        BY <4>1, <4>2
    <3> QED
      BY <2>1, <2>2, <3>1, <3>2, <3>3, <3>4 DEF Local, Deleted
  <2>7. moved[q] \subseteq moved'[q] /\ Present' \ moved'[q] = Present \ moved'[q]
    BY DEF Others, Present
  <2>8. Listing(q)'
    <3> DEFINE L == mem[q].todo \cup mem[q].got
    <3>1. L \ moved[q] = Present \ moved[q] => L \ moved'[q] = Present' \ moved'[q]
      BY <2>7
    <3> QED
      BY <2>1, <2>2, <3>1 DEF Local, Listing
  <2>9. Blocked(q)' /\ ListTold(q)'
    <3>1. ASSUME NEW r \in Procs, Deletion(r) PROVE Deletion(r)' /\ req'[r] = req[r]
      BY <3>1 DEF Deletion, Others
    <3>2. lost' = lost /\ (spoiled => spoiled')
      BY DEF Reach
    <3>3. Blocked(q)'
      BY <2>1, <2>2, <3>2 DEF Local, Blocked
    <3>4. ListTold(q)'
      BY <2>1, <2>2, <2>7, <3>1, <3>2 DEF Local, ListTold
    <3> QED
      BY <3>3, <3>4
  <2> QED
    BY <2>3, <2>4, <2>5, <2>6, <2>8, <2>9 DEF Local
<1>2. Distinct'
  <2>1. ASSUME NEW q \in Procs \ {p}, Creation(q)', Creation(p)', req'[p].id = req'[q].id PROVE FALSE
    BY <2>1 DEF Inv, Distinct, Others, Named, Creation
  <2>2. ASSUME NEW q \in Procs \ {p} PROVE Creation(q)' = Creation(q) /\ req'[q] = req[q]
    BY DEF Others, Creation
  <2> QED
    BY <2>1, <2>2 DEF Inv, Distinct
<1> QED
  BY <1>1, <1>2 DEF Inv

-----------------------------------------------------------------------------
(* Steps that leave the directory as it is *)

Stages == Working \cup {"idle", "done", "crashed"}
Request == [action : {"none", "create", "list", "read", "delete"}, id : Ids \cup {NoId}]
Memory == [key : {Absent} \cup Keys, envelope : Envelope, todo : SUBSET Ids, got : SUBSET Ids]
Codes == {"none", "ok", "400", "401", "403", "404", "409", "500", "502", "503", "504"}

\* Only p's part of the requests changes.
Moves(p) ==
    /\ pc' = [pc EXCEPT ![p] = pc'[p]] /\ pc'[p] \in Stages
    /\ req' = [req EXCEPT ![p] = req'[p]] /\ req'[p] \in Request
    /\ mem' = [mem EXCEPT ![p] = mem'[p]] /\ mem'[p] \in Memory
    /\ ans' = [ans EXCEPT ![p] = ans'[p]] /\ ans'[p] \in Codes
    /\ lock' \in {lock, p, Released(p)} /\ (lock' = p => lock \in {p, NoProc})
    /\ trail' = trail \/ trail' = trail \cup {p}
    /\ failed' = failed \/ failed' = failed \cup {p}
    /\ unfinished' = unfinished \/ unfinished' = unfinished \cup {p}

LEMMA MoveTypes ==
    ASSUME Inv, NEW p \in Procs, Moves(p)
    PROVE  /\ pc' \in [Procs -> Stages] /\ req' \in [Procs -> Request] /\ mem' \in [Procs -> Memory]
           /\ ans' \in [Procs -> Codes] /\ lock' \in Procs \cup {NoProc}
           /\ trail' \subseteq Procs /\ failed' \subseteq Procs /\ unfinished' \subseteq Procs
           /\ \A q \in Procs \ {p} :
                /\ pc'[q] = pc[q] /\ req'[q] = req[q] /\ mem'[q] = mem[q] /\ ans'[q] = ans[q]
                /\ (q \in trail') = (q \in trail) /\ (q \in unfinished') = (q \in unfinished)
                /\ (q \in failed') = (q \in failed)
                /\ lock = q => lock' = q
<1>1. /\ pc \in [Procs -> Stages] /\ req \in [Procs -> Request] /\ mem \in [Procs -> Memory]
      /\ ans \in [Procs -> Codes] /\ lock \in Procs \cup {NoProc}
      /\ trail \subseteq Procs /\ failed \subseteq Procs /\ unfinished \subseteq Procs
  BY DEF Inv, TypeOK, Stages, Request, Memory, Codes
<1>2. lock' \in Procs \cup {NoProc} /\ \A q \in Procs \ {p} : lock = q => lock' = q
  BY <1>1, BackupAssumption DEF Moves, Released
<1> QED
  BY <1>1, <1>2 DEF Moves

LEMMA Types ==
    /\ TypeOK <=>
         /\ keyfile \in {Absent, Empty} \cup Keys
         /\ files \in [Ids -> Envelope] /\ temps \in [Ids -> Envelope]
         /\ lock \in Procs \cup {NoProc} /\ trail \subseteq Procs
         /\ pc \in [Procs -> Stages] /\ req \in [Procs -> Request] /\ mem \in [Procs -> Memory]
         /\ ans \in [Procs -> Codes] /\ keys \subseteq Keys
         /\ spoiled \in BOOLEAN /\ lost \in BOOLEAN /\ failed \subseteq Procs /\ unfinished \subseteq Procs
         /\ moved \in [Procs -> SUBSET Ids] /\ env \in 0 .. MaxEnv
    /\ TypeOK' <=>
         /\ keyfile' \in {Absent, Empty} \cup Keys
         /\ files' \in [Ids -> Envelope] /\ temps' \in [Ids -> Envelope]
         /\ lock' \in Procs \cup {NoProc} /\ trail' \subseteq Procs
         /\ pc' \in [Procs -> Stages] /\ req' \in [Procs -> Request] /\ mem' \in [Procs -> Memory]
         /\ ans' \in [Procs -> Codes] /\ keys' \subseteq Keys
         /\ spoiled' \in BOOLEAN /\ lost' \in BOOLEAN /\ failed' \subseteq Procs /\ unfinished' \subseteq Procs
         /\ moved' \in [Procs -> SUBSET Ids] /\ env' \in 0 .. MaxEnv
BY DEF TypeOK, Stages, Request, Memory, Codes

\* What was deleted stays deleted.
LEMMA DeletionStays ==
    ASSUME Inv, NEW p \in Procs, pc[p] # "done", Moves(p), NEW q \in Procs, Deletion(q)
    PROVE  Deletion(q)' /\ req'[q] = req[q]
<1>1. q # p
  BY DEF Deletion
<1> QED
  BY <1>1, MoveTypes DEF Deletion

LEMMA GoneStep ==
    ASSUME Inv, NEW p \in Procs, pc[p] # "done", Moves(p), UNCHANGED files,
           moved' = moved \/ moved' = [moved EXCEPT ![p] = {}]
    PROVE  Gone'
<1>1. ASSUME NEW q \in Procs PROVE moved'[q] \subseteq moved[q]
  BY Types DEF Inv
<1> QED
  BY <1>1, DeletionStays DEF Inv, Gone

LEMMA QuietStep ==
    ASSUME Inv, NEW p \in Procs, pc[p] \notin {"done", "keywrite"}, Moves(p), Named(p), Local(p)',
           UNCHANGED <<disk, keys, spoiled, lost, env>>,
           moved' = moved \/ moved' = [moved EXCEPT ![p] = {}]
    PROVE  Inv' /\ Alone(p)
<1>1. moved' \in [Procs -> SUBSET Ids] /\ \A q \in Procs \ {p} : moved'[q] = moved[q]
  BY Types DEF Inv
<1>2. TypeOK'
  BY <1>1, MoveTypes, Types DEF Inv, disk
<1>3. Readable'
  BY DEF Inv, Readable, Present, disk
<1>4. EmptyKey'
  BY MoveTypes DEF Inv, EmptyKey, disk
<1>5. Others(p)
  BY <1>1, MoveTypes DEF Others, disk
<1>6. Reach(p)
  <2>1. keyfile' = keyfile /\ files' = files /\ temps' = temps /\ lost' = lost /\ spoiled' = spoiled
    BY DEF disk
  <2> QED
    BY <2>1 DEF Reach
<1>7. Alone(p)
  BY <1>5, <1>6 DEF Alone
<1>8. Gone'
  BY GoneStep DEF disk
<1> QED
  BY <1>2, <1>3, <1>4, <1>7, <1>8, Elsewhere

\* An answer, and the lock is released.
LEMMA AnswerMoves ==
    ASSUME Inv, NEW p \in Procs, NEW code \in Codes, Answer(p, code), UNCHANGED <<trail, req, mem>>,
           failed' = failed \/ failed' = failed \cup {p},
           unfinished' = unfinished \/ unfinished' = unfinished \cup {p}
    PROVE  Moves(p) /\ pc'[p] = "done" /\ ans'[p] = code /\ Named(p)
<1>1. pc'[p] = "done" /\ ans'[p] = code
  BY Types DEF Answer, Goto, Inv
<1>2. lock' = Released(p) /\ (lock' = p => lock \in {p, NoProc})
  BY BackupAssumption DEF Answer, Released
<1>3. Moves(p)
  BY <1>1, <1>2, Types DEF Answer, Goto, Inv, Moves, Stages
<1>4. Named(p)
  BY <1>1 DEF Named, Creation, Reserved, Serialized
<1> QED
  BY <1>1, <1>3, <1>4

\* The request goes on.
LEMMA GotoMoves ==
    ASSUME Inv, NEW p \in Procs, NEW stage \in Stages, Goto(p, stage), UNCHANGED <<lock, ans, failed>>,
           req' = [req EXCEPT ![p] = req'[p]], req'[p] \in Request,
           mem' = [mem EXCEPT ![p] = mem'[p]], mem'[p] \in Memory,
           trail' = trail \/ trail' = trail \cup {p}, unfinished' = unfinished
    PROVE  Moves(p) /\ pc'[p] = stage /\ UNCHANGED ans[p]
BY Types, BackupAssumption DEF Goto, Inv, Moves

\* The order of the identifiers.
LEMMA LeastIn == ASSUME NEW S \in SUBSET Ids, S # {} PROVE Least(S) \in S
<1> DEFINE below(u) == {w \in S : w < u}
           rank == [u \in S |-> Cardinality(below(u))]
           T == 1 .. Cardinality(S)
<1>1. IsFiniteSet(S) /\ Cardinality(S) \in Nat /\ \A u \in S : u \in Nat
  <2>1. IsFiniteSet(Ids)
    BY FS_Interval, BackupAssumption DEF Ids
  <2>2. IsFiniteSet(S) /\ Cardinality(S) \in Nat
    BY <2>1, FS_Subset, FS_CardinalityType
  <2> QED
    BY <2>2 DEF Ids
<1>2. ASSUME NEW u \in S PROVE IsFiniteSet(below(u)) /\ Cardinality(below(u)) \in Nat
                              /\ Cardinality(below(u)) < Cardinality(S)
  <2>1. below(u) \in SUBSET S /\ u \notin below(u)
    BY <1>1
  <2> HIDE DEF below
  <2> QED
    BY <1>1, <2>1, FS_Subset, FS_CardinalityType
<1>3. SUFFICES ASSUME \A u \in S : below(u) # {} PROVE FALSE
  <2>1. ASSUME NEW u \in S, below(u) = {} PROVE \A w \in S : u <= w
    BY <1>1, <2>1
  <2> QED
    BY <2>1 DEF Least
<1>4. ASSUME NEW u \in S PROVE rank[u] \in 1 .. Cardinality(S) - 1
  <2>1. Cardinality(below(u)) # 0
    <3> HIDE DEF below
    <3> QED
      BY <1>2, <1>3, FS_EmptySet
  <2>2. rank[u] = Cardinality(below(u))
    OBVIOUS
  <2> HIDE DEF below, rank
  <2> QED
    BY <1>1, <1>2, <2>1, <2>2
<1>5. ASSUME NEW u \in S, NEW v \in S, u < v PROVE rank[u] < rank[v]
  <2>1. below(u) \in SUBSET below(v) /\ u \in below(v) /\ u \notin below(u)
    BY <1>1, <1>5
  <2>2. Cardinality(below(u)) < Cardinality(below(v))
    <3> HIDE DEF below
    <3> QED
      BY <1>2, <2>1, FS_Subset
  <2> QED
    BY <2>2
<1> HIDE DEF below
<1>6. rank \in [S -> 1 .. Cardinality(S) - 1]
  BY <1>4
<1>7. \A u, v \in S : rank[u] = rank[v] => u = v
  <2> HIDE DEF rank
  <2> QED
    BY <1>1, <1>4, <1>5
<1> HIDE DEF rank
<1>8. rank \in Injection(S, 1 .. Cardinality(S) - 1)
  BY <1>6, <1>7, Fun_IsInj
<1>9. ASSUME NEW n \in Nat \ {0}
      PROVE  IsFiniteSet(1 .. n - 1) /\ Cardinality(1 .. n - 1) = n - 1
  <2>1. n - 1 \in Int
    OBVIOUS
  <2> QED
    BY <2>1, FS_Interval
<1>10. Cardinality(S) \in Nat \ {0}
  BY <1>1, FS_EmptySet
<1>11. IsFiniteSet(1 .. Cardinality(S) - 1) /\ Cardinality(1 .. Cardinality(S) - 1) = Cardinality(S) - 1
  BY <1>9, <1>10
<1>12. Cardinality(S) <= Cardinality(1 .. Cardinality(S) - 1)
  BY <1>1, <1>8, <1>11, FS_Injection
<1> QED
  BY <1>10, <1>11, <1>12

LEMMA BeginInv == ASSUME Inv, NEW p \in Procs, Begin(p) PROVE Inv' /\ Alone(p)
<1>1. pc[p] = "idle" /\ UNCHANGED <<disk, lock, trail, mem, ans, failed, keys, spoiled, lost, unfinished, env>>
  BY DEF Begin
<1>2. req[p] = [action |-> "none", id |-> NoId]
  BY <1>1 DEF Inv, Local, Shape
<1>3. req' = [req EXCEPT ![p] = req'[p]] /\ req'[p] \in Request
      /\ \/ req'[p] = [action |-> "create", id |-> NoId] /\ Goto(p, "record")
         \/ req'[p] = [action |-> "list", id |-> NoId] /\ Goto(p, "scan")
         \/ req'[p].action \in {"read", "delete"} /\ req'[p].id \in Ids /\ Goto(p, "record")
  <2>1. ASSUME NEW a \in {"create", "list"}, req' = [req EXCEPT ![p].action = a]
        PROVE  req' = [req EXCEPT ![p] = req'[p]] /\ req'[p] = [action |-> a, id |-> NoId]
    <3>1. req'[p] = [req[p] EXCEPT !.action = a] /\ req' = [req EXCEPT ![p] = [req[p] EXCEPT !.action = a]]
      BY <2>1, Types DEF Inv
    <3>2. [req[p] EXCEPT !.action = a] = [action |-> a, id |-> NoId]
      BY <1>2
    <3> QED
      BY <3>1, <3>2
  <2>2. ASSUME NEW a \in {"read", "delete"}, NEW i \in Ids, req' = [req EXCEPT ![p] = [action |-> a, id |-> i]]
        PROVE  req' = [req EXCEPT ![p] = req'[p]] /\ req'[p] = [action |-> a, id |-> i]
    BY <2>2, Types DEF Inv
  <2>3. \A a \in {"create", "list", "read", "delete"}, i \in Ids \cup {NoId} : [action |-> a, id |-> i] \in Request
    BY DEF Request
  <2> QED
    BY <2>1, <2>2, <2>3 DEF Begin
<1>4. Moves(p) /\ pc'[p] \in {"record", "scan"} /\ (pc'[p] = "scan" <=> req'[p].action = "list")
  BY <1>1, <1>3, Types, GotoMoves DEF Inv, Stages, Working
<1>5. Named(p)
  BY <1>3, <1>4, Identifiers DEF Named, Creation, Reserved, Serialized
<1>6. Local(p)'
  BY <1>1, <1>2, <1>3, <1>4, Identifiers
     DEF Inv, Local, Shape, Keyed, Created, Creation, Deleted, Deletion, Listing, Blocked, ListTold, Serialized
<1> QED
  BY <1>1, <1>4, <1>5, <1>6, QuietStep DEF Begin

\* What an answer must satisfy.
LEMMA AnsweredLocal ==
    ASSUME Inv, NEW p \in Procs, pc[p] # "done", Moves(p), pc'[p] = "done",
           UNCHANGED <<files, temps, trail, req, mem, moved, lost, unfinished>>, spoiled => spoiled',
           req[p].action \in {"create", "read", "delete"} /\ ans'[p] = "409"
             => lost \/ spoiled' \/ p \in failed',
           req[p].action = "list" =>
             /\ ans'[p] = "ok" => mem[p].got \ moved[p] = Present \ moved[p]
             /\ ans'[p] = "404" => \E q \in Procs : Deletion(q) /\ req[q].id \in moved[p]
             /\ ans'[p] \notin {"ok", "404"} => lost \/ spoiled' \/ p \in failed',
           Creation(p) => /\ temps[req[p].id] = Absent
                          /\ files[req[p].id] = Absent /\ ans'[p] # "ok",
           req[p].action = "delete" => ans'[p] # "ok"
    PROVE  Local(p)'
<1>1. Present' = Present /\ Creation(p)' = Creation(p) /\ ~Deletion(p)'
  BY DEF Present, Creation, Deletion
<1>2. Shape(p)' /\ Keyed(p)' /\ Listing(p)'
  BY DEF Shape, Keyed, Listing, Serialized
<1>3. Created(p)'
  BY <1>1 DEF Created, Reserved, Serialized
<1>4. Deleted(p)' /\ Blocked(p)'
  BY <1>1 DEF Deleted, Blocked
<1>5. ListTold(p)'
  BY <1>1, DeletionStays DEF ListTold
<1> QED
  BY <1>2, <1>3, <1>4, <1>5 DEF Local

\* An error of the file system.
LEMMA FaultInv ==
    ASSUME Inv, NEW p \in Procs, NEW codes \in SUBSET {"409", "500"}, Fault(p, codes),
           pc[p] \in {"key", "keycreate", "keyread", "temp", "scan", "load", "decrypt", "unlink"},
           UNCHANGED <<disk, trail, req, mem, history>>
    PROVE  Inv' /\ Alone(p)
<1>1. PICK code \in {"409", "500"} : Answer(p, code)
  BY DEF Fault
<1>2. failed' = failed \cup {p} /\ p \in failed'
  BY DEF Fault
<1>3. Moves(p) /\ Named(p) /\ pc'[p] = "done" /\ ans'[p] = code
  BY <1>1, <1>2, AnswerMoves DEF Codes, history
<1>4. Creation(p) => temps[req[p].id] = Absent /\ files[req[p].id] = Absent
  BY DEF Inv, Local, Shape, Created, Creation, Reserved, Serialized
<1>5. Local(p)'
  BY <1>2, <1>3, <1>4, AnsweredLocal DEF disk, history
<1> QED
  BY <1>3, <1>5, QuietStep, Zenon DEF history

LEMMA RefuseInv == ASSUME Inv, NEW p \in Procs, Refuse(p) PROVE Inv' /\ Alone(p)
<1>1. pc[p] = "idle" /\ UNCHANGED <<disk, trail, req, mem, failed, history>>
  BY DEF Refuse
<1>2. req[p] = [action |-> "none", id |-> NoId]
  BY <1>1 DEF Inv, Local, Shape
<1>3. PICK code \in {"400", "403", "409", "500"} : Answer(p, code)
  BY DEF Refuse
<1>4. Moves(p) /\ Named(p) /\ pc'[p] = "done"
  BY <1>1, <1>3, AnswerMoves DEF Codes, history
<1>5. Local(p)'
  BY <1>1, <1>2, <1>4, AnsweredLocal DEF disk, history, Creation
<1> QED
  BY <1>1, <1>4, <1>5, QuietStep DEF history

LEMMA RecordInv == ASSUME Inv, NEW p \in Procs, Record(p) PROVE Inv' /\ Alone(p)
<1>1. pc[p] = "record" /\ UNCHANGED <<disk, req, mem, failed, history>>
  BY DEF Record
<1>2. \/ req[p].action = "create" /\ req[p].id = NoId
      \/ req[p].action \in {"read", "delete"} /\ req[p].id \in Ids
  BY <1>1 DEF Inv, Local, Shape
<1>3. CASE /\ trail' = trail \cup {p}
           /\ Goto(p, IF req[p].action = "create" THEN "download" ELSE "load")
           /\ UNCHANGED <<lock, ans>>
  <2>1. Moves(p) /\ pc'[p] = IF req[p].action = "create" THEN "download" ELSE "load"
    BY <1>1, <1>3, Types, GotoMoves DEF Inv, Stages, Working, history
  <2>2. Named(p)
    BY <1>1, <1>2, <2>1, Identifiers DEF Named, Creation, Reserved, Serialized
  <2>3. Local(p)'
    BY <1>1, <1>2, <1>3, <2>1, Identifiers
       DEF Local, Shape, Keyed, Created, Creation, Deleted, Deletion, Listing, Blocked, ListTold, Serialized
  <2> QED
    BY <1>1, <2>1, <2>2, <2>3, QuietStep DEF history
<1>4. CASE Answer(p, "503") /\ UNCHANGED trail
  <2>1. Moves(p) /\ Named(p) /\ pc'[p] = "done" /\ ans'[p] = "503"
    BY <1>1, <1>4, AnswerMoves DEF Codes, history
  <2>2. Local(p)'
    BY <1>1, <1>2, <1>4, <2>1, AnsweredLocal DEF disk, history, Creation
  <2> QED
    BY <1>1, <2>1, <2>2, QuietStep DEF history
<1> QED
  BY <1>3, <1>4 DEF Record

LEMMA DownloadInv == ASSUME Inv, NEW p \in Procs, Download(p) PROVE Inv' /\ Alone(p)
<1>1. pc[p] = "download" /\ UNCHANGED <<disk, trail, req, mem, failed, history>>
  BY DEF Download
<1>2. req[p].action = "create" /\ req[p].id = NoId
  BY <1>1 DEF Inv, Local, Shape
<1>3. CASE Goto(p, "wait") /\ UNCHANGED <<lock, ans>>
  <2>1. Moves(p) /\ pc'[p] = "wait"
    BY <1>1, <1>3, Types, GotoMoves DEF Inv, Stages, Working, history
  <2>2. Named(p)
    BY <1>1, <1>2, <2>1 DEF Named, Creation, Reserved, Serialized
  <2>3. Local(p)'
    BY <1>1, <1>2, <1>3, <2>1
       DEF Local, Shape, Keyed, Created, Creation, Deleted, Deletion, Listing, Blocked, ListTold, Serialized
  <2> QED
    BY <1>1, <2>1, <2>2, <2>3, QuietStep DEF history
<1>4. CASE \E code \in {"400", "401", "502", "504"} : Answer(p, code)
  <2>1. PICK code \in {"400", "401", "502", "504"} : Answer(p, code)
    BY <1>4
  <2>2. Moves(p) /\ Named(p) /\ pc'[p] = "done" /\ ans'[p] = code
    BY <1>1, <2>1, AnswerMoves DEF Codes, history
  <2>3. Local(p)'
    BY <1>1, <1>2, <2>1, <2>2, AnsweredLocal DEF disk, history, Creation
  <2> QED
    BY <1>1, <2>2, <2>3, QuietStep DEF history
<1> QED
  BY <1>3, <1>4 DEF Download

\* A creation gets its identifier with the lock.
LEMMA AcquireInv == ASSUME Inv, NEW p \in Procs, Acquire(p) PROVE Inv' /\ Alone(p)
<1>1. /\ pc[p] = "wait" /\ lock = NoProc /\ lock' = p /\ Goto(p, "key")
      /\ UNCHANGED <<disk, trail, mem, ans, failed, history>>
  BY DEF Acquire, LockFree
<1>2. PICK i \in Fresh : req' = [req EXCEPT ![p].id = i]
  BY DEF Acquire
<1>3. /\ i \in Ids /\ files[i] = Absent /\ temps[i] = Absent /\ \A q \in Procs : req[q].id # i
  BY <1>2 DEF Fresh, Present
<1>4. req[p].action = "create" /\ req[p].id = NoId
  BY <1>1 DEF Inv, Local, Shape
<1>5. /\ req'[p] \in Request /\ req' = [req EXCEPT ![p] = req'[p]]
      /\ req'[p].action = "create" /\ req'[p].id = i
  BY <1>2, <1>3, <1>4, Types DEF Inv, Request
<1>6. Moves(p) /\ pc'[p] = "key"
  BY <1>1, <1>5, Types DEF Goto, Inv, Moves, Stages, Working, Serialized, history
<1>7. Named(p)
  BY <1>3, <1>5 DEF Named
<1>8. Local(p)'
  BY <1>1, <1>3, <1>5, <1>6
     DEF Local, Shape, Keyed, Created, Creation, Deleted, Deletion, Listing, Blocked, ListTold, Serialized,
         Reserved, disk
<1> QED
  BY <1>1, <1>6, <1>7, <1>8, QuietStep DEF history

\* A stage of the creation that goes on, with the directory as it is.
LEMMA CreationGoesOn ==
    ASSUME Inv, NEW p \in Procs, pc[p] \in Serialized \ {"keywrite"},
           UNCHANGED <<disk, trail, req, history>>, mem' = [mem EXCEPT ![p] = mem'[p]], mem'[p] \in Memory,
           NEW stage \in {"keycreate", "keyread", "temp"}, Goto(p, stage), UNCHANGED <<lock, ans, failed>>, Keyed(p)',
           pc[p] \in {"key", "keycreate", "keyread"}
    PROVE  Inv' /\ Alone(p)
<1>1. Moves(p) /\ pc'[p] = stage
  BY Types, GotoMoves DEF Inv, Stages, Working, Serialized, history
<1>2. Creation(p) /\ Shape(p) /\ Created(p)
  BY Identifiers DEF Inv, Local, Shape, Creation
<1>3. Named(p)
  BY <1>2 DEF Named, Reserved, Serialized
<1>4. Shape(p)' /\ Created(p)'
  BY <1>1, <1>2 DEF Shape, Created, Creation, Serialized, Reserved, disk
<1>5. Deleted(p)' /\ Listing(p)' /\ Blocked(p)' /\ ListTold(p)'
  BY <1>1, <1>2 DEF Deleted, Deletion, Listing, Blocked, ListTold, Creation
<1> QED
  BY <1>1, <1>3, <1>4, <1>5, QuietStep DEF Local, history

\* A creation that fails before it has written a temporary file.
LEMMA CreationFails ==
    ASSUME Inv, NEW p \in Procs, pc[p] \in {"key", "keycreate", "keyread"}, NEW code \in Codes \ {"ok"},
           Answer(p, code), UNCHANGED <<disk, trail, req, mem, failed, history>>, code = "409" => lost \/ spoiled
    PROVE  Inv' /\ Alone(p)
<1>1. Moves(p) /\ Named(p) /\ pc'[p] = "done" /\ ans'[p] = code
  BY AnswerMoves DEF history
<1>2. Shape(p) /\ Created(p)
  BY DEF Inv, Local
<1>3. Local(p)'
  BY <1>1, <1>2, AnsweredLocal DEF disk, history, Shape, Created, Creation, Serialized, Reserved
<1> QED
  BY <1>1, <1>3, QuietStep, Zenon DEF history

LEMMA KeyExistsInv == ASSUME Inv, NEW p \in Procs, KeyExists(p) PROVE Inv' /\ Alone(p)
<1>1. /\ pc[p] = "key" /\ UNCHANGED <<disk, trail, req, mem, history>>
      /\ mem' = [mem EXCEPT ![p] = mem'[p]] /\ mem'[p] \in Memory
  BY Types DEF Inv, KeyExists
<1>2. CASE keyfile # Absent /\ Goto(p, "keyread") /\ UNCHANGED <<lock, ans, failed>>
  <2>1. pc'[p] = "keyread"
    BY <1>2, Types DEF Goto, Inv
  <2>2. Keyed(p)'
    BY <1>1, <1>2, <2>1 DEF Keyed, disk
  <2> QED
    BY <1>1, <1>2, <2>2, CreationGoesOn DEF Serialized
<1>3. CASE keyfile = Absent /\ MayGenerate /\ Goto(p, "keycreate") /\ UNCHANGED <<lock, ans, failed>>
  <2>1. pc'[p] = "keycreate"
    BY <1>3, Types DEF Goto, Inv
  <2>2. Keyed(p)'
    BY <1>1, <1>3, <2>1 DEF Keyed, disk, MayGenerate, Present
  <2> QED
    BY <1>1, <1>3, <2>2, CreationGoesOn DEF Serialized
<1>4. CASE keyfile = Absent /\ ~MayGenerate /\ Answer(p, "409") /\ UNCHANGED failed
  <2>1. lost
    BY <1>4, Identifiers DEF Inv, Readable, MayGenerate
  <2> QED
    BY <1>1, <1>4, <2>1, CreationFails DEF Codes
<1>5. CASE Fault(p, {"409", "500"})
  BY <1>1, <1>5, FaultInv
<1> QED
  BY <1>2, <1>3, <1>4, <1>5 DEF KeyExists

LEMMA KeyReadInv == ASSUME Inv, NEW p \in Procs, KeyRead(p) PROVE Inv' /\ Alone(p)
<1>1. pc[p] = "keyread" /\ UNCHANGED <<disk, trail, req, history>> /\ mem \in [Procs -> Memory]
  BY Types DEF Inv, KeyRead
<1>2. CASE /\ Usable
           /\ mem' = [mem EXCEPT ![p].key = keyfile]
           /\ Goto(p, "temp")
           /\ UNCHANGED <<lock, ans, failed>>
  <2>1. mem' = [mem EXCEPT ![p] = mem'[p]] /\ mem'[p] \in Memory /\ mem'[p].key = keyfile
    <3>1. [mem[p] EXCEPT !.key = keyfile] \in Memory /\ [mem[p] EXCEPT !.key = keyfile].key = keyfile
      BY <1>1, <1>2 DEF Usable, Memory
    <3>2. mem' = [mem EXCEPT ![p] = [mem[p] EXCEPT !.key = keyfile]]
      BY <1>2
    <3> QED
      BY <1>1, <3>1, <3>2
  <2>2. pc'[p] = "temp"
    BY <1>2, Types DEF Goto, Inv
  <2>3. Keyed(p)'
    BY <1>1, <1>2, <2>1, <2>2 DEF Keyed, disk, Usable
  <2> QED
    BY <1>1, <1>2, <2>1, <2>3, CreationGoesOn DEF Serialized
<1>3. CASE ~Usable /\ Answer(p, "409") /\ UNCHANGED <<mem, failed>>
  <2>1. lost \/ spoiled
    <3>1. ~lost => keyfile # Absent
      BY <1>1 DEF Inv, Local, Keyed
    <3>2. keyfile \in {Absent, Empty} \cup Keys
      BY DEF Inv, TypeOK
    <3>3. ASSUME NEW q \in Procs PROVE pc[q] # "keywrite"
      BY <1>1 DEF Inv, Local, Shape, Serialized
    <3>4. spoiled \in BOOLEAN /\ lost \in BOOLEAN
      BY DEF Inv, TypeOK
    <3> QED
      BY <1>3, <3>4, <3>1, <3>2, <3>3 DEF Usable, Inv, EmptyKey
  <2> QED
    BY <1>1, <1>3, <2>1, CreationFails DEF Codes
<1>4. CASE Fault(p, {"409"}) /\ UNCHANGED mem
  BY <1>1, <1>4, FaultInv
<1> QED
  BY <1>2, <1>3, <1>4 DEF KeyRead

LEMMA ChmodInv == ASSUME Inv, NEW p \in Procs, Chmod(p) PROVE Inv' /\ Alone(p)
<1>1. pc[p] = "chmod" /\ UNCHANGED <<disk, trail, req, mem, keys, spoiled, lost, moved, env>>
  BY DEF Chmod
<1>2. PICK code \in {"ok", "503", "500"} :
         /\ Answer(p, code)
         /\ code = "ok" => files[req[p].id] # Absent
         /\ code # "ok" => p \in unfinished'
         /\ unfinished' = unfinished \/ unfinished' = unfinished \cup {p}
         /\ failed' = failed \/ failed' = failed \cup {p}
  BY DEF Chmod, Fault
<1>3. Moves(p) /\ Named(p) /\ pc'[p] = "done" /\ ans'[p] = code
  BY <1>1, <1>2, AnswerMoves DEF Codes
<1>4. req[p].action = "create" /\ (Creation(p) => temps[req[p].id] = Absent)
  BY <1>1 DEF Inv, Local, Shape, Created, Serialized
<1>5. Created(p)'
  BY <1>1, <1>2, <1>3, <1>4 DEF Created, Creation, Reserved, Serialized, disk
<1>6. Local(p)'
  BY <1>1, <1>2, <1>3, <1>4, <1>5
     DEF Local, Shape, Keyed, Deleted, Deletion, Listing, Blocked, ListTold, Serialized
<1> QED
  BY <1>1, <1>3, <1>6, QuietStep

-----------------------------------------------------------------------------
(* Lists, downloads and deletions *)

LEMMA ScanInv == ASSUME Inv, NEW p \in Procs, Scan(p) PROVE Inv' /\ Alone(p)
<1>1. pc[p] = "scan" /\ UNCHANGED <<disk, trail, history>>
  BY DEF Scan
<1>2. req[p].action = "list" /\ mem[p] = NoMemory
  BY <1>1 DEF Inv, Local, Shape
<1>3. CASE Listed = {} /\ Answer(p, "ok") /\ UNCHANGED <<req, mem, failed>>
  <2>1. Moves(p) /\ Named(p) /\ pc'[p] = "done" /\ ans'[p] = "ok"
    BY <1>1, <1>3, AnswerMoves DEF Codes, history
  <2>2. Local(p)'
    BY <1>1, <1>2, <1>3, <2>1, AnsweredLocal DEF disk, history, Creation, Listed, NoMemory
  <2> QED
    BY <1>1, <2>1, <2>2, QuietStep DEF history
<1>4. CASE /\ Listed # {}
           /\ mem' = [mem EXCEPT ![p].todo = Listed]
           /\ req' = [req EXCEPT ![p].id = Least(Listed)]
           /\ Goto(p, "load")
           /\ UNCHANGED <<lock, ans, failed>>
  <2>1. Listed \in SUBSET Ids /\ Least(Listed) \in Listed /\ Listed = Present
    BY <1>4, LeastIn DEF Listed, Present
  <2>2. /\ mem' = [mem EXCEPT ![p] = mem'[p]] /\ mem'[p] \in Memory
        /\ mem'[p].todo = Present /\ mem'[p].got = {}
    <3>1. [mem[p] EXCEPT !.todo = Listed] = [NoMemory EXCEPT !.todo = Present]
      BY <1>2, <2>1
    <3>2. [NoMemory EXCEPT !.todo = Present] = [key |-> Absent, envelope |-> Absent, todo |-> Present, got |-> {}]
      BY DEF NoMemory
    <3>3. mem' = [mem EXCEPT ![p] = [mem[p] EXCEPT !.todo = Listed]]
      BY <1>4
    <3>4. mem'[p] = [key |-> Absent, envelope |-> Absent, todo |-> Present, got |-> {}]
      BY <3>1, <3>2, <3>3, Types DEF Inv
    <3>5. [key |-> Absent, envelope |-> Absent, todo |-> Present, got |-> {}] \in Memory
      BY <2>1 DEF Memory, Envelope
    <3> QED
      BY <3>1, <3>2, <3>3, <3>4, <3>5, Types DEF Inv
  <2>3. /\ req' = [req EXCEPT ![p] = req'[p]] /\ req'[p] \in Request
        /\ req'[p].action = "list" /\ req'[p].id = Least(Listed)
    BY <1>2, <1>4, <2>1, Types DEF Inv, Request
  <2>4. Moves(p) /\ pc'[p] = "load"
    BY <1>1, <1>4, <2>2, <2>3, Types, GotoMoves DEF Inv, Stages, Working, history
  <2>5. Named(p)
    BY <2>3, <2>4 DEF Named, Creation, Reserved, Serialized
  <2>6. Present' = Present /\ moved' = moved
    BY <1>1 DEF Present, disk, history
  <2>7. Listing(p)'
    BY <2>1, <2>2, <2>3, <2>6 DEF Listing
  <2>8. Local(p)'
    BY <2>1, <2>3, <2>4, <2>7 DEF Local, Shape, Keyed, Created, Creation, Deleted, Deletion, Blocked, ListTold, Serialized
  <2> QED
    BY <1>1, <2>4, <2>5, <2>8, QuietStep DEF history
<1>5. CASE Fault(p, {"409", "500"}) /\ UNCHANGED <<req, mem>>
  BY <1>1, <1>5, FaultInv
<1> QED
  BY <1>3, <1>4, <1>5 DEF Scan

LEMMA LoadInv == ASSUME Inv, NEW p \in Procs, Load(p) PROVE Inv' /\ Alone(p)
<1>1. pc[p] = "load" /\ UNCHANGED <<disk, trail, req, history>> /\ mem \in [Procs -> Memory]
  BY Types DEF Inv, Load
<1>2. req[p].action \in {"list", "read", "delete"} /\ req[p].id \in Ids
  BY <1>1 DEF Inv, Local, Shape
<1>3. CASE /\ files[req[p].id] # Absent
           /\ mem' = [mem EXCEPT ![p].envelope = files[req[p].id]]
           /\ Goto(p, "decrypt")
           /\ UNCHANGED <<lock, ans, failed>>
  <2> DEFINE e == files[req[p].id]
  <2>1. e \in Keys /\ (~lost => e = keyfile)
    BY <1>2, <1>3 DEF Inv, Readable, Present
  <2>2. /\ mem' = [mem EXCEPT ![p] = mem'[p]] /\ mem'[p] \in Memory /\ mem'[p].envelope = e
        /\ mem'[p].todo = mem[p].todo /\ mem'[p].got = mem[p].got
    <3>1. [mem[p] EXCEPT !.envelope = e] \in Memory /\ [mem[p] EXCEPT !.envelope = e].envelope = e
          /\ [mem[p] EXCEPT !.envelope = e].todo = mem[p].todo /\ [mem[p] EXCEPT !.envelope = e].got = mem[p].got
      BY <1>1, <2>1 DEF Memory, Envelope
    <3>2. mem' = [mem EXCEPT ![p] = [mem[p] EXCEPT !.envelope = e]]
      BY <1>3
    <3> QED
      BY <1>1, <3>1, <3>2
  <2>3. Moves(p) /\ pc'[p] = "decrypt"
    <3>1. req' = [req EXCEPT ![p] = req'[p]] /\ req'[p] \in Request
      BY <1>1, Types DEF Inv
    <3>2. "decrypt" \in Stages /\ trail' = trail /\ unfinished' = unfinished
      BY <1>1 DEF Stages, Working, history
    <3> QED
      BY <1>3, <2>2, <3>1, <3>2, GotoMoves
  <2>4. Named(p)
    BY <1>1, <1>2, <2>3 DEF Named, Creation, Reserved, Serialized
  <2>5. Present' = Present /\ moved' = moved /\ keyfile' = keyfile /\ lost' = lost
    BY <1>1 DEF Present, disk, history
  <2>6. Listing(p)'
    <3>1. Listing(p) /\ req' = req
      BY <1>1 DEF Inv, Local
    <3> QED
      BY <1>1, <2>2, <2>5, <3>1 DEF Listing
  <2>7. Keyed(p)'
    BY <2>1, <2>2, <2>3, <2>5 DEF Keyed
  <2>8. Local(p)'
    BY <1>1, <1>2, <2>3, <2>6, <2>7
       DEF Inv, Local, Shape, Created, Creation, Deleted, Deletion, Blocked, ListTold, Serialized
  <2> QED
    BY <1>1, <2>3, <2>4, <2>8, QuietStep DEF history
<1>4. CASE files[req[p].id] = Absent /\ Answer(p, "404") /\ UNCHANGED <<mem, failed>>
  <2>1. Moves(p) /\ Named(p) /\ pc'[p] = "done" /\ ans'[p] = "404"
    BY <1>1, <1>4, AnswerMoves DEF Codes, history
  <2>2. req[p].action = "list" => \E q \in Procs : Deletion(q) /\ req[q].id \in moved[p]
    <3>1. req[p].action = "list" => req[p].id \in moved[p]
      BY <1>1, <1>4 DEF Inv, Local, Listing, Present
    <3> QED
      BY <1>4, <3>1 DEF Inv, Gone
  <2>3. Local(p)'
    BY <1>1, <1>2, <1>4, <2>1, <2>2, AnsweredLocal DEF disk, history, Creation
  <2> QED
    BY <1>1, <2>1, <2>3, QuietStep DEF history
<1>5. CASE Fault(p, {"409", "500"}) /\ UNCHANGED mem
  BY <1>1, <1>5, FaultInv
<1> QED
  BY <1>3, <1>4, <1>5 DEF Load

\* The next backup of a list.
LEMMA DecryptNext ==
    ASSUME Inv, NEW p \in Procs, Decrypt(p), req[p].action = "list", Usable, mem[p].envelope = keyfile,
           ~(Fault(p, {"409"}) /\ UNCHANGED <<req, mem>>)
    PROVE  Inv' /\ Alone(p)
<1> DEFINE left == mem[p].todo \ {req[p].id}
           seen == mem[p].got \cup {req[p].id}
<1>1. /\ pc[p] = "decrypt" /\ UNCHANGED <<disk, trail, history>>
      /\ mem \in [Procs -> Memory] /\ req[p].id \in Ids
  BY Types DEF Inv, Decrypt, Local, Shape
<1>2. /\ mem' = [mem EXCEPT ![p].todo = left, ![p].got = seen]
      /\ \/ left = {} /\ Answer(p, "ok") /\ UNCHANGED <<failed, req>>
         \/ /\ left # {} /\ req' = [req EXCEPT ![p].id = Least(left)]
            /\ Goto(p, "load") /\ UNCHANGED <<lock, ans, failed>>
  BY DEF Decrypt
<1>3. /\ mem[p].todo \in SUBSET Ids /\ mem[p].got \in SUBSET Ids
      /\ req[p].id \in mem[p].todo
      /\ (mem[p].todo \cup mem[p].got) \ moved[p] = Present \ moved[p]
  BY <1>1 DEF Inv, Local, Listing, Memory
<1>4. left \in SUBSET Ids /\ seen \in SUBSET Ids /\ left \cup seen = mem[p].todo \cup mem[p].got
  BY <1>3
<1> HIDE DEF left, seen
<1>5. /\ mem' = [mem EXCEPT ![p] = mem'[p]] /\ mem'[p] \in Memory
      /\ mem'[p].todo = left /\ mem'[p].got = seen
  BY <1>1, <1>2, <1>4 DEF Memory
<1>6. Present' = Present /\ moved' = moved
  BY <1>1 DEF Present, disk, history
<1>7. CASE left = {} /\ Answer(p, "ok") /\ UNCHANGED <<failed, req>>
  <2>1. pc'[p] = "done" /\ ans'[p] = "ok"
    BY <1>7, Types DEF Answer, Goto, Inv
  <2>2. lock' = Released(p) /\ (lock' = p => lock \in {p, NoProc})
    BY <1>7, BackupAssumption DEF Answer, Released
  <2>3. Moves(p)
    BY <1>1, <1>5, <1>7, <2>1, <2>2, Types DEF Answer, Goto, Inv, Moves, Stages, Codes, history
  <2>4. Named(p)
    BY <2>1, <1>7 DEF Named, Creation, Reserved, Serialized
  <2>5. ListTold(p)'
    BY <1>3, <1>4, <1>5, <1>6, <1>7, <2>1 DEF ListTold
  <2>6. Local(p)'
    BY <1>7, <2>1, <2>5 DEF Local, Shape, Keyed, Created, Creation, Deleted, Deletion, Listing, Blocked, Serialized
  <2> QED
    BY <1>1, <2>3, <2>4, <2>6, QuietStep DEF history
<1>8. CASE /\ left # {} /\ req' = [req EXCEPT ![p].id = Least(left)]
           /\ Goto(p, "load") /\ UNCHANGED <<lock, ans, failed>>
  <2>1. Least(left) \in left
    BY <1>4, <1>8, LeastIn
  <2>2. /\ req' = [req EXCEPT ![p] = req'[p]] /\ req'[p] \in Request
        /\ req'[p].action = "list" /\ req'[p].id = Least(left)
    BY <1>4, <1>8, <2>1, Types DEF Inv, Request
  <2>3. Moves(p) /\ pc'[p] = "load"
    BY <1>1, <1>5, <1>8, <2>2, Types, GotoMoves DEF Inv, Stages, Working, history
  <2>4. Named(p)
    BY <2>2, <2>3 DEF Named, Creation, Reserved, Serialized
  <2>5. Listing(p)'
    BY <1>3, <1>4, <1>5, <1>6, <2>1, <2>2 DEF Listing
  <2>6. Local(p)'
    BY <1>4, <2>1, <2>2, <2>3, <2>5
       DEF Local, Shape, Keyed, Created, Creation, Deleted, Deletion, Blocked, ListTold, Serialized
  <2> QED
    BY <1>1, <2>3, <2>4, <2>6, QuietStep DEF history
<1> QED
  BY <1>2, <1>7, <1>8

LEMMA DecryptInv == ASSUME Inv, NEW p \in Procs, Decrypt(p) PROVE Inv' /\ Alone(p)
<1>1. pc[p] = "decrypt" /\ UNCHANGED <<disk, trail, history>> /\ mem[p] \in Memory
  BY Types DEF Inv, Decrypt
<1>2. /\ req[p].action \in {"list", "read", "delete"} /\ req[p].id \in Ids
      /\ mem[p].envelope \in Keys /\ (~lost => mem[p].envelope = keyfile)
  BY <1>1 DEF Inv, Local, Shape, Keyed
<1>3. CASE ~(Usable /\ mem[p].envelope = keyfile) /\ Answer(p, "409") /\ UNCHANGED <<req, mem, failed>>
  <2>1. Moves(p) /\ Named(p) /\ pc'[p] = "done" /\ ans'[p] = "409"
    BY <1>1, <1>3, AnswerMoves DEF Codes, history
  <2>2. lost
    BY <1>2, <1>3 DEF Usable
  <2>3. Local(p)'
    BY <1>1, <1>2, <1>3, <2>1, <2>2, AnsweredLocal DEF disk, history, Creation
  <2> QED
    BY <1>1, <2>1, <2>3, QuietStep DEF history
<1>4. CASE req[p].action = "read" /\ Answer(p, "ok") /\ UNCHANGED <<failed, req, mem>>
  <2>1. Moves(p) /\ Named(p) /\ pc'[p] = "done" /\ ans'[p] = "ok"
    BY <1>1, <1>4, AnswerMoves DEF Codes, history
  <2>2. Local(p)'
    BY <1>1, <1>4, <2>1, AnsweredLocal DEF disk, history, Creation
  <2> QED
    BY <1>1, <2>1, <2>2, QuietStep DEF history
<1>5. CASE req[p].action = "delete" /\ Goto(p, "unlink") /\ UNCHANGED <<lock, ans, failed, req, mem>>
  <2>1. Moves(p) /\ pc'[p] = "unlink"
    BY <1>1, <1>5, Types, GotoMoves DEF Inv, Stages, Working, history
  <2>2. Named(p)
    BY <1>5, <2>1 DEF Named, Creation, Reserved, Serialized
  <2>3. Local(p)'
    BY <1>1, <1>2, <1>5, <2>1
       DEF Inv, Local, Shape, Keyed, Created, Creation, Deleted, Deletion, Listing, Blocked, ListTold, Serialized
  <2> QED
    BY <1>1, <2>1, <2>2, <2>3, QuietStep DEF history
<1>6. CASE Fault(p, {"409"}) /\ UNCHANGED <<req, mem>>
  BY <1>1, <1>6, FaultInv
<1>7. CASE /\ req[p].action = "list" /\ Usable /\ mem[p].envelope = keyfile
           /\ ~(Fault(p, {"409"}) /\ UNCHANGED <<req, mem>>)
  BY <1>7, DecryptNext
<1> QED
  BY <1>2, <1>3, <1>4, <1>5, <1>6, <1>7 DEF Decrypt

LEMMA UnlinkInv == ASSUME Inv, NEW p \in Procs, Unlink(p) PROVE Inv' /\ Alone(p)
<1>1. pc[p] = "unlink" /\ UNCHANGED <<keyfile, temps, trail, req, mem, keys, spoiled, lost, unfinished, env>>
  BY DEF Unlink
<1>2. req[p].action = "delete" /\ req[p].id \in Ids /\ p \in trail
  BY <1>1 DEF Inv, Local, Shape, Deleted
<1>3. CASE Answer(p, "503") /\ UNCHANGED <<files, moved, failed>>
  <2>1. Moves(p) /\ Named(p) /\ pc'[p] = "done" /\ ans'[p] = "503"
    BY <1>1, <1>3, AnswerMoves DEF Codes
  <2>2. Local(p)'
    BY <1>1, <1>2, <1>3, <2>1, AnsweredLocal DEF Creation
  <2> QED
    BY <1>1, <1>3, <2>1, <2>2, QuietStep DEF disk
<1>4. CASE /\ files[req[p].id] # Absent
           /\ files' = [files EXCEPT ![req[p].id] = Absent]
           /\ moved' = [q \in Procs |-> moved[q] \cup {req[p].id}]
           /\ Answer(p, "ok")
           /\ UNCHANGED failed
  <2> DEFINE i == req[p].id
  <2>1. Moves(p) /\ Named(p) /\ pc'[p] = "done" /\ ans'[p] = "ok" /\ Deletion(p)'
    BY <1>1, <1>2, <1>4, AnswerMoves DEF Codes, Deletion
  <2>2. /\ files' \in [Ids -> Envelope] /\ files'[i] = Absent
        /\ \A j \in Ids : files'[j] = files[j] \/ (files'[j] = Absent /\ j = i)
        /\ moved' \in [Procs -> SUBSET Ids] /\ \A q \in Procs : moved'[q] = moved[q] \cup {i}
    BY <1>2, <1>4, Types DEF Inv, Envelope
  <2>3. TypeOK'
    BY <1>1, <2>1, <2>2, MoveTypes, Types DEF Inv
  <2>4. Readable' /\ EmptyKey'
    <3>1. \A j \in Present' : j \in Present /\ files'[j] = files[j]
      BY <2>2 DEF Present
    <3> QED
      BY <1>1, <2>1, <3>1, MoveTypes DEF Inv, Readable, EmptyKey
  <2>5. Alone(p)
    <3>1. Others(p)
      BY <2>1, <2>2, MoveTypes DEF Others
    <3>2. Reach(p)
      BY <1>1, <2>1, <2>2 DEF Reach
    <3> QED
      BY <1>1, <2>1, <3>1, <3>2 DEF Alone
  <2>6. Deleted(p)'
    <3>1. ASSUME NEW q \in Procs, pc'[q] \in Reserved PROVE req'[q].id # i
      <4>1. q # p
        BY <2>1, <3>1 DEF Reserved, Serialized
      <4>2. pc[q] \in Reserved /\ req'[q].id = req[q].id
        BY <2>1, <3>1, <4>1, MoveTypes
      <4>3. files[req[q].id] = Absent
        BY <4>2, Identifiers DEF Inv, Local, Shape, Created, Creation, Reserved
      <4> QED
        BY <1>4, <4>2, <4>3
    <3>2. ASSUME NEW q \in Procs \ {p}, Deletion(q)' PROVE req'[q].id # i
      <4>1. Deletion(q) /\ req'[q].id = req[q].id
        BY <2>1, <3>2, MoveTypes DEF Deletion
      <4>2. files[req[q].id] = Absent
        BY <4>1 DEF Inv, Local, Deleted
      <4> QED
        BY <1>4, <4>1, <4>2
    <3> QED
      BY <1>1, <1>2, <2>2, <3>1, <3>2 DEF Deleted
  <2>7. Local(p)'
    BY <1>1, <1>2, <2>1, <2>6
       DEF Local, Shape, Keyed, Created, Creation, Listing, Blocked, ListTold, Serialized
  <2>8. Gone'
    <3>1. ASSUME NEW q \in Procs, NEW j \in moved'[q], files'[j] = Absent
          PROVE  \E r \in Procs : Deletion(r)' /\ req'[r].id = j
      <4>1. CASE j = i
        BY <1>1, <2>1, <4>1
      <4>2. CASE j # i
        <5>1. j \in moved[q] /\ files[j] = Absent
          BY <1>4, <2>2, <3>1, <4>2, Types DEF Inv
        <5>2. PICK r \in Procs : Deletion(r) /\ req[r].id = j
          BY <5>1 DEF Inv, Gone
        <5> QED
          BY <1>1, <2>1, <5>2, DeletionStays
      <4> QED
        BY <4>1, <4>2
    <3> QED
      BY <3>1 DEF Gone
  <2> QED
    BY <2>3, <2>4, <2>5, <2>7, <2>8, Elsewhere
<1>5. CASE Fault(p, {"409"}) /\ UNCHANGED <<files, moved>>
  BY <1>1, <1>5, FaultInv DEF disk, history
<1> QED
  BY <1>3, <1>4, <1>5 DEF Unlink, Unlinked

-----------------------------------------------------------------------------
(* Creations *)

\* What a creation is before its backup is in place.
LEMMA CreationFacts ==
    ASSUME Inv, NEW p \in Procs, pc[p] \in Reserved
    PROVE  /\ Creation(p) /\ req[p].action = "create" /\ req[p].id \in Ids /\ lock = p
           /\ files[req[p].id] = Absent
           /\ pc[p] \notin {"write", "replace"} => temps[req[p].id] = Absent
           /\ \A q \in Procs \ {p} : pc[q] \notin Serialized
           /\ pc[p] \notin {"done", "crashed"}
BY Identifiers DEF Inv, Local, Shape, Created, Creation, Reserved, Serialized

LEMMA ReservedStages ==
    /\ Reserved = {"key", "keycreate", "keywrite", "keyread", "temp", "write", "replace"}
    /\ Serialized = Reserved \cup {"chmod"}
    /\ Serialized \subseteq Stages /\ "done" \notin Serialized
BY DEF Reserved, Serialized, Stages, Working

\* The key file changes, as long as there is neither a key nor a backup.
LEMMA KeyStep ==
    ASSUME Inv, NEW p \in Procs, pc[p] \in {"keycreate", "keywrite"}, Moves(p), Named(p), Local(p)',
           UNCHANGED <<files, temps, trail, req, mem, lost, unfinished, moved, env>>,
           keyfile' \in {Absent, Empty} \cup Keys, keys' \subseteq Keys,
           spoiled' \in BOOLEAN, spoiled => spoiled', EmptyKey'
    PROVE  Inv' /\ Alone(p)
<1>1. keyfile \notin Keys /\ Present = {}
  BY Identifiers DEF Inv, Local, Keyed
<1>2. TypeOK'
  BY MoveTypes, Types DEF Inv
<1>3. Readable'
  BY <1>1 DEF Readable, Present
<1>4. Others(p)
  BY MoveTypes, Zenon DEF Others
<1>5. Reach(p)
  <2>1. pc[p] \in Serialized /\ files' = files /\ temps' = temps /\ lost' = lost
    BY DEF Serialized
  <2> QED
    BY <1>1, <2>1, Zenon DEF Reach
<1>6. Alone(p)
  BY <1>4, <1>5 DEF Alone
<1>7. Gone'
  BY GoneStep
<1> QED
  BY <1>2, <1>3, <1>6, <1>7, Elsewhere

LEMMA KeyCreateInv == ASSUME Inv, NEW p \in Procs, KeyCreate(p) PROVE Inv' /\ Alone(p)
<1>1. pc[p] = "keycreate" /\ UNCHANGED <<files, temps, trail, req, mem, history>> /\ keyfile = Absent /\ Present = {}
  BY DEF KeyCreate, Inv, Local, Keyed
<1>2. CASE keyfile' = Empty /\ Goto(p, "keywrite") /\ UNCHANGED <<lock, ans, failed>>
  <2>1. Moves(p) /\ pc'[p] = "keywrite"
    BY <1>1, <1>2, Types, GotoMoves, ReservedStages DEF Inv, history
  <2>2. Named(p)
    BY <1>1, <2>1, CreationFacts, ReservedStages DEF Named
  <2>3. EmptyKey'
    BY <2>1 DEF EmptyKey
  <2>4. Keyed(p)'
    BY <1>1, <1>2, <2>1 DEF Keyed, Present
  <2>5. Local(p)'
    BY <1>1, <1>2, <2>1, <2>4, CreationFacts, ReservedStages
       DEF Local, Shape, Created, Creation, Deleted, Deletion, Listing, Blocked, ListTold
  <2> QED
    BY <1>1, <1>2, <2>1, <2>2, <2>3, <2>5, KeyStep, Types DEF history, Inv
<1>3. CASE Fault(p, {"500"}) /\ UNCHANGED keyfile
  BY <1>1, <1>3, FaultInv DEF disk
<1> QED
  BY <1>1, <1>2, <1>3 DEF KeyCreate

LEMMA KeyWriteInv == ASSUME Inv, NEW p \in Procs, KeyWrite(p) PROVE Inv' /\ Alone(p)
<1>1. /\ pc[p] = "keywrite" /\ UNCHANGED <<files, temps, trail, req, mem, lost, unfinished, moved, env>>
      /\ keyfile \in {Absent, Empty} /\ (~lost => keyfile = Empty)
  BY DEF KeyWrite, Inv, Local, Keyed
<1>2. CASE \E k \in Keys \ keys :
             /\ keyfile' = IF keyfile = Absent THEN Absent ELSE k
             /\ keys' = keys \cup {k}
             /\ (Goto(p, "keyread") /\ UNCHANGED <<lock, ans, failed>>) \/ Fault(p, {"500"})
             /\ UNCHANGED spoiled
  <2>1. PICK k \in Keys \ keys :
          /\ keyfile' = IF keyfile = Absent THEN Absent ELSE k
          /\ keys' = keys \cup {k}
          /\ (Goto(p, "keyread") /\ UNCHANGED <<lock, ans, failed>>) \/ Fault(p, {"500"})
          /\ UNCHANGED spoiled
    BY <1>2
  <2>2. /\ keyfile' \in {Absent, Empty} \cup Keys /\ keys' \subseteq Keys
        /\ spoiled' \in BOOLEAN /\ (spoiled => spoiled') /\ EmptyKey' /\ (~lost' => keyfile' # Absent)
    BY <1>1, <2>1, Identifiers, Types DEF Inv, EmptyKey, Absent, Empty
  <2>3. CASE Goto(p, "keyread") /\ UNCHANGED <<lock, ans, failed>>
    <3>1. Moves(p) /\ pc'[p] = "keyread"
      BY <1>1, <2>3, Types, GotoMoves, ReservedStages DEF Inv
    <3>2. Named(p)
      BY <1>1, <3>1, CreationFacts, ReservedStages DEF Named
    <3>3. Local(p)'
      BY <1>1, <2>2, <2>3, <3>1, CreationFacts, ReservedStages
         DEF Local, Shape, Keyed, Created, Creation, Deleted, Deletion, Listing, Blocked, ListTold
    <3> QED
      BY <1>1, <2>2, <3>1, <3>2, <3>3, KeyStep
  <2>4. CASE Fault(p, {"500"})
    <3>1. Moves(p) /\ Named(p) /\ pc'[p] = "done" /\ ans'[p] = "500"
      BY <1>1, <2>4, AnswerMoves DEF Codes, Fault
    <3>2. Local(p)'
      BY <1>1, <2>2, <3>1, AnsweredLocal, CreationFacts, ReservedStages
    <3> QED
      BY <1>1, <2>2, <3>1, <3>2, KeyStep
  <2> QED
    BY <2>1, <2>3, <2>4
<1>3. CASE /\ Fault(p, {"500"})
           /\ spoiled' = TRUE
           /\ UNCHANGED <<keyfile, keys>>
  <2>1. Moves(p) /\ Named(p) /\ pc'[p] = "done" /\ ans'[p] = "500"
    BY <1>1, <1>3, AnswerMoves DEF Codes, Fault
  <2>2. Local(p)'
    BY <1>1, <1>3, <2>1, AnsweredLocal, CreationFacts, ReservedStages
  <2>3. EmptyKey'
    BY <1>3 DEF EmptyKey
  <2> QED
    BY <1>1, <1>3, <2>1, <2>2, <2>3, KeyStep, Types DEF Inv
<1> QED
  BY <1>2, <1>3 DEF KeyWrite

\* The temporary file of the creation is written, or removed.
LEMMA TempStep ==
    ASSUME Inv, NEW p \in Procs, pc[p] \in {"temp", "write", "replace"}, Moves(p), Named(p), Local(p)',
           UNCHANGED <<keyfile, files, trail, req, mem, history>>,
           NEW e \in Envelope, temps' = [temps EXCEPT ![req[p].id] = e]
    PROVE  Inv' /\ Alone(p)
<1>1. Creation(p) /\ req[p].id \in Ids
  BY CreationFacts, ReservedStages
<1>2. TypeOK'
  BY <1>1, MoveTypes, Types DEF Inv, history
<1>3. Readable' /\ EmptyKey'
  BY MoveTypes DEF Inv, Readable, Present, EmptyKey, history
<1>4. Others(p)
  BY MoveTypes, Zenon DEF Others, history
<1>5. Reach(p)
  <2>1. pc[p] \in Serialized /\ files' = files /\ lost' = lost /\ spoiled' = spoiled /\ keyfile' = keyfile
    BY DEF Serialized, history
  <2>2. \A i \in Ids : temps'[i] = temps[i] \/ (Creation(p) /\ i = req[p].id)
    BY <1>1, Types DEF Inv
  <2> QED
    BY <2>1, <2>2, Zenon DEF Reach
<1>6. Alone(p)
  BY <1>4, <1>5 DEF Alone
<1>7. Gone'
  BY GoneStep DEF history
<1> QED
  BY <1>2, <1>3, <1>6, <1>7, Elsewhere

\* The creation is given up: the temporary file is removed, or could not be.
LEMMA GivenUp ==
    ASSUME Inv, NEW p \in Procs, pc[p] \in {"temp", "write", "replace"},
           UNCHANGED <<keyfile, files, trail, req, mem, history>>,
           NEW code \in {"409", "500", "503"}, Answer(p, code),
           \/ Removed(p) /\ failed' = failed /\ code = "503"
           \/ Removed(p) /\ failed' = failed \cup {p}
           \/ UNCHANGED temps /\ failed' = failed \cup {p} /\ code = "500"
    PROVE  Inv' /\ Alone(p)
<1> DEFINE i == req[p].id
<1>1. Creation(p) /\ req[p].action = "create" /\ i \in Ids /\ files[i] = Absent
  BY CreationFacts, ReservedStages
<1>2. PICK e \in Envelope :
        /\ temps' = [temps EXCEPT ![i] = e] /\ temps'[i] = e
        /\ e # Absent => p \in failed' /\ code = "500"
  <2>1. CASE Removed(p)
    BY <1>1, <2>1, Types DEF Inv, Removed, Envelope
  <2>2. CASE UNCHANGED temps
    BY <1>1, <2>2, Types DEF Inv, Removed
  <2> QED
    BY <2>1, <2>2
<1>3. Moves(p) /\ Named(p) /\ pc'[p] = "done" /\ ans'[p] = code
  BY AnswerMoves DEF Codes, history
<1>4. code = "409" => p \in failed'
  OBVIOUS
<1>5. Created(p)'
  BY <1>1, <1>2, <1>3, ReservedStages DEF Created
<1>6. Local(p)'
  BY <1>1, <1>3, <1>4, <1>5, ReservedStages
     DEF Local, Shape, Keyed, Deleted, Deletion, Listing, Blocked, ListTold
<1> QED
  BY <1>2, <1>3, <1>6, TempStep

LEMMA AbandonInv ==
    ASSUME Inv, NEW p \in Procs, pc[p] \in {"temp", "write", "replace"}, Abandon(p),
           UNCHANGED <<keyfile, files, trail, req, mem, history>>
    PROVE  Inv' /\ Alone(p)
BY GivenUp DEF Abandon, Fault

LEMMA TempCreateInv == ASSUME Inv, NEW p \in Procs, TempCreate(p) PROVE Inv' /\ Alone(p)
<1>1. pc[p] = "temp" /\ UNCHANGED <<keyfile, files, trail, req, mem, history>>
  BY DEF TempCreate
<1>2. CASE /\ temps' = [temps EXCEPT ![req[p].id] = Torn]
           /\ Goto(p, "write")
           /\ UNCHANGED <<lock, ans, failed>>
  <2>1. Moves(p) /\ pc'[p] = "write"
    BY <1>1, <1>2, Types, GotoMoves, ReservedStages DEF Inv, history
  <2>2. Named(p)
    BY <1>1, <2>1, CreationFacts, ReservedStages DEF Named
  <2>3. Keyed(p)'
    BY <1>1, <2>1 DEF Inv, Local, Keyed, history
  <2>4. Local(p)'
    BY <1>1, <1>2, <2>1, <2>3, CreationFacts, ReservedStages
       DEF Local, Shape, Created, Creation, Deleted, Deletion, Listing, Blocked, ListTold
  <2> QED
    BY <1>1, <1>2, <2>1, <2>2, <2>4, TempStep DEF Envelope
<1>3. CASE Fault(p, {"409", "500"}) /\ UNCHANGED temps
  BY <1>1, <1>3, FaultInv DEF disk
<1> QED
  BY <1>1, <1>2, <1>3, AbandonInv DEF TempCreate

LEMMA TempWriteInv == ASSUME Inv, NEW p \in Procs, TempWrite(p) PROVE Inv' /\ Alone(p)
<1>1. pc[p] = "write" /\ UNCHANGED <<keyfile, files, trail, req, mem, history>>
  BY DEF TempWrite
<1>2. CASE /\ temps' = [temps EXCEPT ![req[p].id] = mem[p].key]
           /\ Goto(p, "replace")
           /\ UNCHANGED <<lock, ans, failed>>
  <2>1. Moves(p) /\ pc'[p] = "replace"
    BY <1>1, <1>2, Types, GotoMoves, ReservedStages DEF Inv, history
  <2>2. Named(p)
    BY <1>1, <2>1, CreationFacts, ReservedStages DEF Named
  <2>3. Keyed(p)' /\ mem[p].key \in Keys
    BY <1>1, <2>1 DEF Inv, Local, Keyed, history
  <2>4. temps'[req[p].id] = mem[p].key
    BY <1>1, <1>2, CreationFacts, ReservedStages, Types DEF Inv
  <2>5. Created(p)'
    BY <1>1, <2>1, <2>4, CreationFacts, ReservedStages DEF Created
  <2>6. Local(p)'
    BY <1>1, <1>2, <2>1, <2>3, <2>5, CreationFacts, ReservedStages
       DEF Local, Shape, Deleted, Deletion, Listing, Blocked, ListTold
  <2> QED
    BY <1>1, <1>2, <2>1, <2>2, <2>3, <2>6, TempStep DEF Envelope
<1> QED
  BY <1>1, <1>2, AbandonInv DEF TempWrite

\* The backup that is put in place was written with the key of the store.
LEMMA ReplaceInv == ASSUME Inv, NEW p \in Procs, Replace(p) PROVE Inv' /\ Alone(p)
<1>1. pc[p] = "replace" /\ UNCHANGED <<keyfile, trail, req, mem, keys, spoiled, lost, unfinished, env>>
  BY DEF Replace
<1> DEFINE i == req[p].id
<1>2. CASE /\ files' = [files EXCEPT ![req[p].id] = temps[req[p].id]]
           /\ Removed(p)
           /\ moved' = [q \in Procs |-> moved[q] \cup {req[p].id}]
           /\ Goto(p, "chmod")
           /\ UNCHANGED <<lock, ans, failed>>
  <2>1. Creation(p) /\ i \in Ids /\ temps[i] \in Keys /\ (~lost => temps[i] = keyfile)
    BY <1>1, CreationFacts, ReservedStages DEF Inv, Local, Created, Keyed
  <2>2. /\ files' \in [Ids -> Envelope] /\ files'[i] = temps[i]
        /\ \A j \in Ids \ {i} : files'[j] = files[j]
        /\ temps' \in [Ids -> Envelope] /\ temps'[i] = Absent
        /\ \A j \in Ids \ {i} : temps'[j] = temps[j]
        /\ moved' \in [Procs -> SUBSET Ids] /\ \A q \in Procs : moved'[q] = moved[q] \cup {i}
    BY <1>2, <2>1, Types DEF Inv, Envelope, Removed
  <2>3. Moves(p) /\ pc'[p] = "chmod"
    BY <1>1, <1>2, Types, GotoMoves, ReservedStages DEF Inv
  <2>4. Named(p)
    BY <1>1, <2>1, <2>3, ReservedStages DEF Named
  <2>5. TypeOK'
    BY <1>1, <2>2, <2>3, MoveTypes, Types DEF Inv
  <2>6. Readable'
    BY <1>1, <2>1, <2>2 DEF Inv, Readable, Present
  <2>7. EmptyKey'
    BY <1>1, <2>3, MoveTypes DEF Inv, EmptyKey
  <2>8. Others(p)
    <3>1. \A q \in Procs \ {p} : moved[q] \subseteq moved'[q] /\ \A j \in Ids : files'[j] = files[j] \/ j \in moved'[q]
      BY <2>1, <2>2
    <3> QED
      BY <2>3, <3>1, MoveTypes, Zenon DEF Others
  <2>9. Reach(p)
    <3>1. pc[p] \in Serialized /\ lost' = lost /\ spoiled' = spoiled /\ keyfile' = keyfile
      BY <1>1 DEF Serialized
    <3>2. \A j \in Ids : /\ temps'[j] = temps[j] \/ (Creation(p) /\ j = i)
                         /\ files'[j] = files[j] \/ (pc[p] = "replace" /\ j = i)
      BY <1>1, <2>1, <2>2
    <3> QED
      BY <3>1, <3>2, Zenon DEF Reach
  <2>10. Created(p)'
    BY <1>1, <2>2, <2>3, ReservedStages DEF Created
  <2>11. Local(p)'
    BY <1>1, <1>2, <2>3, <2>10, CreationFacts, ReservedStages
       DEF Local, Shape, Keyed, Deleted, Deletion, Listing, Blocked, ListTold
  <2>12. Gone'
    <3>1. ASSUME NEW q \in Procs, NEW j \in moved'[q], files'[j] = Absent
          PROVE  \E r \in Procs : Deletion(r)' /\ req'[r].id = j
      <4>1. j # i
        BY <2>1, <2>2, <3>1, Identifiers
      <4>2. j \in moved[q] /\ files[j] = Absent
        BY <2>2, <3>1, <4>1, Types DEF Inv
      <4>3. PICK r \in Procs : Deletion(r) /\ req[r].id = j
        BY <4>2 DEF Inv, Gone
      <4> QED
        BY <1>1, <2>3, <4>3, DeletionStays
    <3> QED
      BY <3>1 DEF Gone
  <2> QED
    BY <1>1, <2>4, <2>5, <2>6, <2>7, <2>8, <2>9, <2>11, <2>12, Elsewhere DEF Alone
<1>3. CASE Removed(p) /\ Fault(p, {"409"}) /\ UNCHANGED <<files, moved>>
  BY <1>1, <1>3, GivenUp DEF Fault, history
<1> QED
  BY <1>1, <1>2, <1>3, AbandonInv DEF Replace, history

-----------------------------------------------------------------------------
(* The environment *)

LEMMA CrashInv == ASSUME Inv, Crash PROVE Inv'
<1>1. /\ env' \in 0 .. MaxEnv /\ lock' = NoProc
      /\ UNCHANGED <<disk, trail, req, ans, failed, keys, lost, unfinished, moved>>
  BY BackupAssumption DEF Crash, Inv, TypeOK
<1>2. /\ pc' = [p \in Procs |-> IF pc[p] \in Working THEN "crashed" ELSE pc[p]]
      /\ mem' = [p \in Procs |-> IF pc[p] \in Working THEN NoMemory ELSE mem[p]]
      /\ spoiled' = (spoiled \/ \E p \in Procs : pc[p] = "keywrite")
  BY DEF Crash
<1>3. NoMemory \in Memory
  BY DEF NoMemory, Memory, Envelope
<1>4. TypeOK'
  <2>1. pc' \in [Procs -> Stages] /\ mem' \in [Procs -> Memory]
    BY <1>2, <1>3, Types DEF Inv, Stages
  <2> QED
    BY <1>1, <1>2, <2>1, Types DEF Inv, disk
<1>5. Readable' /\ EmptyKey' /\ Present' = Present
  BY <1>1, <1>2 DEF Inv, Readable, EmptyKey, Present, disk
<1>6. \A p \in Procs : Creation(p)' = Creation(p)
  BY <1>1 DEF Creation
<1>7. Distinct'
  BY <1>1, <1>6 DEF Inv, Distinct
<1>8. ASSUME NEW p \in Procs PROVE Deletion(p)' = Deletion(p)
  BY <1>1, <1>2 DEF Deletion, Working, Serialized
<1>9. ASSUME NEW p \in Procs PROVE Local(p)'
  <2>1. CASE pc[p] \in Working
    <3>1. pc'[p] = "crashed"
      BY <1>2, <2>1
    <3> QED
      BY <3>1 DEF Local, Shape, Keyed, Created, Deleted, Deletion, Listing, Blocked, ListTold, Serialized, Reserved
  <2>2. CASE pc[p] \notin Working
    <3>1. pc'[p] = pc[p] /\ mem'[p] = mem[p] /\ (spoiled => spoiled') /\ Local(p)
      BY <1>2, <2>2 DEF Inv
    <3>2. pc[p] \notin Serialized \cup {"record", "download", "wait", "scan", "load", "decrypt", "unlink"}
      BY <2>2 DEF Working
    <3>3. Shape(p)' /\ Keyed(p)' /\ Listing(p)'
      BY <1>1, <3>1, <3>2 DEF Local, Shape, Keyed, Listing, Serialized
    <3>4. Created(p)'
      BY <1>1, <1>6, <1>8, <3>1, <3>2 DEF Local, Created, Reserved, Serialized, disk
    <3>5. Deleted(p)'
      <4>1. \A q \in Procs : pc'[q] \notin Reserved
        BY <1>2 DEF Reserved, Serialized, Working
      <4> QED
        BY <1>1, <1>8, <3>1, <3>2, <4>1 DEF Local, Deleted, disk
    <3>6. Blocked(p)' /\ ListTold(p)'
      BY <1>1, <1>5, <1>8, <3>1 DEF Local, Blocked, ListTold
    <3> QED
      BY <3>3, <3>4, <3>5, <3>6 DEF Local
  <2> QED
    BY <2>1, <2>2
<1>10. Gone'
  BY <1>1, <1>8 DEF Inv, Gone, disk
<1> QED
  BY <1>4, <1>5, <1>7, <1>9, <1>10 DEF Inv

LEMMA LoseKeyInv == ASSUME Inv, LoseKey PROVE Inv'
<1>1. /\ env' \in 0 .. MaxEnv /\ keyfile' = Absent /\ lost' = TRUE
      /\ UNCHANGED <<files, temps, lock, trail, pc, req, mem, ans, failed, keys, spoiled, unfinished, moved>>
  BY BackupAssumption DEF LoseKey, Inv, TypeOK
<1>2. TypeOK'
  BY <1>1, Types DEF Inv
<1>3. Readable' /\ EmptyKey' /\ Present' = Present
  BY <1>1 DEF Inv, Readable, EmptyKey, Present, Absent, Empty
<1>4. \A p \in Procs : Creation(p)' = Creation(p) /\ Deletion(p)' = Deletion(p)
  BY <1>1 DEF Creation, Deletion
<1>5. Distinct'
  BY <1>1, <1>4 DEF Inv, Distinct
<1>6. ASSUME NEW p \in Procs PROVE Local(p)'
  <2>1. Shape(p)' /\ Keyed(p)'
    BY <1>1, <1>3 DEF Inv, Local, Shape, Keyed
  <2>2. Created(p)' /\ Deleted(p)'
    BY <1>1, <1>4 DEF Inv, Local, Created, Deleted
  <2>3. Listing(p)' /\ Blocked(p)' /\ ListTold(p)'
    BY <1>1, <1>3, <1>4 DEF Inv, Local, Listing, Blocked, ListTold
  <2> QED
    BY <2>1, <2>2, <2>3 DEF Local
<1>7. Gone'
  BY <1>1, <1>4 DEF Inv, Gone
<1> QED
  BY <1>2, <1>3, <1>5, <1>6, <1>7 DEF Inv

LEMMA StutterInv == ASSUME Inv, UNCHANGED vars PROVE Inv'
<1>1. UNCHANGED <<keyfile, files, temps, lock, trail, pc, req, mem, ans, failed, keys, spoiled, lost, unfinished, moved, env>>
  BY DEF vars, disk, history
<1>2. TypeOK'
  BY <1>1, Types DEF Inv
<1>3. Readable' /\ EmptyKey' /\ Present' = Present
  BY <1>1 DEF Inv, Readable, EmptyKey, Present
<1>4. \A p \in Procs : Creation(p)' = Creation(p) /\ Deletion(p)' = Deletion(p)
  BY <1>1 DEF Creation, Deletion
<1>5. Distinct'
  BY <1>1, <1>4 DEF Inv, Distinct
<1>6. ASSUME NEW p \in Procs PROVE Local(p)'
  <2>1. Shape(p)' /\ Keyed(p)'
    BY <1>1, <1>3 DEF Inv, Local, Shape, Keyed
  <2>2. Created(p)' /\ Deleted(p)'
    BY <1>1, <1>4 DEF Inv, Local, Created, Deleted
  <2>3. Listing(p)' /\ Blocked(p)' /\ ListTold(p)'
    BY <1>1, <1>3, <1>4 DEF Inv, Local, Listing, Blocked, ListTold
  <2> QED
    BY <2>1, <2>2, <2>3 DEF Local
<1>7. Gone'
  BY <1>1, <1>4 DEF Inv, Gone
<1> QED
  BY <1>2, <1>3, <1>5, <1>6, <1>7 DEF Inv

LEMMA InitInv == Init => Inv
<1> SUFFICES ASSUME Init PROVE Inv
  OBVIOUS
<1>1. /\ keyfile \in {Absent, Empty} \cup Keys /\ files \in [Ids -> Envelope] /\ keys \subseteq Keys
      /\ \A i \in Ids : files[i] # Absent => files[i] \in Keys /\ files[i] = keyfile
      /\ keyfile # Empty
  <2>1. CASE keyfile = Absent /\ files = [i \in Ids |-> Absent] /\ keys = {}
    BY <2>1 DEF Envelope, Absent, Empty
  <2>2. CASE \E k \in Keys :
               keyfile = k /\ keys = {k} /\ files = [i \in Ids |-> IF i = 1 THEN k ELSE Absent]
    <3>1. PICK k \in Keys :
            keyfile = k /\ keys = {k} /\ files = [i \in Ids |-> IF i = 1 THEN k ELSE Absent]
      BY <2>2
    <3>2. k # Empty
      BY Identifiers
    <3> QED
      BY <3>1, <3>2 DEF Envelope
  <2> QED
    BY <2>1, <2>2 DEF Init
<1>2. /\ temps = [i \in Ids |-> Absent] /\ lock = NoProc /\ trail = {}
      /\ pc = [p \in Procs |-> "idle"]
      /\ req = [p \in Procs |-> [action |-> "none", id |-> NoId]]
      /\ mem = [p \in Procs |-> NoMemory]
      /\ ans = [p \in Procs |-> "none"]
      /\ spoiled = FALSE /\ lost = FALSE /\ failed = {} /\ unfinished = {}
      /\ moved = [p \in Procs |-> {}]
      /\ env = 0
  BY DEF Init
<1>3. TypeOK
  <2>1. [action |-> "none", id |-> NoId] \in Request /\ NoMemory \in Memory /\ 0 \in 0 .. MaxEnv
        /\ "idle" \in Stages /\ "none" \in Codes
    BY BackupAssumption DEF Request, NoMemory, Memory, Envelope, Stages, Codes
  <2>2. /\ temps \in [Ids -> Envelope] /\ pc \in [Procs -> Stages] /\ req \in [Procs -> Request]
        /\ mem \in [Procs -> Memory] /\ ans \in [Procs -> Codes] /\ moved \in [Procs -> SUBSET Ids]
    BY <1>2, <2>1 DEF Envelope
  <2> QED
    BY <1>1, <1>2, <2>1, <2>2, Types
<1>4. Readable /\ EmptyKey
  BY <1>1 DEF Readable, EmptyKey, Present
<1>5. \A p \in Procs : pc[p] = "idle" /\ req[p].action = "none" /\ req[p].id = NoId
  BY <1>2
<1>6. Distinct
  BY <1>5 DEF Distinct, Creation
<1>7. ASSUME NEW p \in Procs PROVE Local(p)
  BY <1>2, <1>5
     DEF Local, Shape, Keyed, Created, Creation, Deleted, Deletion, Listing, Blocked, ListTold, Serialized, Reserved
<1>8. Gone
  BY <1>2 DEF Gone
<1> QED
  BY <1>3, <1>4, <1>6, <1>7, <1>8 DEF Inv

LEMMA RequestInv ==
    ASSUME Inv, NEW p \in Procs, Begin(p) \/ Refuse(p) \/ Step(p)
    PROVE  Inv' /\ Alone(p)
BY BeginInv, RefuseInv, RecordInv, DownloadInv, AcquireInv, KeyExistsInv, KeyCreateInv, KeyWriteInv,
   KeyReadInv, TempCreateInv, TempWriteInv, ReplaceInv, ChmodInv, ScanInv, LoadInv, DecryptInv,
   UnlinkInv DEF Step

\* Reachable states satisfy the inductive invariant.
THEOREM Invariant == Spec => []Inv
<1>1. ASSUME Inv, [Next]_vars PROVE Inv'
  BY <1>1, RequestInv, CrashInv, LoseKeyInv, StutterInv DEF Next, Done
<1> QED
  BY <1>1, InitInv, PTL DEF Spec

\* Every reachable state of the directory and of its requests is well formed.
THEOREM TypeCorrect == Spec => []TypeOK
<1>1. Inv => TypeOK
  BY DEF Inv
<1> QED
  BY <1>1, Invariant, PTL

\* No interleaving of creations, deletions, crashes and failed writes makes a
\* backup visible before it is complete, or under a key that the store has not.
THEOREM NeverUnreadable == Spec => []Readable
<1>1. Inv => Readable
  BY DEF Inv
<1> QED
  BY <1>1, Invariant, PTL

\* _key(create=True) writes a key only while the directory holds no backup: the
\* lock keeps other creations out from the look at the directory to the write.
THEOREM OneKey == Spec => NoSecondKey
<1>1. ASSUME Inv, [Next]_vars, keyfile' # keyfile, keyfile' \in Keys PROVE Present = {}
  <2>1. ASSUME NEW p \in Procs, KeyWrite(p) PROVE Present = {}
    BY <1>1, <2>1 DEF KeyWrite, Inv, Local, Keyed
  <2>2. ASSUME NEW p \in Procs, Begin(p) \/ Refuse(p) \/ Step(p), ~KeyWrite(p) PROVE FALSE
    BY <1>1, <2>2, Identifiers
       DEF Begin, Refuse, Step, Record, Download, Acquire, KeyExists, KeyCreate, KeyRead, TempCreate,
           TempWrite, Replace, Chmod, Scan, Load, Decrypt, Unlink, disk
  <2>3. ~LoseKey
    BY <1>1, Identifiers DEF LoseKey
  <2>4. ~Crash /\ ~UNCHANGED vars
    BY <1>1 DEF Crash, vars, disk
  <2> QED
    BY <1>1, <2>1, <2>2, <2>3, <2>4 DEF Next, Done
<1>2. Inv /\ [Next]_vars => [keyfile' # keyfile /\ keyfile' \in Keys => Present = {}]_vars
  BY <1>1
<1> QED
  BY <1>2, Invariant, PTL DEF Spec, NoSecondKey

\* "La llave de los respaldos no está disponible" is never the answer to a race:
\* a request whose own checks and reads succeed is blocked only by a key file that
\* was lost, or whose first writing failed.
THEOREM Unblocked == Spec => []RacesDoNotBlock
<1>1. Inv => RacesDoNotBlock
  BY DEF Inv, Local, Blocked, RacesDoNotBlock
<1> QED
  BY <1>1, Invariant, PTL

\* What create, delete and list answer agrees with the directory, for any number
\* of requests that run beside them without a lock.
THEOREM TrueAnswers == Spec => []AnswersAreTrue
<1>1. ASSUME Inv PROVE CreateIsTrue
  <2>1. ASSUME NEW p \in Procs, pc[p] = "done", Creation(p)
        PROVE  /\ temps[req[p].id] # Absent => ans[p] = "500" /\ p \in failed
               /\ files[req[p].id] # Absent => ans[p] = "ok" \/ p \in unfinished
               /\ ans[p] = "ok" => files[req[p].id] # Absent
                                   \/ \E q \in Procs : Deletion(q) /\ req[q].id = req[p].id
    BY <1>1, <2>1 DEF Inv, Local, Created
  <2>2. ASSUME NEW q \in Procs, Deletion(q) PROVE req[q] = [action |-> "delete", id |-> req[q].id] /\ ans[q] = "ok"
    <3>1. req[q] \in Request /\ req[q].action = "delete"
      BY <1>1, <2>2, Types DEF Inv, Deletion
    <3> QED
      BY <2>2, <3>1 DEF Request, Deletion
  <2> QED
    BY <2>1, <2>2 DEF CreateIsTrue, Creation
<1>2. ASSUME Inv PROVE DeletedOnce
  BY <1>2 DEF Inv, Local, Deleted, Deletion, DeletedOnce
<1>3. ASSUME Inv PROVE ListIsTrue
  BY <1>3 DEF Inv, Local, ListTold, Deletion, ListIsTrue
<1>4. Inv => AnswersAreTrue
  BY <1>1, <1>2, <1>3 DEF AnswersAreTrue
<1> QED
  BY <1>4, Invariant, PTL


-----------------------------------------------------------------------------
(* The lock of creations *)

\* The lock belongs to a creation between its key and its answer.
LockOwned == lock # NoProc => pc[lock] \in Serialized

LEMMA OwnerStep ==
    ASSUME Inv, LockOwned, NEW p \in Procs, Begin(p) \/ Refuse(p) \/ Step(p)
    PROVE  /\ \A q \in Procs \ {p} : lock' = q => lock = q
           /\ lock' = p => pc'[p] \in Serialized
<1>1. pc \in [Procs -> Stages] /\ lock \in Procs \cup {NoProc}
  BY Types DEF Inv
<1>2. ASSUME NEW stage, Goto(p, stage) PROVE pc'[p] = stage
  BY <1>1, <1>2 DEF Goto
<1>3. ASSUME NEW code, Answer(p, code) PROVE lock' # p /\ \A q \in Procs \ {p} : lock' = q => lock = q
  BY <1>3, BackupAssumption DEF Answer, Released
<1>4. lock = p => pc[p] \in Serialized
  BY BackupAssumption DEF LockOwned
<1>5. CASE Begin(p) \/ Record(p) \/ Download(p) \/ Scan(p) \/ Load(p) \/ Decrypt(p)
  <2>1. pc[p] \notin Serialized
    BY <1>5 DEF Begin, Record, Download, Scan, Load, Decrypt, Serialized
  <2>2. lock' = lock \/ \E code : Answer(p, code)
    BY <1>5 DEF Fault, Begin, Record, Download, Scan, Load, Decrypt
  <2> QED
    BY <1>3, <1>4, <2>1, <2>2
<1>6. CASE Refuse(p) \/ Unlink(p)
  <2>1. \E code : Answer(p, code)
    BY <1>6 DEF Refuse, Unlink, Fault
  <2> QED
    BY <1>3, <2>1
<1>7. CASE Acquire(p)
  BY <1>2, <1>7, BackupAssumption DEF Acquire, Serialized
<1>8. CASE \/ KeyExists(p) \/ KeyCreate(p) \/ KeyWrite(p) \/ KeyRead(p)
           \/ TempCreate(p) \/ TempWrite(p) \/ Replace(p) \/ Chmod(p)
  <2>1. \/ lock' = lock /\ \E stage \in Serialized : Goto(p, stage)
        \/ \E code : Answer(p, code)
    BY <1>8
       DEF KeyExists, KeyCreate, KeyWrite, KeyRead, TempCreate, TempWrite, Replace, Chmod, Abandon, Fault, Serialized
  <2> QED
    BY <1>2, <1>3, <2>1
<1> QED
  BY <1>5, <1>6, <1>7, <1>8 DEF Step

\* Whichever step of a creation fails, the lock comes back with its answer (the
\* with block of create), and a crash leaves it to nobody: no creation waits for
\* a request that is over.
THEOREM Unleaked == Spec => []LockOwned
<1>1. Init => LockOwned
  BY DEF Init, LockOwned
<1>2. ASSUME Inv, Inv', LockOwned, [Next]_vars PROVE LockOwned'
  <2>1. pc \in [Procs -> Stages] /\ lock' \in Procs \cup {NoProc}
    BY <1>2, Types DEF Inv
  <2>2. ASSUME NEW p \in Procs, Begin(p) \/ Refuse(p) \/ Step(p) PROVE LockOwned'
    <3>1. \A q \in Procs \ {p} : pc'[q] = pc[q]
      BY <1>2, <2>2, RequestInv DEF Alone, Others
    <3>2. ASSUME NEW q \in Procs, lock' = q PROVE pc'[q] \in Serialized
      BY <1>2, <2>2, <3>1, <3>2, OwnerStep, BackupAssumption DEF LockOwned
    <3> QED
      BY <2>1, <3>2 DEF LockOwned
  <2>3. CASE Crash
    BY <2>3 DEF Crash, LockOwned
  <2>4. CASE LoseKey \/ Done \/ UNCHANGED vars
    BY <1>2, <2>4 DEF LoseKey, Done, vars, LockOwned
  <2> QED
    BY <1>2, <2>2, <2>3, <2>4 DEF Next
<1> QED
  BY <1>1, <1>2, Invariant, PTL DEF Spec
=============================================================================
