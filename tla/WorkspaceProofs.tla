--------------------------- MODULE WorkspaceProofs ---------------------------
(***************************************************************************)
(* Theorems about Workspace, for every catalog, every number of entries,   *)
(* pages, selections, lists and changes, and every order of the answers.   *)
(***************************************************************************)
EXTENDS Workspace, TLAPS

-----------------------------------------------------------------------------
(* The inductive invariant *)

\* A call of this selection is for the selected resource, and a list that still
\* counts is for the page that the controls show.
Addressed(c) ==
    /\ c.epoch <= epoch /\ c.ticket <= ticket
    /\ c.epoch = epoch => c.res = resource
    /\ c.kind = "list" /\ Current(c) => c.page = view.page

\* Every flag has a call whose answer takes it back.
Awaited ==
    /\ writing => \E c \in calls : c.kind \in {"write", "operate"}
    /\ loadingDetail => \E c \in calls : c.kind = "detail" /\ c.epoch = epoch
    /\ backups.busy => \E c \in calls : c.kind \in {"backups", "mutate", "download"}
    /\ resource \in Lists /\ view.listing => \E c \in calls : c.kind = "list" /\ Current(c)

\* The page of the backups has one call under way, of this selection, and is
\* busy until its answer.
Serial ==
    /\ \A c \in calls : c.kind \in {"backups", "mutate", "download"} => c.epoch = epoch /\ c.res = Copies
    /\ \A c, d \in calls :
         c.kind \in {"backups", "mutate", "download"} /\ d.kind \in {"backups", "mutate", "download"}
           => c = d /\ backups.busy
    /\ "backups" \in doubtful => backups.uncertain

Selected == calls # {} => resource # NoRes

Inv ==
    /\ TypeOK /\ PageIsCurrent /\ Selected /\ Awaited /\ Serial
    /\ \A c \in calls : Addressed(c)

-----------------------------------------------------------------------------
(* The calls that are sent *)

Kinds == {"list", "detail", "write", "operate", "backups", "mutate", "download"}
OfCopies == {"backups", "mutate", "download"}

LEMMA Numbers == 0 \in 0 .. MaxTicket /\ 0 \in 0 .. MaxSent /\ 0 \in 0 .. MaxEpoch /\ 1 \in Pages
BY WorkspaceAssumption

LEMMA AskFields ==
    ASSUME TypeOK, NEW kind \in Kinds, NEW r \in Resources, NEW u \in Ids \cup {NoId}
    PROVE  /\ Ask(kind, r, u) \in Call
           /\ Ask(kind, r, u).kind = kind /\ Ask(kind, r, u).res = r
           /\ Ask(kind, r, u).epoch = epoch /\ Ask(kind, r, u).ticket = 0
           /\ \A n \in 0 .. MaxSent :
                LET c == [Ask(kind, r, u) EXCEPT !.n = n]
                IN c \in Call /\ c.kind = kind /\ c.res = r /\ c.epoch = epoch /\ c.ticket = 0
           /\ \A e \in 0 .. MaxEpoch :
                LET c == [Ask(kind, r, u) EXCEPT !.epoch = e]
                IN c \in Call /\ c.kind = kind /\ c.res = r /\ c.epoch = e /\ c.ticket = 0
<1>1. Ask(kind, r, u) \in Call
  BY Numbers DEF Ask, Call, Kinds, TypeOK
<1>2. /\ Ask(kind, r, u).kind = kind /\ Ask(kind, r, u).res = r
      /\ Ask(kind, r, u).epoch = epoch /\ Ask(kind, r, u).ticket = 0
  BY DEF Ask
<1>3. ASSUME NEW n \in 0 .. MaxSent
      PROVE  LET c == [Ask(kind, r, u) EXCEPT !.n = n]
             IN c \in Call /\ c.kind = kind /\ c.res = r /\ c.epoch = epoch /\ c.ticket = 0
  BY <1>1, <1>2 DEF Call
<1>4. ASSUME NEW e \in 0 .. MaxEpoch
      PROVE  LET c == [Ask(kind, r, u) EXCEPT !.epoch = e]
             IN c \in Call /\ c.kind = kind /\ c.res = r /\ c.epoch = e /\ c.ticket = 0
  BY <1>1, <1>2 DEF Call
<1> QED
  BY <1>1, <1>2, <1>3, <1>4

ListFor(c, r, e, k) ==
    /\ c \in Call /\ c.kind = "list" /\ c.res = r /\ c.epoch = e
    /\ c.page = k /\ c.ticket = ticket + 1

LEMMA ListFields ==
    ASSUME TypeOK, ticket < MaxTicket
    PROVE  \A r \in Resources, e \in 0 .. MaxEpoch, k \in Pages :
             /\ ListFor(ListCall(r, e, k, TRUE), r, e, k)
             /\ ListFor(ListCall(r, e, k, FALSE), r, e, k)
<1> SUFFICES ASSUME NEW r \in Resources, NEW e \in 0 .. MaxEpoch, NEW k \in Pages
             PROVE  /\ ListFor(ListCall(r, e, k, TRUE), r, e, k)
                    /\ ListFor(ListCall(r, e, k, FALSE), r, e, k)
  OBVIOUS
<1>1. ticket + 1 \in 0 .. MaxTicket
  BY WorkspaceAssumption DEF TypeOK
<1>2. NoId \in Ids \cup {NoId} /\ "list" \in Kinds
  BY DEF Kinds
<1>3. Ask("list", r, NoId) \in Call /\ Ask("list", r, NoId).kind = "list" /\ Ask("list", r, NoId).res = r
  BY <1>2, AskFields
<1> DEFINE A == Ask("list", r, NoId)
<1>4. ASSUME NEW tail \in BOOLEAN
      PROVE  ListFor([A EXCEPT !.page = k, !.epoch = e, !.ticket = ticket + 1, !.tail = tail], r, e, k)
  <2> A \in Call /\ A.kind = "list" /\ A.res = r
    BY <1>3
  <2> HIDE DEF A
  <2> QED
    BY <1>1 DEF Call, ListFor
<1> QED
  BY <1>4 DEF ListCall

LEMMA CallTypes ==
    ASSUME NEW c \in Call
    PROVE  /\ c.kind \in Kinds /\ c.res \in Resources /\ c.uuid \in Ids \cup {NoId} /\ c.page \in Pages
           /\ c.epoch \in 0 .. MaxEpoch /\ c.ticket \in 0 .. MaxTicket /\ c.tail \in BOOLEAN
BY DEF Call, Kinds

LEMMA Drafts ==
    ASSUME TypeOK, NEW r \in Resources \cup {NoRes}
    PROVE  /\ Closed(r) \in [editing : BOOLEAN, res : Resources \cup {NoRes},
                             uuid : Ids \cup {NoId}, dirty : BOOLEAN]
           /\ Closed(r).editing => Closed(r).res = r
           /\ NoDraft \in [editing : BOOLEAN, res : Resources \cup {NoRes},
                             uuid : Ids \cup {NoId}, dirty : BOOLEAN]
           /\ ~NoDraft.editing
<1>1. NoDraft \in [editing : BOOLEAN, res : Resources \cup {NoRes}, uuid : Ids \cup {NoId}, dirty : BOOLEAN]
      /\ ~NoDraft.editing
  BY DEF NoDraft
<1>2. LET d == [NoDraft EXCEPT !.editing = TRUE, !.res = r]
      IN /\ d \in [editing : BOOLEAN, res : Resources \cup {NoRes}, uuid : Ids \cup {NoId}, dirty : BOOLEAN]
         /\ d.res = r
  BY DEF NoDraft
<1> QED
  BY <1>1, <1>2 DEF Closed

-----------------------------------------------------------------------------
(* The invariant and the actions *)

LEMMA InitInv == ASSUME Init PROVE Inv
<1>1. TypeOK
  BY Numbers DEF Init, TypeOK, NoRows, NoDraft
<1> QED
  BY <1>1, Zenon, WorkspaceAssumption
  DEF Init, Inv, PageIsCurrent, ShownIsCurrent, DraftIsCurrent, Selected, Awaited, Serial, NoDraft, NoRows

\* What a selection starts, and the flags that wait for it.
Started(S, r) ==
    /\ calls' = calls \cup S
    /\ \A c \in S : /\ c.res = r /\ c.epoch = epoch' /\ c.ticket <= ticket' /\ c.kind \in Kinds
                    /\ c.kind \in OfCopies => r = Copies /\ backups'.busy
                    /\ c.kind = "list" => c.page = 1
    /\ \A c, d \in S : c = d
    /\ r \in Lists => \E c \in S : c.kind = "list" /\ c.ticket = ticket'
    /\ writing' => \E c \in S : c.kind = "operate"
    /\ backups'.busy => \E c \in S : c.kind = "backups"
    /\ writing' \in BOOLEAN /\ ticket' \in 0 .. MaxTicket /\ ticket <= ticket'
    /\ backups' \in [busy : BOOLEAN, loaded : BOOLEAN, shown : BOOLEAN, uncertain : BOOLEAN]
    /\ backups'.uncertain = backups.uncertain

LEMMA SelectInv ==
    ASSUME Inv, NEW r \in Resources, Select(r)
    PROVE  Inv'
<1> USE DEF Locked, AllowDiscard
<1>1. /\ TypeOK /\ ~writing /\ ~loadingDetail /\ ~backups.busy
      /\ resource' = r /\ epoch' = epoch + 1 /\ epoch' \in 0 .. MaxEpoch /\ draft' = Closed(r)
      /\ view' = [loaded |-> r \in Operations, listing |-> view.listing \/ r \in Lists, page |-> 1, rows |-> NoRows]
      /\ UNCHANGED <<loadingDetail, reconcile, history>>
  BY WorkspaceAssumption DEF Inv, Select, TypeOK
<1>2. \A c \in calls : c \in Call /\ c.epoch <= epoch /\ c.ticket <= ticket /\ c.kind \notin OfCopies
  BY <1>1 DEF Inv, Addressed, Serial, OfCopies, TypeOK
<1>3. /\ view' \in [loaded : BOOLEAN, listing : BOOLEAN, page : Pages,
                    rows : [res : Resources \cup {NoRes}, page : Pages]]
      /\ view'.loaded = (r \in Operations) /\ view'.page = 1
  BY <1>1, Numbers DEF NoRows, TypeOK
<1>4. NoId \in Ids \cup {NoId} /\ "operate" \in Kinds /\ "backups" \in Kinds
  BY DEF Kinds
<1>5. \E S \in SUBSET Call : Started(S, r)
  <2>1. CASE r \in Lists
    <3> DEFINE c == ListCall(r, epoch', 1, FALSE)
    <3>1. ticket < MaxTicket /\ ticket' = ticket + 1 /\ calls' = calls \cup {c} /\ UNCHANGED <<writing, backups>>
      BY <2>1, WorkspaceAssumption DEF Select, Operations
    <3>2. c \in Call /\ c.kind = "list" /\ c.res = r /\ c.epoch = epoch' /\ c.page = 1 /\ c.ticket = ticket'
      <4>1. ListFor(c, r, epoch', 1)
        BY <3>1, <1>1, Numbers, ListFields
      <4> QED
        BY <4>1, <3>1 DEF ListFor
    <3> HIDE DEF c
    <3>3. {c} \in SUBSET Call /\ ticket' \in 0 .. MaxTicket /\ ticket <= ticket'
      BY <3>1, <3>2, <1>1 DEF TypeOK, Call
    <3>4. Started({c}, r)
      BY <2>1, <3>1, <3>2, <3>3, <1>1 DEF TypeOK, OfCopies, Kinds, Started
    <3> QED
      BY <3>3, <3>4
  <2>2. CASE r \in Queries /\ writing'
    <3> DEFINE c == [Ask("operate", r, NoId) EXCEPT !.epoch = epoch']
    <3>1. calls' = calls \cup {c} /\ UNCHANGED <<ticket, backups>> /\ r \notin Lists
      BY <2>2, <1>1, WorkspaceAssumption DEF Select
    <3>2. c \in Call /\ c.kind = "operate" /\ c.res = r /\ c.epoch = epoch' /\ c.ticket = 0
      BY <1>1, <1>4, AskFields
    <3> HIDE DEF c
    <3>3. {c} \in SUBSET Call /\ writing' \in BOOLEAN
      BY <3>2, <2>2, <1>1, WorkspaceAssumption DEF Select
    <3>4. Started({c}, r)
      BY <2>2, <3>1, <3>2, <3>3, <1>1 DEF TypeOK, OfCopies, Kinds, Started
    <3> QED
      BY <3>3, <3>4
  <2>3. CASE r = Copies
    <3> DEFINE c == [Ask("backups", r, NoId) EXCEPT !.epoch = epoch']
    <3>1. /\ calls' = calls \cup {c} /\ UNCHANGED <<ticket, writing>> /\ r \notin Lists
          /\ backups' = [backups EXCEPT !.busy = TRUE]
      BY <2>3, WorkspaceAssumption DEF Select, Operations
    <3>2. c \in Call /\ c.kind = "backups" /\ c.res = r /\ c.epoch = epoch' /\ c.ticket = 0
      BY <1>1, <1>4, AskFields
    <3> HIDE DEF c
    <3>3. /\ {c} \in SUBSET Call
          /\ backups' \in [busy : BOOLEAN, loaded : BOOLEAN, shown : BOOLEAN, uncertain : BOOLEAN]
          /\ backups'.uncertain = backups.uncertain /\ backups'.busy
      BY <3>1, <3>2, <1>1 DEF TypeOK
    <3>4. Started({c}, r)
      BY <3>1, <3>2, <3>3, <1>1, <2>3 DEF TypeOK, OfCopies, Kinds, Started
    <3> QED
      BY <3>3, <3>4
  <2>4. CASE r \in Operations /\ ~(r \in Queries /\ writing')
    <3>1. UNCHANGED <<ticket, calls, writing, backups>> /\ r \notin Lists
      BY <2>4, WorkspaceAssumption DEF Select, Operations
    <3>2. {} \in SUBSET Call /\ calls' = calls \cup {}
      BY <3>1
    <3>3. Started({}, r)
      BY <2>4, <3>1, <3>2, <1>1 DEF TypeOK, Started
    <3> QED
      BY <3>2, <3>3
  <2> QED
    BY <2>1, <2>2, <2>3, <2>4 DEF Resources, Operations
<1>6. PICK S \in SUBSET Call : Started(S, r)
  BY <1>5
<1>7. TypeOK'
  <2>1. draft' \in [editing : BOOLEAN, res : Resources \cup {NoRes}, uuid : Ids \cup {NoId}, dirty : BOOLEAN]
    BY <1>1, Drafts
  <2> QED
    BY <1>1, <1>3, <1>6, <2>1 DEF TypeOK, history, Started, Inv
<1>8. PageIsCurrent'
  <2>1. DraftIsCurrent'
    BY <1>1, Drafts DEF DraftIsCurrent
  <2>2. ShownIsCurrent'
    BY <1>1, <1>3, WorkspaceAssumption DEF ShownIsCurrent, Operations
  <2> QED
    BY <2>1, <2>2 DEF PageIsCurrent
<1>9. Selected'
  BY <1>1, WorkspaceAssumption DEF Selected, Resources
<1>10. Awaited'
  <2>1. writing' => \E c \in calls' : c.kind \in {"write", "operate"}
    BY <1>6 DEF Started, Kinds
  <2>2. ~loadingDetail'
    BY <1>1
  <2>3. backups'.busy => \E c \in calls' : c.kind \in {"backups", "mutate", "download"}
    BY <1>6 DEF Started, Kinds
  <2>4. r \in Lists => \E c \in calls' : c.kind = "list" /\ c.epoch = epoch' /\ c.ticket = ticket'
    BY <1>6 DEF Started
  <2> QED
    BY <2>1, <2>2, <2>3, <2>4, <1>1 DEF Awaited, Current
<1>11. Serial'
  <2>1. \A c, d \in calls' : c.kind \in OfCopies /\ d.kind \in OfCopies => c = d /\ backups'.busy
    BY <1>2, <1>6 DEF Started
  <2>2. "backups" \in doubtful' => backups'.uncertain
    BY <1>1, <1>6 DEF history, Inv, Serial, Started
  <2>3. \A c \in calls' : c.kind \in OfCopies => c.epoch = epoch' /\ c.res = Copies
    BY <1>2, <1>6 DEF Started
  <2> QED
    BY <2>1, <2>2, <2>3 DEF Serial, OfCopies
<1>12. ASSUME NEW c \in calls' PROVE Addressed(c)'
  <2>1. CASE c \in calls
    BY <2>1, <1>1, <1>2, <1>6, CallTypes DEF Addressed, Current, TypeOK, Started
  <2>2. CASE c \in S
    BY <2>2, <1>1, <1>3, <1>6, CallTypes DEF Addressed, Current, Started
  <2> QED
    BY <2>1, <2>2, <1>6 DEF Started
<1> QED
  BY <1>7, <1>8, <1>9, <1>10, <1>11, <1>12 DEF Inv

LEMMA LoadListInv ==
    ASSUME Inv, NEW k \in Pages, LoadList(k)
    PROVE  Inv'
<1> DEFINE c == ListCall(resource, epoch, k, FALSE)
<1>1. /\ TypeOK /\ resource \in Lists /\ resource \in Resources /\ resource # Copies
      /\ ticket < MaxTicket /\ ticket' = ticket + 1 /\ ticket' \in 0 .. MaxTicket
      /\ view' = [view EXCEPT !.listing = TRUE, !.page = k] /\ calls' = calls \cup {c}
      /\ UNCHANGED <<resource, epoch, draft, writing, loadingDetail, reconcile, backups, sent, doubtful>>
  BY WorkspaceAssumption DEF Inv, LoadList, flags, history, Resources, TypeOK
<1>2. ListFor(c, resource, epoch, k)
  BY <1>1, ListFields DEF TypeOK
<1> HIDE DEF c
<1>3. /\ view' \in [loaded : BOOLEAN, listing : BOOLEAN, page : Pages,
                    rows : [res : Resources \cup {NoRes}, page : Pages]]
      /\ view'.loaded = view.loaded /\ view'.listing /\ view'.page = k /\ view'.rows = view.rows
  BY <1>1 DEF TypeOK
<1>4. \A d \in calls : /\ d \in Call /\ d.epoch <= epoch /\ d.ticket <= ticket
                       /\ d.epoch = epoch => d.res = resource
  BY <1>1 DEF Inv, Addressed, TypeOK
<1>5. TypeOK'
  BY <1>1, <1>2, <1>3 DEF TypeOK, ListFor
<1>6. PageIsCurrent'
  BY <1>1, <1>3 DEF Inv, PageIsCurrent, ShownIsCurrent, DraftIsCurrent
<1>7. Selected' /\ Awaited' /\ Serial'
  <2>1. Selected'
    BY <1>1, WorkspaceAssumption DEF Selected
  <2>2. Awaited'
    BY <1>1, <1>2, <1>3 DEF Inv, Awaited, Current, ListFor
  <2>3. Serial'
    BY <1>1, <1>2 DEF Inv, Serial, ListFor
  <2> QED
    BY <2>1, <2>2, <2>3
<1>8. ASSUME NEW d \in calls' PROVE Addressed(d)'
  <2>1. CASE d \in calls
    BY <2>1, <1>1, <1>4, CallTypes DEF Addressed, Current, TypeOK
  <2>2. CASE d = c
    BY <2>2, <1>1, <1>2, <1>3 DEF Addressed, Current, ListFor, TypeOK
  <2> QED
    BY <2>1, <2>2, <1>1
<1> QED
  BY <1>5, <1>6, <1>7, <1>8 DEF Inv

LEMMA ListAnswerInv ==
    ASSUME Inv, NEW c \in calls, ListAnswer(c)
    PROVE  Inv'
<1>1. /\ TypeOK /\ c \in Call /\ c.kind = "list" /\ calls' = calls \ {c} /\ writing' = (writing /\ ~c.tail)
      /\ Addressed(c)
      /\ UNCHANGED <<resource, epoch, ticket, draft, loadingDetail, reconcile, backups, sent, doubtful>>
  BY DEF Inv, ListAnswer, TypeOK, history
<1>2. \/ ~Current(c) /\ view' = view
      \/ /\ Current(c) /\ c.page = view.page /\ c.res = resource
         /\ \E ok \in BOOLEAN :
              view' = [view EXCEPT !.listing = FALSE, !.loaded = ok,
                         !.rows = IF ok THEN [res |-> c.res, page |-> c.page] ELSE NoRows]
  BY <1>1 DEF ListAnswer, Addressed, Current
<1>3. /\ view' \in [loaded : BOOLEAN, listing : BOOLEAN, page : Pages,
                    rows : [res : Resources \cup {NoRes}, page : Pages]]
      /\ view'.page = view.page
      /\ \/ ~Current(c) /\ view' = view
         \/ /\ Current(c) /\ ~view'.listing
            /\ view'.loaded => view'.rows.res = resource /\ view'.rows.page = view.page
  <2>1. CASE ~Current(c) /\ view' = view
    BY <2>1, <1>1 DEF TypeOK
  <2>2. ASSUME Current(c), c.page = view.page, c.res = resource, NEW ok \in BOOLEAN,
               view' = [view EXCEPT !.listing = FALSE, !.loaded = ok,
                          !.rows = IF ok THEN [res |-> c.res, page |-> c.page] ELSE NoRows]
        PROVE  /\ view' \in [loaded : BOOLEAN, listing : BOOLEAN, page : Pages,
                             rows : [res : Resources \cup {NoRes}, page : Pages]]
               /\ view'.page = view.page
               /\ \/ ~Current(c) /\ view' = view
                  \/ /\ Current(c) /\ ~view'.listing
                     /\ view'.loaded => view'.rows.res = resource /\ view'.rows.page = view.page
    <3> DEFINE rows == IF ok THEN [res |-> c.res, page |-> c.page] ELSE NoRows
    <3>1. /\ rows \in [res : Resources \cup {NoRes}, page : Pages]
          /\ ok => rows.res = resource /\ rows.page = view.page
      BY <2>2, <1>1, CallTypes, Numbers DEF NoRows
    <3>2. view' = [view EXCEPT !.listing = FALSE, !.loaded = ok, !.rows = rows]
      BY <2>2
    <3> HIDE DEF rows
    <3>3. /\ view' \in [loaded : BOOLEAN, listing : BOOLEAN, page : Pages,
                        rows : [res : Resources \cup {NoRes}, page : Pages]]
          /\ view'.page = view.page /\ view'.listing = FALSE /\ view'.loaded = ok /\ view'.rows = rows
      BY <3>1, <3>2, <1>1 DEF TypeOK
    <3> QED
      BY <3>1, <3>3, <2>2
  <2> QED
    BY <1>2, <2>1, <2>2
<1>4. TypeOK'
  BY <1>1, <1>3, CallTypes DEF TypeOK
<1>5. PageIsCurrent'
  <2>1. DraftIsCurrent'
    BY <1>1 DEF Inv, PageIsCurrent, DraftIsCurrent
  <2>2. ShownIsCurrent'
    BY <1>1, <1>3 DEF Inv, PageIsCurrent, ShownIsCurrent
  <2> QED
    BY <2>1, <2>2 DEF PageIsCurrent
<1>6. Selected' /\ Serial'
  BY <1>1 DEF Inv, Selected, Serial
<1>7. Awaited'
  <2>1. writing' => \E d \in calls' : d.kind \in {"write", "operate"}
    BY <1>1 DEF Inv, Awaited
  <2>2. loadingDetail' => \E d \in calls' : d.kind = "detail" /\ d.epoch = epoch
    BY <1>1 DEF Inv, Awaited
  <2>3. backups'.busy => \E d \in calls' : d.kind \in {"backups", "mutate", "download"}
    BY <1>1 DEF Inv, Awaited
  <2>4. resource \in Lists /\ view'.listing => \E d \in calls' : d.kind = "list" /\ Current(d)
    BY <1>1, <1>3 DEF Inv, Awaited
  <2> QED
    BY <2>1, <2>2, <2>3, <2>4, <1>1 DEF Awaited, Current
<1>8. ASSUME NEW d \in calls' PROVE Addressed(d)'
  BY <1>1, <1>3 DEF Inv, Addressed, Current
<1> QED
  BY <1>4, <1>5, <1>6, <1>7, <1>8 DEF Inv

LEMMA OpenEditorInv ==
    ASSUME Inv, NEW u \in Ids \cup {NoId}, OpenEditor(u)
    PROVE  Inv'
<1> DEFINE c == Ask("detail", resource, u)
<1>1. /\ TypeOK /\ resource \in Resources /\ loadingDetail' = TRUE /\ calls' = calls \cup {c}
      /\ UNCHANGED <<resource, epoch, view, ticket, draft, writing, reconcile, backups, sent, doubtful>>
  BY DEF Inv, OpenEditor, history, Resources
<1>2. c \in Call /\ c.kind = "detail" /\ c.res = resource /\ c.epoch = epoch /\ c.ticket = 0
  BY <1>1, AskFields DEF Kinds
<1> HIDE DEF c
<1>3. TypeOK' /\ PageIsCurrent'
  BY <1>1, <1>2 DEF TypeOK, Inv, PageIsCurrent, ShownIsCurrent, DraftIsCurrent
<1>4. Selected' /\ Serial' /\ Awaited'
  <2>1. Selected'
    BY <1>1, WorkspaceAssumption DEF Selected, Resources
  <2>2. Serial'
    BY <1>1, <1>2 DEF Inv, Serial
  <2>3. Awaited'
    BY <1>1, <1>2 DEF Inv, Awaited, Current
  <2> QED
    BY <2>1, <2>2, <2>3
<1>5. ASSUME NEW d \in calls' PROVE Addressed(d)'
  BY <1>1, <1>2 DEF Inv, Addressed, Current, TypeOK
<1> QED
  BY <1>3, <1>4, <1>5 DEF Inv

LEMMA DetailAnswerInv ==
    ASSUME Inv, NEW c \in calls, DetailAnswer(c)
    PROVE  Inv'
<1>1. /\ TypeOK /\ c \in Call /\ c.kind = "detail" /\ calls' = calls \ {c} /\ Addressed(c)
      /\ \/ c.epoch # epoch /\ loadingDetail' = loadingDetail
         \/ c.epoch = epoch /\ loadingDetail' = FALSE
      /\ UNCHANGED <<resource, epoch, view, ticket, writing, reconcile, backups, sent, doubtful>>
  BY DEF Inv, DetailAnswer, TypeOK, history
<1>2. /\ draft' \in [editing : BOOLEAN, res : Resources \cup {NoRes}, uuid : Ids \cup {NoId}, dirty : BOOLEAN]
      /\ draft'.editing => draft'.res = resource
  <2>0. draft.editing => draft.res = resource
    BY DEF Inv, PageIsCurrent, DraftIsCurrent
  <2>1. CASE draft' = draft
    BY <2>0, <2>1, <1>1 DEF TypeOK
  <2>2. CASE c.epoch = epoch /\ draft' = [editing |-> TRUE, res |-> c.res, uuid |-> c.uuid, dirty |-> FALSE]
    <3>1. c.res = resource
      BY <2>2, <1>1 DEF Addressed
    <3>2. resource \in Resources \cup {NoRes}
      BY <1>1 DEF TypeOK
    <3>3. c.uuid \in Ids \cup {NoId}
      BY <1>1, CallTypes
    <3> QED
      BY <2>2, <3>1, <3>2, <3>3
  <2>3. CASE draft' = [draft EXCEPT !.editing = FALSE, !.uuid = NoId]
    <3>1. draft \in [editing : BOOLEAN, res : Resources \cup {NoRes}, uuid : Ids \cup {NoId}, dirty : BOOLEAN]
      BY <1>1 DEF TypeOK
    <3> QED
      BY <2>3, <3>1
  <2>4. \/ draft' = draft
        \/ c.epoch = epoch /\ draft' = [editing |-> TRUE, res |-> c.res, uuid |-> c.uuid, dirty |-> FALSE]
        \/ draft' = [draft EXCEPT !.editing = FALSE, !.uuid = NoId]
    BY DEF DetailAnswer
  <2> QED
    BY <2>1, <2>2, <2>3, <2>4
<1>3. TypeOK'
  <2>1. calls' \subseteq Call /\ loadingDetail' \in BOOLEAN
    BY <1>1 DEF TypeOK
  <2> QED
    BY <1>1, <1>2, <2>1, Zenon DEF TypeOK
<1>4. PageIsCurrent'
  BY <1>1, <1>2 DEF Inv, PageIsCurrent, ShownIsCurrent, DraftIsCurrent
<1>5. Selected' /\ Serial' /\ Awaited'
  <2>1. Selected' /\ Serial'
    BY <1>1 DEF Inv, Selected, Serial
  <2>2. Awaited'
    BY <1>1 DEF Inv, Awaited, Current
  <2> QED
    BY <2>1, <2>2
<1>6. ASSUME NEW d \in calls' PROVE Addressed(d)'
  BY <1>1 DEF Inv, Addressed, Current
<1> QED
  BY <1>3, <1>4, <1>5, <1>6 DEF Inv

\* The actions that change the draft alone, and what the user has confirmed.
LEMMA DraftInv ==
    ASSUME Inv,
           UNCHANGED <<resource, epoch, view, ticket, writing, loadingDetail, backups, calls, sent>>,
           reconcile' \in BOOLEAN, doubtful' \subseteq doubtful,
           draft' \in [editing : BOOLEAN, res : Resources \cup {NoRes}, uuid : Ids \cup {NoId}, dirty : BOOLEAN],
           draft'.editing => draft'.res = resource
    PROVE  Inv'
<1>1. TypeOK'
  BY DEF Inv, TypeOK
<1>2. PageIsCurrent'
  BY DEF Inv, PageIsCurrent, ShownIsCurrent, DraftIsCurrent
<1>3. Selected' /\ Serial' /\ Awaited'
  BY DEF Inv, Selected, Serial, Awaited, Current
<1>4. ASSUME NEW d \in calls' PROVE Addressed(d)'
  BY DEF Inv, Addressed, Current
<1> QED
  BY <1>1, <1>2, <1>3, <1>4 DEF Inv

LEMMA EditorInv ==
    ASSUME Inv, Edit \/ Cancel \/ Reconcile
    PROVE  Inv'
<1>1. /\ TypeOK /\ resource \in Resources \cup {NoRes}
      /\ UNCHANGED <<resource, epoch, view, ticket, writing, loadingDetail, backups, calls, sent>>
  BY DEF Inv, TypeOK, Edit, Cancel, Reconcile, flags, history
<1>2. CASE Edit
  <2>1. /\ draft' = [draft EXCEPT !.dirty = TRUE] /\ reconcile' = reconcile /\ doubtful' = doubtful
    BY <1>2 DEF Edit, flags, history
  <2>2. /\ draft' \in [editing : BOOLEAN, res : Resources \cup {NoRes}, uuid : Ids \cup {NoId}, dirty : BOOLEAN]
        /\ draft'.editing = draft.editing /\ draft'.res = draft.res
    BY <2>1, <1>1 DEF TypeOK
  <2>3. reconcile' \in BOOLEAN /\ (draft'.editing => draft'.res = resource)
    BY <2>1, <2>2, <1>1 DEF TypeOK, Inv, PageIsCurrent, DraftIsCurrent
  <2> QED
    BY <1>1, <2>1, <2>2, <2>3, DraftInv
<1>3. CASE Cancel \/ Reconcile
  <2>1. /\ draft' = Closed(resource) /\ doubtful' \subseteq doubtful /\ reconcile' \in BOOLEAN
    BY <1>3, <1>1 DEF Cancel, Reconcile, flags, history, TypeOK
  <2> QED
    BY <1>1, <2>1, Drafts, DraftInv
<1> QED
  BY <1>2, <1>3

LEMMA WriteInv ==
    ASSUME Inv, Write
    PROVE  Inv'
<1> DEFINE c == [Ask("write", resource, draft.uuid) EXCEPT !.n = sent + 1]
<1>1. /\ TypeOK /\ resource \in Resources /\ writing' = TRUE /\ calls' = calls \cup {c}
      /\ sent + 1 \in 0 .. MaxSent /\ sent' = sent + 1
      /\ UNCHANGED <<resource, epoch, view, ticket, draft, loadingDetail, reconcile, backups, doubtful>>
  BY WorkspaceAssumption DEF Inv, Write, Post, Resources, TypeOK
<1>2. c \in Call /\ c.kind = "write" /\ c.res = resource /\ c.epoch = epoch /\ c.ticket = 0
  <2>1. draft.uuid \in Ids \cup {NoId} /\ "write" \in Kinds
    BY <1>1 DEF TypeOK, Kinds
  <2> QED
    BY <2>1, <1>1, AskFields
<1> HIDE DEF c
<1>3. TypeOK' /\ PageIsCurrent'
  BY <1>1, <1>2 DEF TypeOK, Inv, PageIsCurrent, ShownIsCurrent, DraftIsCurrent
<1>4. Selected' /\ Serial' /\ Awaited'
  <2>1. Selected'
    BY <1>1, WorkspaceAssumption DEF Selected, Resources
  <2>2. Serial'
    BY <1>1, <1>2 DEF Inv, Serial
  <2>3. Awaited'
    BY <1>1, <1>2 DEF Inv, Awaited, Current
  <2> QED
    BY <2>1, <2>2, <2>3
<1>5. ASSUME NEW d \in calls' PROVE Addressed(d)'
  BY <1>1, <1>2 DEF Inv, Addressed, Current, TypeOK
<1> QED
  BY <1>3, <1>4, <1>5 DEF Inv

LEMMA WriteDoneInv ==
    ASSUME Inv, NEW c \in calls, WriteDone(c)
    PROVE  Inv'
<1>1. /\ TypeOK /\ c \in Call /\ c.kind = "write" /\ writing' = FALSE /\ draft' = NoDraft
      /\ resource \in Resources
      /\ UNCHANGED <<resource, epoch, loadingDetail, reconcile, backups, sent, doubtful>>
  BY DEF Inv, WriteDone, TypeOK, history, Selected
<1>2. DraftIsCurrent' /\ Selected'
  BY <1>1, Drafts, WorkspaceAssumption DEF DraftIsCurrent, Selected, Resources
<1>3. draft' \in [editing : BOOLEAN, res : Resources \cup {NoRes}, uuid : Ids \cup {NoId}, dirty : BOOLEAN]
  BY <1>1, Drafts
<1>4. CASE loadingDetail \/ backups.busy
  <2>1. calls' = calls \ {c} /\ UNCHANGED <<view, ticket>>
    BY <1>4 DEF WriteDone
  <2>2. TypeOK' /\ PageIsCurrent'
    <3>1. TypeOK'
      BY <1>1, <1>3, <2>1 DEF TypeOK
    <3>2. ShownIsCurrent'
      BY <1>1, <2>1 DEF Inv, PageIsCurrent, ShownIsCurrent
    <3> QED
      BY <3>1, <3>2, <1>2 DEF PageIsCurrent
  <2>3. Serial' /\ Awaited'
    BY <1>1, <2>1 DEF Inv, Serial, Awaited, Current
  <2>4. ASSUME NEW d \in calls' PROVE Addressed(d)'
    BY <1>1, <2>1 DEF Inv, Addressed, Current
  <2> QED
    BY <1>2, <2>2, <2>3, <2>4 DEF Inv
<1>5. CASE ~(loadingDetail \/ backups.busy)
  <2> DEFINE a == ListCall(resource, epoch, view.page, TRUE)
  <2>1. /\ ticket < MaxTicket /\ ticket' = ticket + 1 /\ ticket' \in 0 .. MaxTicket
        /\ view' = [view EXCEPT !.listing = TRUE] /\ calls' = (calls \ {c}) \cup {a}
    <3>1. /\ ticket < MaxTicket /\ ticket' = ticket + 1
          /\ view' = [view EXCEPT !.listing = TRUE] /\ calls' = (calls \ {c}) \cup {a}
      BY <1>5, Zenon DEF WriteDone
    <3> QED
      BY <3>1, <1>1, WorkspaceAssumption DEF TypeOK
  <2>2. ListFor(a, resource, epoch, view.page)
    BY <2>1, <1>1, ListFields DEF TypeOK
  <2> HIDE DEF a
  <2>3. /\ view' \in [loaded : BOOLEAN, listing : BOOLEAN, page : Pages,
                      rows : [res : Resources \cup {NoRes}, page : Pages]]
        /\ view'.loaded = view.loaded /\ view'.listing /\ view'.page = view.page /\ view'.rows = view.rows
    BY <2>1, <1>1 DEF TypeOK
  <2>4. TypeOK'
    BY <1>1, <1>3, <2>1, <2>2, <2>3 DEF TypeOK, ListFor
  <2>5. PageIsCurrent'
    BY <1>1, <1>2, <2>3 DEF Inv, PageIsCurrent, ShownIsCurrent
  <2>6. Serial'
    BY <1>1, <2>1, <2>2 DEF Inv, Serial, ListFor
  <2>7. Awaited'
    <3>1. ~writing' /\ ~loadingDetail' /\ ~backups'.busy
      BY <1>1, <1>5
    <3>2. \E d \in calls' : d.kind = "list" /\ d.epoch = epoch' /\ d.ticket = ticket'
      BY <1>1, <2>1, <2>2 DEF ListFor
    <3> QED
      BY <3>1, <3>2 DEF Awaited, Current
  <2>8. ASSUME NEW d \in calls' PROVE Addressed(d)'
    <3>1. CASE d \in calls
      <4>1. d \in Call /\ d.ticket <= ticket /\ d.epoch <= epoch /\ (d.epoch = epoch => d.res = resource)
        BY <3>1, <1>1 DEF Inv, Addressed, TypeOK
      <4> QED
        BY <4>1, <1>1, <2>1, CallTypes DEF Addressed, Current, TypeOK
    <3>2. CASE d = a
      BY <3>2, <1>1, <2>1, <2>2, <2>3 DEF Addressed, Current, ListFor, TypeOK
    <3> QED
      BY <3>1, <3>2, <2>1
  <2> QED
    BY <1>2, <2>4, <2>5, <2>6, <2>7, <2>8 DEF Inv
<1> QED
  BY <1>4, <1>5

\* The answers that leave the page unlocked and start nothing.
LEMMA AnsweredInv ==
    ASSUME Inv, NEW c \in calls, c.kind \in {"write", "operate"}, calls' = calls \ {c}, writing' = FALSE,
           UNCHANGED <<resource, epoch, view, ticket, loadingDetail, backups, sent>>,
           reconcile' \in BOOLEAN, doubtful' \subseteq doubtful \cup {"firewall"},
           draft' \in [editing : BOOLEAN, res : Resources \cup {NoRes}, uuid : Ids \cup {NoId}, dirty : BOOLEAN],
           draft'.editing => draft'.res = resource
    PROVE  Inv'
<1>1. TypeOK'
  BY DEF Inv, TypeOK
<1>2. PageIsCurrent'
  BY DEF Inv, PageIsCurrent, ShownIsCurrent, DraftIsCurrent
<1>3. Selected' /\ Serial' /\ Awaited'
  <2>1. Selected' /\ Serial'
    BY DEF Inv, Selected, Serial
  <2>2. Awaited'
    BY DEF Inv, Awaited, Current
  <2> QED
    BY <2>1, <2>2
<1>4. ASSUME NEW d \in calls' PROVE Addressed(d)'
  BY DEF Inv, Addressed, Current
<1> QED
  BY <1>1, <1>2, <1>3, <1>4 DEF Inv

LEMMA WriteFailedInv ==
    ASSUME Inv, NEW c \in calls, WriteFailed(c)
    PROVE  Inv'
<1>1. /\ c.kind \in {"write", "operate"} /\ calls' = calls \ {c} /\ writing' = FALSE
      /\ UNCHANGED <<resource, epoch, view, ticket, draft, loadingDetail, backups, sent>>
  BY DEF WriteFailed
<1>2. reconcile' \in BOOLEAN /\ doubtful' \subseteq doubtful \cup {"firewall"}
  BY DEF WriteFailed, InDoubt
<1>3. /\ draft' \in [editing : BOOLEAN, res : Resources \cup {NoRes}, uuid : Ids \cup {NoId}, dirty : BOOLEAN]
      /\ draft'.editing => draft'.res = resource
  BY <1>1 DEF Inv, TypeOK, PageIsCurrent, DraftIsCurrent
<1> QED
  BY <1>1, <1>2, <1>3, AnsweredInv

LEMMA OperateInv ==
    ASSUME Inv, Operate
    PROVE  Inv'
<1>1. \E n \in 0 .. MaxSent, c \in Call :
        /\ c.kind = "operate" /\ c.res = resource /\ c.epoch = epoch /\ c.ticket = 0
        /\ calls' = calls \cup {c} /\ sent' = n
  <2>1. /\ TypeOK /\ resource \in Resources /\ NoId \in Ids \cup {NoId} /\ "operate" \in Kinds
    BY DEF Inv, Operate, Operations, Resources, Kinds
  <2>2. CASE resource \in Commands /\ Post("operate", NoId)
    <3> DEFINE c == [Ask("operate", resource, NoId) EXCEPT !.n = sent + 1]
    <3>1. sent + 1 \in 0 .. MaxSent /\ sent' = sent + 1 /\ calls' = calls \cup {c}
      BY <2>2, <2>1, WorkspaceAssumption DEF Post, TypeOK
    <3>2. c \in Call /\ c.kind = "operate" /\ c.res = resource /\ c.epoch = epoch /\ c.ticket = 0
      BY <2>1, <3>1, AskFields
    <3> HIDE DEF c
    <3> QED
      BY <3>1, <3>2
  <2>3. CASE calls' = calls \cup {Ask("operate", resource, NoId)} /\ UNCHANGED sent
    BY <2>1, <2>3, AskFields DEF TypeOK
  <2> QED
    BY <2>2, <2>3 DEF Operate
<1>2. PICK n \in 0 .. MaxSent, c \in Call :
        /\ c.kind = "operate" /\ c.res = resource /\ c.epoch = epoch /\ c.ticket = 0
        /\ calls' = calls \cup {c} /\ sent' = n
  BY <1>1
<1>3. /\ TypeOK /\ resource \in Resources /\ writing' = TRUE
      /\ UNCHANGED <<resource, epoch, view, ticket, draft, loadingDetail, reconcile, backups, doubtful>>
  BY DEF Inv, Operate, Operations, Resources
<1>4. TypeOK' /\ PageIsCurrent'
  BY <1>2, <1>3 DEF TypeOK, Inv, PageIsCurrent, ShownIsCurrent, DraftIsCurrent
<1>5. Selected' /\ Serial' /\ Awaited'
  <2>1. Selected'
    BY <1>3, WorkspaceAssumption DEF Selected, Resources
  <2>2. Serial'
    BY <1>2, <1>3 DEF Inv, Serial
  <2>3. Awaited'
    BY <1>2, <1>3 DEF Inv, Awaited, Current
  <2> QED
    BY <2>1, <2>2, <2>3
<1>6. ASSUME NEW d \in calls' PROVE Addressed(d)'
  BY <1>2, <1>3 DEF Inv, Addressed, Current, TypeOK
<1> QED
  BY <1>4, <1>5, <1>6 DEF Inv

LEMMA OperateAnswerInv ==
    ASSUME Inv, NEW c \in calls, OperateAnswer(c)
    PROVE  Inv'
<1>1. /\ TypeOK /\ c.kind \in {"write", "operate"} /\ calls' = calls \ {c} /\ writing' = FALSE
      /\ UNCHANGED <<resource, epoch, view, ticket, loadingDetail, backups, sent>>
  BY DEF Inv, OperateAnswer
<1>2. reconcile' \in BOOLEAN /\ doubtful' \subseteq doubtful \cup {"firewall"}
  BY <1>1 DEF OperateAnswer, InDoubt, TypeOK
<1>3. draft' = draft \/ draft' = [draft EXCEPT !.dirty = FALSE]
  BY DEF OperateAnswer
<1>4. /\ draft' \in [editing : BOOLEAN, res : Resources \cup {NoRes}, uuid : Ids \cup {NoId}, dirty : BOOLEAN]
      /\ draft'.editing = draft.editing /\ draft'.res = draft.res
  BY <1>1, <1>3 DEF TypeOK
<1>5. draft'.editing => draft'.res = resource
  BY <1>4 DEF Inv, PageIsCurrent, DraftIsCurrent
<1> QED
  BY <1>1, <1>2, <1>4, <1>5, AnsweredInv

LEMMA TakeInv ==
    ASSUME Inv, NEW c \in Call, c.kind \in OfCopies, c.res = resource, c.epoch = epoch, c.ticket = 0,
           Take(c), sent' \in 0 .. MaxSent
    PROVE  Inv'
<1>1. /\ TypeOK /\ resource = Copies /\ ~backups.busy /\ resource \notin Lists
      /\ backups' = [backups EXCEPT !.busy = TRUE] /\ calls' = calls \cup {c}
      /\ UNCHANGED <<resource, epoch, view, ticket, draft, writing, loadingDetail, reconcile, doubtful>>
  BY WorkspaceAssumption DEF Inv, Take, Free, flags
<1>2. /\ backups' \in [busy : BOOLEAN, loaded : BOOLEAN, shown : BOOLEAN, uncertain : BOOLEAN]
      /\ backups'.busy /\ backups'.uncertain = backups.uncertain
  BY <1>1 DEF TypeOK
<1>3. TypeOK' /\ PageIsCurrent'
  BY <1>1, <1>2 DEF TypeOK, Inv, PageIsCurrent, ShownIsCurrent, DraftIsCurrent
<1>4. Selected' /\ Serial' /\ Awaited'
  <2>1. Selected'
    BY <1>1, WorkspaceAssumption DEF Selected
  <2>2. Serial'
    BY <1>1, <1>2 DEF Inv, Serial, OfCopies
  <2>3. Awaited'
    BY <1>1, <1>2 DEF Inv, Awaited, Current, OfCopies
  <2> QED
    BY <2>1, <2>2, <2>3
<1>5. ASSUME NEW d \in calls' PROVE Addressed(d)'
  BY <1>1 DEF Inv, Addressed, Current, TypeOK, OfCopies
<1> QED
  BY <1>3, <1>4, <1>5 DEF Inv

LEMMA CopiesInv ==
    ASSUME Inv, LoadBackups \/ DownloadBackup \/ MutateBackup
    PROVE  Inv'
<1>1. /\ TypeOK /\ Copies \in Resources /\ NoId \in Ids \cup {NoId} /\ OfCopies \subseteq Kinds
  BY DEF Inv, Resources, OfCopies, Kinds
<1>2. CASE LoadBackups \/ DownloadBackup
  <2>1. PICK kind \in OfCopies : Take(Ask(kind, Copies, NoId)) /\ UNCHANGED sent
    BY <1>2 DEF LoadBackups, DownloadBackup, OfCopies
  <2> DEFINE c == Ask(kind, Copies, NoId)
  <2>2. c \in Call /\ c.kind \in OfCopies /\ c.res = Copies /\ c.epoch = epoch /\ c.ticket = 0
    BY <1>1, AskFields
  <2> HIDE DEF c
  <2>3. Take(c) /\ sent' \in 0 .. MaxSent /\ resource = Copies
    BY <2>1, <1>1 DEF c, TypeOK, Take
  <2> QED
    BY <2>2, <2>3, TakeInv
<1>3. CASE MutateBackup
  <2> DEFINE c == [Ask("mutate", Copies, NoId) EXCEPT !.n = sent + 1]
  <2>1. sent + 1 \in 0 .. MaxSent /\ sent' = sent + 1 /\ Take(c)
    BY <1>1, <1>3, WorkspaceAssumption DEF MutateBackup, TypeOK
  <2>2. c \in Call /\ c.kind = "mutate" /\ c.res = Copies /\ c.epoch = epoch /\ c.ticket = 0
    BY <1>1, <2>1, AskFields DEF OfCopies
  <2> HIDE DEF c
  <2>3. resource = Copies /\ c.kind \in OfCopies
    BY <2>1, <2>2 DEF Take, OfCopies
  <2> QED
    BY <2>1, <2>2, <2>3, TakeInv
<1> QED
  BY <1>2, <1>3

LEMMA BackupAnswerInv ==
    ASSUME Inv, NEW c \in calls, BackupAnswer(c)
    PROVE  Inv'
<1> DEFINE a == Ask("backups", Copies, NoId)
<1>1. /\ TypeOK /\ c \in Call /\ c.kind \in OfCopies /\ resource \in Resources
      /\ UNCHANGED <<resource, epoch, view, ticket, draft, writing, loadingDetail, reconcile, sent>>
  BY DEF Inv, BackupAnswer, TypeOK, flags, OfCopies, Selected
<1>2. resource = Copies /\ \A d \in calls : d.kind \in OfCopies => d = c
  BY <1>1 DEF Inv, Serial, OfCopies, Addressed
<1>3. a \in Call /\ a.kind = "backups" /\ a.res = Copies /\ a.epoch = epoch /\ a.ticket = 0
  <2>1. "backups" \in Kinds /\ Copies \in Resources /\ NoId \in Ids \cup {NoId}
    BY DEF Kinds, Resources
  <2> QED
    BY <2>1, <1>1, AskFields
<1> HIDE DEF a
<1>4. /\ backups' \in [busy : BOOLEAN, loaded : BOOLEAN, shown : BOOLEAN, uncertain : BOOLEAN]
      /\ doubtful' \subseteq {"firewall", "backups"}
      /\ ("backups" \in doubtful' => backups'.uncertain)
      /\ \/ ~backups'.busy /\ calls' = calls \ {c}
         \/ backups'.busy /\ calls' = (calls \ {c}) \cup {a} /\ c.kind = "mutate"
  <2>1. ASSUME NEW ok \in BOOLEAN, backups' = [backups EXCEPT !.busy = FALSE, !.loaded = ok, !.shown = @ \/ ok]
        PROVE  /\ backups' \in [busy : BOOLEAN, loaded : BOOLEAN, shown : BOOLEAN, uncertain : BOOLEAN]
               /\ ~backups'.busy /\ backups'.uncertain = backups.uncertain
    BY <2>1, <1>1 DEF TypeOK
  <2>2. ASSUME NEW b \in BOOLEAN, backups' = [backups EXCEPT !.busy = b]
        PROVE  /\ backups' \in [busy : BOOLEAN, loaded : BOOLEAN, shown : BOOLEAN, uncertain : BOOLEAN]
               /\ backups'.busy = b /\ backups'.uncertain = backups.uncertain
    BY <2>2, <1>1 DEF TypeOK
  <2>3. ASSUME NEW definite \in BOOLEAN, backups' = [backups EXCEPT !.busy = FALSE, !.uncertain = @ \/ ~definite]
        PROVE  /\ backups' \in [busy : BOOLEAN, loaded : BOOLEAN, shown : BOOLEAN, uncertain : BOOLEAN]
               /\ ~backups'.busy /\ backups'.uncertain = (backups.uncertain \/ ~definite)
    BY <2>3, <1>1 DEF TypeOK
  <2>4. "backups" \in doubtful => backups.uncertain
    BY DEF Inv, Serial
  <2>5. CASE c.kind = "backups"
    BY <2>1, <2>4, <2>5, <1>1 DEF BackupAnswer, TypeOK
  <2>6. CASE c.kind = "download"
    BY <2>2, <2>4, <2>6, <1>1 DEF BackupAnswer, TypeOK
  <2>7. CASE /\ c.kind = "mutate" /\ backups' = [backups EXCEPT !.busy = TRUE]
             /\ calls' = (calls \ {c}) \cup {a} /\ UNCHANGED doubtful
    BY <2>2, <2>4, <2>7, <1>1 DEF TypeOK
  <2>8. ASSUME c.kind = "mutate", NEW definite \in BOOLEAN,
               backups' = [backups EXCEPT !.busy = FALSE, !.uncertain = @ \/ ~definite],
               IF definite THEN UNCHANGED doubtful ELSE doubtful' = doubtful \cup {"backups"},
               calls' = calls \ {c}
        PROVE  /\ backups' \in [busy : BOOLEAN, loaded : BOOLEAN, shown : BOOLEAN, uncertain : BOOLEAN]
               /\ doubtful' \subseteq {"firewall", "backups"}
               /\ "backups" \in doubtful' => backups'.uncertain
               /\ ~backups'.busy
    <3>1. /\ backups' \in [busy : BOOLEAN, loaded : BOOLEAN, shown : BOOLEAN, uncertain : BOOLEAN]
          /\ ~backups'.busy /\ backups'.uncertain = (backups.uncertain \/ ~definite)
      BY <2>3, <2>8
    <3>2. doubtful \subseteq {"firewall", "backups"}
      BY <1>1 DEF TypeOK
    <3>3. CASE definite
      BY <3>1, <3>2, <3>3, <2>4, <2>8
    <3>4. CASE ~definite
      BY <3>1, <3>2, <3>4, <2>8
    <3> QED
      BY <3>1, <3>3, <3>4
  <2> QED
    BY <2>5, <2>6, <2>7, <2>8 DEF BackupAnswer, a
<1>5. TypeOK' /\ PageIsCurrent'
  BY <1>1, <1>3, <1>4 DEF TypeOK, Inv, PageIsCurrent, ShownIsCurrent, DraftIsCurrent
<1>6. Selected' /\ Serial' /\ Awaited'
  <2>1. Selected'
    BY <1>1, WorkspaceAssumption DEF Selected, Resources
  <2>2. Serial'
    BY <1>1, <1>2, <1>3, <1>4 DEF Serial, OfCopies
  <2>3. Awaited'
    BY <1>1, <1>3, <1>4 DEF Inv, Awaited, Current, OfCopies
  <2> QED
    BY <2>1, <2>2, <2>3
<1>7. ASSUME NEW d \in calls' PROVE Addressed(d)'
  BY <1>1, <1>2, <1>3, <1>4 DEF Inv, Addressed, Current, TypeOK
<1> QED
  BY <1>5, <1>6, <1>7 DEF Inv

LEMMA ReconcileBackupsInv ==
    ASSUME Inv, ReconcileBackups
    PROVE  Inv'
<1>1. /\ TypeOK /\ ~backups.busy /\ backups' = [backups EXCEPT !.uncertain = FALSE]
      /\ doubtful' = doubtful \ {"backups"}
      /\ UNCHANGED <<resource, epoch, view, ticket, draft, writing, loadingDetail, reconcile, calls, sent>>
  BY DEF Inv, ReconcileBackups, Free, flags
<1>2. /\ backups' \in [busy : BOOLEAN, loaded : BOOLEAN, shown : BOOLEAN, uncertain : BOOLEAN]
      /\ backups'.busy = backups.busy
  BY <1>1 DEF TypeOK
<1>3. TypeOK' /\ PageIsCurrent'
  BY <1>1, <1>2 DEF TypeOK, Inv, PageIsCurrent, ShownIsCurrent, DraftIsCurrent
<1>4. Selected' /\ Serial' /\ Awaited'
  BY <1>1, <1>2 DEF Inv, Selected, Serial, Awaited, Current
<1>5. ASSUME NEW d \in calls' PROVE Addressed(d)'
  BY <1>1 DEF Inv, Addressed, Current
<1> QED
  BY <1>3, <1>4, <1>5 DEF Inv

LEMMA NextInv ==
    ASSUME Inv, [Next]_vars
    PROVE  Inv'
<1>1. ASSUME NEW c \in calls, Answer(c) PROVE Inv'
  BY <1>1, ListAnswerInv, DetailAnswerInv, WriteDoneInv, WriteFailedInv, OperateAnswerInv, BackupAnswerInv
  DEF Answer
<1>2. CASE UNCHANGED vars
  <2>1. /\ TypeOK' /\ PageIsCurrent' /\ Selected'
    BY <1>2 DEF vars, flags, history, Inv, TypeOK, PageIsCurrent, ShownIsCurrent, DraftIsCurrent, Selected
  <2>2. Serial' /\ Awaited'
    BY <1>2 DEF vars, flags, history, Inv, Serial, Awaited, Current
  <2>3. ASSUME NEW d \in calls' PROVE Addressed(d)'
    BY <1>2 DEF vars, flags, history, Inv, Addressed, Current
  <2> QED
    BY <2>1, <2>2, <2>3 DEF Inv
<1> QED
  BY <1>1, <1>2, SelectInv, LoadListInv, OpenEditorInv, EditorInv, WriteInv, OperateInv, CopiesInv,
     ReconcileBackupsInv
  DEF Next

-----------------------------------------------------------------------------
(* What follows *)

\* The page as a whole: every call is addressed, every flag is awaited.
THEOREM Invariant == Spec => []Inv
<1>1. Init => Inv
  BY InitInv
<1>2. Inv /\ [Next]_vars => Inv'
  BY NextInv
<1> QED
  BY <1>1, <1>2, PTL DEF Spec

\* The state of the page stays in its types.
THEOREM TypeCorrect == Spec => []TypeOK
<1>1. Inv => TypeOK
  BY DEF Inv
<1> QED
  BY <1>1, Invariant, PTL

\* What is shown and what is edited belong to the selected resource, and the
\* rows to the page of the controls: loadList compares epoch and listTicket
\* before it renders, openEditor the epoch.
THEOREM PageCurrent == Spec => []PageIsCurrent
<1>1. Inv => PageIsCurrent
  BY DEF Inv
<1> QED
  BY <1>1, Invariant, PTL

\* The page never locks itself: writing, loadingDetail, backups.busy and the
\* listing flag of a shown list have each an answer to come that clears them.
THEOREM QuietUsable == Spec => []QuietIsUsable
<1>1. Inv => QuietIsUsable
  BY DEF Inv, Awaited, QuietIsUsable, Locked
<1> QED
  BY <1>1, Invariant, PTL

\* mutateBackup posts one change at a time, and none while the one before is in
\* doubt.
THEOREM BackupChanges == Spec => BackupsSerial
<1>1. Inv /\ [Next]_vars =>
        [sent' # sent /\ resource = Copies =>
           "backups" \notin doubtful /\ \A c \in calls : c.kind # "mutate"]_vars
  <2> SUFFICES ASSUME Inv, Next, sent' # sent, resource = Copies
               PROVE  "backups" \notin doubtful /\ \A c \in calls : c.kind # "mutate"
    BY DEF vars, history
  <2>1. MutateBackup
    <3>1. resource \notin Lists /\ resource \notin Commands
      BY WorkspaceAssumption
    <3>2. ~Write /\ ~Operate
      BY <3>1 DEF Write, Operate
    <3>3. \A r \in Resources : ~Select(r)
      BY DEF Select, history
    <3>4. ASSUME NEW c \in calls PROVE ~Answer(c)
      BY DEF Answer, ListAnswer, DetailAnswer, WriteDone, WriteFailed, OperateAnswer, BackupAnswer, history
    <3>5. \A k \in Pages : ~LoadList(k)
      BY DEF LoadList, history
    <3>6. \A u \in Ids \cup {NoId} : ~OpenEditor(u)
      BY DEF OpenEditor, history
    <3>7. ~Edit /\ ~Cancel /\ ~Reconcile /\ ~LoadBackups /\ ~DownloadBackup /\ ~ReconcileBackups
      BY DEF Edit, Cancel, Reconcile, LoadBackups, DownloadBackup, ReconcileBackups, history
    <3> QED
      BY <3>2, <3>3, <3>4, <3>5, <3>6, <3>7 DEF Next
  <2>2. ~backups.uncertain /\ ~backups.busy
    BY <2>1 DEF MutateBackup, Take, Free
  <2> QED
    BY <2>2 DEF Inv, Serial
<1> QED
  BY <1>1, Invariant, PTL DEF Spec, BackupsSerial
=============================================================================
