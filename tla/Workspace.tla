------------------------------ MODULE Workspace ------------------------------
(***************************************************************************)
(* The administrative page (src/workspace.js) of an administrator who may  *)
(* write.  The browser runs one handler at a time; each await lets others  *)
(* run, and the answers of the server arrive in any order.  A handler is   *)
(* an action per stretch between two awaits; the server is external.       *)
(***************************************************************************)
EXTENDS Naturals, FiniteSets

CONSTANTS
    Lists,          \* resources with entries
    Queries,        \* operations that read (GET)
    Commands,       \* operations that change the firewall (POST)
    Copies,         \* the page of local backups
    NoRes,          \* nothing is selected
    Ids, NoId,      \* entries
    Pages,          \* what a list may be asked for: page and search
    MaxEpoch, MaxTicket, MaxSent    \* bounds: selections, lists, changes

ASSUME WorkspaceAssumption ==
    /\ Copies \notin Lists \cup Queries \cup Commands
    /\ NoRes \notin Lists \cup Queries \cup Commands \cup {Copies}
    /\ Lists \cap (Queries \cup Commands) = {} /\ Queries \cap Commands = {}
    /\ NoId \notin Ids /\ 1 \in Pages
    /\ MaxEpoch \in Nat /\ MaxTicket \in Nat /\ MaxSent \in Nat

Resources == Lists \cup Queries \cup Commands \cup {Copies}
Operations == Queries \cup Commands
NoRows == [res |-> NoRes, page |-> 1]
NoDraft == [editing |-> FALSE, res |-> NoRes, uuid |-> NoId, dirty |-> FALSE]

VARIABLES
    resource, epoch,    \* state.resource and the number of selections
    view,               \* loaded, listing, page and rows: what the list shows
    ticket,             \* state.listTicket
    draft,              \* the editor: editing, its resource and uuid, dirty
    writing, loadingDetail, reconcile,
    backups,            \* busy, loaded and uncertain; shown: a list was rendered
    calls,              \* fetches whose answer has not arrived
    sent,               \* changes posted so far
    doubtful            \* history: where a change is in doubt that the user has not confirmed

flags == <<writing, loadingDetail, reconcile>>
history == <<sent, doubtful>>
vars == <<resource, epoch, view, ticket, draft, flags, backups, calls, history>>

Call == [kind : {"list", "detail", "write", "operate", "backups", "mutate", "download"},
         res : Resources, uuid : Ids \cup {NoId}, page : Pages,
         epoch : 0 .. MaxEpoch, ticket : 0 .. MaxTicket, n : 0 .. MaxSent, tail : BOOLEAN]

TypeOK ==
    /\ resource \in Resources \cup {NoRes}
    /\ epoch \in 0 .. MaxEpoch /\ ticket \in 0 .. MaxTicket
    /\ view \in [loaded : BOOLEAN, listing : BOOLEAN, page : Pages,
                 rows : [res : Resources \cup {NoRes}, page : Pages]]
    /\ draft \in [editing : BOOLEAN, res : Resources \cup {NoRes}, uuid : Ids \cup {NoId}, dirty : BOOLEAN]
    /\ writing \in BOOLEAN /\ loadingDetail \in BOOLEAN /\ reconcile \in BOOLEAN
    /\ backups \in [busy : BOOLEAN, loaded : BOOLEAN, shown : BOOLEAN, uncertain : BOOLEAN]
    /\ calls \subseteq Call
    /\ sent \in 0 .. MaxSent
    /\ doubtful \subseteq {"firewall", "backups"}

-----------------------------------------------------------------------------

Ask(kind, r, u) ==
    [kind |-> kind, res |-> r, uuid |-> u, page |-> 1, epoch |-> epoch,
     ticket |-> 0, n |-> 0, tail |-> FALSE]

Locked == writing \/ loadingDetail \/ backups.busy
Writable == view.loaded /\ ~Locked /\ ~reconcile

\* allowDiscard: the user agrees to lose a draft, or does nothing at all.
MutantAllowDiscard == ~reconcile     \* mutant: forgets the locks
AllowDiscard == ~Locked /\ ~reconcile

MutantClosed(r) == [draft EXCEPT !.dirty = FALSE]     \* mutant: the editor stays open
\* closeEditor, and openOperation for an operation.
Closed(r) == IF r \in Operations THEN [NoDraft EXCEPT !.editing = TRUE, !.res = r] ELSE NoDraft

MutantListCall(r, e, k, tail) ==     \* mutant: the page is counted up twice
    [Ask("list", r, NoId) EXCEPT !.page = k + 1, !.epoch = e, !.ticket = ticket + 1, !.tail = tail]
\* loadList: called with the flags of now, answered with the epoch and ticket of now.
ListCall(r, e, k, tail) ==
    [Ask("list", r, NoId) EXCEPT !.page = k, !.epoch = e, !.ticket = ticket + 1, !.tail = tail]
LoadList(k) ==
    /\ resource \in Lists /\ ~Locked /\ ~view.listing
    /\ ticket < MaxTicket /\ ticket' = ticket + 1
    /\ view' = [view EXCEPT !.listing = TRUE, !.page = k]
    /\ calls' = calls \cup {ListCall(resource, epoch, k, FALSE)}
    /\ UNCHANGED <<resource, epoch, draft, flags, backups, history>>

\* selectResource, by a click or by the address bar.  A list still under way
\* keeps its listing flag, and its answer will be dropped.
Select(r) ==
    /\ r # resource /\ AllowDiscard
    /\ epoch < MaxEpoch /\ epoch' = epoch + 1
    /\ resource' = r
    /\ draft' = Closed(r)
    /\ view' = [loaded |-> r \in Operations, listing |-> view.listing \/ r \in Lists, page |-> 1, rows |-> NoRows]
    /\ \/ /\ r \in Lists
          /\ ticket < MaxTicket /\ ticket' = ticket + 1
          /\ calls' = calls \cup {ListCall(r, epoch', 1, FALSE)}
          /\ UNCHANGED <<writing, backups>>
       \/ /\ r \in Queries
          /\ writing' = TRUE     \* no field is required
          /\ calls' = calls \cup {[Ask("operate", r, NoId) EXCEPT !.epoch = epoch']}
          /\ UNCHANGED <<ticket, backups>>
       \/ /\ r = Copies
          /\ backups' = [backups EXCEPT !.busy = TRUE]
          /\ calls' = calls \cup {[Ask("backups", r, NoId) EXCEPT !.epoch = epoch']}
          /\ UNCHANGED <<ticket, writing>>
       \/ r \in Operations /\ UNCHANGED <<ticket, calls, writing, backups>>
    /\ UNCHANGED <<loadingDetail, reconcile, history>>

\* Only the answer to the latest list of this selection counts.
MutantCurrent(c) == c.epoch = epoch     \* mutant: the ticket is not compared
Current(c) == c.epoch = epoch /\ c.ticket = ticket

\* The answer of a list; the last one of write ends that handler too.
ListAnswer(c) ==
    /\ c \in calls /\ c.kind = "list"
    /\ calls' = calls \ {c}
    /\ IF Current(c)
         THEN \E ok \in IF c.res \in Lists THEN BOOLEAN ELSE {FALSE} :
                view' = [view EXCEPT !.listing = FALSE, !.loaded = ok,
                           !.rows = IF ok THEN [res |-> c.res, page |-> c.page] ELSE NoRows]
         ELSE UNCHANGED view
    /\ writing' = (writing /\ ~c.tail)
    /\ UNCHANGED <<resource, epoch, ticket, draft, loadingDetail, reconcile, backups, history>>

-----------------------------------------------------------------------------
(* The editor *)

\* A new entry, or the detail button of a row; the button is live during a list.
OpenEditor(u) ==
    /\ resource \in Lists /\ AllowDiscard /\ view.loaded
    /\ IF u = NoId THEN Writable /\ ~view.listing ELSE view.rows # NoRows
    /\ loadingDetail' = TRUE
    /\ calls' = calls \cup {Ask("detail", resource, u)}
    /\ UNCHANGED <<resource, epoch, view, ticket, draft, writing, reconcile, backups, history>>

DetailAnswer(c) ==
    /\ c \in calls /\ c.kind = "detail"
    /\ calls' = calls \ {c}
    /\ IF c.epoch = epoch
         THEN /\ loadingDetail' = FALSE
              /\ \/ draft' = [editing |-> TRUE, res |-> c.res, uuid |-> c.uuid, dirty |-> FALSE]
                 \/ draft' = [draft EXCEPT !.editing = FALSE, !.uuid = NoId]
         ELSE UNCHANGED <<loadingDetail, draft>>
    /\ UNCHANGED <<resource, epoch, view, ticket, writing, reconcile, backups, history>>

Edit ==
    /\ draft.editing /\ Writable /\ ~draft.dirty
    /\ draft' = [draft EXCEPT !.dirty = TRUE]
    /\ UNCHANGED <<resource, epoch, view, ticket, flags, backups, calls, history>>

Cancel ==
    /\ AllowDiscard /\ draft' = Closed(resource) /\ draft' # draft
    /\ UNCHANGED <<resource, epoch, view, ticket, flags, backups, calls, history>>

\* The user has looked at the firewall.
Reconcile ==
    /\ reconcile /\ ~Locked /\ ~view.listing
    /\ reconcile' = FALSE
    /\ draft' = Closed(resource)
    /\ doubtful' = doubtful \ {"firewall"}
    /\ UNCHANGED <<resource, epoch, view, ticket, writing, loadingDetail, backups, calls, sent>>

-----------------------------------------------------------------------------
(* Changes *)

Post(kind, u) ==
    /\ sent < MaxSent /\ sent' = sent + 1
    /\ calls' = calls \cup {[Ask(kind, resource, u) EXCEPT !.n = sent + 1]}

\* An answer in doubt: neither a success nor a rejection without partial.
InDoubt == doubtful' = doubtful \cup {"firewall"}

\* write: create, update or delete.
Write ==
    /\ resource \in Lists /\ Writable /\ draft.editing
    /\ Post("write", draft.uuid)
    /\ writing' = TRUE
    /\ UNCHANGED <<resource, epoch, view, ticket, draft, loadingDetail, reconcile, backups, doubtful>>

\* Saved and verified: the editor is closed and the list loaded, with the page
\* unlocked; unless loadList finds it locked again.
WriteDone(c) ==
    /\ c \in calls /\ c.kind = "write"
    /\ writing' = FALSE
    /\ draft' = NoDraft
    /\ IF loadingDetail \/ backups.busy
         THEN calls' = calls \ {c} /\ UNCHANGED <<view, ticket>>
         ELSE /\ ticket < MaxTicket /\ ticket' = ticket + 1
              /\ view' = [view EXCEPT !.listing = TRUE]
              /\ calls' = (calls \ {c}) \cup {ListCall(resource, epoch, view.page, TRUE)}
    /\ UNCHANGED <<resource, epoch, loadingDetail, reconcile, backups, history>>

\* Not confirmed: the draft is kept, and a doubtful outcome blocks the page.
WriteFailed(c) ==
    /\ c \in calls /\ c.kind = "write"
    /\ calls' = calls \ {c}
    /\ \E definite \in BOOLEAN :
         /\ reconcile' = ~definite
         /\ IF definite THEN UNCHANGED doubtful ELSE InDoubt
    /\ writing' = FALSE
    /\ UNCHANGED <<resource, epoch, view, ticket, draft, loadingDetail, backups, sent>>

\* operate
Operate ==
    /\ resource \in Operations /\ Writable
    /\ \/ /\ resource \in Commands
          /\ Post("operate", NoId)
       \/ /\ resource \in Queries
          /\ calls' = calls \cup {Ask("operate", resource, NoId)}
          /\ UNCHANGED sent
    /\ writing' = TRUE
    /\ UNCHANGED <<resource, epoch, view, ticket, draft, loadingDetail, reconcile, backups, doubtful>>

\* Verified, definitely rejected, or in doubt; a query never leaves a doubt.
OperateAnswer(c) ==
    /\ c \in calls /\ c.kind = "operate"
    /\ calls' = calls \ {c}
    /\ \/ c.res \in Commands /\ draft' = [draft EXCEPT !.dirty = FALSE] /\ UNCHANGED <<reconcile, doubtful>>
       \/ UNCHANGED <<draft, reconcile, doubtful>>
       \/ c.res \in Commands /\ reconcile' = TRUE /\ InDoubt /\ UNCHANGED draft
    /\ writing' = FALSE
    /\ UNCHANGED <<resource, epoch, view, ticket, loadingDetail, backups, sent>>

-----------------------------------------------------------------------------
(* Local backups *)

MutantFree == TRUE     \* mutant: busy is not looked at
Free == ~backups.busy

\* loadBackups, mutateBackup and downloadBackup take the page for themselves.
Take(c) ==
    /\ resource = Copies /\ Free
    /\ backups' = [backups EXCEPT !.busy = TRUE]
    /\ calls' = calls \cup {c}
    /\ UNCHANGED <<resource, epoch, view, ticket, draft, flags, doubtful>>
LoadBackups == Take(Ask("backups", Copies, NoId)) /\ UNCHANGED sent
DownloadBackup == backups.shown /\ Take(Ask("download", Copies, NoId)) /\ UNCHANGED sent
MutateBackup ==
    /\ backups.loaded /\ ~backups.uncertain
    /\ sent < MaxSent /\ sent' = sent + 1
    /\ Take([Ask("mutate", Copies, NoId) EXCEPT !.n = sent + 1])

\* After a change the list is loaded before the page is free again.
BackupAnswer(c) ==
    /\ c \in calls
    /\ \/ /\ c.kind = "backups"
          /\ \E ok \in BOOLEAN : backups' = [backups EXCEPT !.busy = FALSE, !.loaded = ok, !.shown = @ \/ ok]
          /\ calls' = calls \ {c}
          /\ UNCHANGED doubtful
       \/ /\ c.kind = "download"
          /\ backups' = [backups EXCEPT !.busy = FALSE]
          /\ calls' = calls \ {c}
          /\ UNCHANGED doubtful
       \/ /\ c.kind = "mutate"
          /\ backups' = [backups EXCEPT !.busy = TRUE]
          /\ calls' = (calls \ {c}) \cup {Ask("backups", Copies, NoId)}
          /\ UNCHANGED doubtful
       \/ /\ c.kind = "mutate"
          /\ \E definite \in BOOLEAN :
               /\ backups' = [backups EXCEPT !.busy = FALSE, !.uncertain = @ \/ ~definite]
               /\ IF definite THEN UNCHANGED doubtful ELSE doubtful' = doubtful \cup {"backups"}
          /\ calls' = calls \ {c}
    /\ UNCHANGED <<resource, epoch, view, ticket, draft, flags, sent>>

ReconcileBackups ==
    /\ resource = Copies /\ backups.uncertain /\ Free /\ backups.loaded
    /\ backups' = [backups EXCEPT !.uncertain = FALSE]
    /\ doubtful' = doubtful \ {"backups"}
    /\ UNCHANGED <<resource, epoch, view, ticket, draft, flags, calls, sent>>

-----------------------------------------------------------------------------

\* boot: the catalog is there and nothing is selected.
Init ==
    /\ resource = NoRes /\ epoch = 0 /\ ticket = 0
    /\ view = [loaded |-> FALSE, listing |-> FALSE, page |-> 1, rows |-> NoRows]
    /\ draft = NoDraft
    /\ writing = FALSE /\ loadingDetail = FALSE /\ reconcile = FALSE
    /\ backups = [busy |-> FALSE, loaded |-> FALSE, shown |-> FALSE, uncertain |-> FALSE]
    /\ calls = {} /\ sent = 0 /\ doubtful = {}

Answer(c) ==
    \/ ListAnswer(c) \/ DetailAnswer(c)
    \/ WriteDone(c) \/ WriteFailed(c) \/ OperateAnswer(c)
    \/ BackupAnswer(c)

Next ==
    \/ \E r \in Resources : Select(r)
    \/ \E k \in Pages : LoadList(k)
    \/ \E u \in Ids \cup {NoId} : OpenEditor(u)
    \/ Edit \/ Cancel \/ Reconcile \/ Write \/ Operate
    \/ LoadBackups \/ DownloadBackup \/ MutateBackup \/ ReconcileBackups
    \/ \E c \in calls : Answer(c)

Spec == Init /\ [][Next]_vars

-----------------------------------------------------------------------------

\* The rows on the page are those of the selected resource and, when no list is
\* under way, of the page and search its controls show, whatever order the
\* answers arrive in.
ShownIsCurrent ==
    view.loaded /\ resource \in Lists =>
      /\ view.rows.res = resource
      /\ ~view.listing => view.rows.page = view.page

\* An entry is edited, and posted, under the resource it was read from.
DraftIsCurrent ==
    draft.editing => draft.res = resource

\* Rows and editor belong to what is selected.
PageIsCurrent == ShownIsCurrent /\ DraftIsCurrent

\* When every answer has arrived the page is usable: no flag is left behind by an
\* answer that came late or was dropped.  (Not so the flag of a list that was
\* left for an operation.)
QuietIsUsable ==
    calls = {} => ~Locked /\ (resource \in Lists => ~view.listing)

\* Backups are changed one at a time, and after a doubtful change not before the
\* user has confirmed the list.
BackupsSerial ==
    [][sent' # sent /\ resource = Copies =>
         "backups" \notin doubtful /\ \A c \in calls : c.kind # "mutate"]_vars

\* "La operación pudo haberse guardado ... Los cambios están bloqueados": while a
\* change is in doubt the page posts no other.
DoubtBlocks ==
    [][sent' # sent /\ resource # Copies => "firewall" \notin doubtful]_vars
=============================================================================
