# Verification of the PegaProx OPNsense plugin

TLA+ models of the plugin's write paths, the TLC runs that check them on small
instances, and TLAPS proofs of the most important properties for every
instance. Paths such as `src/src/writers/verified.py` are those of the repository.
`PROJECT.json` lists components, runs, mutants, hazards, findings and theorems,
and maps each definition to the lines it models.

    tlc -workers 2 -config VWxmlrpc.cfg MCVerifiedWriter     # one run
    tlapm VerifiedWriterProofs.tla                           # the proofs of a module

## 1. The system

The plugin runs inside PegaProx, a multi-threaded Flask application. Each HTTP
request is served by a thread of one process; requests share a few module-level
dictionaries, two files (`state/audit.jsonl`, the backup directory) and one or
two OPNsense firewalls that form a CARP pair. A firewall stores a configuration
and runs one: a POST changes the stored configuration, an *apply* POST copies it
to the running service, and an HA synchronization copies a section to the peer.
Nothing is transactional. Administrators use the firewall directly as well.

| Part | State | Operations | What makes it correct |
|---|---|---|---|
| Verified firewall writer (`writers/verified.py`, `port_forward.py`) | `_WRITE_LOCKS`, fields of the writer | create, update, delete of port forwards, rules, aliases: intent, preflight, read, POST, apply, read back, synchronize, clean up, roll back, record | one writer per pair, no lost update, an answer that is true, a rollback that is true or says that it is not, intent before change |
| Write gate (`__init__.py`: `_management_context`, `_firewall_target`, `_h_manage`) | none (configuration) | admit or refuse a write, choose the master | writes go to the one unambiguous master |
| Master cache (`__init__.py`: `_resolved_master_side`, `client/cluster.py`) | `_master_cache` | resolve the node that reads go to | a failover surfaces within the TTL |
| CARP collector (`collectors/carp.py`) | none | classify a node | role of the primary VIP, maintenance is never master |
| HTTP client (`client/opnsense_client.py`) | none | `get` with retries, `post` once | a mutation is never repeated |
| Audit log (`writers/audit.py`) | `audit.jsonl` | append, tail | lines are whole and in order |
| Legacy writers (`writers/alias.py` and seven others) | none | create, update, delete, apply, compensating delete, best-effort record | ok means stored and running; nothing stays unapplied |
| HAVerifier (`writers/hasync_writer.py`) | none | sync, verify in several forms | verified means equal on the peer |
| Management engine (`management/engine.py`) | `_LOCKS` per node and resource | list, detail, mutate of catalogued resources | no lost update, blank secrets kept, verified means true, honest `partial`, a trail of every change |
| CRL service (`management/crl.py`) | `_LOCK` | list, detail, mutate of revocation lists | revocations are never lost, verified saves are one's own, honest `partial` |
| Operations (`management/operations.py`) | none | fixed GET and POST operations with acknowledgement and verification | a claim of verification is true, honest `partial`, a trail |
| Backup store (`management/backups.py`) | key file, encrypted copies | create, list, read, delete | whatever is listed can be decrypted, no second key, answers agree with the directory, races of requests never block the store |
| Catalog (`management/catalog.py`, `identity_catalog.py`) | none | 34 resources, their verbs, applies, secrets and hooks | the engine keeps its promises for each of them |
| Handlers, route builders, collectors, metrics, divergence detector | none | parse, read, reshape | pure functions of one answer |
| Workspace UI (`workspace.js`) | epoch, tickets, `writing`, `loadingDetail`, `reconcile`, `backups.busy` | select, load list, open editor, write, operate, backups, reconcile | a late answer never replaces a newer one; no flag stays set; no change while one is in doubt |
| Panel UI (`opnsense.html`) | tabs, editors, polls | poll, edit | same |

How they interact: a handler calls the gate, which reads the CARP status of both
nodes and returns a client and a peer; it constructs a writer or service for this
one request; the writer serializes on a module-level lock, talks to one or both
nodes through the HTTP client and appends to the audit log. The legacy routes
skip lock, revision and verification. Reads go to the node of the master cache.

What is hard here: requests interleave at every HTTP call; a POST that timed out
may have been executed, not executed, or be executed later; each step of a
multi-step write can fail alone, the audit append included; the CARP roles, the
XMLRPC settings and the objects can change between a check and the step it
guards; the process can be killed between any two steps. In the page, handlers interleave at
every `await` and answers arrive in any order. `PROJECT.json` lists
each hazard at its line, with the properties that would catch it.

## 2. Modules

| Module | Models | Extends, uses |
|---|---|---|
| `AuditedWrite` | what every write path promises about the log (abstract) | |
| `AuditedWriteProofs` | its theorem | `AuditedWrite` |
| `VerifiedWriter`, `MCVerifiedWriter` | verified writer, write gate, both kinds of HA | |
| `VerifiedTrail` | the verified writer as an audited write: a history variable and the mapping | `VerifiedWriter`; implements `AuditedWrite` |
| `VerifiedWriterProofs` | fourteen theorems, the refinement among them | `VerifiedTrail`; instantiates `AuditedWriteProofs` |
| `Catalog` | the resources, as the engine reads them | |
| `ManagementEngine`, `MCManagementEngine` | the catalog-driven writes, trust hooks included | `Catalog`; implements `AuditedWrite` |
| `Operations`, `MCOperations` | operations and writes on one node | `ManagementEngine` |
| `ManagementEngineProofs` | eleven theorems about the engine, the refinement among them, and five about operations beside it | `Operations`; instantiates `AuditedWriteProofs` |
| `CrlService`, `MCCrlService` | revocation lists | implements `AuditedWrite` |
| `CrlServiceProofs` | nine theorems, the refinement among them | `CrlService`; instantiates `AuditedWriteProofs` |
| `BackupStore`, `MCBackupStore` | the encrypted copies and their key | |
| `BackupStoreProofs` | six theorems | `BackupStore` |
| `LegacyWriter`, `MCLegacyWriter` | the eight legacy writers | |
| `LegacyWriterProofs` | three theorems | `LegacyWriter` |
| `MasterCache`, `MCMasterCache` | master resolution for reads | |
| `MasterCacheProofs` | three theorems | `MasterCache` |
| `Workspace`, `MCWorkspace` | the administrative page | |
| `WorkspaceProofs` | four theorems | `Workspace` |

### Conventions shared by the modules

* A member of `Procs` is one HTTP request; `pc[p]` is where its thread stands. An
  action is the code between two points at which another thread, the firewall or
  the file system can interfere: one HTTP POST, one file append, one read, the
  acquisition of a lock. Consecutive reads that serve one check (preflight,
  qualification of the cleanup) are one action: their failure is one error
  path, and what others change between them is covered by the disturbance flags
  below.
* `conf` is what a node stores, `run` what it runs. `ConfAfter`, `RunAfter`,
  `Possible`, `Merged`, `Saved` say what OPNsense does with a POST; they are
  external and taken from how the code uses the API. `FailedPost` is what a
  failing POST may have done: a timeout nothing, its effect, or its effect later
  (`inflight`, executed by `LateExecution`); an HTTP error nothing or its effect;
  a denied login or a validation error nothing. The plugin also meets
  acknowledgements of POSTs that were not executed (`Ignored`).
* A revision (`hash_payload`, SHA-256 of the canonical object) is the object
  itself. The field-wise `matches` is equality of contents.
* A GET with its retries is one read that succeeds or fails with one of the
  transport errors.
* The audit log is a set of `<<request, event>>`; every append may fail.
* `ExternalWrite`, `ExternalSave`, `CarpChange`, `Reconfigure` are other users of
  the firewall, bounded by `MaxEnv`; `AutoSync` is the HA synchronization of the
  firewall; `Crash` kills the process: requests and locks are gone, nodes and log
  stay.
* History variables (`foreign`, `touched`, `crossed`, `refused`, `failed`,
  `changed`, `executed`, `moved`, `doubtful`) are read by properties only. `foreign` marks the requests during
  which a node was written by somebody outside the process, or by the late execution
  of a POST that an earlier request of the plugin has given up: no property can
  promise that the node is as verified when it changes a moment later, so the
  properties about contents exempt these requests, and only these.

### VerifiedWriter

`Begin` and `Refuse` are the gate; `Acquire` to `Finish` are `execute` and
`_execute`. `locks` is indexed by sets of nodes because the code sorts the two
URLs. `Intent` appends the intent; `Preflight` is `_sync_preflight`;
`ReadCurrent`, `CheckLast`, `ReadPeerRevision` are the checks before the POST;
`PostCreate`, `PostChange`, `PostApply`, `Readback` the local write;
`StartSync`, `PostPush`, `PeerRead` are `_sync`; `QualifyCleanup` to
`CleanupVerify` are `_finish_last_dnat_delete`; `RollbackDelete` to
`RollbackVerify` the undo of a rejected create; `Finish` the closing record and
the release of the lock.

### Catalog and ManagementEngine

`Catalog` is the table of resources, one definition per entry, with what the code
asks of an entry: which verbs it has, whether it is a singleton, what is applied
after a save, whether the acknowledgement of an apply is looked at more closely
(`apply_ack`), which fields are secret or write-only, and whether it has `prepare`
and `verify` hooks. A behaviour is about the resources of one service (`Scopes`),
because requests of different services meet nowhere, while one apply publishes
every resource of its service.

Objects have a public and a secret field, because what the code does with a field
depends only on whether it is named, blank, secret or `write_only` (`Merged`,
`Shown`, `Matches`). A certificate is a public field and a key that belongs to
it when the two are equal: the node generates a pair or is given one (`Sent`,
`Prepared`), and `TrustVerify` is the hook that recognizes it. `Acknowledged` tells
a hollow acknowledgement (Monit answers "ok" to a configuration it did not load)
from a real one. `ScanPage` is one page of the absence scan. The peer branch of
`_mutate` is left out: it needs `ha_safe`, which no resource of the catalog sets.

### Operations

`execute_operation` beside the requests of `ManagementEngine`: the variables of
both, and a next-state relation that interleaves their steps. An operation takes
no lock. The apply of a write can move the service under an operation (`Aside`),
and the reconfigure or the reboot of an operation publishes what a write has
stored (`Effect`). The 62 operations are kept as the eight classes that the code
tells apart by method, mutation and verification.

### AuditedWrite

A request is new, declared (its intent is in the log), over or lost in a crash.
It changes the node only when declared, and is over with its outcome in the log
or with an answer that says the outcome is missing. `ManagementEngine` and
`CrlService` instantiate it (`Audited`) with `stage` and `answer` computed from `pc`, `res`
and the log, and `IsAuditedWrite` is its specification as a property of theirs.
`VerifiedTrail` does the same for `VerifiedWriter`, which keeps no record of the
requests whose POSTs touched a node: `TrailSpec` is its specification with that
history (`touched`) added. The mapping drops two kinds of lines that stand for
nothing in the abstract log: the second intent, of the deletion on the peer, and
the closing line of a request whose intent could not be written.

### CrlService

A list is a set of revoked certificates with a serial that the node increments
at every save. A request carries the revision that its client read last, taken at
`Begin`: the wait for the lock is as long as others need to make it stale. `NewList` is the whole list that a revoke rebuilds from what it
read. `Matches` compares content and serial.

### BackupStore

Files are `Absent`, incomplete (`Empty`, `Torn`) or complete; a complete copy is known
by the key that encrypted it. `KeyExists`, `KeyCreate`, `KeyWrite`, `KeyRead` are the
system calls of `_key`; `TempCreate`, `TempWrite`, `Replace`, `Chmod` those of `create`, under
the lock; `Scan`, `Load`, `Decrypt`, `Unlink` those of `list`, `read` and `delete`, which take no
lock. `Crash` leaves the directory as it is; `LoseKey` is somebody who removes the
key file.

Each of these steps can also fail on its own account. `Fault` is an `OSError` that is
not part of the race: `_pinned`, `_key` and `_load` answer 409 to it (a directory that
cannot be checked, too many open files, a read error), and where nobody catches it
the handler answers 500. `Abandon` is the `OSError` of a creation, answered 503 after
the `finally` clause has removed the temporary file; that clause may fail too, which
leaves the file behind and is a 500. The history variable `failed` marks the requests
that ended so. `RacesDoNotBlock` and `ListIsTrue` exempt a request for its own
failure only, and a lost or half-written key: whatever the others are doing is no
reason for a 409. A list answers 404 only when a deletion that was answered ok took
one of its copies.

### LegacyWriter

One module for the eight writers, which have one shape. Requests hold no lock.
Any HTTP 200 counts as success, so `refused` marks the requests whose refusal a
200 hid.

### MasterCache

`Start`, `Check`, `Hit`, `Probe`, `WriteSide`, `WriteTs` are the separate reads
and writes of the shared dictionary, with the clock ticking in between. Only
reads use this cache; the write gate probes afresh.

### Workspace

`calls` is the set of fetches without an answer, each with the epoch and the list
ticket that its handler captured; `Answer(c)` is the code after the `await`, and its
`finally` clause. `tail` marks the list that `write` awaits: its answer ends that
handler as well and clears `writing` once more. The page is that of an
administrator who may write; `doubtful` records where a change is in doubt that
the user has not confirmed.

## 3. Runs

| Run | Properties | What it shows |
|---|---|---|
| `vw_xmlrpc` | `TypeOK OkIsTrue RollbackIsTrue IntentFirst CleanupConverges PushValidated` | two port-forward requests on a pair that is synchronized by `hasync_status/restart/pf` |
| `vw_automatic` | `MutualExclusion OkIsRecorded AmbiguousKept NoLostUpdate` | two requests on a pair that fails over between them, every kind of HTTP failure |
| `vw_answered` | `Answered` | with fairness, a request that waits for the lock is answered |
| `me_writes` | `OkIsTrue PendingIsOwned NoLostUpdate Answered` | two requests for two resources of one service, whose applies publish each other's saves; late POSTs; with fairness every request is answered |
| `me_catalog` | `TypeOK OkIsTrue PartialIsHonest ScanFindsEnd IsAuditedWrite` | one request for each resource of the catalog, all failures, interventions and crashes |
| `op_calls` | `OpPartialIsHonest OpTrailOrAlarm VerifiedIsTrue` | each class of operation beside a write of the same service |
| `cr_writes` | `TypeOK VerifiedOnce PartialIsHonest RevocationsKept IsAuditedWrite` | two requests for one revocation list |
| `lw_writes` | `OkIsTrue AllApplied` | three unserialized requests, all failures: ok is true, and nothing stays unapplied when all succeed |
| `mc_serial` | `FailoverSurfaces` | with one thread the TTL bounds staleness |
| `bk_store` | `TypeOK Readable RacesDoNotBlock AnswersAreTrue NoSecondKey` | three requests on one directory, every system call may fail, a crash or a lost key |
| `ws_page` | `TypeOK PageIsCurrent QuietIsUsable BackupsSerial` | two lists, a query, a command and the copies, answers in any order |
| `ws_overlap` | `DoubtBlocks` **violated** | the page posts a change while another is in doubt |

`AnswersAreTrue` is the conjunction of `CreateIsTrue`, `DeletedOnce` and `ListIsTrue`, and
`PageIsCurrent` of `ShownIsCurrent` and `DraftIsCurrent`: one invariant about each kind of
answer, with a mutant for each part. The type invariants of `LegacyWriter` and
`Operations` are proved and not part of a run; that of `MasterCache` documents
its variables.

Every property of a passing run has a mutant in `PROJECT.json`: a plausible bug
in one mapped definition (defined next to it as `Mutant...`) under which TLC finds
the property violated.

### Finding

**Doubt that does not block** (`ws_overlap`, `workspace.js:440-449`). The page promises
that changes are blocked while one may or may not have been made. `write` clears
`writing` before it awaits the list and again in its `finally` clause. A save that is
begun while that list is under way is unlocked by it, and can be submitted a
second time. Of the two answers a doubtful one sets `reconcile`; a definite
rejection that arrives after it sets it to false again (line 444), and the next
change is posted with the doubt still open.

### Known disagreements without a run

These were met while modelling. The models contain the behaviour; each property
of a run excepts exactly what is named here.

1. **Stale master** (`verified.py:329`). `__init__.py:439` asks for "a fresh,
   unambiguous master". The CARP status is read before the wait for the lock
   and, in automatic mode, never again: `Acquire` does not look at it.
2. **Torn cache** (`__init__.py:132`). `side` and `ts` of `_master_cache` are two
   assignments without a lock; with two threads `FailoverSurfaces` is violated: an old
   side gets a fresh timestamp.
3. **Rollback that is not one** (`alias.py:122-125`, README.md:51). The compensating delete
   of the legacy writers may fail or be refused, and no apply follows it, yet the
   answer says "rolled back". The apply of another request between the POST and
   the failed apply publishes the object, which then keeps running.
4. **`partial` after a denied read-back** (`crl.py:249`, `operations.py:241`). A 401 or 403 to
   the GET that verifies an acknowledged POST answers `partial: false`. The engine
   is right. `PartialIsHonest` of `CrlService` and `OpPartialIsHonest` except the error `auth`
   and nothing else.
5. **A list flag that stays set** (`workspace.js:81,204,467`). An operation selected while a
   list is under way leaves `listing` set, since the answer of the list is dropped.
   After a doubtful command the confirm button then stays disabled until the
   page is reloaded. `QuietIsUsable` speaks of `listing` on lists only.

### Bounds

Two requests exhibit every pairwise race of a lock, a check and a write;
`lw_writes` has three because a third apply between a write and its apply is
the interesting case there, `bk_store` because a deletion can cross a list and a
creation. One or two objects are enough for requests that meet on one object and
for those that pass by each other; the cleanup of the last port forward needs
two (one deleted, one that must not be). Two contents distinguish what was read
from what is written; they are also the fewest that tell a certificate with its
key from one with another's. `Attempts` is 1 in `vw_xmlrpc` and 2 in `vw_answered`,
so that the loop body both ends and repeats. `MaxEnv` (interventions from outside)
is 1: a failover, a write, a crash or a lost key between any two steps. `me_writes`
has 0, so that `PendingIsOwned` and `Answered` speak of the requests alone, with
late executions as the only other actor; `me_catalog` has one request and every
resource, since what depends on a resource is the path of one request, and what
depends on a second request does not depend on the resource. Pages have one row
and listings up to two, so that a scan ends on its first page, on its last, and
past the object it looks for. `MaxSerial` is 3: each
request can save the list once, as two revocations that must not undo each other do.
`MasterCache` has a TTL of 2 ticks and a clock to 7, more than three lifetimes of
an entry. `MaxId` of `bk_store` is 4: one copy at the start and one for each request.
In `ws_page` three selections, five lists and three changes let an answer of the
selection before last arrive, and a second change overlap the list of the first;
the page waits for its user, so deadlock is not checked there.
Processes, keys, contents and resources are interchangeable where a run says
`SYMMETRY`; the liveness runs and the refinement of `me_catalog` use none.

### Fairness

`Answered` (`vw_answered`, `me_writes`) assumes weak fairness of each request's `Step(p)`
and of nothing else: no assumption that a call succeeds, that the peer converges
or that the environment acts. The code justifies it: every HTTP call has a
connect and a read timeout, the peer loop is bounded by `ha_verify_attempts` (1 to
10), the scan by its number of pages, and threads are scheduled by the operating
system. Weak fairness suffices for a lock because each request of the model
acquires it once, so that it becomes free for good.

## 4. Proofs

Every property of every passing run is stated by a theorem, except the liveness
property `Answered`, of which the safety half is proved. A run shows a property
on its instance, the theorem for every value of the constants that the
assumptions admit: any number of requests, objects and contents, any set of
failures and of environments.

All proofs of a component follow one argument. The property is not inductive; an
inductive invariant `Inv` adds the types, what belongs to no request, and
`Local(p)` for each request: a conjunction of named parts that say, for each value of
`pc[p]`, what the request has established so far and still relies on. TLC checked
each `Inv` on the instances of the runs before it was proved. A step of `p` is one
lemma per action for `Local(p)`; what it leaves to the others is stated once
(`Alone`, `Others`, `OAlone`), and every `Local(q)` is shown to survive it, so that
no invariant is checked again for each pair of an action and a bystander. The
environment (late POSTs, administrators, failovers, crashes) is a case of its
own: it either leaves what `Local` reads alone or marks the request `foreign`,
which is the only exemption in the parts about contents.

### AuditedWriteProofs

`AccountedFor`: every change of the node is traced to an intent in the log, and a
request that is over to its outcome, or to an answer that says the outcome is
missing. `Accounted` is not inductive alone; `AuditInv` adds the types and `Announced`: a
declared request has its intent on record, and no request that changed anything
can still be refused. The refinements proved in `CrlServiceProofs`,
`ManagementEngineProofs` and `VerifiedWriterProofs` carry it over to the code's write
paths (`Traced`).

### That requests end, and locks come back

The same two theorems are proved of the verified writer, the engine and the CRL
service, whose locks are held across calls to the firewall; the second also of the
backup store.

* `Advancing`. Each stage has a rank, to which the peer loop adds its number of
  reads and the absence scan its page (`Position`). No step of anybody takes a
  request back (`Advances`), a crash takes it to the highest rank, each step of its own
  takes it further, and ranks are bounded (`Bounded`): after the gate a request takes
  at most `Attempts + 21`, `MaxPages + 8` or 8 steps. What is left to the scheduler is
  that each step is taken, which is the fairness of `Answered`.
* `Unleaked`. A lock that is taken belongs to a request that computed its key and
  stands between `Acquire` and its return. `MutualExclusion` says that a holder is alone;
  this one says that there is no lock without a living holder. Together with
  `Advancing`: whatever waits for a lock waits for a request that has a bounded
  number of steps left.

### VerifiedWriterProofs

* `TypeCorrect`. That a POST has a uuid, that the peer loop has attempts left, or
  that a request that synchronizes has a peer, depends on the stage: `Typed` adds
  `StageInv`.
* `Exclusive` (`MutualExclusion`). `LockInv`: a request between `Acquire` and `Finish`
  is the holder of the one lock of the pair. It needs `TargetPair`: whichever node a
  gate has chosen as master, the sorted key is the same, which is what makes two
  requests from before and after a failover meet at one lock.
* `Recorded` (`OkIsRecorded`). `AuditInv` tracks for each stage which lines of a
  request are in the log, and that `res.ok` is only set on the way to `Finish`, where
  a failed append clears it again.
* `TrueOk`, `TrueRollback`, `AmbiguousStays`, `UpdatesStay`, `DeclaredFirst`, `CleanupEndsWell`,
  `PushAsChecked` from `Local`, which has two halves. `Course` is where a request can
  stand: before its first POST it has changed nothing (`Fresh`), the way to an ok
  and the way through the rollback exclude each other (`Forward`, `Backward`), and
  plan, push and peer loop are visited in `xmlrpc_pf` only (`XmlrpcOnly`). `Known` is
  what the nodes hold while nobody else writes: the change that is being read back
  or synchronized is there (`Achieved`, `Arrived`), what was undone is gone
  (`Undone`), the revision that was compared is still stored (`Revised`), the peer's
  last row is the one that was qualified (`Leftover`), and the plan is that of the
  settings and roles (`SamePlan`). `Known` survives the steps of other requests because
  the lock keeps them out; `AutoSync` copies from the master to the peer only and can
  only bring the peer closer to what it should hold.
* `Refinement` and `Traced`. `Shape` sorts the steps of a request by what the log sees
  of them: none (`Quiet`), the intent (`Announces`, or `Unannounced` when the append
  fails), work under the intent (`Works`), the answer (`Closes`), a refusal
  (`TurnedAway`). Each maps to one step of `AuditedWrite` or to a stutter. That needs
  `TrailInv`: no closing line before the answer, and no line at all of a request that
  has yet to declare itself.
* `Advancing` and `Unleaked`, as above. `Ahead(s)` lists where a step leads from stage
  `s`; it is the control flow of `execute`, `_sync` and the rollback, and has no cycle
  but the peer loop.

### MasterCacheProofs

* `CacheTypes`: the dictionary is well formed after any interleaving of any number of
  threads, without a lock.
* `SurfacesAlone`: `FailoverSurfaces` for any number of threads, TTL and clock, on
  behaviours in which no two threads probe at the same time (`AloneInProbe`). Cached
  reads may overlap with a probe and with each other. `CacheInv` says that an entry
  stamped since the last failover and the last failed probe names the master
  (`EntryTrue`), and for each thread what it has seen since it looked at the clock.
  With two probes at a time the statement is false (known disagreement 2): the
  theorem names exactly the condition that a lock around the miss would ensure.
* `SurfacesSerial`: with one thread the condition always holds.

### CrlServiceProofs

`TypeCorrect`; `Exclusive`: one request between its read and its answer; `SavedOnce`
(`VerifiedOnce`), `RevocationsStay` (`RevocationsKept`), `HonestPartial`. `Content` is the
crux: until its POST the list is what the request read, afterwards either still
that or `Wanted`, whose serial is one above. The read-back can tell the two apart
only because the serial grows with every save, so a read-back that finds the
wanted content and serial has found the request's own save. `HonestPartial` exempts
the error `auth` of known disagreement 4. `Refinement` maps each step of the service,
crashes and failing appends included, to a step of `AuditedWrite` or to a stutter.

### ManagementEngineProofs

`TypeCorrect`; `Exclusive`: one request per resource; `HonestPartial`; `TrueOk`;
`UpdatesStay`; `ScanEndsWell`; `PendingOwned`; `Refinement`; `Traced`; `Advancing`;
`Unleaked`. What the catalog
contributes is stated as `Entry` and proved of each of its resources by evaluation:
in particular that every service whose acknowledgement can be hollow has
`apply_ack`, without which `TrueOk` is false. Of the parts of `Local`:

* `Fresh`: until its save, a request is about the object that it read and merged.
  `UpdatesStay` follows, together with `Composed` (a field that is named is sent as
  named, a field that is not keeps its value).
* `Live`: after its apply the resource runs as it is stored. Requests of other
  resources apply the same service, which keeps `Live` because an apply publishes
  what is stored.
* `Scanned`: the scan has counted exactly the rows of the pages before the one it
  asks for, and has not passed its object. The rank of a row among the present
  ones is a bijection onto an interval, so a page that is not the last has exactly
  `PageSize` rows and the count reaches the total on the last page and no sooner.
* `PendingOwned` has an invariant of its own, `Owned`: while something is stored that
  does not run so, some request is still to apply it, or has failed and said so.
  An apply by a request of another resource may settle the debt, and a late apply
  only pays it; a late save is owed by the request that timed out.

The last part of the module is about `Operations`, which interleaves operations with
the requests of the engine; its proofs extend those above: `RequestsBeside` shows that the engine's answers,
`partial` and locks stay right beside operations that take no lock.
`OpPartialHonest`, `OpTraced` (`OpTrailOrAlarm`), `OpVerified` (`VerifiedIsTrue`) and
`PlaneTypes` rest on `Announced` (the attempt is on record before the POST, and the
POST precedes any effect), `Told` and `Confirmed`: an operation whose own POST may
still be executed late is never the one that claims verification.

### BackupStoreProofs

`TypeCorrect`; `NeverUnreadable` (`Readable`); `OneKey` (`NoSecondKey`); `Unblocked`
(`RacesDoNotBlock`); `TrueAnswers` (`AnswersAreTrue`). `Keyed` follows the key from the look
at the directory to the write; it needs that a directory which was empty then is
empty still, hence `Created` and `lock`. An identifier is reserved by one
creation (`Distinct`), and what was deleted does not come back (`Deleted`), since a
creation under the same identifier would have to have begun earlier; `Gone` says
that a copy which was once in place is there or was deleted. Lists hold no
lock: `Listing` says that what a list has shown or is still to show is what was
there, but for the copies that moved under it. `Unleaked`: the lock of creations, once
taken, belongs to a creation on its way from its key to its answer.

### LegacyWriterProofs

`TypeCorrect`; `TrueOk` (`OkIsTrue`); `Applied` (`AllApplied`). There is no lock: that an
answer is true rests on `UsedUp`, identifiers are not handed out twice, and on
`crossed`. `Pending`: a change that is not applied, or a POST yet to be executed,
has a request that is not, or will not be, answered ok.

### WorkspaceProofs

`TypeCorrect`; `PageCurrent` (`PageIsCurrent`); `QuietUsable` (`QuietIsUsable`); `BackupChanges`
(`BackupsSerial`). `Addressed`: a call of this epoch is for the selected resource, and
a list that still counts is for the page of the controls; no order of answers
matters beyond that. `Awaited`: every flag that locks the page has a call whose answer
takes it back. `Serial`: the page of the copies has one call under way.

### Assumptions

Each module has one, named in the module that declares the constants and
evaluated by TLC in its runs: the "none" values are not members of their sets,
bounds are natural numbers, failures are among those the client raises.
`PairAssumption`: one node, or two different ones with HA. `CrlAssumption`: at least one
save (`MaxSerial` positive), since a list that exists has been saved.
`ConstantsAssumption` of `ManagementEngine`: the resources of a scope have one service.
The single-node mode of `VerifiedWriter` has no run of its own: its steps are those
of the automatic mode without the peer, and the theorems cover it.

### Only model-checked

* `Answered` of `VerifiedWriter` and `ManagementEngine`: liveness under fairness is beyond
  the prover.
* `FailoverSurfaces` of `MasterCache` for threads whose probes overlap is not claimed: it
  is violated there (known disagreement 2).
* `DoubtBlocks` of `Workspace` is violated (`ws_overlap`).

What the node does with a POST and what the file system does with a call are
definitions of the models, not theorems: they are taken from how the code uses
them.

## 5. Not modelled

* `HAVerifier` (`hasync_writer.py`): no route builds a writer with one.
* The divergence detector, metrics, collectors and most route builders: pure
  reshaping of one answer, without state or order.
* The panel (`opnsense.html`): inline scripts that poll and render.
* Payload validation and formatting, and of the catalog the labels, kinds and
  limits of fields: data. A refused request is `Refuse` or `bad_request`.
* A payload that spans the resources of a service: `dnsmasq_general` sends the
  whole model, hosts included, under the lock of the settings alone.
* A backup directory that is replaced, or whose files are replaced by links or
  altered, while a request runs: the checks for it (`_pinned`, `_path`) fail as `Fault`
  or `Refuse`, and the content of the other directory is not followed.
* TLS, authentication and permissions of PegaProx: they refuse a request before
  any state exists.
* Several plugin processes: the locks are per process, as the code intends for
  the single PegaProx process; another process is an `ExternalWrite`.
* The audit line that a legacy write may fail to leave, although the README
  promises one: `LegacyWriter`'s `Record` shows it, no property asserts it.
* Partial writes of an audit line: an append writes one line with one call.

## 6. Plan

1. `WireguardClients`: `LegacyWriter` and `ManagementEngine` on the one resource that
   both of them write.
2. Profiles of the eight legacy writers in `LegacyWriter`: their verbs and the
   service each of them applies, several of which are shared (Unbound, Kea,
   filter), so that the apply of one writer publishes what another has stored.
3. The editors of the panel as an instance of `Workspace`.
