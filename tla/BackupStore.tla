----------------------------- MODULE BackupStore -----------------------------
(***************************************************************************)
(* BackupStore (src/src/management/backups.py): encrypted copies of the    *)
(* firewall's configuration history in a directory, all under one key in a *)
(* file beside it.  Creations are serialized by a lock; lists, downloads   *)
(* and deletions take none.  Each access to the file system is a step, and *)
(* the process may die between two of them.                                *)
(***************************************************************************)
EXTENDS FiniteSets, Naturals

CONSTANTS
    Procs, NoProc,  \* HTTP requests
    MaxId,          \* bound: backups that are created
    Keys,           \* key contents
    MaxEnv          \* bound: crashes and losses of the key file

Ids == 1 .. MaxId
NoId == 0
Absent == "absent"
Empty == "empty"        \* a key file that was created and not written
Torn == "torn"          \* a backup that is not completely written
Envelope == {Absent, Torn} \cup Keys     \* a complete one is known by its key

ASSUME BackupAssumption ==
    /\ NoProc \notin Procs
    /\ MaxId \in Nat /\ MaxEnv \in Nat
    /\ Keys \cap {Absent, Empty, Torn} = {}

VARIABLES
    keyfile,    \* backups.key
    files,      \* files[i]: <i>.enc
    temps,      \* temps[i]: .<i>.tmp
    lock,       \* _LOCK
    trail,      \* requests announced in audit.jsonl
    pc,         \* where each request stands
    req,        \* its action and backup
    mem,        \* its locals: key, envelope, and paths to list and listed ones
    ans,        \* its answer
    keys,       \* history: keys that were generated
    spoiled,    \* history: the writing of a key was interrupted
    lost,       \* history: the key file was lost
    failed,     \* history: requests that an error of the file system ended, with a code other than 503
    unfinished, \* history: creations that failed after their backup was in place
    moved,      \* history: backups put in place or deleted while the request was at work
    env         \* number of interventions of the environment so far

disk == <<keyfile, files, temps>>
history == <<keys, spoiled, lost, unfinished, moved, env>>
vars == <<disk, lock, trail, pc, req, mem, ans, failed, history>>

Serialized == {"key", "keycreate", "keywrite", "keyread", "temp", "write", "replace", "chmod"}
Working == Serialized \cup {"record", "download", "wait", "scan", "load", "decrypt", "unlink"}
NoMemory == [key |-> Absent, envelope |-> Absent, todo |-> {}, got |-> {}]

TypeOK ==
    /\ keyfile \in {Absent, Empty} \cup Keys
    /\ files \in [Ids -> Envelope] /\ temps \in [Ids -> Envelope]
    /\ lock \in Procs \cup {NoProc}
    /\ trail \subseteq Procs
    /\ pc \in [Procs -> Working \cup {"idle", "done", "crashed"}]
    /\ req \in [Procs -> [action : {"none", "create", "list", "read", "delete"}, id : Ids \cup {NoId}]]
    /\ mem \in [Procs -> [key : {Absent} \cup Keys, envelope : Envelope, todo : SUBSET Ids, got : SUBSET Ids]]
    /\ ans \in [Procs -> {"none", "ok", "400", "401", "403", "404", "409", "500", "502", "503", "504"}]
    /\ keys \subseteq Keys
    /\ spoiled \in BOOLEAN /\ lost \in BOOLEAN
    /\ failed \subseteq Procs /\ unfinished \subseteq Procs
    /\ moved \in [Procs -> SUBSET Ids]
    /\ env \in 0 .. MaxEnv

-----------------------------------------------------------------------------

Goto(p, stage) == pc' = [pc EXCEPT ![p] = stage]
Present == {i \in Ids : files[i] # Absent}

Released(p) == IF lock = p THEN NoProc ELSE lock
Answer(p, code) ==
    /\ ans' = [ans EXCEPT ![p] = code]
    /\ Goto(p, "done")
    /\ lock' = Released(p)

\* An OSError: 409 where _pinned, _key or _load catches it, and 500 from the
\* handler where nobody does.
Fault(p, codes) ==
    /\ \E code \in codes : Answer(p, code)
    /\ failed' = failed \cup {p}

\* _h_backups: a request for an administrator.
Begin(p) ==
    /\ pc[p] = "idle"
    /\ \/ /\ req' = [req EXCEPT ![p].action = "create"]
          /\ Goto(p, "record")
       \/ /\ req' = [req EXCEPT ![p].action = "list"]
          /\ Goto(p, "scan")
       \/ \E a \in {"read", "delete"}, i \in Ids :
            /\ req' = [req EXCEPT ![p] = [action |-> a, id |-> i]]
            /\ Goto(p, "record")
    /\ moved' = [moved EXCEPT ![p] = {}]
    /\ UNCHANGED <<disk, lock, trail, mem, ans, failed, keys, spoiled, lost, unfinished, env>>

\* The permission, the body, the identifier or the directory is not accepted.
Refuse(p) ==
    /\ pc[p] = "idle"
    /\ \E code \in {"400", "403", "409", "500"} : Answer(p, code)
    /\ UNCHANGED <<disk, trail, req, mem, failed, history>>

Record(p) ==
    /\ pc[p] = "record"
    /\ \/ /\ trail' = trail \cup {p}
          /\ Goto(p, IF req[p].action = "create" THEN "download" ELSE "load")
          /\ UNCHANGED <<lock, ans>>
       \/ Answer(p, "503") /\ UNCHANGED trail
    /\ UNCHANGED <<disk, req, mem, failed, history>>

\* _download and _xml.
Download(p) ==
    /\ pc[p] = "download"
    /\ \/ Goto(p, "wait") /\ UNCHANGED <<lock, ans>>
       \/ \E code \in {"400", "401", "502", "504"} : Answer(p, code)
    /\ UNCHANGED <<disk, trail, req, mem, failed, history>>

\* uuid4 is fresh.
Fresh == {i \in Ids : \A q \in Procs : req[q].id # i} \ (Present \cup {i \in Ids : temps[i] # Absent})

MutantLockFree == TRUE     \* mutant: nobody waits
LockFree == lock = NoProc

Acquire(p) ==
    /\ pc[p] = "wait" /\ LockFree
    /\ lock' = p
    /\ \E i \in Fresh : req' = [req EXCEPT ![p].id = i]
    /\ Goto(p, "key")
    /\ UNCHANGED <<disk, trail, mem, ans, failed, history>>

-----------------------------------------------------------------------------
(* _key(create=True) *)

MutantMayGenerate == TRUE     \* mutant: a lost key is replaced
MayGenerate == Present = {}

KeyExists(p) ==
    /\ pc[p] = "key"
    /\ \/ keyfile # Absent /\ Goto(p, "keyread") /\ UNCHANGED <<lock, ans, failed>>
       \/ keyfile = Absent /\ MayGenerate /\ Goto(p, "keycreate") /\ UNCHANGED <<lock, ans, failed>>
       \/ keyfile = Absent /\ ~MayGenerate /\ Answer(p, "409") /\ UNCHANGED failed
       \/ Fault(p, {"409", "500"})
    /\ UNCHANGED <<disk, trail, req, mem, history>>

\* O_CREAT | O_EXCL.
KeyCreate(p) ==
    /\ pc[p] = "keycreate"
    /\ \/ keyfile = Absent /\ keyfile' = Empty /\ Goto(p, "keywrite") /\ UNCHANGED <<lock, ans, failed>>
       \/ keyfile # Absent /\ Goto(p, "keyread") /\ UNCHANGED <<keyfile, lock, ans, failed>>
       \/ Fault(p, {"500"}) /\ UNCHANGED keyfile
    /\ UNCHANGED <<files, temps, trail, req, mem, history>>

\* write, fsync and chmod.  An OSError leaves the file behind, empty or whole.
KeyWrite(p) ==
    /\ pc[p] = "keywrite"
    /\ \/ \E k \in Keys \ keys :
            /\ keyfile' = IF keyfile = Absent THEN Absent ELSE k
            /\ keys' = keys \cup {k}
            /\ (Goto(p, "keyread") /\ UNCHANGED <<lock, ans, failed>>) \/ Fault(p, {"500"})
            /\ UNCHANGED spoiled
       \/ /\ Fault(p, {"500"})
          /\ spoiled' = TRUE
          /\ UNCHANGED <<keyfile, keys>>
    /\ UNCHANGED <<files, temps, trail, req, mem, lost, unfinished, moved, env>>

MutantUsable == keyfile # Absent     \* mutant: the length is not checked
Usable == keyfile \in Keys

KeyRead(p) ==
    /\ pc[p] = "keyread"
    /\ \/ /\ Usable
          /\ mem' = [mem EXCEPT ![p].key = keyfile]
          /\ Goto(p, "temp")
          /\ UNCHANGED <<lock, ans, failed>>
       \/ ~Usable /\ Answer(p, "409") /\ UNCHANGED <<mem, failed>>
       \/ Fault(p, {"409"}) /\ UNCHANGED mem
    /\ UNCHANGED <<disk, trail, req, history>>

-----------------------------------------------------------------------------
(* The rest of create *)

Removed(p) == temps' = [temps EXCEPT ![req[p].id] = Absent]

\* OSError, and the finally clause, which may fail itself.
MutantAbandon(p) == UNCHANGED <<temps, failed>> /\ Answer(p, "503")     \* mutant: no finally clause
Abandon(p) ==
    \/ Removed(p) /\ Answer(p, "503") /\ UNCHANGED failed
    \/ UNCHANGED temps /\ Fault(p, {"500"})

MutantTempCreate(p) ==     \* mutant: the backup is written in place
    /\ pc[p] = "temp"
    /\ files' = [files EXCEPT ![req[p].id] = Torn]
    /\ Goto(p, "write")
    /\ UNCHANGED <<keyfile, temps, lock, trail, req, mem, ans, failed, history>>
\* _path checks the directory before there is a file to remove.
TempCreate(p) ==
    /\ pc[p] = "temp"
    /\ \/ Fault(p, {"409", "500"}) /\ UNCHANGED temps
       \/ /\ temps' = [temps EXCEPT ![req[p].id] = Torn]
          /\ Goto(p, "write")
          /\ UNCHANGED <<lock, ans, failed>>
       \/ Abandon(p)
    /\ UNCHANGED <<keyfile, files, trail, req, mem, history>>

TempWrite(p) ==
    /\ pc[p] = "write"
    /\ \/ /\ temps' = [temps EXCEPT ![req[p].id] = mem[p].key]
          /\ Goto(p, "replace")
          /\ UNCHANGED <<lock, ans, failed>>
       \/ Abandon(p)
    /\ UNCHANGED <<keyfile, files, trail, req, mem, history>>

\* _pinned, and os.replace, which publishes the backup at once.
Replace(p) ==
    /\ pc[p] = "replace"
    /\ \/ /\ files' = [files EXCEPT ![req[p].id] = temps[req[p].id]]
          /\ Removed(p)
          /\ moved' = [q \in Procs |-> moved[q] \cup {req[p].id}]
          /\ Goto(p, "chmod")
          /\ UNCHANGED <<lock, ans, failed>>
       \/ Removed(p) /\ Fault(p, {"409"}) /\ UNCHANGED <<files, moved>>
       \/ Abandon(p) /\ UNCHANGED <<files, moved>>
    /\ UNCHANGED <<keyfile, trail, req, mem, keys, spoiled, lost, unfinished, env>>

\* The backup is in place, but its mode may fail, a deletion may be faster, and
\* the finally clause looks for the temporary file.
Chmod(p) ==
    /\ pc[p] = "chmod"
    /\ \/ files[req[p].id] # Absent /\ Answer(p, "ok") /\ UNCHANGED <<unfinished, failed>>
       \/ Answer(p, "503") /\ unfinished' = unfinished \cup {p} /\ UNCHANGED failed
       \/ Fault(p, {"500"}) /\ unfinished' = unfinished \cup {p}
    /\ UNCHANGED <<disk, trail, req, mem, keys, spoiled, lost, moved, env>>

-----------------------------------------------------------------------------
(* list, read and delete *)

Least(S) == CHOOSE i \in S : \A j \in S : i <= j

MutantListed == Present \cup {i \in Ids : temps[i] # Absent}     \* mutant: glob('*')
Listed == Present

\* The names are taken once, and loaded one after the other.
Scan(p) ==
    /\ pc[p] = "scan"
    /\ \/ Listed = {} /\ Answer(p, "ok") /\ UNCHANGED <<req, mem, failed>>
       \/ /\ Listed # {}
          /\ mem' = [mem EXCEPT ![p].todo = Listed]
          /\ req' = [req EXCEPT ![p].id = Least(Listed)]
          /\ Goto(p, "load")
          /\ UNCHANGED <<lock, ans, failed>>
       \/ Fault(p, {"409", "500"}) /\ UNCHANGED <<req, mem>>
    /\ UNCHANGED <<disk, trail, history>>

\* _load opens the file and keeps what it read, ...
Load(p) ==
    /\ pc[p] = "load"
    /\ \/ /\ files[req[p].id] # Absent
          /\ mem' = [mem EXCEPT ![p].envelope = files[req[p].id]]
          /\ Goto(p, "decrypt")
          /\ UNCHANGED <<lock, ans, failed>>
       \/ files[req[p].id] = Absent /\ Answer(p, "404") /\ UNCHANGED <<mem, failed>>
       \/ Fault(p, {"409", "500"}) /\ UNCHANGED mem
    /\ UNCHANGED <<disk, trail, req, history>>

\* ... then the key, and decrypts the one with the other.
Decrypt(p) ==
    /\ pc[p] = "decrypt"
    /\ LET left == mem[p].todo \ {req[p].id}
       IN \/ ~(Usable /\ mem[p].envelope = keyfile) /\ Answer(p, "409") /\ UNCHANGED <<req, mem, failed>>
          \/ Fault(p, {"409"}) /\ UNCHANGED <<req, mem>>
          \/ /\ Usable /\ mem[p].envelope = keyfile
             /\ CASE req[p].action = "read" -> Answer(p, "ok") /\ UNCHANGED <<failed, req, mem>>
                  [] req[p].action = "delete" -> Goto(p, "unlink") /\ UNCHANGED <<lock, ans, failed, req, mem>>
                  [] OTHER ->
                       /\ mem' = [mem EXCEPT ![p].todo = left, ![p].got = @ \cup {req[p].id}]
                       /\ IF left = {} THEN Answer(p, "ok") /\ UNCHANGED <<failed, req>>
                            ELSE /\ req' = [req EXCEPT ![p].id = Least(left)]
                                 /\ Goto(p, "load")
                                 /\ UNCHANGED <<lock, ans, failed>>
    /\ UNCHANGED <<disk, trail, history>>

MutantUnlinked(p) == TRUE     \* mutant: missing_ok
Unlinked(p) == files[req[p].id] # Absent
Unlink(p) ==
    /\ pc[p] = "unlink"
    /\ \/ /\ Unlinked(p)
          /\ files' = [files EXCEPT ![req[p].id] = Absent]
          /\ moved' = [q \in Procs |-> moved[q] \cup {req[p].id}]
          /\ Answer(p, "ok")
          /\ UNCHANGED failed
       \/ Answer(p, "503") /\ UNCHANGED <<files, moved, failed>>
       \/ Fault(p, {"409"}) /\ UNCHANGED <<files, moved>>
    /\ UNCHANGED <<keyfile, temps, trail, req, mem, keys, spoiled, lost, unfinished, env>>

-----------------------------------------------------------------------------
(* The environment *)

\* The process dies.
Crash ==
    /\ env < MaxEnv /\ env' = env + 1
    /\ \E p \in Procs : pc[p] \in Working
    /\ pc' = [p \in Procs |-> IF pc[p] \in Working THEN "crashed" ELSE pc[p]]
    /\ spoiled' = (spoiled \/ \E p \in Procs : pc[p] = "keywrite")
    /\ lock' = NoProc
    /\ mem' = [p \in Procs |-> IF pc[p] \in Working THEN NoMemory ELSE mem[p]]
    /\ UNCHANGED <<disk, trail, req, ans, failed, keys, lost, unfinished, moved>>

\* Somebody removes the key file, or restores the directory without it.
LoseKey ==
    /\ env < MaxEnv /\ env' = env + 1
    /\ keyfile # Absent
    /\ keyfile' = Absent
    /\ lost' = TRUE
    /\ UNCHANGED <<files, temps, lock, trail, pc, req, mem, ans, failed, keys, spoiled, unfinished, moved>>

\* At first nothing is stored, or one backup and its key.
Init ==
    /\ \/ keyfile = Absent /\ files = [i \in Ids |-> Absent] /\ keys = {}
       \/ \E k \in Keys :
            keyfile = k /\ keys = {k} /\ files = [i \in Ids |-> IF i = 1 THEN k ELSE Absent]
    /\ temps = [i \in Ids |-> Absent]
    /\ lock = NoProc
    /\ trail = {}
    /\ pc = [p \in Procs |-> "idle"]
    /\ req = [p \in Procs |-> [action |-> "none", id |-> NoId]]
    /\ mem = [p \in Procs |-> NoMemory]
    /\ ans = [p \in Procs |-> "none"]
    /\ spoiled = FALSE /\ lost = FALSE /\ failed = {} /\ unfinished = {}
    /\ moved = [p \in Procs |-> {}]
    /\ env = 0

Step(p) ==
    \/ Record(p) \/ Download(p) \/ Acquire(p)
    \/ KeyExists(p) \/ KeyCreate(p) \/ KeyWrite(p) \/ KeyRead(p)
    \/ TempCreate(p) \/ TempWrite(p) \/ Replace(p) \/ Chmod(p)
    \/ Scan(p) \/ Load(p) \/ Decrypt(p) \/ Unlink(p)

Done == (\A p \in Procs : pc[p] \in {"done", "crashed"}) /\ UNCHANGED vars

Next ==
    \/ \E p \in Procs : Begin(p) \/ Refuse(p) \/ Step(p)
    \/ Crash \/ LoseKey
    \/ Done

Spec == Init /\ [][Next]_vars

-----------------------------------------------------------------------------

\* Whatever is listed was completely written, and the key of the store opens it
\* for as long as nobody removes the key file: no race and no crash leaves a
\* backup that can never be read.
Readable ==
    \A i \in Present : files[i] \in Keys /\ (~lost => files[i] = keyfile)

\* "Falta la llave de los respaldos existentes; no se generará otra": no key is
\* written while the store holds a backup, which it could not open.
NoSecondKey ==
    [][keyfile' # keyfile /\ keyfile' \in Keys => Present = {}]_vars

\* Creations, downloads and deletions that race find the key in a usable state: a
\* 409 is due to a key file that was lost, or whose first writing was
\* interrupted, or to a check or a read of the request itself that failed, and
\* never to what another request has half done.
RacesDoNotBlock ==
    \A p \in Procs :
        pc[p] = "done" /\ req[p].action \in {"create", "read", "delete"} /\ ans[p] = "409"
          => lost \/ spoiled \/ p \in failed

\* A creation that answered ok has put its backup in place, where it stays until
\* a deletion of it is answered ok; one that failed left no backup behind, except
\* one that was in place before the creation failed.  The temporary file is gone, unless
\* the finally clause could not remove it, which is a 500.
CreateIsTrue ==
    \A p \in Procs :
        (pc[p] = "done" /\ req[p].action = "create" /\ req[p].id # NoId)
          => /\ temps[req[p].id] # Absent => ans[p] = "500" /\ p \in failed
             /\ files[req[p].id] # Absent => ans[p] = "ok" \/ p \in unfinished
             /\ ans[p] = "ok" => \/ files[req[p].id] # Absent
                                 \/ \E q \in Procs : /\ req[q] = [action |-> "delete", id |-> req[p].id]
                                                     /\ ans[q] = "ok"

\* A backup is deleted once, by a request that was announced in the audit log.
DeletedOnce ==
    \A p, q \in Procs :
        (/\ pc[p] = "done" /\ req[p].action = "delete" /\ ans[p] = "ok"
         /\ pc[q] = "done" /\ req[q].action = "delete" /\ ans[q] = "ok"
         /\ req[p].id = req[q].id)
          => p = q /\ p \in trail

\* A list shows every backup that was there all the time and none that never
\* was.  It answers 404 only when a deletion took one of its backups meanwhile;
\* another error is due to the key file, or to a check or a read that failed.
ListIsTrue ==
    \A p \in Procs :
        pc[p] = "done" /\ req[p].action = "list" =>
          /\ ans[p] = "ok" => mem[p].got \ moved[p] = Present \ moved[p]
          /\ ans[p] = "404" => \E q \in Procs : /\ req[q].action = "delete" /\ ans[q] = "ok"
                                                /\ req[q].id \in moved[p]
          /\ ans[p] \notin {"ok", "404"} => lost \/ spoiled \/ p \in failed

\* Every answer agrees with the directory, whatever runs beside the request.
AnswersAreTrue == CreateIsTrue /\ DeletedOnce /\ ListIsTrue
=============================================================================
