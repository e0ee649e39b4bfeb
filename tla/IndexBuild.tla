----------------------------- MODULE IndexBuild -----------------------------
(***************************************************************************)
(* How the flow index of one capture comes to exist: the HTTP requests     *)
(* that call request_index, the background threads that run _run_index,    *)
(* the `packettrain-index scan` processes those threads start, and the     *)
(* files through which they meet (packettrain/indexing.py and scan in      *)
(* indexer/src/main.rs).                                                   *)
(*                                                                         *)
(* The capture does not change, so one key names the lock, the status      *)
(* file and the index directory.  What a file holds is abstracted to what  *)
(* a reader can notice: refs.bin is the set of its blocks that have been   *)
(* written, capture.sqlite is there or not, the status file is its "state" *)
(* field.                                                                  *)
(***************************************************************************)
EXTENDS Naturals, FiniteSets

CONSTANTS
    Req,            \* request threads of the gunicorn workers
    Worker,         \* gunicorn worker processes
    WorkerOf,       \* [Req -> Worker]: the process a request thread runs in
    Build, NoBuild, \* identities for background builds, reused when free
    Inode, NoFile,  \* inodes that hold a refs.bin
    Blocks,         \* number of blocks a complete refs.bin has
    Corrupt,        \* whether the scanner rejects the capture: TRUE, FALSE or either
    SlowScan,       \* TRUE: a build may outlive INDEX_TIMEOUT
    WritesFail,     \* TRUE: a write to the cache volume may fail
    MaxCrash        \* bound on worker crashes and container restarts

ASSUME BuildConstants ==
    /\ WorkerOf \in [Req -> Worker]
    /\ NoBuild \notin Build /\ NoFile \notin Inode
    /\ Blocks \in Nat \ {0}
    /\ Corrupt \subseteq BOOLEAN /\ SlowScan \in BOOLEAN /\ WritesFail \in BOOLEAN
    /\ MaxCrash \in Nat

VARIABLES
    lock,       \* <key>.lock: the build whose request created it, or NoBuild
    status,     \* <key>.status.json: its state, or "none"
    ready,      \* READY exists
    dbTmp,      \* capture.sqlite.tmp exists
    db,         \* capture.sqlite exists
    refsTmp,    \* the inode named refs.bin.tmp, or NoFile
    refsBin,    \* the inode named refs.bin, or NoFile
    written,    \* [Inode -> the blocks written to it]
    thread,     \* [Build -> where its _run_index thread is]
    host,       \* [Build -> the worker its thread lives in]
    scan,       \* [Build -> where its scan process is]
    fd,         \* [Build -> the inode its scan writes to, or NoFile]
    pos,        \* [Build -> the blocks its scan has written]
    late,       \* [Build -> INDEX_TIMEOUT has passed since its lock was made]
    req,        \* [Req -> where its request_index call is]
    seen,       \* [Req -> `current`, the status it read]
    reply,      \* [Req -> the last state returned to its poller, or "none"]
    crashes,    \* crashes so far, at most MaxCrash
    corrupt     \* the scanner rejects this capture

files == <<ready, dbTmp, db, refsTmp, refsBin, written>>
procs == <<scan, fd, pos>>
calls == <<req, seen, reply>>
vars == <<lock, status, files, thread, host, procs, late, calls, crashes, corrupt>>

StatusState == {"none", "indexing", "ready", "error"}
ThreadAt == {"none", "start", "spawn", "watch", "report", "except", "finally"}
ScanWorking == {"unready", "open", "write", "db", "drop_refs", "drop_db",
                "move_refs", "move_db", "publish"}
ScanAt == ScanWorking \cup {"none", "ok", "failed"}
CallAt == {"idle", "status", "lock", "unlink", "create", "reread"}
Answer == {"none", "indexing", "ready", "error"}

Alive(b) == thread[b] # "none"
Scanning(b) == scan[b] \in ScanWorking
AllBlocks == 1..Blocks

\* is_ready: the three files exist.  Nothing is read of what they hold.
is_ready == ready /\ db /\ refsBin # NoFile

Init ==
    /\ lock = NoBuild /\ status = "none"
    /\ ready = FALSE /\ dbTmp = FALSE /\ db = FALSE
    /\ refsTmp = NoFile /\ refsBin = NoFile
    /\ written = [i \in Inode |-> {}]
    /\ thread = [b \in Build |-> "none"]
    /\ host \in {h \in [Build -> Worker] : \A b, c \in Build : h[b] = h[c]}
    /\ scan = [b \in Build |-> "none"]
    /\ fd = [b \in Build |-> NoFile]
    /\ pos = [b \in Build |-> 0]
    /\ late = [b \in Build |-> FALSE]
    /\ req = [r \in Req |-> "idle"]
    /\ seen = [r \in Req |-> "none"]
    /\ reply = [r \in Req |-> "none"]
    /\ crashes = 0 /\ corrupt \in Corrupt

-----------------------------------------------------------------------------
(* request_index, one step per file operation another process can come      *)
(* between.                                                                 *)

Answered(r, state) ==
    /\ reply' = [reply EXCEPT ![r] = state]
    /\ req' = [req EXCEPT ![r] = "idle"]
    /\ seen' = [seen EXCEPT ![r] = "none"]

GoTo(r, step) == req' = [req EXCEPT ![r] = step] /\ UNCHANGED <<seen, reply>>

\* **(current or {"state": "indexing"})
StateOr(s) == IF s = "none" THEN "indexing" ELSE s

\* waitForIndex polls until it is told ready or error
CheckReady(r) ==
    /\ req[r] = "idle" /\ reply[r] \in {"none", "indexing"}
    /\ IF is_ready THEN Answered(r, "ready") ELSE GoTo(r, "status")
    /\ UNCHANGED <<lock, status, files, thread, host, procs, late, crashes, corrupt>>

ReadStatus(r) ==
    /\ req[r] = "status"
    /\ seen' = [seen EXCEPT ![r] = status]
    /\ req' = [req EXCEPT ![r] = "lock"]
    /\ UNCHANGED <<lock, status, files, thread, host, procs, late, reply, crashes, corrupt>>

\* Mutants: a lock of any age is taken for stale; no lock ever is.
CheckLockAnyAge(r) ==
    /\ req[r] = "lock"
    /\ GoTo(r, IF lock = NoBuild THEN "create" ELSE "unlink")
    /\ UNCHANGED <<lock, status, files, thread, host, procs, late, crashes, corrupt>>
CheckLockForever(r) ==
    /\ req[r] = "lock"
    /\ \/ lock = NoBuild /\ GoTo(r, "create")
       \/ lock # NoBuild /\ Answered(r, StateOr(seen[r]))
    /\ UNCHANGED <<lock, status, files, thread, host, procs, late, crashes, corrupt>>

\* lock.exists() and the age test on its mtime, which is never refreshed
CheckLock(r) ==
    /\ req[r] = "lock"
    /\ \/ lock = NoBuild /\ GoTo(r, "create")
       \/ lock # NoBuild /\ ~late[lock] /\ Answered(r, StateOr(seen[r]))
       \/ lock # NoBuild /\ late[lock] /\ GoTo(r, "unlink")
    /\ UNCHANGED <<lock, status, files, thread, host, procs, late, crashes, corrupt>>

\* removes whatever lock is there now, not the one whose age was read
UnlinkStale(r) ==
    /\ req[r] = "unlink"
    /\ lock' = NoBuild
    /\ GoTo(r, "create")
    /\ UNCHANGED <<status, files, thread, host, procs, late, crashes, corrupt>>

\* the build identities a new build can take
Free(b) == ~Alive(b) /\ ~Scanning(b) /\ lock # b

\* os.open(O_CREAT | O_EXCL), then the thread is started
CreateLock(r) ==
    /\ req[r] = "create" /\ lock = NoBuild
    /\ \E b \in Build :
        /\ Free(b)
        /\ lock' = b
        /\ thread' = [thread EXCEPT ![b] = "start"]
        /\ host' = [host EXCEPT ![b] = WorkerOf[r]]
        /\ scan' = [scan EXCEPT ![b] = "none"]
        /\ late' = [late EXCEPT ![b] = FALSE]
    /\ Answered(r, "indexing")
    /\ UNCHANGED <<status, files, fd, pos, crashes, corrupt>>

LockTaken(r) ==
    /\ req[r] = "create" /\ lock # NoBuild
    /\ GoTo(r, "reread")
    /\ UNCHANGED <<lock, status, files, thread, host, procs, late, crashes, corrupt>>

RereadStatus(r) ==
    /\ req[r] = "reread"
    /\ Answered(r, StateOr(status))
    /\ UNCHANGED <<lock, status, files, thread, host, procs, late, crashes, corrupt>>

\* a user opens the capture again after the poller stopped
Reopen(r) ==
    /\ req[r] = "idle" /\ reply[r] \in {"ready", "error"}
    /\ reply' = [reply EXCEPT ![r] = "none"]
    /\ UNCHANGED <<lock, status, files, thread, host, procs, late, req, seen, crashes, corrupt>>

Request(r) ==
    \/ CheckReady(r) \/ ReadStatus(r) \/ CheckLock(r) \/ UnlinkStale(r)
    \/ CreateLock(r) \/ LockTaken(r) \/ RereadStatus(r)

-----------------------------------------------------------------------------
(* _run_index.  WriteStatus is _atomic_json on the status file: it replaces *)
(* the file or, when the volume is full or another builder renames the      *)
(* shared temporary file away, raises and leaves the old status.            *)

WriteStatus(b, state, next, raised) ==
    \/ /\ status' = state
       /\ thread' = [thread EXCEPT ![b] = next]
    \/ /\ WritesFail
       /\ thread' = [thread EXCEPT ![b] = raised]
       /\ UNCHANGED status

\* what a process had open and in memory goes with it
ProcessGone(B) ==
    /\ fd' = [b \in Build |-> IF b \in B THEN NoFile ELSE fd[b]]
    /\ pos' = [b \in Build |-> IF b \in B THEN 0 ELSE pos[b]]

\* outside the try: when the write raises the thread ends and the lock stays
ThreadStart(b) ==
    /\ thread[b] = "start"
    /\ WriteStatus(b, "indexing", "spawn", "none")
    /\ UNCHANGED <<lock, files, host, procs, late, calls, crashes, corrupt>>

Spawn(b) ==
    /\ thread[b] = "spawn"
    /\ thread' = [thread EXCEPT ![b] = "watch"]
    /\ scan' = [scan EXCEPT ![b] = "unready"]
    /\ UNCHANGED <<lock, status, files, host, fd, pos, late, calls, crashes, corrupt>>

\* a progress line; the scan keeps running whatever becomes of the thread
Progress(b) ==
    /\ thread[b] = "watch" /\ Scanning(b)
    /\ WriteStatus(b, "indexing", "watch", "except")
    /\ UNCHANGED <<lock, files, host, procs, late, calls, crashes, corrupt>>

\* Mutant: the thread goes on without waiting for the process.
ReapNoWait(b) ==
    /\ thread[b] = "watch"
    /\ thread' = [thread EXCEPT ![b] = "report"]
    /\ UNCHANGED <<lock, status, files, host, procs, late, calls, crashes, corrupt>>

\* process.poll() is not None
Reap(b) ==
    /\ thread[b] = "watch" /\ scan[b] \in {"ok", "failed"}
    /\ thread' = [thread EXCEPT ![b] = IF scan[b] = "ok" THEN "report" ELSE "except"]
    /\ scan' = [scan EXCEPT ![b] = "none"]
    /\ UNCHANGED <<lock, status, files, host, fd, pos, late, calls, crashes, corrupt>>

\* process.kill(), process.wait(), raise TimeoutError
KillScan(b) ==
    /\ thread[b] = "watch" /\ Scanning(b) /\ late[b]
    /\ thread' = [thread EXCEPT ![b] = "except"]
    /\ scan' = [scan EXCEPT ![b] = "none"]
    /\ ProcessGone({b})
    /\ UNCHANGED <<lock, status, files, host, late, calls, crashes, corrupt>>

\* Mutant: the outcome is not written before the lock goes.
ReportErrorLost(b) ==
    /\ thread[b] = "except"
    /\ WriteStatus(b, status, "finally", "finally")
    /\ UNCHANGED <<lock, files, host, procs, late, calls, crashes, corrupt>>

ReportReady(b) ==
    /\ thread[b] = "report"
    /\ WriteStatus(b, "ready", "finally", "except")
    /\ UNCHANGED <<lock, files, host, procs, late, calls, crashes, corrupt>>

ReportError(b) ==
    /\ thread[b] = "except"
    /\ WriteStatus(b, "error", "finally", "finally")
    /\ UNCHANGED <<lock, files, host, procs, late, calls, crashes, corrupt>>

\* item["lock"].unlink(), whoever made the lock
ReleaseLock(b) ==
    /\ thread[b] = "finally"
    /\ thread' = [thread EXCEPT ![b] = "none"]
    /\ lock' = NoBuild
    /\ UNCHANGED <<status, files, host, procs, late, calls, crashes, corrupt>>

Thread(b) ==
    \/ ThreadStart(b) \/ Spawn(b) \/ Reap(b) \/ ReportReady(b)
    \/ ReportError(b) \/ ReleaseLock(b)

-----------------------------------------------------------------------------
(* scan, from the removal of the old READY to the writing of the new one.   *)

ScanTo(b, next) == scan' = [scan EXCEPT ![b] = next]
ScanOnly == UNCHANGED <<lock, status, thread, host, late, calls, crashes, corrupt>>

\* bail! or `?`: the process exits and its descriptor closes
ScanFails(b) ==
    /\ ScanTo(b, "failed")
    /\ ProcessGone({b})
    /\ UNCHANGED files

\* Mutant: the READY of the previous build stays during the next one.
RemoveReadyNot(b) ==
    /\ scan[b] = "unready"
    /\ ScanTo(b, "open")
    /\ UNCHANGED <<files, fd, pos>> /\ ScanOnly

RemoveReady(b) ==
    /\ scan[b] = "unready"
    /\ ready' = FALSE
    /\ ScanTo(b, "open")
    /\ UNCHANGED <<dbTmp, db, refsTmp, refsBin, written, fd, pos>> /\ ScanOnly

\* the inodes no name and no descriptor refers to
Unused == {i \in Inode : i # refsTmp /\ i # refsBin /\ \A b \in Build : fd[b] # i}

\* File::create(refs.bin.tmp): truncates the file that is there, or makes one
CreateRefs(b) ==
    /\ scan[b] = "open"
    /\ \E i \in IF refsTmp = NoFile THEN Unused ELSE {refsTmp} :
        /\ refsTmp' = i
        /\ fd' = [fd EXCEPT ![b] = i]
        /\ written' = [written EXCEPT ![i] = {}]
    /\ pos' = [pos EXCEPT ![b] = 0]
    /\ ScanTo(b, "write")
    /\ UNCHANGED <<ready, dbTmp, db, refsBin>> /\ ScanOnly

\* Mutants: the loop runs one block too far, or stops one block short.
WriteBlockOver(b) ==
    /\ scan[b] = "write" /\ pos[b] <= Blocks
    /\ pos' = [pos EXCEPT ![b] = pos[b] + 1]
    /\ written' = [written EXCEPT ![fd[b]] = @ \cup {pos[b] + 1}]
    /\ UNCHANGED <<ready, dbTmp, db, refsTmp, refsBin, scan, fd>> /\ ScanOnly
SyncRefsShort(b) ==
    /\ scan[b] = "write" /\ pos[b] + 1 >= Blocks /\ ~corrupt
    /\ pos' = [pos EXCEPT ![b] = 0]
    /\ ScanTo(b, "db")
    /\ UNCHANGED <<files, fd>> /\ ScanOnly

\* the packet loop; a scan writes at its own offset
WriteBlock(b) ==
    /\ scan[b] = "write" /\ pos[b] < Blocks
    /\ pos' = [pos EXCEPT ![b] = pos[b] + 1]
    /\ written' = [written EXCEPT ![fd[b]] = @ \cup {pos[b] + 1}]
    /\ UNCHANGED <<ready, dbTmp, db, refsTmp, refsBin, scan, fd>> /\ ScanOnly

\* flush and sync at the end of the capture
SyncRefs(b) ==
    /\ scan[b] = "write" /\ pos[b] = Blocks /\ ~corrupt
    /\ pos' = [pos EXCEPT ![b] = 0]
    /\ ScanTo(b, "db")
    /\ UNCHANGED <<files, fd>> /\ ScanOnly

\* capture.sqlite.tmp is removed if present, created, filled and committed
WriteDb(b) ==
    /\ scan[b] = "db"
    /\ dbTmp' = TRUE
    /\ ScanTo(b, "drop_refs")
    /\ UNCHANGED <<ready, db, refsTmp, refsBin, written, fd, pos>> /\ ScanOnly

DropRefs(b) ==
    /\ scan[b] = "drop_refs"
    /\ refsBin' = NoFile
    /\ ScanTo(b, "drop_db")
    /\ UNCHANGED <<ready, dbTmp, db, refsTmp, written, fd, pos>> /\ ScanOnly

DropDb(b) ==
    /\ scan[b] = "drop_db"
    /\ db' = FALSE
    /\ ScanTo(b, "move_refs")
    /\ UNCHANGED <<ready, dbTmp, refsTmp, refsBin, written, fd, pos>> /\ ScanOnly

\* fs::rename replaces the target and fails when the source is gone
MoveRefs(b) ==
    /\ scan[b] = "move_refs"
    /\ \/ /\ refsTmp # NoFile
          /\ refsBin' = refsTmp /\ refsTmp' = NoFile
          /\ ScanTo(b, "move_db")
          /\ UNCHANGED <<ready, dbTmp, db, written, fd, pos>>
       \/ refsTmp = NoFile /\ ScanFails(b)
    /\ ScanOnly

MoveDb(b) ==
    /\ scan[b] = "move_db"
    /\ \/ /\ dbTmp
          /\ db' = TRUE /\ dbTmp' = FALSE
          /\ ScanTo(b, "publish")
          /\ UNCHANGED <<ready, refsTmp, refsBin, written, fd, pos>>
       \/ ~dbTmp /\ ScanFails(b)
    /\ ScanOnly

\* READY is written last
Publish(b) ==
    /\ scan[b] = "publish"
    /\ ready' = TRUE
    /\ ScanTo(b, "ok")
    /\ ProcessGone({b})
    /\ UNCHANGED <<dbTmp, db, refsTmp, refsBin, written>> /\ ScanOnly

\* a header or record the scanner rejects, before or after refs.bin.tmp exists
RejectCapture(b) ==
    /\ corrupt /\ scan[b] \in {"open", "write"}
    /\ ScanFails(b) /\ ScanOnly

\* the pipe to a thread that is gone is closed, and a progress line panics
BrokenPipe(b) ==
    /\ ~Alive(b) /\ scan[b] = "write"
    /\ ScanFails(b) /\ ScanOnly

\* a write to the volume raises; a failed fs::write may have created READY
WriteFails(b) ==
    /\ WritesFail /\ scan[b] \in {"open", "write", "db", "publish"}
    /\ ScanTo(b, "failed")
    /\ ProcessGone({b})
    /\ \/ UNCHANGED <<ready, dbTmp>>
       \/ scan[b] = "publish" /\ ready' = TRUE /\ UNCHANGED dbTmp
       \/ scan[b] = "db" /\ dbTmp' = TRUE /\ UNCHANGED ready
    /\ UNCHANGED <<db, refsTmp, refsBin, written>> /\ ScanOnly

Scan(b) ==
    \/ RemoveReady(b) \/ CreateRefs(b) \/ WriteBlock(b) \/ SyncRefs(b)
    \/ WriteDb(b) \/ DropRefs(b) \/ DropDb(b) \/ MoveRefs(b) \/ MoveDb(b)
    \/ Publish(b) \/ RejectCapture(b)

-----------------------------------------------------------------------------
(* Time and crashes.                                                        *)

\* INDEX_TIMEOUT passes.  Unless SlowScan, a build is over by then.
Timeout(b) ==
    /\ ~late[b] /\ (Alive(b) \/ lock = b)
    /\ SlowScan \/ (~Alive(b) /\ ~Scanning(b))
    /\ late' = [late EXCEPT ![b] = TRUE]
    /\ UNCHANGED <<lock, status, files, thread, host, procs, calls, crashes, corrupt>>

\* a worker process dies with its request and build threads; the scan
\* processes it started go on, and nobody reads what they print
WorkerCrash(w) ==
    /\ crashes < MaxCrash
    /\ crashes' = crashes + 1
    /\ thread' = [b \in Build |-> IF host[b] = w THEN "none" ELSE thread[b]]
    /\ req' = [r \in Req |-> IF WorkerOf[r] = w THEN "idle" ELSE req[r]]
    /\ seen' = [r \in Req |-> IF WorkerOf[r] = w THEN "none" ELSE seen[r]]
    /\ UNCHANGED <<lock, status, files, host, procs, late, reply, corrupt>>

\* the container restarts; only the volume with the files survives
Restart ==
    /\ crashes < MaxCrash
    /\ crashes' = crashes + 1
    /\ thread' = [b \in Build |-> "none"]
    /\ scan' = [b \in Build |-> "none"]
    /\ ProcessGone(Build)
    /\ req' = [r \in Req |-> "idle"]
    /\ seen' = [r \in Req |-> "none"]
    /\ UNCHANGED <<lock, status, files, host, late, reply, corrupt>>

Next ==
    \/ \E r \in Req : Request(r) \/ Reopen(r)
    \/ \E b \in Build : Thread(b) \/ Progress(b) \/ KillScan(b)
    \/ \E b \in Build : Scan(b) \/ BrokenPipe(b) \/ WriteFails(b) \/ Timeout(b)
    \/ \E w \in Worker : WorkerCrash(w)
    \/ Restart

Spec == Init /\ [][Next]_vars

\* Threads and processes are scheduled, pollers keep polling, time passes.
\* Nothing obliges a user, a crash, a failed write or a progress line.
Fairness ==
    /\ \A r \in Req : WF_vars(Request(r))
    /\ \A b \in Build : WF_vars(Thread(b)) /\ WF_vars(Scan(b)) /\ WF_vars(Timeout(b))

FairSpec == Spec /\ Fairness
-----------------------------------------------------------------------------
(* Properties.                                                              *)

TypeOK ==
    /\ lock \in Build \cup {NoBuild}
    /\ status \in StatusState
    /\ ready \in BOOLEAN /\ dbTmp \in BOOLEAN /\ db \in BOOLEAN
    /\ refsTmp \in Inode \cup {NoFile} /\ refsBin \in Inode \cup {NoFile}
    /\ written \in [Inode -> SUBSET AllBlocks]
    /\ thread \in [Build -> ThreadAt] /\ host \in [Build -> Worker]
    /\ scan \in [Build -> ScanAt]
    /\ fd \in [Build -> Inode \cup {NoFile}] /\ pos \in [Build -> 0..Blocks]
    /\ late \in [Build -> BOOLEAN]
    /\ req \in [Req -> CallAt] /\ seen \in [Req -> StatusState]
    /\ reply \in [Req -> Answer]
    /\ crashes \in 0..MaxCrash /\ corrupt \in Corrupt

\* The lock file guards the build: two scan processes never run at once on
\* the index directory of one capture.
SingleScan == \A b, c \in Build : Scanning(b) /\ Scanning(c) => b = c

\* An index that is_ready offers to readers has every block of refs.bin and
\* its SQLite manifest: READY never outlives or precedes the files it is for.
ReadyIsComplete ==
    ready => db /\ refsBin # NoFile /\ written[refsBin] = AllBlocks

\* A build's outcome is in the status file before its lock goes: a poller
\* that finds no lock and no thread does not read "indexing".
OutcomeBeforeRelease ==
    lock = NoBuild => status \in {"none", IF is_ready THEN "ready" ELSE "error"}

\* request_index starts a build "when necessary": never for a capture whose
\* index is already complete.
BuildOnlyWhenNecessary ==
    [][\A b \in Build : thread[b] = "none" /\ thread'[b] = "start" => ~is_ready]_vars

\* Background failures are returned through the status API: while somebody
\* polls, a build that failed is in the end answered with "error".
FailureIsReported ==
    \A r \in Req, b \in Build :
        (scan[b] = "failed" /\ reply[r] = "indexing") ~> (reply[r] = "error")

\* Whatever crashes happen meanwhile, a capture somebody polls for and the
\* scanner accepts has a complete index in the end: a dead build does not
\* block the next one.
PolledCaptureIsIndexed ==
    \A r \in Req : (reply[r] = "indexing" /\ ~corrupt) ~> (is_ready /\ written[refsBin] = AllBlocks)

\* Two scans that overlap after a takeover of a stale lock write one inode,
\* and the first to finish publishes it with blocks missing.  Such an index
\* does not last: the other scan is still alive, writing that very inode or
\* about to take the files away.
Torn == is_ready /\ written[refsBin] # AllBlocks
TornHasWriter == Torn => \E b \in Build : Scanning(b) /\ fd[b] = refsBin

\* A lock whose build thread is gone (a crash, or a status write that raised
\* before the try) does not block the capture for ever: while somebody polls
\* and no index is ready, it is taken away.
Polling(r) == reply[r] \in {"none", "indexing"}
LeakedLockIsReclaimed ==
    \A b \in Build : (lock = b /\ ~Alive(b))
        ~> (lock # b \/ is_ready \/ \A r \in Req : ~Polling(r))

\* Seen from outside, builds take turns at the index as IndexPromise says.
Promise == INSTANCE IndexPromise WITH
    holder <- lock,
    working <- {b \in Build : Scanning(b)},
    published <- ready
KeepsPromise == Promise!Spec
=============================================================================
