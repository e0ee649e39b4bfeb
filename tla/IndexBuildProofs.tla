--------------------------- MODULE IndexBuildProofs ---------------------------
(***************************************************************************)
(* When the builds of one capture keep out of each other's way, whatever   *)
(* the number of workers, pollers and blocks.                              *)
(***************************************************************************)
EXTENDS IndexBuild, TLAPS

USE BuildConstants

-----------------------------------------------------------------------------
(* Type correctness, for every value of the constants.                      *)

LEMMA AnswerOfStatus == \A s \in StatusState : StateOr(s) \in Answer
  BY DEF StatusState, StateOr, Answer

LEMMA InitTyped == Init => TypeOK
  <1>. SUFFICES ASSUME Init PROVE TypeOK
    OBVIOUS
  <1>1. /\ lock \in Build \cup {NoBuild} /\ status \in StatusState
        /\ ready \in BOOLEAN /\ dbTmp \in BOOLEAN /\ db \in BOOLEAN
        /\ refsTmp \in Inode \cup {NoFile} /\ refsBin \in Inode \cup {NoFile}
        /\ written \in [Inode -> SUBSET AllBlocks]
    BY DEF Init, StatusState
  <1>2. /\ thread \in [Build -> ThreadAt] /\ host \in [Build -> Worker]
        /\ scan \in [Build -> ScanAt]
        /\ fd \in [Build -> Inode \cup {NoFile}] /\ late \in [Build -> BOOLEAN]
    BY DEF Init, ThreadAt, ScanAt
  <1>3. /\ req \in [Req -> CallAt] /\ seen \in [Req -> StatusState] /\ reply \in [Req -> Answer]
        /\ pos \in [Build -> 0..Blocks] /\ crashes \in 0..MaxCrash /\ corrupt \in Corrupt
    BY DEF Init, CallAt, StatusState, Answer
  <1>. QED BY <1>1, <1>2, <1>3 DEF TypeOK

LEMMA RequestTyped ==
    ASSUME TypeOK, NEW r \in Req, Request(r) \/ Reopen(r)
    PROVE  TypeOK'
  <1>. USE DEF TypeOK, files, procs, calls
  <1>1. \A step \in CallAt : GoTo(r, step) =>
            req' \in [Req -> CallAt] /\ seen' \in [Req -> StatusState] /\ reply' \in [Req -> Answer]
    BY DEF GoTo
  <1>2. \A state \in Answer : Answered(r, state) =>
            req' \in [Req -> CallAt] /\ seen' \in [Req -> StatusState] /\ reply' \in [Req -> Answer]
    BY DEF Answered, CallAt, StatusState
  <1>3. /\ StateOr(seen[r]) \in Answer /\ StateOr(status) \in Answer
        /\ {"indexing", "ready"} \subseteq Answer
        /\ {"status", "lock", "unlink", "create", "reread"} \subseteq CallAt
    BY AnswerOfStatus DEF Answer, CallAt
  <1>4. CASE CheckReady(r) BY <1>1, <1>2, <1>3, <1>4 DEF CheckReady
  <1>5. CASE ReadStatus(r) BY <1>3, <1>5 DEF ReadStatus
  <1>6. CASE CheckLock(r) BY <1>1, <1>2, <1>3, <1>6 DEF CheckLock
  <1>7. CASE UnlinkStale(r) BY <1>1, <1>3, <1>7 DEF UnlinkStale
  <1>8. CASE CreateLock(r)
    <2>1. req' \in [Req -> CallAt] /\ seen' \in [Req -> StatusState] /\ reply' \in [Req -> Answer]
      BY <1>2, <1>3, <1>8 DEF CreateLock
    <2>2. PICK b \in Build : /\ lock' = b
                             /\ thread' = [thread EXCEPT ![b] = "start"]
                             /\ host' = [host EXCEPT ![b] = WorkerOf[r]]
                             /\ scan' = [scan EXCEPT ![b] = "none"]
                             /\ late' = [late EXCEPT ![b] = FALSE]
      BY <1>8 DEF CreateLock
    <2>. QED BY <1>8, <2>1, <2>2 DEF CreateLock, ThreadAt, ScanAt
  <1>9. CASE LockTaken(r) BY <1>1, <1>3, <1>9 DEF LockTaken
  <1>10. CASE RereadStatus(r) BY <1>2, <1>3, <1>10 DEF RereadStatus
  <1>11. CASE Reopen(r) BY <1>11 DEF Reopen, Answer
  <1>. QED BY <1>4, <1>5, <1>6, <1>7, <1>8, <1>9, <1>10, <1>11 DEF Request

LEMMA ThreadTyped ==
    ASSUME TypeOK, NEW b \in Build, Thread(b) \/ Progress(b) \/ KillScan(b)
    PROVE  TypeOK'
  <1>. USE DEF TypeOK, files, procs, calls
  <1>1. \A state \in StatusState, next \in ThreadAt, raised \in ThreadAt :
            WriteStatus(b, state, next, raised) =>
                status' \in StatusState /\ thread' \in [Build -> ThreadAt]
    BY DEF WriteStatus
  <1>2. /\ {"indexing", "ready", "error"} \subseteq StatusState
        /\ {"none", "spawn", "watch", "report", "except", "finally"} \subseteq ThreadAt
        /\ {"none", "unready"} \subseteq ScanAt
    BY DEF StatusState, ThreadAt, ScanAt, ScanWorking
  <1>3. CASE ThreadStart(b) BY <1>1, <1>2, <1>3 DEF ThreadStart
  <1>4. CASE Spawn(b) BY <1>2, <1>4 DEF Spawn
  <1>5. CASE Reap(b) BY <1>2, <1>5 DEF Reap
  <1>6. CASE ReportReady(b) BY <1>1, <1>2, <1>6 DEF ReportReady
  <1>7. CASE ReportError(b) BY <1>1, <1>2, <1>7 DEF ReportError
  <1>8. CASE ReleaseLock(b) BY <1>2, <1>8 DEF ReleaseLock
  <1>9. CASE Progress(b) BY <1>1, <1>2, <1>9 DEF Progress
  <1>10. CASE KillScan(b) BY <1>2, <1>10 DEF KillScan, ProcessGone
  <1>. QED BY <1>3, <1>4, <1>5, <1>6, <1>7, <1>8, <1>9, <1>10 DEF Thread

LEMMA ScanTyped ==
    ASSUME TypeOK, NEW b \in Build, Scan(b) \/ BrokenPipe(b) \/ WriteFails(b)
    PROVE  TypeOK'
  <1>. USE DEF TypeOK, files, procs, calls, ScanOnly
  <1>1. \A next \in ScanAt : ScanTo(b, next) => scan' \in [Build -> ScanAt]
    BY DEF ScanTo
  <1>2. ScanWorking \cup {"ok", "failed"} \subseteq ScanAt
    BY DEF ScanAt
  <1>3. {"open", "write", "db", "drop_refs", "drop_db", "move_refs", "move_db", "publish"}
            \subseteq ScanWorking
    BY DEF ScanWorking
  <1>4. ProcessGone({b}) =>
            fd' \in [Build -> Inode \cup {NoFile}] /\ pos' \in [Build -> 0..Blocks]
    BY DEF ProcessGone
  <1>5. ScanFails(b) /\ ScanOnly => TypeOK'
    BY <1>1, <1>2, <1>4 DEF ScanFails
  <1>6. CASE RemoveReady(b) BY <1>1, <1>2, <1>3, <1>6 DEF RemoveReady
  <1>7. CASE CreateRefs(b)
    <2>1. PICK i \in Inode : /\ refsTmp' = i
                             /\ fd' = [fd EXCEPT ![b] = i]
                             /\ written' = [written EXCEPT ![i] = {}]
      BY <1>7 DEF CreateRefs, Unused
    <2>. QED BY <1>1, <1>2, <1>3, <1>7, <2>1 DEF CreateRefs
  <1>8. CASE WriteBlock(b)
    <2>1. pos[b] + 1 \in 0..Blocks /\ pos[b] + 1 \in AllBlocks
      BY <1>8 DEF WriteBlock, AllBlocks
    <2>2. pos' \in [Build -> 0..Blocks] /\ written' \in [Inode -> SUBSET AllBlocks]
      BY <1>8, <2>1 DEF WriteBlock
    <2>. QED BY <1>8, <2>2 DEF WriteBlock
  <1>9. CASE SyncRefs(b) BY <1>1, <1>2, <1>3, <1>9 DEF SyncRefs
  <1>10. CASE WriteDb(b) BY <1>1, <1>2, <1>3, <1>10 DEF WriteDb
  <1>11. CASE DropRefs(b) BY <1>1, <1>2, <1>3, <1>11 DEF DropRefs
  <1>12. CASE DropDb(b) BY <1>1, <1>2, <1>3, <1>12 DEF DropDb
  <1>13. CASE MoveRefs(b) BY <1>1, <1>2, <1>3, <1>5, <1>13 DEF MoveRefs
  <1>14. CASE MoveDb(b) BY <1>1, <1>2, <1>3, <1>5, <1>14 DEF MoveDb
  <1>15. CASE Publish(b) BY <1>1, <1>2, <1>3, <1>4, <1>15 DEF Publish
  <1>16. CASE RejectCapture(b) BY <1>5, <1>16 DEF RejectCapture
  <1>17. CASE BrokenPipe(b) BY <1>5, <1>17 DEF BrokenPipe
  <1>18. CASE WriteFails(b) BY <1>1, <1>2, <1>4, <1>18 DEF WriteFails
  <1>. QED BY <1>6, <1>7, <1>8, <1>9, <1>10, <1>11, <1>12, <1>13, <1>14, <1>15, <1>16,
              <1>17, <1>18 DEF Scan

\* Time and crashes.
LEMMA FaultTyped ==
    ASSUME TypeOK,
           (\E b \in Build : Timeout(b)) \/ (\E w \in Worker : WorkerCrash(w)) \/ Restart
    PROVE  TypeOK'
  <1>. USE DEF TypeOK, files, procs, calls
  <1>1. "none" \in ThreadAt /\ "none" \in ScanAt /\ "idle" \in CallAt /\ "none" \in StatusState
    BY DEF ThreadAt, ScanAt, CallAt, StatusState
  <1>2. ASSUME NEW b \in Build, Timeout(b) PROVE TypeOK' BY <1>2 DEF Timeout
  <1>3. ASSUME NEW w \in Worker, WorkerCrash(w) PROVE TypeOK' BY <1>1, <1>3 DEF WorkerCrash
  <1>4. CASE Restart BY <1>1, <1>4 DEF Restart, ProcessGone
  <1>. QED BY <1>2, <1>3, <1>4

LEMMA NextTyped == TypeOK /\ [Next]_vars => TypeOK'
  <1>1. CASE UNCHANGED vars BY <1>1 DEF vars, files, procs, calls, TypeOK
  <1>. QED BY <1>1, RequestTyped, ThreadTyped, ScanTyped, FaultTyped DEF Next

\* Every variable of IndexBuild keeps its type, with any number of requests,
\* workers, builds and blocks, and whatever fails.
THEOREM TypeCorrect == Spec => []TypeOK
  BY InitTyped, NextTyped, PTL DEF Spec

-----------------------------------------------------------------------------
(* Builds that keep out of each other's way.                                *)

\* What the lock is sound under.  A scan ends within INDEX_TIMEOUT and the
\* volume takes every write, as the runs IndexHealthy and IndexCrash have it;
\* and either no process dies or one poller at a time is left to find the
\* stale lock.  Each condition is needed: without it TLC refutes SingleScan
\* or ReadyIsComplete.
Undisturbed ==
    /\ ~SlowScan /\ ~WritesFail
    /\ MaxCrash = 0 \/ \A q, r \in Req : q = r

\* Whoever builds holds the lock; a stale lock is nobody's; who is about to
\* unlink a lock is about to unlink a stale one.
LockIsOwned ==
    /\ \A b \in Build : Alive(b) \/ Scanning(b) => lock = b
    /\ \A b \in Build : lock = b /\ late[b] => ~Alive(b) /\ ~Scanning(b)
    /\ \A b \in Build : Scanning(b) => thread[b] \in {"watch", "none"}
    /\ \A r \in Req : req[r] = "unlink" => lock # NoBuild /\ late[lock]
    /\ MaxCrash = 0 /\ lock # NoBuild => Alive(lock)

\* How far the files have come when a scan is at a step.
FilesFollowScan ==
    \A b \in Build :
        /\ Scanning(b) /\ scan[b] # "unready" => ~ready
        /\ scan[b] = "write" =>
               fd[b] \in Inode /\ refsTmp = fd[b] /\ written[fd[b]] = 1..pos[b]
        /\ scan[b] \in {"db", "drop_refs", "drop_db", "move_refs"} =>
               refsTmp # NoFile /\ written[refsTmp] = AllBlocks
        /\ scan[b] \in {"drop_refs", "drop_db", "move_refs", "move_db"} => dbTmp
        /\ scan[b] \in {"move_db", "publish"} =>
               refsBin # NoFile /\ written[refsBin] = AllBlocks
        /\ scan[b] = "publish" => db

\* Two scans never work at once, since a scan that works holds the lock.
LEMMA OwnerIsSingle == LockIsOwned => SingleScan
  BY DEF LockIsOwned, SingleScan

LEMMA InitOwned == Init => LockIsOwned /\ FilesFollowScan /\ ReadyIsComplete
  BY DEF Init, LockIsOwned, FilesFollowScan, ReadyIsComplete, Alive, Scanning, ScanWorking

\* A request step changes no file, and takes the lock only when it is free or
\* nobody's any more.
LEMMA RequestOwned ==
    ASSUME Undisturbed, TypeOK, LockIsOwned, NEW r \in Req, Request(r) \/ Reopen(r)
    PROVE  LockIsOwned'
  <1>. USE DEF TypeOK, files, procs, calls
  <1>1. \A step : GoTo(r, step) /\ step # "unlink" =>
            \A q \in Req : req'[q] = "unlink" => req[q] = "unlink"
    BY DEF GoTo
  <1>2. \A state : Answered(r, state) =>
            \A q \in Req : req'[q] = "unlink" => req[q] = "unlink"
    BY DEF Answered
  <1>3. UNCHANGED <<lock, thread, scan, late>> /\ (\A q \in Req : req'[q] = "unlink" => req[q] = "unlink")
            => LockIsOwned'
    BY DEF LockIsOwned, Alive, Scanning
  <1>4. CASE CheckReady(r) BY <1>1, <1>2, <1>3, <1>4 DEF CheckReady
  <1>5. CASE ReadStatus(r) BY <1>3, <1>5 DEF ReadStatus
  <1>6. CASE CheckLock(r)
    <2>1. UNCHANGED <<lock, thread, scan, late>> BY <1>6 DEF CheckLock
    <2>2. \A q \in Req : req'[q] = "unlink" =>
              req[q] = "unlink" \/ (lock # NoBuild /\ late[lock])
      BY <1>6 DEF CheckLock, GoTo, Answered
    <2>3. \A q \in Req : req'[q] = "unlink" => lock # NoBuild /\ late[lock]
      BY <2>2 DEF LockIsOwned
    <2>. QED BY <2>1, <2>3 DEF LockIsOwned, Alive, Scanning
  <1>7. CASE UnlinkStale(r)
    <2>1. /\ req[r] = "unlink" /\ lock' = NoBuild /\ req' = [req EXCEPT ![r] = "create"]
          /\ UNCHANGED <<thread, scan, late>>
      BY <1>7 DEF UnlinkStale, GoTo
    <2>2. lock \in Build /\ late[lock] /\ ~Alive(lock) /\ ~Scanning(lock)
      BY <2>1 DEF LockIsOwned
    <2>3. MaxCrash # 0 BY <2>2 DEF LockIsOwned
    <2>4. \A q \in Req : q = r BY <2>3 DEF Undisturbed
    <2>5. \A b \in Build : ~Alive(b) /\ ~Scanning(b) BY <2>2 DEF LockIsOwned
    <2>. QED BY <2>1, <2>4, <2>5 DEF LockIsOwned, Alive, Scanning
  <1>8. CASE CreateLock(r)
    <2>1. PICK b \in Build : /\ Free(b) /\ lock' = b
                             /\ thread' = [thread EXCEPT ![b] = "start"]
                             /\ scan' = [scan EXCEPT ![b] = "none"]
                             /\ late' = [late EXCEPT ![b] = FALSE]
      BY <1>8 DEF CreateLock
    <2>2. lock = NoBuild /\ \A q \in Req : req'[q] = "unlink" => req[q] = "unlink"
      BY <1>2, <1>8 DEF CreateLock
    <2>3. \A c \in Build : ~Alive(c) /\ ~Scanning(c)
      BY <2>2 DEF LockIsOwned
    <2>4. \A q \in Req : req'[q] # "unlink"
      BY <2>2 DEF LockIsOwned
    <2>5. \A c \in Build : /\ Alive(c)' => c = b
                           /\ ~Scanning(c)'
      BY <2>1, <2>3 DEF Alive, Scanning, ScanWorking
    <2>6. lock' = b /\ ~late'[b] /\ Alive(b)'
      BY <2>1 DEF Alive
    <2>. QED BY <2>4, <2>5, <2>6 DEF LockIsOwned
  <1>9. CASE LockTaken(r) BY <1>1, <1>3, <1>9 DEF LockTaken
  <1>10. CASE RereadStatus(r) BY <1>2, <1>3, <1>10 DEF RereadStatus
  <1>11. CASE Reopen(r) BY <1>3, <1>11 DEF Reopen
  <1>. QED BY <1>4, <1>5, <1>6, <1>7, <1>8, <1>9, <1>10, <1>11 DEF Request

\* A thread lets the lock go after its scan has ended, and it is its own lock.
LEMMA ThreadOwned ==
    ASSUME Undisturbed, TypeOK, LockIsOwned, NEW b \in Build,
           Thread(b) \/ Progress(b) \/ KillScan(b)
    PROVE  LockIsOwned' /\ ~KillScan(b)
  <1>. USE DEF TypeOK, files, procs, calls
  <1>0. ~KillScan(b) BY DEF KillScan, LockIsOwned
  <1>. SUFFICES LockIsOwned' BY <1>0
  <1>1. ~WritesFail BY DEF Undisturbed
  <1>2. ASSUME NEW next \in ThreadAt \ {"none"},
               UNCHANGED <<lock, scan, late, req>>, thread[b] # "none",
               thread' = [thread EXCEPT ![b] = next], Scanning(b) => next = "watch"
        PROVE  LockIsOwned'
    <2>1. \A c \in Build : /\ Alive(c)' <=> Alive(c)
                           /\ Scanning(c)' <=> Scanning(c)
                           /\ thread'[c] = IF c = b THEN next ELSE thread[c]
      BY <1>2 DEF Alive, Scanning
    <2>. QED BY <1>2, <2>1 DEF LockIsOwned
  <1>3. CASE ThreadStart(b)
    <2>1. ~Scanning(b) BY <1>3 DEF ThreadStart, LockIsOwned
    <2>. QED BY <1>1, <1>2, <1>3, <2>1 DEF ThreadStart, WriteStatus, ThreadAt
  <1>4. CASE Spawn(b)
    <2>1. /\ UNCHANGED <<lock, late, req>> /\ thread[b] = "spawn"
          /\ thread' = [thread EXCEPT ![b] = "watch"]
          /\ scan' = [scan EXCEPT ![b] = "unready"]
      BY <1>4 DEF Spawn
    <2>2. \A c \in Build : /\ Alive(c)' <=> Alive(c)
                           /\ Scanning(c)' <=> Scanning(c) \/ c = b
                           /\ thread'[c] = IF c = b THEN "watch" ELSE thread[c]
      BY <2>1 DEF Alive, Scanning, ScanWorking
    <2>3. Alive(b) BY <2>1 DEF Alive
    <2>. QED BY <2>1, <2>2, <2>3 DEF LockIsOwned
  <1>5. CASE Reap(b)
    <2>1. /\ UNCHANGED <<lock, late, req>> /\ thread[b] = "watch" /\ ~Scanning(b)
          /\ \E next \in {"report", "except"} : thread' = [thread EXCEPT ![b] = next]
          /\ scan' = [scan EXCEPT ![b] = "none"]
      BY <1>5 DEF Reap, Scanning, ScanWorking
    <2>2. \A c \in Build : /\ Alive(c)' <=> Alive(c)
                           /\ Scanning(c)' <=> Scanning(c)
                           /\ c # b => thread'[c] = thread[c]
      BY <2>1 DEF Alive, Scanning, ScanWorking
    <2>. QED BY <2>1, <2>2 DEF LockIsOwned
  <1>6. CASE ReportReady(b)
    <2>1. ~Scanning(b) BY <1>6 DEF ReportReady, LockIsOwned
    <2>. QED BY <1>1, <1>2, <1>6, <2>1 DEF ReportReady, WriteStatus, ThreadAt
  <1>7. CASE ReportError(b)
    <2>1. ~Scanning(b) BY <1>7 DEF ReportError, LockIsOwned
    <2>. QED BY <1>1, <1>2, <1>7, <2>1 DEF ReportError, WriteStatus, ThreadAt
  <1>8. CASE ReleaseLock(b)
    <2>1. /\ UNCHANGED <<scan, late, req>> /\ thread[b] = "finally" /\ lock' = NoBuild
          /\ thread' = [thread EXCEPT ![b] = "none"]
      BY <1>8 DEF ReleaseLock
    <2>2. lock = b /\ ~Scanning(b) /\ ~late[b]
      BY <2>1 DEF LockIsOwned, Alive
    <2>3. \A c \in Build : ~Scanning(c) /\ ~Alive(c)'
      BY <2>1, <2>2 DEF LockIsOwned, Alive
    <2>4. \A c \in Build : ~Scanning(c)' BY <2>1, <2>3 DEF Scanning
    <2>5. \A q \in Req : req'[q] # "unlink" BY <2>1, <2>2 DEF LockIsOwned
    <2>. QED BY <2>1, <2>3, <2>4, <2>5 DEF LockIsOwned
  <1>9. CASE Progress(b)
    BY <1>1, <1>2, <1>9 DEF Progress, WriteStatus, ThreadAt
  <1>. QED BY <1>0, <1>3, <1>4, <1>5, <1>6, <1>7, <1>8, <1>9 DEF Thread

\* A scan process touches neither the lock nor the thread, and no new one
\* starts to work.
LEMMA ScanOwned ==
    ASSUME TypeOK, LockIsOwned, NEW b \in Build,
           Scan(b) \/ BrokenPipe(b) \/ WriteFails(b)
    PROVE  LockIsOwned'
  <1>. USE DEF TypeOK, ScanOnly, ScanTo, ScanFails
  <1>1. Scanning(b) /\ UNCHANGED <<lock, thread, late, calls>>
    BY DEF Scan, RemoveReady, CreateRefs, WriteBlock, SyncRefs, WriteDb, DropRefs, DropDb,
           MoveRefs, MoveDb, Publish, RejectCapture, BrokenPipe, WriteFails, Scanning, ScanWorking
  <1>2. UNCHANGED scan \/ \E next : scan' = [scan EXCEPT ![b] = next]
    BY DEF Scan, RemoveReady, CreateRefs, WriteBlock, SyncRefs, WriteDb, DropRefs, DropDb,
           MoveRefs, MoveDb, Publish, RejectCapture, BrokenPipe, WriteFails
  <1>3. \A c \in Build : /\ Scanning(c)' => Scanning(c)
                         /\ Alive(c)' <=> Alive(c)
    BY <1>1, <1>2 DEF Scanning, Alive
  <1>. QED BY <1>1, <1>3 DEF LockIsOwned, calls

\* Time passes for a lock only when its build is over; who dies does not build.
LEMMA FaultOwned ==
    ASSUME Undisturbed, TypeOK, LockIsOwned,
           (\E b \in Build : Timeout(b)) \/ (\E w \in Worker : WorkerCrash(w)) \/ Restart
    PROVE  LockIsOwned'
  <1>. USE DEF TypeOK, files, procs, calls
  <1>1. ASSUME NEW b \in Build, Timeout(b) PROVE LockIsOwned'
    <2>1. ~Alive(b) /\ ~Scanning(b) /\ late' = [late EXCEPT ![b] = TRUE]
          /\ UNCHANGED <<lock, thread, scan, req>>
      BY <1>1 DEF Timeout, Undisturbed
    <2>2. \A c \in Build : (Alive(c)' <=> Alive(c)) /\ (Scanning(c)' <=> Scanning(c))
      BY <2>1 DEF Alive, Scanning
    <2>3. \A c \in Build : late'[c] => late[c] \/ c = b
      BY <2>1
    <2>4. \A c \in Build : late[c] => late'[c]
      BY <2>1
    <2>. QED BY <2>1, <2>2, <2>3, <2>4 DEF LockIsOwned
  <1>2. ASSUME NEW w \in Worker, WorkerCrash(w) PROVE LockIsOwned'
    <2>1. /\ MaxCrash # 0
          /\ UNCHANGED <<lock, scan, late>>
      BY <1>2 DEF WorkerCrash
    <2>2. /\ \A c \in Build : thread'[c] \in {thread[c], "none"}
          /\ \A q \in Req : req'[q] = "unlink" => req[q] = "unlink"
      BY <1>2 DEF WorkerCrash
    <2>3. \A c \in Build : (Alive(c)' => Alive(c)) /\ (Scanning(c)' <=> Scanning(c))
      BY <2>1, <2>2 DEF Alive, Scanning
    <2>. QED BY <2>1, <2>2, <2>3 DEF LockIsOwned
  <1>3. CASE Restart
    <2>1. /\ MaxCrash # 0
          /\ UNCHANGED <<lock, late>>
      BY <1>3 DEF Restart
    <2>2. \A c \in Build : ~Alive(c)' /\ ~Scanning(c)'
      BY <1>3 DEF Restart, Alive, Scanning, ScanWorking
    <2>3. \A q \in Req : req'[q] # "unlink"
      BY <1>3 DEF Restart
    <2>. QED BY <2>1, <2>2, <2>3 DEF LockIsOwned
  <1>. QED BY <1>1, <1>2, <1>3

-----------------------------------------------------------------------------
(* What the files hold meanwhile.                                           *)

FilesInv == FilesFollowScan /\ ReadyIsComplete

\* A request or a thread changes no file, and whatever it does to a scan that
\* does not work puts it at "none" or "unready".
LEMMA CallerFiles ==
    ASSUME TypeOK, FilesInv, UNCHANGED <<files, fd, pos>>,
           \A b \in Build : scan'[b] \in {scan[b], "none", "unready"}
    PROVE  FilesInv'
  BY DEF FilesInv, FilesFollowScan, ReadyIsComplete, files, Scanning, ScanWorking

LEMMA RequestFiles ==
    ASSUME TypeOK, FilesInv, NEW r \in Req, Request(r) \/ Reopen(r)
    PROVE  FilesInv'
  <1>. USE DEF TypeOK
  <1>1. UNCHANGED <<files, fd, pos>>
    BY DEF Request, CheckReady, ReadStatus, CheckLock, UnlinkStale, CreateLock, LockTaken,
           RereadStatus, Reopen, procs
  <1>2. UNCHANGED scan \/ \E b \in Build : scan' = [scan EXCEPT ![b] = "none"]
    BY DEF Request, CheckReady, ReadStatus, CheckLock, UnlinkStale, CreateLock, LockTaken,
           RereadStatus, Reopen, procs
  <1>. QED BY <1>1, <1>2, CallerFiles

LEMMA ThreadFiles ==
    ASSUME TypeOK, FilesInv, NEW b \in Build, Thread(b) \/ Progress(b)
    PROVE  FilesInv'
  <1>. USE DEF TypeOK
  <1>1. UNCHANGED <<files, fd, pos>>
    BY DEF Thread, ThreadStart, Spawn, Reap, ReportReady, ReportError, ReleaseLock, Progress, procs
  <1>2. UNCHANGED scan \/ \E next \in {"none", "unready"} : scan' = [scan EXCEPT ![b] = next]
    BY DEF Thread, ThreadStart, Spawn, Reap, ReportReady, ReportError, ReleaseLock, Progress, procs
  <1>. QED BY <1>1, <1>2, CallerFiles

LEMMA FaultFiles ==
    ASSUME TypeOK, FilesInv,
           (\E b \in Build : Timeout(b)) \/ (\E w \in Worker : WorkerCrash(w)) \/ Restart
    PROVE  FilesInv'
  <1>. USE DEF TypeOK
  <1>1. ASSUME NEW b \in Build, Timeout(b) PROVE FilesInv'
    BY <1>1, CallerFiles DEF Timeout, procs
  <1>2. ASSUME NEW w \in Worker, WorkerCrash(w) PROVE FilesInv'
    BY <1>2, CallerFiles DEF WorkerCrash, procs
  <1>3. CASE Restart
    <2>1. UNCHANGED files /\ \A b \in Build : scan'[b] = "none"
      BY <1>3 DEF Restart
    <2>. QED BY <2>1 DEF FilesInv, FilesFollowScan, ReadyIsComplete, files, Scanning, ScanWorking
  <1>. QED BY <1>1, <1>2, <1>3

LEMMA ScanFiles ==
    ASSUME Undisturbed, TypeOK, LockIsOwned, FilesInv, NEW b \in Build,
           Scan(b) \/ BrokenPipe(b)
    PROVE  FilesInv'
  <1>. USE DEF TypeOK, ScanOnly, ScanTo, files
  <1>1. Scanning(b)
    BY DEF Scan, RemoveReady, CreateRefs, WriteBlock, SyncRefs, WriteDb, DropRefs, DropDb,
           MoveRefs, MoveDb, Publish, RejectCapture, BrokenPipe, Scanning, ScanWorking
  <1>2. \A c \in Build \ {b} : scan[c] \notin ScanWorking
    BY <1>1, OwnerIsSingle DEF SingleScan, Scanning
  <1>3. ASSUME NEW next \in ScanAt, scan' = [scan EXCEPT ![b] = next]
        PROVE  scan'[b] = next /\ \A c \in Build \ {b} : scan'[c] \notin ScanWorking
    BY <1>2, <1>3
  <1>4. {"open", "write", "db", "drop_refs", "drop_db", "move_refs", "move_db", "publish"}
            \subseteq ScanWorking /\ ScanWorking \subseteq ScanAt /\ {"ok", "failed"} \subseteq ScanAt
        /\ "ok" \notin ScanWorking /\ "failed" \notin ScanWorking
    BY DEF ScanWorking, ScanAt
  <1>. DEFINE Follows(c) ==
           /\ Scanning(c) /\ scan[c] # "unready" => ~ready
           /\ scan[c] = "write" =>
                  fd[c] \in Inode /\ refsTmp = fd[c] /\ written[fd[c]] = 1..pos[c]
           /\ scan[c] \in {"db", "drop_refs", "drop_db", "move_refs"} =>
                  refsTmp # NoFile /\ written[refsTmp] = AllBlocks
           /\ scan[c] \in {"drop_refs", "drop_db", "move_refs", "move_db"} => dbTmp
           /\ scan[c] \in {"move_db", "publish"} =>
                  refsBin # NoFile /\ written[refsBin] = AllBlocks
           /\ scan[c] = "publish" => db
  <1>5. ASSUME \A c \in Build \ {b} : scan'[c] \notin ScanWorking, Follows(b)', ReadyIsComplete'
        PROVE  FilesInv'
    <2>1. \A c \in Build : Follows(c)'
      BY <1>4, <1>5 DEF Scanning
    <2>. QED BY <1>5, <2>1 DEF FilesInv, FilesFollowScan
  <1>6. Follows(b) /\ ReadyIsComplete BY DEF FilesInv, FilesFollowScan
  <1>7. ScanFails(b) => FilesInv'
    <2>. SUFFICES ASSUME ScanFails(b) PROVE FilesInv' OBVIOUS
    <2>1. scan'[b] = "failed" /\ \A c \in Build \ {b} : scan'[c] \notin ScanWorking
      BY <1>3, <1>4 DEF ScanFails
    <2>2. Follows(b)' BY <1>4, <2>1 DEF Scanning
    <2>3. ReadyIsComplete' BY <1>6 DEF ScanFails, ReadyIsComplete
    <2>. QED BY <1>5, <2>1, <2>2, <2>3
  <1>8. CASE RemoveReady(b)
    BY <1>3, <1>4, <1>5, <1>8 DEF RemoveReady, ReadyIsComplete
  <1>9. CASE CreateRefs(b)
    <2>1. PICK i \in Inode : /\ refsTmp' = i
                             /\ fd' = [fd EXCEPT ![b] = i]
                             /\ written' = [written EXCEPT ![i] = {}]
      BY <1>9 DEF CreateRefs, Unused
    <2>2. ~ready /\ UNCHANGED ready /\ pos' = [pos EXCEPT ![b] = 0]
          /\ scan' = [scan EXCEPT ![b] = "write"]
      BY <1>1, <1>6, <1>9 DEF CreateRefs
    <2>3. written'[fd'[b]] = 1..pos'[b] BY <2>1, <2>2, SMT
    <2>. QED BY <1>3, <1>4, <1>5, <2>1, <2>2, <2>3 DEF ReadyIsComplete
  <1>10. CASE WriteBlock(b)
    <2>1. /\ scan[b] = "write" /\ UNCHANGED <<ready, refsTmp, scan, fd>>
          /\ pos' = [pos EXCEPT ![b] = pos[b] + 1] /\ pos[b] \in Nat
          /\ written' = [written EXCEPT ![fd[b]] = written[fd[b]] \cup {pos[b] + 1}]
      BY <1>10 DEF WriteBlock
    <2>2. ~ready /\ fd[b] \in Inode /\ refsTmp = fd[b] /\ written[fd[b]] = 1..pos[b]
      BY <1>1, <1>6, <2>1
    <2>3. 1..(pos[b] + 1) = (1..pos[b]) \cup {pos[b] + 1}
      BY <2>1, SMT
    <2>4. written'[fd'[b]] = 1..pos'[b]
      BY <2>1, <2>2, <2>3
    <2>. QED BY <1>2, <1>5, <2>1, <2>2, <2>4 DEF ReadyIsComplete
  <1>11. CASE SyncRefs(b)
    BY <1>1, <1>3, <1>4, <1>5, <1>6, <1>11 DEF SyncRefs, ReadyIsComplete, AllBlocks
  <1>12. CASE WriteDb(b) BY <1>1, <1>3, <1>4, <1>5, <1>6, <1>12 DEF WriteDb, ReadyIsComplete
  <1>13. CASE DropRefs(b) BY <1>1, <1>3, <1>4, <1>5, <1>6, <1>13 DEF DropRefs, ReadyIsComplete
  <1>14. CASE DropDb(b) BY <1>1, <1>3, <1>4, <1>5, <1>6, <1>14 DEF DropDb, ReadyIsComplete
  <1>15. CASE MoveRefs(b)
    BY <1>1, <1>3, <1>4, <1>5, <1>6, <1>7, <1>15 DEF MoveRefs, ReadyIsComplete
  <1>16. CASE MoveDb(b)
    BY <1>1, <1>3, <1>4, <1>5, <1>6, <1>7, <1>16 DEF MoveDb, ReadyIsComplete
  <1>17. CASE Publish(b)
    BY <1>3, <1>4, <1>5, <1>6, <1>17 DEF Publish, ReadyIsComplete, Scanning
  <1>18. CASE RejectCapture(b) BY <1>7, <1>18 DEF RejectCapture
  <1>19. CASE BrokenPipe(b) BY <1>7, <1>19 DEF BrokenPipe
  <1>. QED BY <1>8, <1>9, <1>10, <1>11, <1>12, <1>13, <1>14, <1>15, <1>16, <1>17, <1>18, <1>19
           DEF Scan

\* The strengthening of SingleScan and ReadyIsComplete that a step preserves.
BuildInv == TypeOK /\ LockIsOwned /\ FilesInv

LEMMA BuildHolds == Undisturbed /\ BuildInv /\ [Next]_vars => BuildInv'
  <1>. SUFFICES ASSUME Undisturbed, BuildInv, [Next]_vars PROVE BuildInv'
    OBVIOUS
  <1>. USE DEF BuildInv
  <1>1. TypeOK' BY NextTyped
  <1>2. ASSUME NEW r \in Req, Request(r) \/ Reopen(r) PROVE BuildInv'
    BY <1>1, <1>2, RequestOwned, RequestFiles
  <1>3. ASSUME NEW b \in Build, Thread(b) \/ Progress(b) \/ KillScan(b) PROVE BuildInv'
    BY <1>1, <1>3, ThreadOwned, ThreadFiles
  <1>4. ASSUME NEW b \in Build, Scan(b) \/ BrokenPipe(b) \/ WriteFails(b) PROVE BuildInv'
    <2>1. ~WriteFails(b) BY DEF WriteFails, Undisturbed
    <2>. QED BY <1>1, <1>4, <2>1, ScanOwned, ScanFiles
  <1>5. ASSUME (\E b \in Build : Timeout(b)) \/ (\E w \in Worker : WorkerCrash(w)) \/ Restart
        PROVE  BuildInv'
    BY <1>1, <1>5, FaultOwned, FaultFiles
  <1>6. CASE UNCHANGED vars
    BY <1>6 DEF vars, files, procs, calls, TypeOK, LockIsOwned, FilesInv, FilesFollowScan,
                ReadyIsComplete, Alive, Scanning
  <1>. QED BY <1>2, <1>3, <1>4, <1>5, <1>6 DEF Next

LEMMA BuildInvariant == ASSUME Undisturbed PROVE Spec => []BuildInv
  <1>1. Init => BuildInv BY InitTyped, InitOwned DEF BuildInv, FilesInv
  <1>2. BuildInv /\ [Next]_vars => BuildInv' BY BuildHolds
  <1>. QED BY <1>1, <1>2, PTL DEF Spec

\* The lock file guards the build: while no scan outlives INDEX_TIMEOUT and no
\* write fails, two scan processes never run at once on one index directory,
\* whatever dies as long as one poller is there, and with any number of pollers
\* as long as nothing dies.
THEOREM BuildsTakeTurns == ASSUME Undisturbed PROVE Spec => []SingleScan
  <1>1. BuildInv => SingleScan BY OwnerIsSingle DEF BuildInv
  <1>. QED BY <1>1, BuildInvariant, PTL

\* Under the same conditions READY never vouches for a refs.bin with a block
\* missing or for a manifest that is not there, however many blocks there are
\* and wherever a crash falls.
THEOREM ReadyIsBacked == ASSUME Undisturbed PROVE Spec => []ReadyIsComplete
  <1>1. BuildInv => ReadyIsComplete BY DEF BuildInv, FilesInv
  <1>. QED BY <1>1, BuildInvariant, PTL

-----------------------------------------------------------------------------
(* What the status file says when the lock goes.                            *)

\* What a thread knows of its scan is true of the files.
Outcome == IF is_ready THEN "ready" ELSE "error"
ThreadKnows ==
    \A b \in Build :
        /\ thread[b] = "watch" /\ scan[b] = "ok" => is_ready
        /\ thread[b] = "watch" /\ scan[b] = "failed" => ~ready
        /\ thread[b] = "report" => is_ready
        /\ thread[b] = "except" => ~ready
        /\ thread[b] = "finally" => status = Outcome

OutcomeInv == ThreadKnows /\ (MaxCrash = 0 => OutcomeBeforeRelease)

\* Whoever acts for a build is the only one: every other thread is gone.
LEMMA Alone ==
    ASSUME LockIsOwned, NEW b \in Build, Alive(b) \/ Scanning(b)
    PROVE  lock = b /\ \A c \in Build : c # b => thread[c] = "none"
  BY DEF LockIsOwned, Alive

LEMMA RequestKnows ==
    ASSUME Undisturbed, BuildInv, OutcomeInv, NEW r \in Req, Request(r) \/ Reopen(r)
    PROVE  OutcomeInv'
  <1>. USE DEF BuildInv, TypeOK
  <1>1. UNCHANGED <<status, ready, db, refsBin>>
    BY DEF Request, CheckReady, ReadStatus, CheckLock, UnlinkStale, CreateLock, LockTaken,
           RereadStatus, Reopen, files
  <1>2. UNCHANGED <<thread, scan>> \/ CreateLock(r)
    BY DEF Request, CheckReady, ReadStatus, CheckLock, UnlinkStale, LockTaken,
           RereadStatus, Reopen, procs
  <1>3. ThreadKnows'
    <2>1. CASE UNCHANGED <<thread, scan>>
      BY <1>1, <2>1 DEF OutcomeInv, ThreadKnows, is_ready, Outcome
    <2>2. CASE CreateLock(r)
      <3>1. PICK b \in Build : /\ thread' = [thread EXCEPT ![b] = "start"]
                               /\ scan' = [scan EXCEPT ![b] = "none"]
        BY <2>2 DEF CreateLock
      <3>. QED BY <1>1, <3>1 DEF OutcomeInv, ThreadKnows, is_ready, Outcome
    <2>. QED BY <1>2, <2>1, <2>2
  <1>4. ASSUME MaxCrash = 0, lock' = NoBuild PROVE lock = NoBuild
    <2>1. ~UnlinkStale(r) BY <1>4 DEF UnlinkStale, LockIsOwned
    <2>. QED BY <1>4, <2>1 DEF Request, CheckReady, ReadStatus, CheckLock, CreateLock, LockTaken,
                               RereadStatus, Reopen
  <1>5. MaxCrash = 0 => OutcomeBeforeRelease'
    BY <1>1, <1>4 DEF OutcomeInv, OutcomeBeforeRelease, is_ready
  <1>. QED BY <1>3, <1>5 DEF OutcomeInv

LEMMA ThreadKnowing ==
    ASSUME Undisturbed, BuildInv, OutcomeInv, NEW b \in Build, Thread(b) \/ Progress(b)
    PROVE  OutcomeInv'
  <1>. USE DEF BuildInv, TypeOK
  <1>1. Alive(b) /\ UNCHANGED files
    BY DEF Thread, ThreadStart, Spawn, Reap, ReportReady, ReportError, ReleaseLock, Progress, Alive
  <1>2. lock = b /\ \A c \in Build : c # b => thread[c] = "none"
    BY <1>1, Alone
  <1>3. UNCHANGED <<ready, db, refsBin>> /\ (is_ready' <=> is_ready) /\ Outcome' = Outcome
    BY <1>1 DEF files, is_ready, Outcome
  <1>4. ~WritesFail BY DEF Undisturbed
  <1>5. \A c \in Build : c # b => thread'[c] = "none"
    BY <1>2 DEF Thread, ThreadStart, Spawn, Reap, ReportReady, ReportError, ReleaseLock, Progress,
               WriteStatus
  <1>. DEFINE Knows(c) ==
           /\ thread[c] = "watch" /\ scan[c] = "ok" => is_ready
           /\ thread[c] = "watch" /\ scan[c] = "failed" => ~ready
           /\ thread[c] = "report" => is_ready
           /\ thread[c] = "except" => ~ready
           /\ thread[c] = "finally" => status = Outcome
  <1>6. Knows(b) BY DEF OutcomeInv, ThreadKnows
  <1>7. ASSUME Knows(b)' PROVE ThreadKnows'
    BY <1>5, <1>7 DEF ThreadKnows
  <1>8. CASE ThreadStart(b)
    <2>1. thread'[b] = "spawn" /\ lock' = b BY <1>2, <1>4, <1>8 DEF ThreadStart, WriteStatus
    <2>. QED BY <1>7, <2>1 DEF OutcomeInv, OutcomeBeforeRelease
  <1>9. CASE Spawn(b)
    <2>1. thread'[b] = "watch" /\ scan'[b] = "unready" /\ lock' = b BY <1>2, <1>9 DEF Spawn
    <2>. QED BY <1>7, <2>1 DEF OutcomeInv, OutcomeBeforeRelease
  <1>10. CASE Reap(b)
    <2>1. /\ thread[b] = "watch" /\ scan[b] \in {"ok", "failed"} /\ lock' = b
          /\ thread'[b] = IF scan[b] = "ok" THEN "report" ELSE "except"
      BY <1>2, <1>10 DEF Reap
    <2>2. Knows(b)' BY <1>3, <1>6, <2>1
    <2>. QED BY <1>7, <2>1, <2>2 DEF OutcomeInv, OutcomeBeforeRelease
  <1>11. CASE ReportReady(b)
    <2>1. thread[b] = "report" /\ status' = "ready" /\ thread'[b] = "finally" /\ lock' = b
      BY <1>2, <1>4, <1>11 DEF ReportReady, WriteStatus
    <2>2. Outcome = "ready" BY <1>6, <2>1 DEF Outcome
    <2>. QED BY <1>3, <1>7, <2>1, <2>2 DEF OutcomeInv, OutcomeBeforeRelease
  <1>12. CASE ReportError(b)
    <2>1. thread[b] = "except" /\ status' = "error" /\ thread'[b] = "finally" /\ lock' = b
      BY <1>2, <1>4, <1>12 DEF ReportError, WriteStatus
    <2>2. Outcome = "error" BY <1>6, <2>1 DEF Outcome, is_ready
    <2>. QED BY <1>3, <1>7, <2>1, <2>2 DEF OutcomeInv, OutcomeBeforeRelease
  <1>13. CASE ReleaseLock(b)
    <2>1. thread[b] = "finally" /\ thread'[b] = "none" /\ UNCHANGED status
      BY <1>13 DEF ReleaseLock
    <2>2. status' = Outcome' BY <1>3, <1>6, <2>1
    <2>3. OutcomeBeforeRelease' BY <2>2 DEF OutcomeBeforeRelease, Outcome
    <2>. QED BY <1>7, <2>1, <2>3 DEF OutcomeInv
  <1>14. CASE Progress(b)
    <2>1. thread[b] = "watch" /\ thread'[b] = "watch" /\ UNCHANGED scan /\ lock' = b
      BY <1>2, <1>4, <1>14 DEF Progress, WriteStatus, procs
    <2>2. Knows(b)' BY <1>3, <1>6, <2>1
    <2>. QED BY <1>7, <2>1, <2>2 DEF OutcomeInv, OutcomeBeforeRelease
  <1>. QED BY <1>8, <1>9, <1>10, <1>11, <1>12, <1>13, <1>14 DEF Thread

LEMMA ScanKnowing ==
    ASSUME Undisturbed, BuildInv, OutcomeInv, NEW b \in Build, Scan(b) \/ BrokenPipe(b)
    PROVE  OutcomeInv'
  <1>. USE DEF BuildInv, TypeOK
  <1>1. Scanning(b) /\ UNCHANGED <<lock, thread>>
    BY DEF Scan, RemoveReady, CreateRefs, WriteBlock, SyncRefs, WriteDb, DropRefs, DropDb,
           MoveRefs, MoveDb, Publish, RejectCapture, BrokenPipe, Scanning, ScanWorking, ScanOnly
  <1>2. lock = b /\ (\A c \in Build : c # b => thread[c] = "none") /\ thread[b] \in {"watch", "none"}
    BY <1>1, Alone DEF LockIsOwned
  <1>3. scan'[b] = "failed" => ~ready'
    <2>1. scan[b] # "unready" => ~ready BY <1>1 DEF FilesInv, FilesFollowScan
    <2>2. CASE ScanFails(b) /\ scan[b] # "unready" BY <2>1, <2>2 DEF ScanFails, files
    <2>3. CASE scan'[b] # "failed" BY <2>3
    <2>. QED BY <2>2, <2>3
           DEF Scan, RemoveReady, CreateRefs, WriteBlock, SyncRefs, WriteDb, DropRefs, DropDb,
               MoveRefs, MoveDb, Publish, RejectCapture, BrokenPipe, ScanTo
  <1>4. scan'[b] = "ok" => is_ready'
    <2>1. CASE Publish(b)
      <3>1. scan[b] = "publish" /\ ready' = TRUE /\ UNCHANGED <<db, refsBin>>
        BY <2>1 DEF Publish
      <3>2. db /\ refsBin # NoFile BY <3>1 DEF FilesInv, FilesFollowScan
      <3>. QED BY <3>1, <3>2 DEF is_ready
    <2>2. CASE ~Publish(b)
      BY <2>2 DEF Scan, RemoveReady, CreateRefs, WriteBlock, SyncRefs, WriteDb, DropRefs, DropDb,
                  MoveRefs, MoveDb, RejectCapture, BrokenPipe, ScanTo, ScanFails
    <2>. QED BY <2>1, <2>2
  <1>5. ThreadKnows' BY <1>1, <1>2, <1>3, <1>4 DEF ThreadKnows
  <1>. QED BY <1>1, <1>2, <1>5 DEF OutcomeInv, OutcomeBeforeRelease

LEMMA FaultKnows ==
    ASSUME BuildInv, OutcomeInv,
           (\E b \in Build : Timeout(b)) \/ (\E w \in Worker : WorkerCrash(w)) \/ Restart
    PROVE  OutcomeInv'
  <1>. USE DEF BuildInv, TypeOK
  <1>1. UNCHANGED <<lock, status, ready, db, refsBin>>
    BY DEF Timeout, WorkerCrash, Restart, files
  <1>2. OutcomeBeforeRelease => OutcomeBeforeRelease'
    BY <1>1 DEF OutcomeBeforeRelease, is_ready
  <1>3. \A b \in Build : thread'[b] = "none" \/ (thread'[b] = thread[b] /\ scan'[b] = scan[b])
    BY DEF Timeout, WorkerCrash, Restart, procs
  <1>4. ThreadKnows'
    BY <1>1, <1>3 DEF OutcomeInv, ThreadKnows, is_ready, Outcome
  <1>. QED BY <1>2, <1>4 DEF OutcomeInv

\* A build's outcome is in the status file before its lock goes: while no
\* process dies, no scan outlives INDEX_TIMEOUT and no write fails, a poller
\* that finds no lock never reads "indexing" of a build that is over, and what
\* it reads is what became of the files.
THEOREM OutcomeIsReported ==
    ASSUME Undisturbed, MaxCrash = 0 PROVE Spec => []OutcomeBeforeRelease
  <1>1. Init => OutcomeInv
    BY DEF Init, OutcomeInv, ThreadKnows, OutcomeBeforeRelease
  <1>2. BuildInv /\ OutcomeInv /\ [Next]_vars => OutcomeInv'
    <2>. SUFFICES ASSUME BuildInv, OutcomeInv, [Next]_vars PROVE OutcomeInv'
      OBVIOUS
    <2>1. ASSUME NEW b \in Build PROVE ~KillScan(b) /\ ~WriteFails(b)
      BY ThreadOwned DEF WriteFails, Undisturbed, BuildInv
    <2>2. CASE UNCHANGED vars
      BY <2>2 DEF vars, files, procs, OutcomeInv, ThreadKnows, OutcomeBeforeRelease, is_ready,
                  Outcome
    <2>. QED BY <2>1, <2>2, RequestKnows, ThreadKnowing, ScanKnowing, FaultKnows DEF Next
  <1>3. OutcomeInv => OutcomeBeforeRelease BY DEF OutcomeInv
  <1>. QED BY <1>1, <1>2, <1>3, BuildInvariant, PTL DEF Spec

-----------------------------------------------------------------------------
(* Seen from outside: IndexBuild implements IndexPromise.                   *)

Working == {b \in Build : Scanning(b)}

LEMMA WorkingIs ==
    ASSUME LockIsOwned, NEW b \in Build
    PROVE  /\ Scanning(b) => Working = {b}
           /\ lock = b /\ ~Scanning(b) => Working = {}
           /\ lock = NoBuild => Working = {}
  BY DEF LockIsOwned, Working

\* A request takes a free lock or removes one nobody holds any more.
LEMMA RequestPromise ==
    ASSUME Undisturbed, BuildInv, NEW r \in Req, Request(r) \/ Reopen(r)
    PROVE  [Promise!Next]_(Promise!vars)
  <1>. USE DEF BuildInv, TypeOK, files, procs
  <1>1. CASE UnlinkStale(r)
    <2>1. lock \in Build /\ lock' = NoBuild /\ UNCHANGED <<scan, ready>> /\ ~Scanning(lock)
      BY <1>1 DEF UnlinkStale, LockIsOwned
    <2>2. Working = {} /\ Working' = {}
      BY <2>1, WorkingIs DEF Working, Scanning
    <2>3. Promise!Release(lock) BY <2>1, <2>2 DEF Promise!Release, Working
    <2>. QED BY <2>1, <2>3 DEF Promise!Next
  <1>2. CASE CreateLock(r)
    <2>1. PICK b \in Build : lock = NoBuild /\ lock' = b /\ scan' = [scan EXCEPT ![b] = "none"]
                             /\ ~Scanning(b) /\ UNCHANGED ready
      BY <1>2 DEF CreateLock, Free
    <2>2. Working' = Working BY <2>1 DEF Working, Scanning, ScanWorking
    <2>3. Promise!Take(b) BY <2>1, <2>2 DEF Promise!Take, Working
    <2>. QED BY <2>3 DEF Promise!Next
  <1>3. CASE UNCHANGED <<lock, scan, ready>>
    BY <1>3 DEF Promise!vars, Scanning
  <1>. QED BY <1>1, <1>2, <1>3 DEF Request, CheckReady, ReadStatus, CheckLock, LockTaken,
              RereadStatus, Reopen

\* A thread starts its scan once, and releases its lock when the scan is over.
LEMMA ThreadPromise ==
    ASSUME BuildInv, NEW b \in Build, Thread(b) \/ Progress(b)
    PROVE  [Promise!Next]_(Promise!vars)
  <1>. USE DEF BuildInv, TypeOK, files, procs
  <1>1. lock = b
    BY DEF Thread, ThreadStart, Spawn, Reap, ReportReady, ReportError, ReleaseLock, Progress,
           Alive, LockIsOwned
  <1>2. CASE Spawn(b)
    <2>1. /\ thread[b] = "spawn" /\ scan' = [scan EXCEPT ![b] = "unready"]
          /\ UNCHANGED <<lock, ready>>
      BY <1>2 DEF Spawn
    <2>2. Working = {} BY <1>1, <2>1, WorkingIs DEF LockIsOwned
    <2>3. Working' = {b} BY <2>1, <2>2 DEF Working, Scanning, ScanWorking
    <2>4. Promise!Work(b) BY <1>1, <2>1, <2>2, <2>3 DEF Promise!Work, Working
    <2>. QED BY <2>4 DEF Promise!Next
  <1>3. CASE Reap(b)
    <2>1. UNCHANGED <<lock, ready>> BY <1>3 DEF Reap
    <2>2. Working' = Working BY <1>3 DEF Reap, Working, Scanning, ScanWorking
    <2>. QED BY <2>1, <2>2 DEF Promise!vars, Working
  <1>4. CASE ReleaseLock(b)
    <2>1. thread[b] = "finally" /\ lock' = NoBuild /\ UNCHANGED <<scan, ready>>
      BY <1>4 DEF ReleaseLock
    <2>2. Working = {} /\ Working' = {}
      BY <1>1, <2>1, WorkingIs DEF LockIsOwned, Working, Scanning
    <2>3. Promise!Release(b) BY <1>1, <2>1, <2>2 DEF Promise!Release, Working
    <2>. QED BY <2>3 DEF Promise!Next
  <1>5. CASE UNCHANGED <<lock, scan, ready>>
    BY <1>5 DEF Promise!vars, Scanning
  <1>. QED BY <1>2, <1>3, <1>4, <1>5 DEF Thread, ThreadStart, ReportReady, ReportError, Progress

\* Of a scan's steps the promise sees the removal of READY, its return, and
\* the end.
LEMMA ScanPromise ==
    ASSUME BuildInv, NEW b \in Build, Scan(b) \/ BrokenPipe(b)
    PROVE  [Promise!Next]_(Promise!vars)
  <1>. USE DEF BuildInv, TypeOK, files, ScanOnly, ScanTo
  <1>1. Scanning(b) /\ UNCHANGED lock
    BY DEF Scan, RemoveReady, CreateRefs, WriteBlock, SyncRefs, WriteDb, DropRefs, DropDb,
           MoveRefs, MoveDb, Publish, RejectCapture, BrokenPipe, Scanning, ScanWorking
  <1>2. lock = b /\ Working = {b} BY <1>1, WorkingIs DEF LockIsOwned
  <1>3. ASSUME NEW next \in {"ok", "failed"}, scan' = [scan EXCEPT ![b] = next]
        PROVE  Working' = {}
    BY <1>2, <1>3 DEF Working, Scanning, ScanWorking
  <1>4. ASSUME UNCHANGED scan \/ \E next \in ScanWorking : scan' = [scan EXCEPT ![b] = next]
        PROVE  Working' = Working
    BY <1>1, <1>4 DEF Working, Scanning
  <1>5. CASE RemoveReady(b)
    <2>1. Working' = Working /\ ready' = FALSE
      BY <1>4, <1>5 DEF RemoveReady, ScanWorking
    <2>2. Promise!Withdraw(b) BY <1>1, <1>2, <2>1 DEF Promise!Withdraw, Working
    <2>. QED BY <2>2 DEF Promise!Next
  <1>6. CASE Publish(b)
    <2>1. Working' = {} /\ ready' = TRUE BY <1>3, <1>6 DEF Publish
    <2>2. Promise!Publish(b) BY <1>1, <1>2, <2>1 DEF Promise!Publish, Working
    <2>. QED BY <2>2 DEF Promise!Next
  <1>7. CASE ScanFails(b)
    <2>1. Working' = {} /\ UNCHANGED ready BY <1>3, <1>7 DEF ScanFails
    <2>2. Promise!GiveUp(b) BY <1>1, <1>2, <2>1 DEF Promise!GiveUp, Working
    <2>. QED BY <2>2 DEF Promise!Next
  <1>8. CASE UNCHANGED ready /\ (UNCHANGED scan \/ \E next \in ScanWorking : scan' = [scan EXCEPT ![b] = next])
    BY <1>1, <1>4, <1>8 DEF Promise!vars, Working
  <1>9. ~RemoveReady(b) /\ ~Publish(b) /\ ~ScanFails(b) =>
            UNCHANGED ready /\ (UNCHANGED scan \/ \E next \in ScanWorking : scan' = [scan EXCEPT ![b] = next])
    BY DEF Scan, CreateRefs, WriteBlock, SyncRefs, WriteDb, DropRefs, DropDb,
           MoveRefs, MoveDb, RejectCapture, BrokenPipe, ScanWorking
  <1>. QED BY <1>5, <1>6, <1>7, <1>8, <1>9

\* A crash of everything ends the work that was going on.
LEMMA FaultPromise ==
    ASSUME BuildInv,
           (\E b \in Build : Timeout(b)) \/ (\E w \in Worker : WorkerCrash(w)) \/ Restart
    PROVE  [Promise!Next]_(Promise!vars)
  <1>. USE DEF BuildInv, TypeOK, files, procs
  <1>1. CASE UNCHANGED <<lock, scan, ready>>
    BY <1>1 DEF Promise!vars, Scanning
  <1>2. CASE Restart
    <2>1. UNCHANGED <<lock, ready>> /\ Working' = {}
      BY <1>2 DEF Restart, Working, Scanning, ScanWorking
    <2>2. CASE Working = {} BY <2>1, <2>2 DEF Promise!vars, Working
    <2>3. ASSUME NEW b \in Build, Scanning(b) PROVE Promise!GiveUp(b)
      BY <2>1, <2>3, WorkingIs DEF Promise!GiveUp, Working, LockIsOwned
    <2>. QED BY <2>2, <2>3 DEF Promise!Next, Working
  <1>. QED BY <1>1, <1>2 DEF Timeout, WorkerCrash

\* Builds take turns at the index as IndexPromise says: only the build whose
\* turn it is withdraws and publishes READY, and a turn ends when its work has.
\* Every step of IndexBuild is one of IndexPromise or changes nothing it shows.
THEOREM PromiseIsKept == ASSUME Undisturbed PROVE Spec => KeepsPromise
  <1>1. Init => Promise!Init
    BY DEF Init, Promise!Init, Scanning, ScanWorking
  <1>2. BuildInv /\ [Next]_vars => [Promise!Next]_(Promise!vars)
    <2>. SUFFICES ASSUME BuildInv, [Next]_vars PROVE [Promise!Next]_(Promise!vars)
      OBVIOUS
    <2>1. ASSUME NEW b \in Build PROVE ~KillScan(b) /\ ~WriteFails(b)
      BY ThreadOwned DEF WriteFails, Undisturbed, BuildInv
    <2>2. CASE UNCHANGED vars
      BY <2>2 DEF vars, files, procs, Promise!vars, Scanning
    <2>. QED BY <2>1, <2>2, RequestPromise, ThreadPromise, ScanPromise, FaultPromise DEF Next
  <1>. QED BY <1>1, <1>2, BuildInvariant, PTL DEF Spec, KeepsPromise, Promise!Spec
=============================================================================
