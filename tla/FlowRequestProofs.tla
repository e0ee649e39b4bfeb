--------------------------- MODULE FlowRequestProofs ---------------------------
(***************************************************************************)
(* Why a request may read the index in many steps: for every number of     *)
(* versions and scans, and whatever the connection asked for is.           *)
(***************************************************************************)
EXTENDS FlowRequest, TLAPS

USE RequestConstants DEF Version

\* A scan knows a content that is no older than its key, nothing is ready under
\* it once it has withdrawn READY, and before it publishes both files are its own.
ScanKnows ==
    \A v \in Version :
        LET s == scan[v] IN
        /\ s.at # "idle" => v <= capture
        /\ s.at \in {"record", "drop_refs", "drop_db", "move_refs", "move_db", "publish"} =>
               s.content \in Version /\ v <= s.content /\ s.content <= capture
        /\ s.at \in {"drop_refs", "drop_db", "move_refs", "move_db", "publish"} =>
               s.identity \in Version
        /\ s.at \in ScanAt \ {"idle", "unready"} => ~ready[v]
        /\ s.at \in {"move_db", "publish"} => refs[v] = s.content
        /\ s.at = "publish" => db[v] # None /\ db[v].content = s.content

\* A directory holds nothing older than its key and nothing newer than the capture.
DirectoriesInOrder ==
    \A v \in Version :
        /\ db[v] # None => v <= db[v].content /\ db[v].content <= capture
        /\ refs[v] # None => v <= refs[v] /\ refs[v] <= capture

\* While the capture is what it was, all the request has read is of it.
CallReadsCapture ==
    /\ call.at # "idle" => call.began \in Version /\ call.began <= capture
    /\ call.at # "idle" /\ call.began = capture =>
        /\ call.manifest \in {None, capture} /\ call.key \in {None, capture}
        /\ call.at = "refs" => call.manifest = capture
        /\ call.at \in {"extract", "identity", "chain", "copy"} => call.key = capture
        /\ call.at \in {"temp", "extract", "identity", "chain", "copy", "decode", "rows"}
               /\ call.kind # "conversation" => call.frames = capture
        /\ call.at \in {"chain", "copy", "decode", "rows"} => call.bytes = capture
        /\ call.at \in {"state", "ready", "count", "manifest", "refs", "temp"} => call.bytes = None
        /\ call.at = "rows" => call.kind = "bootstrap"

IndexInv == TypeOK /\ ScanKnows /\ DirectoriesInOrder /\ ReadyIsWhole
IInv == IndexInv /\ CallReadsCapture /\ UnchangedIsRight

LEMMA InitHolds == Init => IInv
  <1>. SUFFICES ASSUME Init PROVE IInv OBVIOUS
  <1>1. TypeOK
    <2>1. Idle \in [at: ScanAt, content: Content, identity: Content]
      BY DEF Idle, ScanAt, Content
    <2>2. NoCall \in CallState
      BY DEF NoCall, CallState, Content, RequestAt, Status
    <2>3. db \in [Version -> Manifest \cup {None}] /\ refs \in [Version -> Content]
      BY DEF Init, Content
    <2>4. scan \in [Version -> [at: ScanAt, content: Content, identity: Content]]
      BY <2>1 DEF Init
    <2>5. capture \in Version /\ builds \in 0..MaxBuild
      BY SMT DEF Init
    <2>. QED BY <2>2, <2>3, <2>4, <2>5 DEF Init, TypeOK
  <1>2. ScanKnows BY DEF Init, ScanKnows, Idle, ScanAt
  <1>3. DirectoriesInOrder /\ ReadyIsWhole BY DEF Init, DirectoriesInOrder, ReadyIsWhole
  <1>4. CallReadsCapture /\ UnchangedIsRight
    BY DEF Init, NoCall, CallReadsCapture, UnchangedIsRight, Succeeded
  <1>. QED BY <1>1, <1>2, <1>3, <1>4 DEF IInv, IndexInv

\* The scans' directories: one lemma per kind of change.
LEMMA ScanHolds == IndexInv /\ Scan => IndexInv'
  <1>. SUFFICES ASSUME IndexInv, Scan PROVE IndexInv'
    OBVIOUS
  <1>. USE DEF IndexInv
  <1>t. /\ capture \in Version /\ ready \in [Version -> BOOLEAN]
        /\ db \in [Version -> Manifest \cup {None}] /\ refs \in [Version -> Content]
        /\ scan \in [Version -> [at: ScanAt, content: Content, identity: Content]]
    BY DEF TypeOK
  <1>a. /\ {"unready", "open", "record", "drop_refs", "drop_db", "move_refs", "move_db", "publish"}
             \subseteq ScanAt
        /\ capture \in Content /\ None \in Content
    BY <1>t DEF ScanAt, Content
  <1>s. \A v \in Version, a \in ScanAt, c \in Content :
            /\ [scan[v] EXCEPT !.at = a] \in [at: ScanAt, content: Content, identity: Content]
            /\ [scan[v] EXCEPT !.at = a, !.content = c] \in
                   [at: ScanAt, content: Content, identity: Content]
            /\ [scan[v] EXCEPT !.at = a, !.identity = c] \in
                   [at: ScanAt, content: Content, identity: Content]
    BY <1>t
  <1>1. ASSUME StartScan PROVE IndexInv'
    <2>1. scan' = [scan EXCEPT ![capture] = [Idle EXCEPT !.at = "unready"]]
          /\ UNCHANGED <<capture, ready, db, refs, call, temp>> /\ calm' = FALSE
      BY <1>1 DEF StartScan, files
    <2>2. [Idle EXCEPT !.at = "unready"] = [at |-> "unready", content |-> None, identity |-> None]
      BY DEF Idle
    <2>3. builds' \in 0..MaxBuild BY <1>1, SMT DEF StartScan, TypeOK
    <2>4. TypeOK' BY <2>1, <2>2, <2>3 DEF TypeOK, ScanAt, Content
    <2>5. ScanKnows' BY <2>1, <2>2, <1>t, SMT DEF ScanKnows, ScanAt
    <2>6. DirectoriesInOrder' /\ ReadyIsWhole'
      BY <2>1 DEF DirectoriesInOrder, ReadyIsWhole
    <2>. QED BY <2>4, <2>5, <2>6
  <1>2. ASSUME NEW v \in Version, Withdraw(v) PROVE IndexInv'
    <2>1. /\ scan[v].at = "unready" /\ scan' = [scan EXCEPT ![v] = [scan[v] EXCEPT !.at = "open"]]
          /\ ready' = [ready EXCEPT ![v] = FALSE]
          /\ UNCHANGED <<db, refs, capture, builds, call, temp>> /\ calm' = FALSE
      BY <1>2 DEF Withdraw, Step, To
    <2>s. [scan[v] EXCEPT !.at = "open"] \in [at: ScanAt, content: Content, identity: Content]
      BY <1>s, <1>a
    <2>2. TypeOK' BY <2>1, <2>s, <1>t DEF TypeOK
    <2>3. ScanKnows' BY <2>1, <1>t DEF ScanKnows, ScanAt
    <2>4. DirectoriesInOrder' /\ ReadyIsWhole'
      BY <2>1, <1>t DEF DirectoriesInOrder, ReadyIsWhole
    <2>. QED BY <2>2, <2>3, <2>4
  <1>3. ASSUME NEW v \in Version, Open(v) PROVE IndexInv'
    <2>1. /\ scan[v].at = "open"
          /\ scan' = [scan EXCEPT ![v] = [scan[v] EXCEPT !.at = "record", !.content = capture]]
          /\ UNCHANGED <<ready, db, refs, capture, builds, call, temp>> /\ calm' = FALSE
      BY <1>3, <1>t, SMT DEF Open, Step, To, files
    <2>s. [scan[v] EXCEPT !.at = "record", !.content = capture] \in [at: ScanAt, content: Content, identity: Content]
      BY <1>s, <1>a
    <2>2. TypeOK' BY <2>1, <2>s, <1>t DEF TypeOK, Content
    <2>3. ScanKnows' BY <2>1, <1>t, SMT DEF ScanKnows, ScanAt
    <2>4. DirectoriesInOrder' /\ ReadyIsWhole'
      BY <2>1, <1>t DEF DirectoriesInOrder, ReadyIsWhole
    <2>. QED BY <2>2, <2>3, <2>4
  <1>4. ASSUME NEW v \in Version, Record(v) PROVE IndexInv'
    <2>1. /\ scan[v].at = "record"
          /\ scan' = [scan EXCEPT ![v] = [scan[v] EXCEPT !.at = "drop_refs", !.identity = capture]]
          /\ UNCHANGED <<ready, db, refs, capture, builds, call, temp>> /\ calm' = FALSE
      BY <1>4, <1>t, SMT DEF Record, Step, To, files
    <2>s. [scan[v] EXCEPT !.at = "drop_refs", !.identity = capture] \in [at: ScanAt, content: Content, identity: Content]
      BY <1>s, <1>a
    <2>2. TypeOK' BY <2>1, <2>s, <1>t DEF TypeOK, Content
    <2>3. ScanKnows' BY <2>1, <1>t, SMT DEF ScanKnows, ScanAt
    <2>4. DirectoriesInOrder' /\ ReadyIsWhole'
      BY <2>1, <1>t DEF DirectoriesInOrder, ReadyIsWhole
    <2>. QED BY <2>2, <2>3, <2>4
  <1>5. ASSUME NEW v \in Version, DropRefs(v) PROVE IndexInv'
    <2>1. /\ scan[v].at = "drop_refs"
          /\ scan' = [scan EXCEPT ![v] = [scan[v] EXCEPT !.at = "drop_db"]]
          /\ refs' = [refs EXCEPT ![v] = None]
          /\ UNCHANGED <<ready, db, capture, builds, call, temp>> /\ calm' = FALSE
      BY <1>5 DEF DropRefs, Step, To
    <2>s. [scan[v] EXCEPT !.at = "drop_db"] \in [at: ScanAt, content: Content, identity: Content]
      BY <1>s, <1>a
    <2>2. TypeOK' BY <2>1, <2>s, <1>t DEF TypeOK, Content
    <2>3. ScanKnows' BY <2>1, <1>t, SMT DEF ScanKnows, ScanAt
    <2>4. DirectoriesInOrder' /\ ReadyIsWhole'
      <3>1. ~ready[v] BY <2>1 DEF ScanKnows, ScanAt
      <3>. QED BY <3>1, <2>1, <1>t DEF DirectoriesInOrder, ReadyIsWhole
    <2>. QED BY <2>2, <2>3, <2>4
  <1>6. ASSUME NEW v \in Version, DropDb(v) PROVE IndexInv'
    <2>1. /\ scan[v].at = "drop_db"
          /\ scan' = [scan EXCEPT ![v] = [scan[v] EXCEPT !.at = "move_refs"]]
          /\ db' = [db EXCEPT ![v] = None]
          /\ UNCHANGED <<ready, refs, capture, builds, call, temp>> /\ calm' = FALSE
      BY <1>6 DEF DropDb, Step, To
    <2>s. [scan[v] EXCEPT !.at = "move_refs"] \in [at: ScanAt, content: Content, identity: Content]
      BY <1>s, <1>a
    <2>2. TypeOK' BY <2>1, <2>s, <1>t DEF TypeOK, Content
    <2>3. ScanKnows' BY <2>1, <1>t, SMT DEF ScanKnows, ScanAt
    <2>4. DirectoriesInOrder' /\ ReadyIsWhole'
      <3>1. ~ready[v] BY <2>1 DEF ScanKnows, ScanAt
      <3>. QED BY <3>1, <2>1, <1>t DEF DirectoriesInOrder, ReadyIsWhole
    <2>. QED BY <2>2, <2>3, <2>4
  <1>7. ASSUME NEW v \in Version, MoveRefs(v) PROVE IndexInv'
    <2>1. /\ scan[v].at = "move_refs"
          /\ scan' = [scan EXCEPT ![v] = [scan[v] EXCEPT !.at = "move_db"]]
          /\ refs' = [refs EXCEPT ![v] = scan[v].content]
          /\ UNCHANGED <<ready, db, capture, builds, call, temp>> /\ calm' = FALSE
      BY <1>7 DEF MoveRefs, Step, To
    <2>s. [scan[v] EXCEPT !.at = "move_db"] \in [at: ScanAt, content: Content, identity: Content]
      BY <1>s, <1>a
    <2>5. scan[v].content \in Content BY <1>t
    <2>2. TypeOK' BY <2>1, <2>5, <2>s, <1>t DEF TypeOK
    <2>3. ScanKnows' BY <2>1, <1>t, SMT DEF ScanKnows, ScanAt
    <2>4. DirectoriesInOrder' /\ ReadyIsWhole'
      <3>1. ~ready[v] /\ scan[v].content \in Version /\ v <= scan[v].content
            /\ scan[v].content <= capture
        BY <2>1 DEF ScanKnows, ScanAt
      <3>. QED BY <3>1, <2>1, <1>t DEF DirectoriesInOrder, ReadyIsWhole
    <2>. QED BY <2>2, <2>3, <2>4
  <1>8. ASSUME NEW v \in Version, MoveDb(v) PROVE IndexInv'
    <2>1. /\ scan[v].at = "move_db"
          /\ scan' = [scan EXCEPT ![v] = [scan[v] EXCEPT !.at = "publish"]]
          /\ db' = [db EXCEPT ![v] = [content |-> scan[v].content, identity |-> scan[v].identity]]
          /\ UNCHANGED <<ready, refs, capture, builds, call, temp>> /\ calm' = FALSE
      BY <1>8 DEF MoveDb, Step, To
    <2>0. /\ ~ready[v] /\ scan[v].content \in Version /\ v <= scan[v].content
          /\ scan[v].content <= capture /\ scan[v].identity \in Version
          /\ refs[v] = scan[v].content
      BY <2>1 DEF ScanKnows, ScanAt
    <2>5. [content |-> scan[v].content, identity |-> scan[v].identity] \in Manifest
      BY <2>0 DEF Manifest
    <2>6. db'[v] = [content |-> scan[v].content, identity |-> scan[v].identity]
      BY <2>1, <1>t
    <2>s. [scan[v] EXCEPT !.at = "publish"] \in [at: ScanAt, content: Content, identity: Content]
      BY <1>s, <1>a
    <2>2. TypeOK' BY <2>1, <2>s, <2>5, <1>t DEF TypeOK, Content
    <2>7. None \notin Manifest BY DEF Manifest
    <2>3. ScanKnows' BY <2>1, <2>0, <2>5, <2>6, <2>7, <1>t, SMT DEF ScanKnows, ScanAt
    <2>4. DirectoriesInOrder' /\ ReadyIsWhole'
      BY <2>0, <2>1, <2>6, <1>t DEF DirectoriesInOrder, ReadyIsWhole
    <2>. QED BY <2>2, <2>3, <2>4
  <1>9. ASSUME NEW v \in Version, Publish(v) PROVE IndexInv'
    <2>1. /\ scan[v].at = "publish" /\ scan' = [scan EXCEPT ![v] = Idle]
          /\ ready' = [ready EXCEPT ![v] = TRUE]
          /\ UNCHANGED <<db, refs, capture, builds, call, temp>> /\ calm' = FALSE
      BY <1>9 DEF Publish, Step
    <2>2. TypeOK' BY <2>1, <1>t DEF TypeOK, ScanAt, Content, Idle
    <2>3. ScanKnows' BY <2>1, <1>t DEF ScanKnows, ScanAt, Idle
    <2>4. DirectoriesInOrder' /\ ReadyIsWhole'
      <3>1. db[v] # None /\ refs[v] = db[v].content
        BY <2>1 DEF ScanKnows, ScanAt
      <3>. QED BY <3>1, <2>1, <1>t DEF DirectoriesInOrder, ReadyIsWhole
    <2>. QED BY <2>2, <2>3, <2>4
  <1>10. ASSUME NEW v \in Version, Kill(v) PROVE IndexInv'
    <2>1. /\ scan' = [scan EXCEPT ![v] = Idle]
          /\ UNCHANGED <<ready, db, refs, capture, builds, call, temp>> /\ calm' = FALSE
      BY <1>10 DEF Kill, Step, files
    <2>2. TypeOK' BY <2>1, <1>t DEF TypeOK, ScanAt, Content, Idle
    <2>3. ScanKnows' BY <2>1, <1>t DEF ScanKnows, ScanAt, Idle
    <2>4. DirectoriesInOrder' /\ ReadyIsWhole'
      BY <2>1, <1>t DEF DirectoriesInOrder, ReadyIsWhole
    <2>. QED BY <2>2, <2>3, <2>4
  <1>. QED BY <1>1, <1>2, <1>3, <1>4, <1>5, <1>6, <1>7, <1>8, <1>9, <1>10 DEF Scan

LEMMA ChangeHolds == IInv /\ Change => IInv'
  <1>. SUFFICES ASSUME IInv, Change PROVE IInv'
    OBVIOUS
  <1>1. capture \in Version /\ capture' = capture + 1 /\ capture' \in Version
    BY SMT DEF Change, IInv, IndexInv, TypeOK
  <1>2. UNCHANGED <<ready, db, refs, scan, builds, call, temp>> /\ calm' = FALSE
    BY DEF Change, files
  <1>3. TypeOK' BY <1>1, <1>2 DEF IInv, IndexInv, TypeOK
  <1>4. ScanKnows'
    <2>1. scan \in [Version -> [at: ScanAt, content: Content, identity: Content]]
      BY DEF IInv, IndexInv, TypeOK
    <2>. QED BY <1>1, <1>2, <2>1, SMT DEF IInv, IndexInv, ScanKnows
  <1>5. DirectoriesInOrder'
    <2>. SUFFICES ASSUME NEW v \in Version
                  PROVE  /\ db[v] # None => v <= db[v].content /\ db[v].content <= capture'
                         /\ refs[v] # None => v <= refs[v] /\ refs[v] <= capture'
      BY <1>2 DEF DirectoriesInOrder
    <2>1. db[v] # None => db[v].content \in Version
      BY DEF IInv, IndexInv, TypeOK, Manifest
    <2>2. refs[v] # None => refs[v] \in Version
      BY DEF IInv, IndexInv, TypeOK, Content
    <2>. QED BY <2>1, <2>2, <1>1, SMT DEF IInv, IndexInv, DirectoriesInOrder
  <1>6. ReadyIsWhole' BY <1>2 DEF IInv, IndexInv, ReadyIsWhole
  <1>7. CallReadsCapture' /\ UnchangedIsRight'
    <2>1. call.at # "idle" => call.began \in Version /\ call.began < capture'
      BY <1>1, SMT DEF IInv, CallReadsCapture
    <2>2. call.at # "idle" => call.began # capture' /\ call.began <= capture'
      BY <2>1, <1>1, SMT
    <2>3. call' = call BY <1>2
    <2>4. CallReadsCapture' BY <2>1, <2>2, <2>3 DEF CallReadsCapture
    <2>5. UnchangedIsRight' BY <2>2, <2>3 DEF UnchangedIsRight, Succeeded
    <2>. QED BY <2>4, <2>5
  <1>. QED BY <1>3, <1>4, <1>5, <1>6, <1>7 DEF IInv, IndexInv

\* A request only reads the directories: what it has read is what matters.
LEMMA ReadingHolds ==
    ASSUME IInv, UNCHANGED <<capture, files, scan, builds>>,
           call' \in CallState, temp' \in BOOLEAN, calm' \in BOOLEAN,
           CallReadsCapture', UnchangedIsRight'
    PROVE  IInv'
  <1>1. TypeOK' BY DEF IInv, IndexInv, TypeOK, files
  <1>2. ScanKnows' BY DEF IInv, IndexInv, ScanKnows, files
  <1>3. DirectoriesInOrder' /\ ReadyIsWhole'
    BY DEF IInv, IndexInv, DirectoriesInOrder, ReadyIsWhole, files
  <1>. QED BY <1>1, <1>2, <1>3 DEF IInv, IndexInv

\* An answer other than success needs nothing of what has been read.
LEMMA RefusalHolds ==
    ASSUME IInv, NEW status \in Status \ {200}, call.at # "idle", call' = Answer(status),
           UNCHANGED <<capture, files, scan, builds>>, temp' \in BOOLEAN, calm' \in BOOLEAN
    PROVE  IInv'
  <1>1. call \in CallState BY DEF IInv, IndexInv, TypeOK
  <1>2. call' \in CallState /\ call'.at = "done" /\ call'.status # 200
        /\ call'.began = call.began /\ call'.manifest = call.manifest /\ call'.key = call.key
    BY <1>1 DEF Answer, CallState, RequestAt
  <1>3. CallReadsCapture' BY <1>2 DEF IInv, CallReadsCapture
  <1>4. UnchangedIsRight' BY <1>2 DEF UnchangedIsRight, Succeeded
  <1>. QED BY <1>2, <1>3, <1>4, ReadingHolds

LEMMA RequestHolds == IInv /\ Request => IInv'
  <1>. SUFFICES ASSUME IInv, Request PROVE IInv'
    OBVIOUS
  <1>. DEFINE Kept == UNCHANGED <<capture, files, scan, builds>>
  <1>t. /\ call \in CallState /\ capture \in Version /\ temp \in BOOLEAN /\ calm \in BOOLEAN
        /\ db \in [Version -> Manifest \cup {None}] /\ refs \in [Version -> Content]
    BY DEF IInv, IndexInv, TypeOK
  <1>d. /\ db[capture] # None => db[capture].content = capture
        /\ refs[capture] \in {None, capture}
    <2>1. db[capture] # None => db[capture].content \in Version
      BY <1>t DEF Manifest
    <2>2. refs[capture] # None => refs[capture] \in Version
      BY <1>t DEF Content
    <2>. QED BY <1>t, <2>1, <2>2, SMT DEF IInv, IndexInv, DirectoriesInOrder
  <1>r. ASSUME NEW status \in Status \ {200}, call.at # "idle", call' = Answer(status),
               Kept, temp' \in BOOLEAN, calm' \in BOOLEAN
        PROVE  IInv'
    BY <1>r, RefusalHolds
  <1>f. ASSUME NEW status \in Status \ {200}, call.at # "idle", Fail(status), Kept PROVE IInv'
    BY <1>f, <1>r, <1>t DEF Fail
  <1>g. ASSUME NEW status \in Status \ {200}, call.at # "idle", Go(Answer(status)), Kept
        PROVE IInv'
    BY <1>g, <1>r, <1>t DEF Go
  <1>st. {0, 202, 404, 413, 422, 500, 504} \subseteq Status \ {200} BY SMT DEF Status, Killed
  <1>a. {"state", "ready", "count", "manifest", "refs", "temp", "extract", "identity", "chain",
         "copy", "decode", "rows", "done"} \subseteq RequestAt
    BY DEF RequestAt
  <1>e. \A a \in RequestAt : [call EXCEPT !.at = a] \in CallState
    BY <1>t DEF CallState
  <1>k. \A a \in RequestAt : LET c == [call EXCEPT !.at = a] IN
            /\ c.at = a /\ c.kind = call.kind /\ c.began = call.began
            /\ c.manifest = call.manifest /\ c.frames = call.frames /\ c.key = call.key
            /\ c.bytes = call.bytes /\ c.rows = call.rows
    BY <1>t DEF CallState
  <1>h. LET c == Answer(200) IN
            /\ c \in CallState /\ c.at = "done" /\ c.status = 200 /\ c.kind = call.kind
            /\ c.began = call.began /\ c.manifest = call.manifest /\ c.frames = call.frames
            /\ c.key = call.key /\ c.bytes = call.bytes /\ c.rows = call.rows
    <2>1. 200 \in Status BY SMT DEF Status
    <2>. QED BY ZenonT(40), <1>t, <1>a, <2>1 DEF Answer, CallState
  <1>1. ASSUME Start PROVE IInv'
    <2>1. PICK k \in Kind : call' = [NoCall EXCEPT !.kind = k, !.began = capture,
                               !.listed = is_ready,
                               !.at = IF k = "bootstrap" THEN "state" ELSE "ready"]
      BY <1>1 DEF Start
    <2>2. /\ call'.kind = k /\ call'.began = capture
          /\ call'.at = (IF k = "bootstrap" THEN "state" ELSE "ready")
          /\ call'.manifest = None /\ call'.key = None /\ call'.bytes = None
      BY <2>1 DEF NoCall
    <2>3. is_ready \in BOOLEAN
      BY DEF is_ready, IInv, IndexInv, TypeOK
    <2>4. call' \in CallState
      <3>1. /\ {"state", "ready"} \subseteq RequestAt /\ None \in Content /\ capture \in Content
            /\ None \in Status
        BY <1>t DEF RequestAt, Content, Status
      <3>2. call' = [kind |-> k, at |-> IF k = "bootstrap" THEN "state" ELSE "ready",
                     began |-> capture, listed |-> is_ready, manifest |-> None, frames |-> None,
                     key |-> None, bytes |-> None, rows |-> None, status |-> None]
        BY <2>1 DEF NoCall
      <3>. QED BY <3>1, <3>2, <2>3 DEF CallState
    <2>5. CallReadsCapture' /\ UnchangedIsRight'
      BY <2>2, <1>1, <1>t, SMT DEF CallReadsCapture, UnchangedIsRight, Succeeded, Start
    <2>. QED BY <1>1, <1>t, <2>4, <2>5, ReadingHolds DEF Start
  <1>2. ASSUME RequestIndex PROVE IInv'
    <2>1. CASE Go([call EXCEPT !.at = "ready"])
      <3>1. call' = [call EXCEPT !.at = "ready"] /\ call.at = "state" /\ Kept
            /\ UNCHANGED <<temp, calm>>
        BY <1>2, <2>1 DEF RequestIndex, At, Go
      <3>2. call' \in CallState BY <3>1, <1>t DEF CallState, RequestAt
      <3>3. CallReadsCapture' /\ UnchangedIsRight'
        BY <3>1, <1>t DEF IInv, CallReadsCapture, UnchangedIsRight, Succeeded, CallState
      <3>. QED BY <3>1, <3>2, <3>3, <1>t, ReadingHolds
    <2>2. ASSUME NEW status \in {202, 422}, Go(Answer(status)) PROVE IInv'
      BY <1>2, <2>2, <1>g, <1>st DEF RequestIndex, At
    <2>. QED BY <1>2, <2>1, <2>2 DEF RequestIndex
  <1>3. ASSUME TestReady PROVE IInv'
    <2>1. CASE is_ready
      <3>1. call' = [call EXCEPT !.at = "count"] /\ call.at = "ready" /\ Kept
            /\ UNCHANGED <<temp, calm>>
        BY <1>3, <2>1 DEF TestReady, At, Go
      <3>2. call' \in CallState BY <3>1, <1>t DEF CallState, RequestAt
      <3>3. CallReadsCapture' /\ UnchangedIsRight'
        BY <3>1, <1>t DEF IInv, CallReadsCapture, UnchangedIsRight, Succeeded, CallState
      <3>. QED BY <3>1, <3>2, <3>3, <1>t, ReadingHolds
    <2>2. CASE ~is_ready
      <3>1. PICK status \in {200, 404, 413, 422, 500, 504} : Go(Answer(status)) /\ call.at = "ready" /\ Kept
        BY <1>3, <2>2 DEF TestReady, At
      <3>2. CASE status # 200 BY <3>1, <3>2, <1>g, <1>st
      <3>3. CASE status = 200
        <4>1. call' = Answer(200) BY <3>1, <3>3 DEF Go
        <4>2. call' \in CallState /\ Kept BY <4>1, <1>h, <3>1
        <4>3. call.began = capture => call.bytes = None
          BY <3>1 DEF IInv, CallReadsCapture
        <4>4. CallReadsCapture' BY <4>1, <3>1, <1>h DEF IInv, CallReadsCapture
        <4>5. UnchangedIsRight' BY <4>1, <4>3, <3>1, <1>h DEF UnchangedIsRight, Succeeded
        <4>. QED BY <3>1, <4>2, <4>4, <4>5, <1>t, ReadingHolds DEF Go
      <3>. QED BY <3>1, <3>2, <3>3
    <2>. QED BY <2>1, <2>2
  <1>4. ASSUME CountPackets PROVE IInv'
    <2>1. call.at = "count" /\ Kept BY <1>4 DEF CountPackets, At
    <2>2. \/ \E status \in {404, 413, 422} : Go(Answer(status))
          \/ \E at \in {"temp", "manifest"} :
                 Go([call EXCEPT !.at = at]) /\ (at = "temp" => call.kind = "conversation")
      BY <1>4 DEF CountPackets
    <2>3. CASE \E status \in {404, 413, 422} : Go(Answer(status))
      BY <2>1, <2>3, <1>g, <1>st
    <2>4. CASE \E at \in {"temp", "manifest"} :
                 Go([call EXCEPT !.at = at]) /\ (at = "temp" => call.kind = "conversation")
      <3>1. PICK at \in {"temp", "manifest"} :
                 Go([call EXCEPT !.at = at]) /\ (at = "temp" => call.kind = "conversation")
        BY <2>4
      <3>2. call' \in CallState BY <3>1, <1>e, <1>a DEF Go
      <3>3. CallReadsCapture'
        BY <2>1, <3>1, <1>k, <1>a DEF Go, IInv, CallReadsCapture
      <3>4. UnchangedIsRight' BY <3>1, <1>k, <1>a DEF Go, UnchangedIsRight, Succeeded
      <3>. QED BY <2>1, <3>1, <3>2, <3>3, <3>4, <1>t, ReadingHolds DEF Go
    <2>. QED BY <2>2, <2>3, <2>4
  <1>5. ASSUME ReadManifest PROVE IInv'
    <2>. DEFINE m == db[capture]
    <2>1. call.at = "manifest" /\ Kept BY <1>5 DEF ReadManifest, At
    <2>2. CASE m = None BY <1>5, <2>1, <2>2, <1>g, <1>st DEF ReadManifest
    <2>3. CASE m # None /\ m.content \notin HasFlow
      BY <1>5, <2>1, <2>3, <1>g, <1>st DEF ReadManifest
    <2>4. CASE m # None /\ m.content \in HasFlow
      <3>. DEFINE c == [call EXCEPT !.at = "refs", !.manifest = m.content]
      <3>1. Go(c) BY <1>5, <2>4 DEF ReadManifest
      <3>2. m.content = capture BY <2>4, <1>d
      <3>3. capture \in Content BY <1>t DEF Content
      <3>4. c \in CallState BY <1>t, <1>a, <3>2, <3>3 DEF CallState
      <3>5. /\ c.at = "refs" /\ c.began = call.began /\ c.kind = call.kind
            /\ c.manifest = capture /\ c.key = call.key /\ c.bytes = call.bytes
        BY <1>t, <3>2 DEF CallState
      <3>6. CallReadsCapture' BY <2>1, <3>1, <3>5 DEF Go, IInv, CallReadsCapture
      <3>7. UnchangedIsRight' BY <3>1, <3>5 DEF Go, UnchangedIsRight, Succeeded
      <3>. QED BY <2>1, <3>1, <3>4, <3>6, <3>7, <1>t, ReadingHolds DEF Go
    <2>. QED BY <2>2, <2>3, <2>4
  <1>6. ASSUME ReadRefs PROVE IInv'
    <2>. DEFINE frames == Together(call.manifest, refs[capture])
                c == [call EXCEPT !.at = "temp", !.frames = frames]
    <2>1. call.at = "refs" /\ Kept BY <1>6 DEF ReadRefs, At
    <2>2. \/ \E status \in {404, 422} : Go(Answer(status))
          \/ refs[capture] # None /\ Go(c)
      BY <1>6 DEF ReadRefs
    <2>3. CASE \E status \in {404, 422} : Go(Answer(status))
      BY <2>1, <2>3, <1>g, <1>st
    <2>4. CASE refs[capture] # None /\ Go(c)
      <3>1. refs[capture] = capture BY <2>4, <1>d
      <3>2. frames \in Content \cup {Mixed} /\ (call.began = capture => frames = capture)
        <4>1. call.manifest \in Content BY <1>t DEF CallState
        <4>2. call.began = capture => call.manifest = capture
          BY <2>1 DEF IInv, CallReadsCapture
        <4>. QED BY <3>1, <4>1, <4>2 DEF Together
      <3>3. c \in CallState BY <1>t, <1>a, <3>2 DEF CallState
      <3>4. /\ c.at = "temp" /\ c.began = call.began /\ c.kind = call.kind
            /\ c.manifest = call.manifest /\ c.key = call.key /\ c.bytes = call.bytes
            /\ c.frames = frames
        BY <1>t DEF CallState
      <3>5. CallReadsCapture' BY <2>1, <2>4, <3>2, <3>4 DEF Go, IInv, CallReadsCapture
      <3>6. UnchangedIsRight' BY <2>4, <3>4 DEF Go, UnchangedIsRight, Succeeded
      <3>. QED BY <2>1, <2>4, <3>3, <3>5, <3>6, <1>t, ReadingHolds DEF Go
    <2>. QED BY <2>2, <2>3, <2>4
  <1>7. ASSUME MakeTemp PROVE IInv'
    <2>1. call.at = "temp" /\ Kept BY <1>7 DEF MakeTemp, At
    <2>2. CASE ~is_ready BY <1>7, <2>1, <2>2, <1>f, <1>st DEF MakeTemp
    <2>3. CASE is_ready
      <3>. DEFINE c == [call EXCEPT !.at = "extract", !.key = capture]
      <3>1. call' = c /\ temp' = TRUE /\ UNCHANGED calm
        BY <1>7, <2>3 DEF MakeTemp, Calmly
      <3>2. capture \in Content BY <1>t DEF Content
      <3>3. c \in CallState BY <1>t, <1>a, <3>2 DEF CallState
      <3>4. /\ c.at = "extract" /\ c.began = call.began /\ c.kind = call.kind
            /\ c.manifest = call.manifest /\ c.key = capture /\ c.bytes = call.bytes
            /\ c.frames = call.frames
        BY <1>t DEF CallState
      <3>5. CallReadsCapture' BY <2>1, <3>1, <3>4 DEF IInv, CallReadsCapture
      <3>6. UnchangedIsRight' BY <3>1, <3>4 DEF UnchangedIsRight, Succeeded
      <3>. QED BY <2>1, <3>1, <3>3, <3>5, <3>6, <1>t, ReadingHolds
    <2>. QED BY <2>2, <2>3
  <1>8. ASSUME CheckReady PROVE IInv'
    <2>. DEFINE c == [call EXCEPT !.at = "identity"]
    <2>1. call.at = "extract" /\ Kept BY <1>8 DEF CheckReady, At
    <2>2. CASE ~ready[call.key] BY <1>8, <2>1, <2>2, <1>f, <1>st DEF CheckReady
    <2>3. CASE ready[call.key]
      <3>1. Go(c) BY <1>8, <2>3 DEF CheckReady
      <3>2. c \in CallState BY <1>e, <1>a
      <3>3. /\ c.at = "identity" /\ c.began = call.began /\ c.kind = call.kind
            /\ c.manifest = call.manifest /\ c.key = call.key /\ c.bytes = call.bytes
            /\ c.frames = call.frames
        BY <1>t DEF CallState
      <3>4. CallReadsCapture' BY <2>1, <3>1, <3>3 DEF Go, IInv, CallReadsCapture
      <3>5. UnchangedIsRight' BY <3>1, <3>3 DEF Go, UnchangedIsRight, Succeeded
      <3>. QED BY <2>1, <3>1, <3>2, <3>4, <3>5, <1>t, ReadingHolds DEF Go
    <2>. QED BY <2>2, <2>3
  <1>9. ASSUME CheckIdentity PROVE IInv'
    <2>. DEFINE m == db[call.key]
                c == [call EXCEPT !.at = "chain", !.bytes = m.content]
                good == m # None /\ m.identity = capture /\ m.content \in HasFlow
    <2>1. call.at = "identity" /\ Kept BY <1>9 DEF CheckIdentity, At
    <2>2. CASE ~good BY <1>9, <2>1, <2>2, <1>f, <1>st DEF CheckIdentity
    <2>3. CASE good
      <3>1. Go(c) BY <1>9, <2>3 DEF CheckIdentity
      <3>2. m.content \in Content /\ (call.began = capture => m.content = capture)
        <4>1. call.began = capture => call.key = capture
          BY <2>1 DEF IInv, CallReadsCapture
        <4>. QED BY <2>3, <4>1, <1>d DEF Content
      <3>3. c \in CallState BY <1>t, <1>a, <3>2 DEF CallState
      <3>4. /\ c.at = "chain" /\ c.began = call.began /\ c.kind = call.kind
            /\ c.manifest = call.manifest /\ c.key = call.key /\ c.bytes = m.content
            /\ c.frames = call.frames
        BY <1>t DEF CallState
      <3>5. CallReadsCapture' BY <2>1, <3>1, <3>2, <3>4 DEF Go, IInv, CallReadsCapture
      <3>6. UnchangedIsRight' BY <3>1, <3>4 DEF Go, UnchangedIsRight, Succeeded
      <3>. QED BY <2>1, <3>1, <3>3, <3>5, <3>6, <1>t, ReadingHolds DEF Go
    <2>. QED BY <2>2, <2>3
  <1>10. ASSUME WalkChain PROVE IInv'
    <2>. DEFINE bytes == Together(call.bytes, refs[call.key])
                c == [call EXCEPT !.at = "copy", !.bytes = bytes]
    <2>1. call.at = "chain" /\ Kept BY <1>10 DEF WalkChain, At
    <2>2. Fail(422) \/ (refs[call.key] # None /\ Go(c)) BY <1>10 DEF WalkChain
    <2>3. CASE Fail(422) BY <2>1, <2>3, <1>f, <1>st
    <2>4. CASE refs[call.key] # None /\ Go(c)
      <3>1. bytes \in Content \cup {Mixed} /\ (call.began = capture => bytes = capture)
        <4>1. call.bytes \in Content \cup {Mixed} BY <1>t DEF CallState
        <4>2. call.began = capture => call.key = capture /\ call.bytes = capture
          BY <2>1 DEF IInv, CallReadsCapture
        <4>. QED BY <2>4, <4>1, <4>2, <1>d DEF Together
      <3>2. c \in CallState BY <1>t, <1>a, <3>1 DEF CallState
      <3>3. /\ c.at = "copy" /\ c.began = call.began /\ c.kind = call.kind
            /\ c.manifest = call.manifest /\ c.key = call.key /\ c.bytes = bytes
            /\ c.frames = call.frames
        BY <1>t DEF CallState
      <3>4. CallReadsCapture' BY <2>1, <2>4, <3>1, <3>3 DEF Go, IInv, CallReadsCapture
      <3>5. UnchangedIsRight' BY <2>4, <3>3 DEF Go, UnchangedIsRight, Succeeded
      <3>. QED BY <2>1, <2>4, <3>2, <3>4, <3>5, <1>t, ReadingHolds DEF Go
    <2>. QED BY <2>2, <2>3, <2>4
  <1>11. ASSUME Copy PROVE IInv'
    <2>. DEFINE bytes == Together(call.bytes, capture)
                c == [call EXCEPT !.at = "decode", !.bytes = bytes]
    <2>1. call.at = "copy" /\ Kept BY <1>11 DEF Copy, At
    <2>2. Fail(422) \/ Go(c) BY <1>11 DEF Copy
    <2>3. CASE Fail(422) BY <2>1, <2>3, <1>f, <1>st
    <2>4. CASE Go(c)
      <3>1. bytes \in Content \cup {Mixed} /\ (call.began = capture => bytes = capture)
        <4>1. call.bytes \in Content \cup {Mixed} BY <1>t DEF CallState
        <4>2. call.began = capture => call.bytes = capture
          BY <2>1 DEF IInv, CallReadsCapture
        <4>. QED BY <4>1, <4>2 DEF Together
      <3>2. c \in CallState BY <1>t, <1>a, <3>1 DEF CallState
      <3>3. /\ c.at = "decode" /\ c.began = call.began /\ c.kind = call.kind
            /\ c.manifest = call.manifest /\ c.key = call.key /\ c.bytes = bytes
            /\ c.frames = call.frames
        BY <1>t DEF CallState
      <3>4. CallReadsCapture' BY <2>1, <2>4, <3>1, <3>3 DEF Go, IInv, CallReadsCapture
      <3>5. UnchangedIsRight' BY <2>4, <3>3 DEF Go, UnchangedIsRight, Succeeded
      <3>. QED BY <2>1, <2>4, <3>2, <3>4, <3>5, <1>t, ReadingHolds DEF Go
    <2>. QED BY <2>2, <2>3, <2>4
  <1>12. ASSUME Decode PROVE IInv'
    <2>1. call.at = "decode" /\ Kept /\ temp' = FALSE /\ UNCHANGED calm
      BY <1>12 DEF Decode, At, Calmly
    <2>2. \/ \E status \in {413, 422} : call' = Answer(status)
          \/ call.kind = "bootstrap" /\ call' = [call EXCEPT !.at = "rows"]
          \/ call.kind # "bootstrap" /\ call' = Answer(200)
      BY <1>12 DEF Decode
    <2>3. /\ call.began = capture => call.bytes = capture
          /\ call.began = capture /\ call.kind # "conversation" => call.frames = capture
      BY <2>1 DEF IInv, CallReadsCapture
    <2>4. ASSUME NEW status \in {413, 422}, call' = Answer(status) PROVE IInv'
      <3>1. call.at # "idle" /\ temp' \in BOOLEAN /\ calm' \in BOOLEAN BY <2>1, <1>t
      <3>. QED BY <2>1, <2>4, <3>1, <1>st, RefusalHolds
    <2>5. CASE call.kind = "bootstrap" /\ call' = [call EXCEPT !.at = "rows"]
      <3>1. call' \in CallState BY <2>5, <1>e, <1>a
      <3>2. /\ call'.at = "rows" /\ call'.began = call.began /\ call'.kind = call.kind
            /\ call'.manifest = call.manifest /\ call'.key = call.key
            /\ call'.bytes = call.bytes /\ call'.frames = call.frames
        BY <2>5, <1>t DEF CallState
      <3>3. CallReadsCapture' BY <2>1, <2>3, <2>5, <3>2 DEF IInv, CallReadsCapture
      <3>4. UnchangedIsRight' BY <3>2 DEF UnchangedIsRight, Succeeded
      <3>. QED BY <2>1, <3>1, <3>3, <3>4, <1>t, ReadingHolds
    <2>6. CASE call.kind # "bootstrap" /\ call' = Answer(200)
      <3>1. CallReadsCapture' BY <2>1, <2>6, <1>h DEF IInv, CallReadsCapture
      <3>2. UnchangedIsRight' BY <2>1, <2>3, <2>6, <1>h DEF UnchangedIsRight, Succeeded
      <3>. QED BY <2>1, <2>6, <3>1, <3>2, <1>t, <1>h, ReadingHolds
    <2>. QED BY <2>2, <2>4, <2>5, <2>6
  <1>13. ASSUME ReadRows PROVE IInv'
    <2>. DEFINE m == db[capture]
    <2>1. call.at = "rows" /\ Kept BY <1>13 DEF ReadRows, At
    <2>2. CASE m = None BY <1>13, <2>1, <2>2, <1>g, <1>st DEF ReadRows
    <2>3. CASE m # None /\ m.content \notin HasFlow
      BY <1>13, <2>1, <2>3, <1>g, <1>st DEF ReadRows
    <2>4. CASE m # None /\ m.content \in HasFlow
      <3>. DEFINE a == Answer(200)
                  c == [a EXCEPT !.rows = m.content]
      <3>1. Go(c) BY <1>13, <2>4 DEF ReadRows
      <3>2. m.content = capture BY <2>4, <1>d
      <3>3. capture \in Content BY <1>t DEF Content
      <3>h. /\ a \in CallState /\ a.at = "done" /\ a.status = 200 /\ a.kind = call.kind
            /\ a.began = call.began /\ a.manifest = call.manifest /\ a.frames = call.frames
            /\ a.key = call.key /\ a.bytes = call.bytes
        BY <1>h
      <3>. HIDE DEF a
      <3>4. c \in CallState BY <3>h, <3>2, <3>3 DEF CallState
      <3>5. /\ c.at = "done" /\ c.began = call.began /\ c.kind = call.kind
            /\ c.manifest = call.manifest /\ c.key = call.key /\ c.bytes = call.bytes
            /\ c.frames = call.frames /\ c.rows = capture
        BY <3>h, <3>2 DEF CallState
      <3>6. CallReadsCapture' BY <2>1, <3>1, <3>5 DEF Go, IInv, CallReadsCapture
      <3>7. UnchangedIsRight'
        BY <2>1, <3>1, <3>5 DEF Go, IInv, CallReadsCapture, UnchangedIsRight, Succeeded
      <3>. QED BY <2>1, <3>1, <3>4, <3>6, <3>7, <1>t, ReadingHolds DEF Go
    <2>. QED BY <2>2, <2>3, <2>4
  <1>14. ASSUME ExtractTimeout PROVE IInv'
    <2>1. /\ call.at # "idle" /\ call' = Answer(500) /\ Kept
          /\ temp' \in BOOLEAN /\ calm' \in BOOLEAN
      BY <1>14 DEF ExtractTimeout
    <2>. QED BY <2>1, <1>st, RefusalHolds
  <1>15. ASSUME WorkerKilled PROVE IInv'
    <2>1. /\ call.at # "idle" /\ call' = Answer(0) /\ Kept
          /\ temp' \in BOOLEAN /\ calm' \in BOOLEAN
      BY <1>15, <1>t DEF WorkerKilled, Killed
    <2>. QED BY <2>1, <1>st, RefusalHolds
  <1>16. ASSUME TSharkFails PROVE IInv'
    <2>1. PICK status \in {422, 500, 504} : call' = Answer(status)
      BY <1>16 DEF TSharkFails
    <2>2. /\ call.at # "idle" /\ Kept
          /\ temp' \in BOOLEAN /\ calm' \in BOOLEAN
      BY ZenonT(40), <1>16 DEF TSharkFails, At
    <2>. QED BY <2>1, <2>2, <1>st, RefusalHolds
  <1>. QED
    BY <1>1, <1>2, <1>3, <1>4, <1>5, <1>6, <1>7, <1>8, <1>9, <1>10, <1>11, <1>12, <1>13,
       <1>14, <1>15, <1>16 DEF Request

\* A scan touches nothing the request has, and a step that changes no variable nothing.
LEMMA StepHolds == IInv /\ [Next]_vars => IInv'
  <1>. SUFFICES ASSUME IInv, [Next]_vars PROVE IInv'
    OBVIOUS
  <1>1. CASE Change BY <1>1, ChangeHolds
  <1>2. CASE Scan
    <2>1. IndexInv' BY <1>2, ScanHolds DEF IInv
    <2>2. UNCHANGED <<capture, call>>
      BY <1>2 DEF Scan, StartScan, Withdraw, Open, Record, DropRefs, DropDb, MoveRefs, MoveDb,
                  Publish, Kill, Step
    <2>3. CallReadsCapture' BY <2>2 DEF IInv, CallReadsCapture
    <2>4. UnchangedIsRight' BY <2>2 DEF IInv, UnchangedIsRight, Succeeded
    <2>. QED BY <2>1, <2>3, <2>4 DEF IInv
  <1>3. CASE Request BY <1>3, RequestHolds
  <1>4. CASE UNCHANGED vars
    <2>1. UNCHANGED <<capture, files, scan, builds>> /\ UNCHANGED <<call, temp, calm>>
      BY <1>4 DEF vars
    <2>2. call' \in CallState /\ temp' \in BOOLEAN /\ calm' \in BOOLEAN
      BY <2>1 DEF IInv, IndexInv, TypeOK
    <2>3. CallReadsCapture' BY <2>1 DEF IInv, CallReadsCapture
    <2>4. UnchangedIsRight' BY <2>1 DEF IInv, UnchangedIsRight, Succeeded
    <2>. QED BY <2>1, <2>2, <2>3, <2>4, ReadingHolds
  <1>. QED BY <1>1, <1>2, <1>3, <1>4 DEF Next

LEMMA InvariantHolds == Spec => []IInv
  <1>. QED BY InitHolds, StepHolds, PTL DEF Spec

\* TypeOK of any request over any number of versions and scans.
THEOREM TypeCorrect == Spec => []TypeOK
  <1>1. IInv => TypeOK BY DEF IInv, IndexInv
  <1>. QED BY <1>1, InvariantHolds, PTL

\* ReadyIsWhole: whatever is killed or replaced, READY vouches for files of one scan.
THEOREM ReadyVouches == Spec => []ReadyIsWhole
  <1>1. IInv => ReadyIsWhole BY DEF IInv, IndexInv
  <1>. QED BY <1>1, InvariantHolds, PTL

\* CurrentIndexIsOfCapture: that the key is computed first, the capture opened next
\* and its identity read last is safe in this order, for a key no newer than its content.
THEOREM IndexIsCurrent == Spec => []CurrentIndexIsOfCapture
  <1>1. IInv => CurrentIndexIsOfCapture
    <2>. SUFFICES ASSUME IInv PROVE CurrentIndexIsOfCapture
      OBVIOUS
    <2>1. capture \in Version /\ db[capture] \in Manifest \cup {None}
          /\ refs[capture] \in Content
      BY DEF IInv, IndexInv, TypeOK
    <2>2. db[capture] # None => db[capture].content \in Version
      BY <2>1 DEF Manifest
    <2>3. refs[capture] # None => refs[capture] \in Version
      BY <2>1 DEF Content
    <2>. QED BY <2>1, <2>2, <2>3, SMT
         DEF IInv, IndexInv, DirectoriesInOrder, CurrentIndexIsOfCapture
  <1>. QED BY <1>1, InvariantHolds, PTL

\* UnchangedIsRight: an answer about a capture that stayed as it was is all of it.
THEOREM AnswersAreOfCapture == Spec => []UnchangedIsRight
  <1>1. IInv => UnchangedIsRight BY DEF IInv
  <1>. QED BY <1>1, InvariantHolds, PTL

-----------------------------------------------------------------------------
(* A request that nothing disturbs.                                         *)

\* The identity a directory carries is no older than its key either.
IdentityInOrder ==
    \A v \in Version :
        /\ scan[v].at \in {"drop_refs", "drop_db", "move_refs", "move_db", "publish"} =>
               v <= scan[v].identity /\ scan[v].identity <= capture
        /\ db[v] # None => v <= db[v].identity /\ db[v].identity <= capture

\* calm says what it is meant to: no scan is at work on any directory, and the
\* capture is the one the request began with.
CalmIsQuiet ==
    calm => /\ \A v \in Version : scan[v] = Idle
            /\ call.at # "idle" => call.began = capture

\* What a request over a ready index has learnt, as long as it is calm.
CalmCallGoesOn ==
    calm /\ is_ready /\ call.at # "idle" =>
        /\ call.kind \in Kind
        /\ call.at \notin {"state", "ready", "count", "done"} =>
               capture \in HasFlow /\ capture \notin Large
        /\ call.at \in {"temp", "extract", "identity", "chain", "copy", "decode", "rows"}
               /\ call.kind = "payload" => capture \in HasFrame
        /\ call.at = "done" =>
               call.status = Expected /\ (call.status = 200 => call.bytes # None)

CalmInv == IInv /\ IdentityInOrder /\ CalmIsQuiet /\ CalmCallGoesOn

LEMMA InitCalm == Init => CalmInv
  <1>1. Init => IdentityInOrder /\ CalmIsQuiet /\ CalmCallGoesOn
    BY DEF Init, Idle, NoCall, IdentityInOrder, CalmIsQuiet, CalmCallGoesOn
  <1>. QED BY <1>1, InitHolds DEF CalmInv

\* The capture only gets newer, and a scan records the one there is.
LEMMA ScansIdentify == CalmInv /\ (Change \/ Scan) => IdentityInOrder' /\ calm' = FALSE
  <1>. SUFFICES ASSUME CalmInv, Change \/ Scan PROVE IdentityInOrder' /\ calm' = FALSE
    OBVIOUS
  <1>t. /\ capture \in Version /\ db \in [Version -> Manifest \cup {None}]
        /\ scan \in [Version -> [at: ScanAt, content: Content, identity: Content]]
    BY DEF CalmInv, IInv, IndexInv, TypeOK
  <1>1. calm' = FALSE
    BY DEF Change, Scan, StartScan, Withdraw, Open, Record, DropRefs, DropDb, MoveRefs, MoveDb,
           Publish, Kill, Step
  <1>. DEFINE Late == {"drop_refs", "drop_db", "move_refs", "move_db", "publish"}
              SI(v) == scan[v].at \in Late => v <= scan[v].identity /\ scan[v].identity <= capture
              DI(v) == db[v] # None => v <= db[v].identity /\ db[v].identity <= capture
  <1>2. \A v \in Version : SI(v) /\ DI(v)
    BY DEF CalmInv, IdentityInOrder
  <1>3. CASE Change
    <2>1. capture' = capture + 1 /\ UNCHANGED <<db, scan>> BY <1>3 DEF Change, files
    <2>2. ASSUME NEW v \in Version PROVE SI(v)' /\ DI(v)'
      <3>1. scan[v].at \in Late => scan[v].identity \in Version
        BY DEF CalmInv, IInv, IndexInv, ScanKnows
      <3>2. db[v] # None => db[v].identity \in Version BY <1>t DEF Manifest
      <3>. QED BY <1>2, <1>t, <2>1, <3>1, <3>2, SMT
    <2>. QED BY <1>1, <2>2 DEF IdentityInOrder
  <1>4. CASE Scan
    <2>1. UNCHANGED capture
      BY <1>4 DEF Scan, StartScan, Withdraw, Open, Record, DropRefs, DropDb, MoveRefs, MoveDb,
                  Publish, Kill, Step
    <2>. DEFINE Reached(v) == scan'[v].at \in Late =>
                    \/ scan[v].at \in Late /\ scan'[v].identity = scan[v].identity
                    \/ scan[v].at = "record" /\ scan'[v].identity = capture
                Moved(v) == db'[v] # None =>
                    \/ db'[v] = db[v]
                    \/ scan[v].at = "move_db" /\ db'[v].identity = scan[v].identity
    <2>2. ASSUME NEW v \in Version PROVE Reached(v) /\ Moved(v)
      <3>1. CASE StartScan
        <4>1. UNCHANGED db /\ scan' = [scan EXCEPT ![capture] = [Idle EXCEPT !.at = "unready"]]
          BY <3>1 DEF StartScan, files
        <4>2. [Idle EXCEPT !.at = "unready"].at = "unready" BY DEF Idle
        <4>. QED BY <1>t, <4>1, <4>2
      <3>2. ASSUME NEW w \in Version, NEW next, NEW from \in ScanAt, Step(w, from, next), UNCHANGED db,
                   next.at \in Late =>
                       \/ from \in Late /\ next.identity = scan[w].identity
                       \/ from = "record" /\ next.identity = capture
            PROVE  Reached(v) /\ Moved(v)
        BY <1>t, <3>2 DEF Step
      <3>3. \A w \in Version, at \in ScanAt : To(w, at).at = at /\ To(w, at).identity = scan[w].identity
        BY <1>t DEF To
      <3>4. Late \subseteq ScanAt /\ {"idle", "unready", "open", "record"} \subseteq ScanAt \ Late
        BY DEF ScanAt
      <3>5. ASSUME NEW w \in Version, Withdraw(w) PROVE Reached(v) /\ Moved(v)
        BY <3>2, <3>3, <3>4, <3>5 DEF Withdraw
      <3>6. ASSUME NEW w \in Version, Open(w) PROVE Reached(v) /\ Moved(v)
        <4>. DEFINE next == [To(w, "record") EXCEPT !.content = capture]
        <4>1. next.at = "record" BY <1>t DEF To
        <4>. QED BY <3>2, <3>4, <3>6, <4>1 DEF Open, files
      <3>7. ASSUME NEW w \in Version, Record(w) PROVE Reached(v) /\ Moved(v)
        <4>. DEFINE next == [To(w, "drop_refs") EXCEPT !.identity = capture]
        <4>1. next.identity = capture BY <1>t DEF To
        <4>2. Step(w, "record", next) /\ UNCHANGED db BY <3>7 DEF Record, files
        <4>. HIDE DEF next
        <4>. QED BY <3>2, <3>4, <4>1, <4>2
      <3>8. ASSUME NEW w \in Version, DropRefs(w) \/ MoveRefs(w) PROVE Reached(v) /\ Moved(v)
        BY <3>2, <3>3, <3>4, <3>8 DEF DropRefs, MoveRefs
      <3>9. ASSUME NEW w \in Version, DropDb(w) PROVE Reached(v) /\ Moved(v)
        <4>1. Step(w, "drop_db", To(w, "move_refs")) /\ db' = [db EXCEPT ![w] = None]
          BY <3>9 DEF DropDb
        <4>. QED BY <1>t, <3>3, <3>4, <4>1 DEF Step
      <3>10. ASSUME NEW w \in Version, MoveDb(w) PROVE Reached(v) /\ Moved(v)
        <4>1. /\ Step(w, "move_db", To(w, "publish"))
              /\ db' = [db EXCEPT ![w] = [content |-> scan[w].content, identity |-> scan[w].identity]]
          BY <3>10 DEF MoveDb
        <4>. QED BY <1>t, <3>3, <3>4, <4>1 DEF Step
      <3>11. ASSUME NEW w \in Version, Publish(w) PROVE Reached(v) /\ Moved(v)
        BY <3>2, <3>4, <3>11 DEF Publish, Idle
      <3>12. ASSUME NEW w \in Version, Kill(w) PROVE Reached(v) /\ Moved(v)
        <4>1. scan[w].at \in ScanAt BY <1>t
        <4>. QED BY <3>2, <3>4, <3>12, <4>1 DEF Kill, files, Idle
      <3>. QED BY <1>4, <3>1, <3>5, <3>6, <3>7, <3>8, <3>9, <3>10, <3>11, <3>12 DEF Scan
    <2>3. ASSUME NEW v \in Version PROVE SI(v)' /\ DI(v)'
      <3>1. /\ scan[v].at = "record" => v <= capture
            /\ capture <= capture
        BY <1>t, SMT DEF CalmInv, IInv, IndexInv, ScanKnows
      <3>2. SI(v)' BY <1>2, <2>1, <2>2, <3>1
      <3>3. DI(v)' BY <1>2, <2>1, <2>2
      <3>. QED BY <3>2, <3>3
    <2>. QED BY <1>1, <2>3 DEF IdentityInOrder
  <1>. QED BY <1>3, <1>4

\* While is_ready holds, what the directory of the capture says is of it.
LEMMA CurrentIsWhole ==
    ASSUME IInv, IdentityInOrder, is_ready
    PROVE  /\ capture \in Version /\ ready[capture]
           /\ db[capture] # None /\ db[capture].content = capture /\ db[capture].identity = capture
           /\ refs[capture] = capture
  <1>1. /\ capture \in Version /\ ready[capture] /\ db[capture] # None /\ refs[capture] # None
        /\ db \in [Version -> Manifest \cup {None}] /\ refs \in [Version -> Content]
    BY DEF is_ready, IInv, IndexInv, TypeOK
  <1>2. /\ db[capture].content \in Version /\ db[capture].identity \in Version
        /\ refs[capture] \in Version
    BY <1>1 DEF Manifest, Content
  <1>. QED BY <1>1, <1>2, SMT DEF IInv, IndexInv, DirectoriesInOrder, IdentityInOrder

\* A step of the request itself leaves the index as it is.
LEMMA RequestCalm ==
    ASSUME CalmInv, IInv', Request
    PROVE  IdentityInOrder' /\ CalmIsQuiet' /\ CalmCallGoesOn'
  <1>. USE DEF CalmInv
  <1>t. call \in CallState BY DEF IInv, IndexInv, TypeOK
  <1>1. UNCHANGED <<capture, ready, db, refs, scan>>
    BY DEF Request, Start, RequestIndex, TestReady, CountPackets, ReadManifest, ReadRefs, MakeTemp,
           CheckReady, CheckIdentity, WalkChain, Copy, Decode, ReadRows, ExtractTimeout,
           TSharkFails, WorkerKilled, At, files
  <1>2. IdentityInOrder' /\ (is_ready' <=> is_ready)
    BY <1>1 DEF IdentityInOrder, is_ready
  <1>3. CASE Start
    <2>1. PICK k \in Kind : call' = [NoCall EXCEPT !.kind = k, !.began = capture,
                               !.listed = is_ready,
                               !.at = IF k = "bootstrap" THEN "state" ELSE "ready"]
      BY <1>3 DEF Start
    <2>2. call'.kind = k /\ call'.began = capture /\ call'.at \in {"state", "ready"}
      BY <2>1 DEF NoCall
    <2>3. calm' = (\A v \in Version : scan[v] = Idle) BY <1>3 DEF Start
    <2>4. CalmIsQuiet' BY <1>1, <2>2, <2>3 DEF CalmIsQuiet
    <2>5. CalmCallGoesOn' BY <2>2 DEF CalmCallGoesOn
    <2>. QED BY <1>2, <2>4, <2>5
  <1>4. CASE ExtractTimeout \/ WorkerKilled \/ TSharkFails
    <2>1. calm' = FALSE BY <1>4 DEF ExtractTimeout, WorkerKilled, TSharkFails
    <2>. QED BY <1>2, <2>1 DEF CalmIsQuiet, CalmCallGoesOn
  <1>. DEFINE Steps == \/ RequestIndex \/ TestReady \/ CountPackets \/ ReadManifest \/ ReadRefs
                       \/ MakeTemp \/ CheckReady \/ CheckIdentity \/ WalkChain \/ Copy \/ Decode
                       \/ ReadRows
  <1>5. CASE Steps
    <2>1. call.at # "idle" /\ UNCHANGED calm /\ call'.began = call.began /\ call'.kind = call.kind
      <3>1. call.at # "idle" /\ UNCHANGED calm
        BY <1>5 DEF RequestIndex, TestReady, CountPackets, ReadManifest, ReadRefs, MakeTemp,
               CheckReady, CheckIdentity, WalkChain, Copy, Decode, ReadRows, At, Go, Fail, Calmly
      <3>2. \A status : Answer(status).began = call.began /\ Answer(status).kind = call.kind
        BY <1>t DEF Answer, CallState
      <3>3. call'.began = call.began /\ call'.kind = call.kind
        <4>1. CASE RequestIndex BY <1>t, <3>2, <4>1 DEF RequestIndex, Go, CallState
        <4>2. CASE TestReady BY <1>t, <3>2, <4>2 DEF TestReady, Go, CallState
        <4>3. CASE CountPackets BY <1>t, <3>2, <4>3 DEF CountPackets, Go, CallState
        <4>4. CASE ReadManifest
          <5>1. \/ \E status : call' = Answer(status)
                \/ call' = [call EXCEPT !.at = "refs", !.manifest = db[capture].content]
            BY <4>4 DEF ReadManifest, Go
          <5>. QED BY <1>t, <3>2, <5>1 DEF CallState
        <4>5. CASE ReadRefs
          <5>1. \/ \E status : call' = Answer(status)
                \/ call' = [call EXCEPT !.at = "temp", !.frames = Together(call.manifest, refs[capture])]
            BY <4>5 DEF ReadRefs, Go
          <5>. QED BY <1>t, <3>2, <5>1 DEF CallState
        <4>6. CASE MakeTemp
          <5>1. \/ \E status : call' = Answer(status)
                \/ call' = [call EXCEPT !.at = "extract", !.key = capture]
            BY <4>6 DEF MakeTemp, Fail
          <5>. QED BY <1>t, <3>2, <5>1 DEF CallState
        <4>7. CASE CheckReady BY <1>t, <3>2, <4>7 DEF CheckReady, Go, Fail, CallState
        <4>8. CASE CheckIdentity
          <5>1. \/ \E status : call' = Answer(status)
                \/ call' = [call EXCEPT !.at = "chain", !.bytes = db[call.key].content]
            BY <4>8 DEF CheckIdentity, Go, Fail
          <5>. QED BY <1>t, <3>2, <5>1 DEF CallState
        <4>9. CASE WalkChain
          <5>1. \/ \E status : call' = Answer(status)
                \/ call' = [call EXCEPT !.at = "copy", !.bytes = Together(call.bytes, refs[call.key])]
            BY <4>9 DEF WalkChain, Go, Fail
          <5>. QED BY <1>t, <3>2, <5>1 DEF CallState
        <4>10. CASE Copy
          <5>1. \/ \E status : call' = Answer(status)
                \/ call' = [call EXCEPT !.at = "decode", !.bytes = Together(call.bytes, capture)]
            BY <4>10 DEF Copy, Go, Fail
          <5>. QED BY <1>t, <3>2, <5>1 DEF CallState
        <4>11. CASE Decode BY <1>t, <3>2, <4>11 DEF Decode, CallState
        <4>12. CASE ReadRows
          <5>. DEFINE a == Answer(200)
          <5>1. \/ \E status : call' = Answer(status)
                \/ call' = [a EXCEPT !.rows = db[capture].content]
            BY <4>12 DEF ReadRows, Go
          <5>2. a.began = call.began /\ a.kind = call.kind /\ DOMAIN a = DOMAIN call
            BY <1>t DEF Answer, CallState
          <5>. HIDE DEF a
          <5>3. [a EXCEPT !.rows = db[capture].content].began = a.began
                /\ [a EXCEPT !.rows = db[capture].content].kind = a.kind
            BY <1>t, <5>2 DEF CallState
          <5>. QED BY <3>2, <5>1, <5>2, <5>3
        <4>. QED BY <1>5, <4>1, <4>2, <4>3, <4>4, <4>5, <4>6, <4>7, <4>8, <4>9, <4>10, <4>11, <4>12
      <3>. QED BY <3>1, <3>3
    <2>2. CalmIsQuiet' BY <1>1, <2>1 DEF CalmIsQuiet
    <2>3. ASSUME calm, is_ready PROVE CalmCallGoesOn'
      <3>1. /\ capture \in Version /\ ready[capture]
            /\ db[capture] # None /\ db[capture].content = capture /\ db[capture].identity = capture
            /\ refs[capture] = capture /\ call.began = capture
        BY <2>1, <2>3, CurrentIsWhole DEF CalmIsQuiet
      <3>2. CalmCallGoesOn /\ CallReadsCapture /\ capture # None /\ capture # Mixed
        BY <3>1, <2>1 DEF IInv
      <3>3. call.kind \in Kind BY <2>1, <2>3, <3>2 DEF CalmCallGoesOn
      <3>4. \A status : Answer(status).at = "done" /\ Answer(status).status = status
                        /\ Answer(status).bytes = call.bytes
        BY <1>t DEF Answer, CallState
      <3>5. Expected' = (IF capture \notin HasFlow THEN 404
                         ELSE IF capture \in Large THEN 413
                         ELSE IF call.kind = "payload" /\ capture \notin HasFrame THEN 404 ELSE 200)
        BY <1>1, <2>1 DEF Expected
      <3>6. ASSUME call'.at \in {"ready", "count"} PROVE CalmCallGoesOn'
        BY <2>1, <3>3, <3>6 DEF CalmCallGoesOn
      <3>7. ASSUME call'.at \in {"manifest", "refs"}, capture \in HasFlow, capture \notin Large
            PROVE  CalmCallGoesOn'
        BY <1>1, <2>1, <3>3, <3>7 DEF CalmCallGoesOn
      <3>8. ASSUME call'.at \in {"temp", "extract", "identity", "chain", "copy", "decode", "rows"},
                   capture \in HasFlow, capture \notin Large,
                   call.kind = "payload" => capture \in HasFrame
            PROVE  CalmCallGoesOn'
        BY <1>1, <2>1, <3>3, <3>8 DEF CalmCallGoesOn
      <3>9. ASSUME call'.at = "done", call'.status = Expected',
                   call'.status = 200 => call'.bytes # None
            PROVE  CalmCallGoesOn'
        BY <2>1, <3>3, <3>9 DEF CalmCallGoesOn
      <3>10. ASSUME NEW at \in {"temp", "extract", "identity", "chain", "copy", "decode", "rows"},
                    call.at = at
             PROVE  capture \in HasFlow /\ capture \notin Large
                    /\ (call.kind = "payload" => capture \in HasFrame)
        BY <2>3, <3>2, <3>10 DEF CalmCallGoesOn
      <3>11. CASE RequestIndex
        BY <1>t, <2>3, <3>6, <3>11 DEF RequestIndex, Go, CallState
      <3>12. CASE TestReady
        BY <1>t, <2>3, <3>6, <3>12 DEF TestReady, Go, CallState
      <3>13. CASE CountPackets
        <4>1. CASE capture \notin HasFlow
          <5>1. call' = Answer(404) BY <3>1, <3>13, <4>1 DEF CountPackets, Go
          <5>. QED BY <3>4, <3>5, <3>9, <4>1, <5>1
        <4>2. CASE capture \in HasFlow /\ capture \in Large
          <5>1. call' = Answer(413) BY <3>1, <3>13, <4>2 DEF CountPackets, Go
          <5>. QED BY <3>4, <3>5, <3>9, <4>2, <5>1
        <4>3. CASE capture \in HasFlow /\ capture \notin Large
          <5>1. call' = [call EXCEPT !.at = IF call.kind = "conversation" THEN "temp"
                                            ELSE "manifest"]
            BY <3>1, <3>13, <4>3 DEF CountPackets, Go
          <5>2. call'.at = IF call.kind = "conversation" THEN "temp" ELSE "manifest"
            BY <1>t, <5>1 DEF CallState
          <5>. QED BY <3>7, <3>8, <4>3, <5>2
        <4>. QED BY <4>1, <4>2, <4>3
      <3>14. CASE ReadManifest
        <4>1. call.at = "manifest" BY <3>14 DEF ReadManifest, At
        <4>2. capture \in HasFlow /\ capture \notin Large
          BY <2>3, <3>2, <4>1 DEF CalmCallGoesOn
        <4>3. call' = [call EXCEPT !.at = "refs", !.manifest = capture]
          BY <3>1, <3>14, <4>2 DEF ReadManifest, Go
        <4>4. call'.at = "refs" BY <1>t, <4>3 DEF CallState
        <4>. QED BY <3>7, <4>2, <4>4
      <3>15. CASE ReadRefs
        <4>1. call.at = "refs" BY <3>15 DEF ReadRefs, At
        <4>2. capture \in HasFlow /\ capture \notin Large
          BY <2>3, <3>2, <4>1 DEF CalmCallGoesOn
        <4>3. Together(call.manifest, refs[capture]) = capture
          BY <3>1, <3>2, <4>1 DEF CallReadsCapture, Together
        <4>4. CASE call.kind = "payload" /\ capture \notin HasFrame
          <5>1. call' = Answer(404) BY <3>1, <3>2, <3>15, <4>3, <4>4 DEF ReadRefs, Go
          <5>2. Expected' = 404 BY <3>5, <4>2, <4>4
          <5>. QED BY <3>4, <3>9, <5>1, <5>2
        <4>5. CASE ~(call.kind = "payload" /\ capture \notin HasFrame)
          <5>1. call' = [call EXCEPT !.at = "temp", !.frames = capture]
            BY <3>1, <3>2, <3>15, <4>3, <4>5 DEF ReadRefs, Go
          <5>2. call'.at = "temp" BY <1>t, <5>1 DEF CallState
          <5>. QED BY <3>8, <4>2, <4>5, <5>2
        <4>. QED BY <4>4, <4>5
      <3>16. CASE MakeTemp
        <4>1. call.at = "temp" /\ call' = [call EXCEPT !.at = "extract", !.key = capture]
          BY <2>3, <3>16 DEF MakeTemp, At
        <4>2. call'.at = "extract" BY <1>t, <4>1 DEF CallState
        <4>. QED BY <3>8, <3>10, <4>1, <4>2
      <3>17. CASE CheckReady
        <4>1. call.at = "extract" BY <3>17 DEF CheckReady, At
        <4>2. call.key = capture BY <3>1, <3>2, <4>1 DEF CallReadsCapture
        <4>3. call' = [call EXCEPT !.at = "identity"] BY <3>1, <3>17, <4>2 DEF CheckReady, Go
        <4>4. call'.at = "identity" BY <1>t, <4>3 DEF CallState
        <4>. QED BY <3>8, <3>10, <4>1, <4>4
      <3>18. CASE CheckIdentity
        <4>1. call.at = "identity" BY <3>18 DEF CheckIdentity, At
        <4>2. call.key = capture BY <3>1, <3>2, <4>1 DEF CallReadsCapture
        <4>3. call' = [call EXCEPT !.at = "chain", !.bytes = capture]
          BY <3>1, <3>10, <3>18, <4>1, <4>2 DEF CheckIdentity, Go
        <4>4. call'.at = "chain" BY <1>t, <4>3 DEF CallState
        <4>. QED BY <3>8, <3>10, <4>1, <4>4
      <3>19. CASE WalkChain
        <4>1. call.at = "chain" BY <3>19 DEF WalkChain, At
        <4>2. call.key = capture /\ call.bytes = capture
          BY <3>1, <3>2, <4>1 DEF CallReadsCapture
        <4>3. call' = [call EXCEPT !.at = "copy", !.bytes = capture]
          BY <3>1, <3>2, <3>19, <4>2 DEF WalkChain, Go, Together
        <4>4. call'.at = "copy" BY <1>t, <4>3 DEF CallState
        <4>. QED BY <3>8, <3>10, <4>1, <4>4
      <3>20. CASE Copy
        <4>1. call.at = "copy" BY <3>20 DEF Copy, At
        <4>2. call.bytes = capture BY <3>1, <3>2, <4>1 DEF CallReadsCapture
        <4>3. call' = [call EXCEPT !.at = "decode", !.bytes = capture]
          BY <3>2, <3>20, <4>2 DEF Copy, Go, Together
        <4>4. call'.at = "decode" BY <1>t, <4>3 DEF CallState
        <4>. QED BY <3>8, <3>10, <4>1, <4>4
      <3>21. CASE Decode
        <4>1. call.at = "decode" BY <3>21 DEF Decode, At
        <4>2. /\ call.bytes = capture /\ call.bytes \notin Large
              /\ call.kind # "conversation" => call.frames = capture
          BY <3>1, <3>2, <3>10, <4>1 DEF CallReadsCapture
        <4>3. CASE call.kind = "bootstrap"
          <5>1. call' = [call EXCEPT !.at = "rows"] BY <3>21, <4>2, <4>3 DEF Decode
          <5>2. call'.at = "rows" BY <1>t, <5>1 DEF CallState
          <5>. QED BY <3>8, <3>10, <4>1, <5>2
        <4>4. CASE call.kind # "bootstrap"
          <5>1. call' = Answer(200) BY <3>21, <4>2, <4>4 DEF Decode
          <5>2. Expected' = 200 BY <3>5, <3>10, <4>1
          <5>. QED BY <3>2, <3>4, <3>9, <4>2, <5>1, <5>2
        <4>. QED BY <4>3, <4>4
      <3>22. CASE ReadRows
        <4>1. call.at = "rows" BY <3>22 DEF ReadRows, At
        <4>2. capture \in HasFlow /\ call.bytes = capture /\ Expected' = 200
          BY <3>1, <3>2, <3>5, <3>10, <4>1 DEF CallReadsCapture
        <4>. DEFINE a == Answer(200)
        <4>3. call' = [a EXCEPT !.rows = capture] BY <3>1, <3>22, <4>2 DEF ReadRows, Go
        <4>4. a \in CallState /\ a.at = "done" /\ a.status = 200 /\ a.bytes = capture
          <5>1. 200 \in Status /\ "done" \in RequestAt BY SMT DEF Status, RequestAt
          <5>. QED BY ZenonT(40), <1>t, <4>2, <5>1 DEF Answer, CallState
        <4>. HIDE DEF a
        <4>5. call'.at = "done" /\ call'.status = 200 /\ call'.bytes = capture
          BY <4>3, <4>4 DEF CallState
        <4>. QED BY <3>2, <3>9, <4>2, <4>5
      <3>. QED BY <1>5, <3>11, <3>12, <3>13, <3>14, <3>15, <3>16, <3>17, <3>18, <3>19, <3>20, <3>21,
                  <3>22
    <2>4. CASE ~(calm /\ is_ready)
      <3>1. ~(calm' /\ is_ready') BY <1>2, <2>1, <2>4, Zenon
      <3>2. CalmCallGoesOn' BY <3>1 DEF CalmCallGoesOn
      <3>. QED BY <1>2, <2>2, <3>2
    <2>. QED BY <1>2, <2>2, <2>3, <2>4
  <1>. QED BY <1>3, <1>4, <1>5 DEF Request

LEMMA CalmHolds == CalmInv /\ [Next]_vars => CalmInv'
  <1>. SUFFICES ASSUME CalmInv, [Next]_vars PROVE CalmInv'
    OBVIOUS
  <1>1. IInv' BY StepHolds DEF CalmInv
  <1>2. CASE Change \/ Scan
    <2>1. IdentityInOrder' /\ calm' = FALSE BY <1>2, ScansIdentify
    <2>. QED BY <1>1, <2>1 DEF CalmInv, CalmIsQuiet, CalmCallGoesOn
  <1>3. CASE Request BY <1>1, <1>3, RequestCalm DEF CalmInv
  <1>4. CASE UNCHANGED vars
    BY <1>1, <1>4 DEF vars, files, CalmInv, IdentityInOrder, CalmIsQuiet, CalmCallGoesOn, is_ready,
                      Expected
  <1>. QED BY <1>2, <1>3, <1>4 DEF Next

\* UndisturbedIsAnswered: with a ready index, and as long as nothing else happens,
\* every request gets the flow it asks for, or the refusal that is right for it:
\* no check along the way refuses what the ones before have accepted.
THEOREM QuietIsAnswered == Spec => []UndisturbedIsAnswered
  <1>1. CalmInv => UndisturbedIsAnswered
    BY DEF CalmInv, CalmCallGoesOn, UndisturbedIsAnswered, Succeeded
  <1>. QED BY <1>1, InitCalm, CalmHolds, PTL DEF Spec

\* TempIsTransient: on every way a request ends but the death of its worker, the
\* temporary flow file is gone.
THEOREM TempGoesWithRequest == Spec => []TempIsTransient
  <1>. DEFINE Holding == {"extract", "identity", "chain", "copy", "decode"}
              TempInv == temp => call.at \in Holding \/ (call.at = "done" /\ call.status = Killed)
  <1>1. Init => TempInv BY DEF Init
  <1>2. IInv /\ TempInv /\ [Next]_vars => TempInv'
    <2>. SUFFICES ASSUME IInv, TempInv, [Next]_vars PROVE TempInv'
      OBVIOUS
    <2>t. call \in CallState BY DEF IInv, IndexInv, TypeOK
    <2>1. CASE UNCHANGED <<temp, call>> BY <2>1
    <2>2. CASE temp' = FALSE BY <2>2
    <2>3. CASE MakeTemp
      <3>1. temp' = FALSE \/ call'.at = "extract"
        BY <2>t, <2>3 DEF MakeTemp, Fail, CallState
      <3>. QED BY <3>1
    <2>4. CASE CheckReady \/ CheckIdentity \/ WalkChain \/ Copy
      <3>1. temp' = FALSE \/ call'.at \in Holding
        BY <2>t, <2>4 DEF CheckReady, CheckIdentity, WalkChain, Copy, Go, Fail, CallState
      <3>. QED BY <3>1
    <2>5. CASE WorkerKilled
      <3>1. call'.at = "done" /\ call'.status = Killed
        BY <2>t, <2>5 DEF WorkerKilled, Answer, CallState
      <3>. QED BY <3>1
    <2>6. CASE /\ call.at \in {"idle", "state", "ready", "count", "manifest", "refs", "rows"}
               /\ UNCHANGED temp
      BY <2>6
    <2>7. Change \/ Scan => UNCHANGED <<temp, call>>
      BY DEF Change, Scan, StartScan, Withdraw, Open, Record, DropRefs, DropDb, MoveRefs, MoveDb,
             Publish, Kill, Step
    <2>8. Decode \/ TSharkFails \/ ExtractTimeout => temp' = FALSE
      BY DEF Decode, TSharkFails, ExtractTimeout
    <2>9. Start \/ RequestIndex \/ TestReady \/ CountPackets \/ ReadManifest \/ ReadRefs \/ ReadRows
              => /\ call.at \in {"idle", "state", "ready", "count", "manifest", "refs", "rows"}
                 /\ UNCHANGED temp
      <3>1. CASE Start BY <3>1 DEF Start, NoCall
      <3>2. CASE RequestIndex BY <3>2 DEF RequestIndex, At, Go
      <3>3. CASE TestReady BY <3>3 DEF TestReady, At, Go
      <3>4. CASE CountPackets BY <3>4 DEF CountPackets, At, Go
      <3>5. CASE ReadManifest BY <3>5 DEF ReadManifest, At, Go
      <3>6. CASE ReadRefs BY <3>6 DEF ReadRefs, At, Go
      <3>7. CASE ReadRows BY <3>7 DEF ReadRows, At, Go
      <3>. QED BY <3>1, <3>2, <3>3, <3>4, <3>5, <3>6, <3>7
    <2>. QED BY <2>1, <2>2, <2>3, <2>4, <2>5, <2>6, <2>7, <2>8, <2>9 DEF Next, Request, vars
  <1>3. TempInv => TempIsTransient BY DEF TempIsTransient
  <1>. QED BY <1>1, <1>2, <1>3, InvariantHolds, PTL DEF Spec
===============================================================================
