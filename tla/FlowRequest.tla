------------------------------ MODULE FlowRequest ------------------------------
(***************************************************************************)
(* One HTTP request that reads a flow (app.py: bootstrap, flow, payload,   *)
(* conversation_payload), every read it makes a step of its own, while the *)
(* capture is replaced and its index is withdrawn, rebuilt or left torn.   *)
(*                                                                         *)
(* The capture is named by its version.  A version is also its key: the    *)
(* key hashes size and time of modification, so indexing.paths() names the *)
(* directory of the version there is when it is called.  What a file holds *)
(* is the version its content was scanned from; reading two contents of    *)
(* different versions together gives Mixed or an error.                    *)
(***************************************************************************)
EXTENDS Naturals

CONSTANTS
    MaxVersion,  \* versions of the capture
    HasFlow,     \* the versions with a connection of the number asked for
    Large,       \* the versions in which it has more than MAX_PACKETS packets
    HasFrame,    \* the versions in which the frame asked for belongs to it
    MaxBuild,    \* bound on the scans started, of any version
    None, Mixed  \* no file or value; a value put together from two versions

Version == 1..MaxVersion

ASSUME RequestConstants ==
    /\ MaxVersion \in Nat \ {0} /\ MaxBuild \in Nat
    /\ HasFlow \subseteq Version /\ Large \subseteq HasFlow /\ HasFrame \subseteq HasFlow
    /\ None \notin Version /\ Mixed \notin Version \cup {None}
    /\ None \notin [content: Version, identity: Version]

VARIABLES
    capture,  \* the version of the file now
    ready,    \* [Version -> READY exists in the directory of that key]
    db,       \* [Version -> what capture.sqlite holds: [content, identity], or None]
    refs,     \* [Version -> the content of refs.bin, or None]
    scan,     \* [Version -> the scan into that directory: [at, content, identity]]
    builds,   \* scans started, at most MaxBuild
    call,     \* the request
    temp,     \* its temporary flow-*.pcap or .part exists
    calm      \* since it began, no scan or change of the capture, no timeout, crash
              \* or failure of TShark

files == <<ready, db, refs>>
vars == <<capture, files, scan, builds, call, temp, calm>>

Kind == {"bootstrap", "flow", "payload", "conversation"}
Idle == [at |-> "idle", content |-> None, identity |-> None]
NoCall == [kind |-> None, at |-> "idle", began |-> None, listed |-> FALSE, manifest |-> None, frames |-> None,
           key |-> None, bytes |-> None, rows |-> None, status |-> None]

Init ==
    /\ capture = 1
    /\ ready = [v \in Version |-> FALSE]
    /\ db = [v \in Version |-> None] /\ refs = [v \in Version |-> None]
    /\ scan = [v \in Version |-> Idle] /\ builds = 0
    /\ call = NoCall /\ temp = FALSE /\ calm = TRUE

is_ready == ready[capture] /\ db[capture] # None /\ refs[capture] # None

-----------------------------------------------------------------------------
(* The capture and its scans                                                *)

\* the capture is written anew
Change ==
    /\ capture < MaxVersion /\ capture' = capture + 1
    /\ calm' = FALSE
    /\ UNCHANGED <<files, scan, builds, call, temp>>

\* a scan's step, from where it is to where it goes
Step(v, from, goes) ==
    /\ scan[v].at = from /\ scan' = [scan EXCEPT ![v] = goes]
    /\ calm' = FALSE /\ UNCHANGED <<capture, builds, call, temp>>
To(v, at) == [scan[v] EXCEPT !.at = at]

\* over a ready index too: request_index looks only once, before it takes the lock
StartScan ==
    /\ scan[capture] = Idle /\ builds < MaxBuild
    /\ scan' = [scan EXCEPT ![capture] = [Idle EXCEPT !.at = "unready"]]
    /\ builds' = builds + 1
    /\ calm' = FALSE /\ UNCHANGED <<capture, files, call, temp>>

\* Mutant: READY stays.
WithdrawNot(v) == Step(v, "unready", To(v, "open")) /\ UNCHANGED files

Withdraw(v) ==
    /\ Step(v, "unready", To(v, "open"))
    /\ ready' = [ready EXCEPT ![v] = FALSE] /\ UNCHANGED <<db, refs>>

\* the packets are those of the file opened here ...
Open(v) ==
    /\ Step(v, "open", [To(v, "record") EXCEPT !.content = capture])
    /\ UNCHANGED files

\* Mutant: the identity is left out.
RecordNot(v) ==
    /\ Step(v, "record", [To(v, "drop_refs") EXCEPT !.identity = None])
    /\ UNCHANGED files

\* ... the size and time recorded with them those of the file of now
Record(v) ==
    /\ Step(v, "record", [To(v, "drop_refs") EXCEPT !.identity = capture])
    /\ UNCHANGED files

DropRefs(v) ==
    /\ Step(v, "drop_refs", To(v, "drop_db"))
    /\ refs' = [refs EXCEPT ![v] = None] /\ UNCHANGED <<ready, db>>

DropDb(v) ==
    /\ Step(v, "drop_db", To(v, "move_refs"))
    /\ db' = [db EXCEPT ![v] = None] /\ UNCHANGED <<ready, refs>>

\* Mutant: the directory is that of the capture of now.
MoveRefsNow(v) ==
    /\ Step(v, "move_refs", To(v, "move_db"))
    /\ refs' = [refs EXCEPT ![capture] = scan[v].content] /\ UNCHANGED <<ready, db>>

MoveRefs(v) ==
    /\ Step(v, "move_refs", To(v, "move_db"))
    /\ refs' = [refs EXCEPT ![v] = scan[v].content] /\ UNCHANGED <<ready, db>>

MoveDb(v) ==
    /\ Step(v, "move_db", To(v, "publish"))
    /\ db' = [db EXCEPT ![v] = [content |-> scan[v].content, identity |-> scan[v].identity]]
    /\ UNCHANGED <<ready, refs>>

Publish(v) ==
    /\ Step(v, "publish", Idle)
    /\ ready' = [ready EXCEPT ![v] = TRUE] /\ UNCHANGED <<db, refs>>

\* INDEX_TIMEOUT, a failed read or write, a restart of the container
Kill(v) ==
    /\ scan[v] # Idle
    /\ Step(v, scan[v].at, Idle)
    /\ UNCHANGED files

Scan ==
    \/ StartScan
    \/ \E v \in Version :
        \/ Withdraw(v) \/ Open(v) \/ Record(v) \/ DropRefs(v) \/ DropDb(v)
        \/ MoveRefs(v) \/ MoveDb(v) \/ Publish(v) \/ Kill(v)

-----------------------------------------------------------------------------
(* The request                                                              *)

At(step) == call.at = step /\ UNCHANGED <<capture, files, scan, builds>>
Calmly == UNCHANGED calm
Go(c) == call' = c /\ UNCHANGED <<temp, calm>>
Answer(status) == [call EXCEPT !.at = "done", !.status = status]

Killed == 0   \* the status of a request that gets no answer at all

\* an exception leaves the with statement, whose finally removes the files
Fail(status) == call' = Answer(status) /\ temp' = FALSE /\ UNCHANGED calm

Start ==
    /\ call = NoCall
    /\ \E k \in Kind :
        call' = [NoCall EXCEPT !.kind = k, !.began = capture, !.listed = is_ready,
                               !.at = IF k = "bootstrap" THEN "state" ELSE "ready"]
    /\ calm' = (\A v \in Version : scan[v] = Idle) /\ UNCHANGED <<capture, files, scan, builds, temp>>

\* bootstrap asks request_index first: it is told to wait, or of an error, or to
\* go on, also without an index: the status file of a scan that holds the lock may
\* still say "ready" of the index before
RequestIndex ==
    /\ At("state")
    /\ \/ Go([call EXCEPT !.at = "ready"])
       \/ ~is_ready /\ \E status \in {202, 422} : Go(Answer(status))

\* without an index the whole capture goes through TShark, with the number
\* of the request as TShark's stream number (for a payload its frame number);
\* it may be too large, or TShark may fail
TestReady ==
    /\ At("ready")
    /\ IF is_ready THEN Go([call EXCEPT !.at = "count"])
       ELSE \E status \in {200, 404, 413, 422, 500, 504} : Go(Answer(status))

\* flow_packet_count
CountPackets ==
    /\ At("count")
    /\ LET m == db[capture] IN
       CASE m = None -> Go(Answer(422))
         [] m # None /\ m.content \notin HasFlow -> Go(Answer(404))
         [] m # None /\ m.content \in Large -> Go(Answer(413))
         [] OTHER -> Go([call EXCEPT !.at = IF call.kind = "conversation" THEN "temp"
                                            ELSE "manifest"])

\* original_frames: the manifest's row, then refs.bin, each by the path of now
ReadManifest ==
    /\ At("manifest")
    /\ LET m == db[capture] IN
       CASE m = None -> Go(Answer(422))
         [] m # None /\ m.content \notin HasFlow -> Go(Answer(404))
         [] OTHER -> Go([call EXCEPT !.at = "refs", !.manifest = m.content])

Together(x, y) == IF x = y THEN x ELSE Mixed

\* a broken chain is a ValueError, which payload reports as a missing frame
ReadRefs ==
    /\ At("refs")
    /\ LET frames == Together(call.manifest, refs[capture]) IN
       \/ refs[capture] = None /\ Go(Answer(422))
       \/ /\ refs[capture] # None /\ frames = Mixed
          /\ Go(Answer(IF call.kind = "payload" THEN 404 ELSE 422))
       \/ /\ refs[capture] # None
          /\ IF call.kind = "payload" /\ frames \in Version \ HasFrame THEN Go(Answer(404))
             ELSE Go([call EXCEPT !.at = "temp", !.frames = frames])

\* extracted_flow up to the start of the process, whose directory is fixed here
MakeTemp ==
    /\ At("temp")
    /\ IF is_ready THEN /\ call' = [call EXCEPT !.at = "extract", !.key = capture]
                        /\ temp' = TRUE /\ Calmly
       ELSE Fail(422)

\* extract: READY, then the manifest and its identity against the file of now
CheckReady ==
    /\ At("extract")
    /\ IF ready[call.key] THEN Go([call EXCEPT !.at = "identity"]) ELSE Fail(422)

CheckIdentity ==
    /\ At("identity")
    /\ LET m == db[call.key] IN
       IF m # None /\ m.identity = capture /\ m.content \in HasFlow
       THEN Go([call EXCEPT !.at = "chain", !.bytes = m.content]) ELSE Fail(422)

WalkChain ==
    /\ At("chain")
    /\ LET bytes == Together(call.bytes, refs[call.key]) IN
       \/ (refs[call.key] = None \/ bytes = Mixed) /\ Fail(422)
       \/ refs[call.key] # None /\ Go([call EXCEPT !.at = "copy", !.bytes = bytes])

\* the capture is opened again: the offsets may be those of another version
Copy ==
    /\ At("copy")
    /\ LET bytes == Together(call.bytes, capture) IN
       \/ bytes = Mixed /\ Fail(422)
       \/ Go([call EXCEPT !.at = "decode", !.bytes = bytes])

\* Mutant: the last local frame is taken for one too many.
DecodeOneLess ==
    /\ At("decode")
    /\ temp' = FALSE /\ Calmly
    /\ call' = Answer(422)

\* TShark reads the file, the file is removed, packets are counted once more and
\* their local frame numbers mapped
Decode ==
    /\ At("decode")
    /\ temp' = FALSE /\ Calmly
    /\ LET packets == call.kind \in {"bootstrap", "flow"} IN
       IF packets /\ call.bytes \in Large THEN call' = Answer(413)
       ELSE \/ call' = IF call.kind = "bootstrap" THEN [call EXCEPT !.at = "rows"] ELSE Answer(200)
            \/ packets /\ call.frames # call.bytes /\ call' = Answer(422)

\* TShark takes too long, is not there or cannot read the file, which is removed
TSharkFails ==
    /\ At("decode")
    /\ temp' = FALSE /\ calm' = FALSE
    /\ \E status \in {422, 500, 504} : call' = Answer(status)

\* bootstrap's stream_summaries; the selected connection must be among them
ReadRows ==
    /\ At("rows")
    /\ LET m == db[capture] IN
       CASE m = None -> Go(Answer(422))
         [] m # None /\ m.content \notin HasFlow -> Go(Answer(404))
         [] OTHER -> Go([Answer(200) EXCEPT !.rows = m.content])

\* Mutant: extracted_flow has no finally.
ExtractTimeoutLeaves ==
    /\ call.at \in {"extract", "identity", "chain", "copy"}
    /\ call' = Answer(500) /\ calm' = FALSE /\ UNCHANGED temp
    /\ UNCHANGED <<capture, files, scan, builds>>

\* the process takes more than 120 s: TimeoutExpired, which no handler names
ExtractTimeout ==
    /\ call.at \in {"extract", "identity", "chain", "copy"}
    /\ call' = Answer(500) /\ temp' = FALSE /\ calm' = FALSE
    /\ UNCHANGED <<capture, files, scan, builds>>

\* gunicorn kills a worker that is silent for 240 s
WorkerKilled ==
    /\ call.at \notin {"idle", "done"}
    /\ call' = Answer(Killed) /\ calm' = FALSE
    /\ UNCHANGED <<capture, files, scan, builds, temp>>

Request == Start \/ RequestIndex \/ TestReady \/ CountPackets \/ ReadManifest \/ ReadRefs
           \/ MakeTemp \/ CheckReady \/ CheckIdentity \/ WalkChain \/ Copy \/ Decode
           \/ TSharkFails \/ ReadRows \/ ExtractTimeout \/ WorkerKilled

Next == Change \/ Scan \/ Request

Spec == Init /\ [][Next]_vars

-----------------------------------------------------------------------------
(* What should hold                                                         *)

Content == Version \cup {None}
Manifest == [content: Version, identity: Version]
RequestAt == {"idle", "state", "ready", "count", "manifest", "refs", "temp", "extract",
              "identity", "chain", "copy", "decode", "rows", "done"}
Status == {None, Killed, 200, 202, 404, 413, 422, 500, 504}
CallState == [kind: Kind \cup {None}, at: RequestAt, began: Content, listed: BOOLEAN,
              manifest: Content, frames: Content \cup {Mixed}, key: Content,
              bytes: Content \cup {Mixed}, rows: Content, status: Status]
ScanAt == {"idle", "unready", "open", "record", "drop_refs", "drop_db", "move_refs",
           "move_db", "publish"}
TypeOK ==
    /\ capture \in Version /\ builds \in 0..MaxBuild
    /\ ready \in [Version -> BOOLEAN] /\ db \in [Version -> Manifest \cup {None}]
    /\ refs \in [Version -> Content]
    /\ scan \in [Version -> [at: ScanAt, content: Content, identity: Content]]
    /\ call \in CallState
    /\ temp \in BOOLEAN /\ calm \in BOOLEAN

\* READY stands over a manifest and references of one content, whenever the
\* capture was replaced or a scan of the directory killed.
ReadyIsWhole == \A v \in Version : ready[v] => db[v] # None /\ refs[v] = db[v].content

\* The directory that the key of the capture names never holds anything that was
\* scanned from another version, although the scanner opens the capture after the
\* key was computed and records its identity later still (main.rs:451).
CurrentIndexIsOfCapture ==
    /\ db[capture] # None => db[capture].content = capture
    /\ refs[capture] \in {None, capture}

Succeeded == call.at = "done" /\ call.status = 200 /\ call.bytes # None

\* If the capture is the one it was when the request began, then frame numbers,
\* packets and summary rows of a successful answer are all of that capture,
\* whatever scans did to the index between its reads.
UnchangedIsRight ==
    Succeeded /\ call.began = capture =>
        /\ call.bytes = capture
        /\ call.kind # "conversation" => call.frames = capture
        /\ call.kind = "bootstrap" => call.rows = capture

Expected ==
    IF capture \notin HasFlow THEN 404
    ELSE IF capture \in Large THEN 413
    ELSE IF call.kind = "payload" /\ capture \notin HasFrame THEN 404 ELSE 200

\* A request that nothing disturbs is answered from a ready index: with the
\* flow if the connection is there, and refused only for what it asks.
UndisturbedIsAnswered ==
    call.at = "done" /\ calm /\ is_ready =>
        call.status = Expected /\ (call.status = 200 => Succeeded)

\* "Temporary flow files are removed after each request" (docs/FLOW-INDEX.md:65):
\* on every way out but the death of the worker.
TempIsTransient == temp =>
    call.at \in {"extract", "identity", "chain", "copy", "decode"} \/ call.status = Killed

\* ... without that exception.
TempIsRemoved == call.at = "done" => ~temp

\* "Detailed flow, playback, segment payload, and conversation payload requests
\* materialize only the selected connection" (docs/FLOW-INDEX.md:63): so does a
\* request for a flow that was listed from the index.
OnlySelected == call.at = "done" /\ call.status = 200 /\ call.listed => Succeeded

\* "PacketTrain maps TShark's local frame numbers back to original capture frame
\* numbers through refs.bin" (docs/FLOW-INDEX.md:64): through that of the packets.
MappingIsOfPackets == Succeeded /\ call.kind # "conversation" => call.frames = call.bytes

\* "The source size and nanosecond mtime are validated before extraction"
\* (docs/FLOW-INDEX.md:20): what passes was scanned from the capture there is.
ValidatedIsScanned ==
    [][call.at = "identity" /\ call'.at = "chain" => db[call.key].content = capture]_vars

===============================================================================
