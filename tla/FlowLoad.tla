------------------------------- MODULE FlowLoad -------------------------------
(***************************************************************************)
(* Loading in the browser (index.html): the selectors, the page-wide load  *)
(* token streamRequest, the asynchronous functions refresh, streams,       *)
(* loadSelectedFlow and loadPlayback, and what they leave on the page.     *)
(*                                                                         *)
(* A function that awaits is a record in `loads` with the locals it has    *)
(* captured; the step that answers it runs its code up to the next await.  *)
(* Flows are named by their capture and stream; the status line is what it *)
(* says and the capture it says it of.                                     *)
(***************************************************************************)
EXTENDS Naturals, FiniteSets

CONSTANTS
    File,           \* captures listed by /api/files
    Stream,         \* stream identifiers
    StreamsOf,      \* [File -> the streams of that capture]
    Supported,      \* the captures that can be indexed
    Mode,           \* playback modes, "smart" among them
    None,           \* nothing selected, nothing shown
    Fails,          \* TRUE: a request may be answered with an error
    IndexLost,      \* TRUE: /api/bootstrap may answer 202, its index being rebuilt
    MaxRequest      \* bound on the load tokens handed out

ASSUME LoadConstants ==
    /\ StreamsOf \in [File -> SUBSET Stream] /\ Supported \subseteq File
    /\ "smart" \in Mode /\ None \notin File \cup Stream
    /\ Fails \in BOOLEAN /\ IndexLost \in BOOLEAN /\ MaxRequest \in Nat \ {0}

VARIABLES
    file,           \* $('file').value
    stream,         \* $('stream').value
    mode,           \* $('pmode').value
    streamRequest,  \* the newest load token
    indexedFile,    \* the capture the stream list came from an index of
    flow,           \* the flow on the page
    drawn,          \* the flow whose packets are drawn and can be clicked
    selection,      \* the flow the selected frame or range was picked in
    playback,       \* [flow, mode] of the timeline the player uses
    status,         \* the status line: [of: capture, says: what]
    loads,          \* calls of refresh, streams and loadSelectedFlow that await
    timelines       \* [flow, mode] of the calls of loadPlayback that await

vars == <<file, stream, mode, streamRequest, indexedFile, flow, drawn, selection,
          playback, status, loads, timelines>>

FlowName == [file: File, stream: Stream]
Timeline == [flow: FlowName, mode: Mode]
\* refreshed: streams() was called by refresh(), which goes on after it
Load == [at: {"index", "bootstrap", "selected"}, token: 1..MaxRequest, file: File,
         stream: Stream \cup {None}, refreshed: BOOLEAN]
FileList == [at: {"files"}, previous: File \cup {None}]
Say(says, f) == status' = [of |-> f, says |-> says]

Init ==
    /\ file = None /\ stream = None /\ mode = "smart"
    /\ streamRequest = 0 /\ indexedFile = None
    /\ flow = None /\ drawn = None /\ selection = None /\ playback = None
    /\ status = [of |-> None, says |-> "choose"]
    /\ loads = {[at |-> "files", previous |-> None]}   \* refresh(true) at the end
    /\ timelines = {}

-----------------------------------------------------------------------------
(* streams and refresh                                                      *)

Token == streamRequest + 1
Current(t) == t.token = streamRequest

\* the bound on tokens stops the user, never an answer that is on its way
Room == streamRequest + Cardinality({t \in loads : t.at = "files"}) < MaxRequest

\* streams() up to its first await, as called by onchange or by refresh: rows and
\* dots that are drawn stay, the bounce diagram is hidden
StartStreams(f) ==
    /\ file' = f /\ stream' = None /\ streamRequest' = Token
    /\ flow' = None /\ drawn' \in {drawn, None} /\ selection' = None
    /\ Say("busy", f)
    /\ UNCHANGED <<mode, indexedFile, playback, timelines>>

NewStreams(f, refreshed) ==
    [at |-> "index", token |-> Token, file |-> f, stream |-> None, refreshed |-> refreshed]

ChooseFile(f) ==
    /\ Room /\ file # None /\ f # file
    /\ StartStreams(f)
    /\ loads' = loads \cup {NewStreams(f, FALSE)}

ClickRefresh ==
    /\ Room
    /\ loads' = loads \cup {[at |-> "files", previous |-> file]}
    /\ UNCHANGED <<file, stream, mode, streamRequest, indexedFile, flow, drawn, selection,
                   playback, status, timelines>>

\* the list is rebuilt and the value read before the await is put back
FilesReply(t) ==
    /\ t.at = "files"
    /\ \E f \in IF t.previous = None THEN File ELSE {t.previous} :
        /\ StartStreams(f)
        /\ loads' = (loads \ {t}) \cup {NewStreams(f, TRUE)}

\* what refresh() does once its streams() has returned, for whatever reason:
\* with no flow on the page the status line becomes the number of captures
AfterStreams(t, says) ==
    IF t.refreshed /\ flow' = None THEN Say("found", None)
    ELSE IF says = "same" THEN UNCHANGED status ELSE Say(says, t.file)

Returns(t, says) ==
    /\ loads' = loads \ {t}
    /\ AfterStreams(t, says)

\* waitForIndex is told "indexing": it says so and polls again
PollIndexing(t) ==
    /\ t.at = "index" /\ t.file \in Supported
    /\ Say("busy", t.file)
    /\ UNCHANGED <<file, stream, mode, streamRequest, indexedFile, flow, drawn, selection,
                   playback, loads, timelines>>

\* an error reply is caught without looking at the token
LoadFails(t) ==
    /\ Fails /\ t.at # "files"
    /\ UNCHANGED <<file, stream, mode, streamRequest, indexedFile, flow, drawn, selection,
                   playback, timelines>>
    /\ Returns(t, "error")

\* a superseded load gives up
Superseded(t) ==
    /\ t.at # "files" /\ ~Current(t)
    /\ UNCHANGED <<file, stream, mode, streamRequest, indexedFile, flow, drawn, selection,
                   playback, timelines>>
    /\ Returns(t, "same")

\* streams() goes on to ask for a flow; None: the list is asked for with it
Bootstrap(t, s) ==
    [at |-> "bootstrap", token |-> t.token, file |-> t.file, stream |-> s,
     refreshed |-> t.refreshed]

\* the index is ready: its streams are listed and one of them is requested
IndexReady(t) ==
    /\ t.at = "index" /\ t.file \in Supported /\ Current(t)
    /\ indexedFile' = t.file
    /\ UNCHANGED <<file, mode, streamRequest, flow, drawn, selection, playback, timelines>>
    /\ \/ /\ StreamsOf[t.file] = {}
          /\ UNCHANGED stream
          /\ Returns(t, "listed")
       \/ \E s \in StreamsOf[t.file] :
          /\ stream' = s
          /\ Say("busy", t.file)
          /\ loads' = (loads \ {t}) \cup {Bootstrap(t, s)}

\* the capture cannot be indexed: bootstrap is asked for the list as well
NotIndexed(t) ==
    /\ t.at = "index" /\ t.file \notin Supported /\ Current(t)
    /\ indexedFile' = None
    /\ Say("busy", t.file)
    /\ loads' = (loads \ {t}) \cup {Bootstrap(t, None)}
    /\ UNCHANGED <<file, stream, mode, streamRequest, flow, drawn, selection, playback, timelines>>

-----------------------------------------------------------------------------
(* build and loadPlayback                                                   *)

\* loadPlayback: the timeline that came with the flow is used when it fits
\* mode and speed (which the RTT override may change), else it is asked for
LoadPlayback(fl, m) ==
    \/ /\ m = "smart"
       /\ playback' = [flow |-> fl, mode |-> m]
       /\ UNCHANGED timelines
    \/ /\ playback' = None
       /\ timelines' = timelines \cup {[flow |-> fl, mode |-> m]}

\* build draws rows and dots, or the bounce diagram alone while no RTT is known,
\* or nothing while the capture side is unknown
Draw(fl) == drawn' \in {fl, None}

\* installCombined and build, on the page as it is now
Install(fl) ==
    /\ flow' = fl /\ Draw(fl)
    /\ LoadPlayback(fl, mode)

\* Mutant: the reply is installed without looking at the token.
BootstrapReplyAlways(t) ==
    /\ t.at = "bootstrap"
    /\ \E s \in IF t.stream = None THEN StreamsOf[t.file] ELSE {t.stream} :
        /\ stream' = IF t.stream = None THEN s ELSE stream
        /\ Install([file |-> t.file, stream |-> s])
    /\ UNCHANGED <<file, mode, streamRequest, indexedFile, selection>>
    /\ Returns(t, "loaded")

BootstrapReply(t) ==
    /\ t.at = "bootstrap" /\ Current(t)
    /\ \E s \in IF t.stream = None THEN StreamsOf[t.file] ELSE {t.stream} :
        /\ stream' = IF t.stream = None THEN s ELSE stream
        /\ Install([file |-> t.file, stream |-> s])
    /\ UNCHANGED <<file, mode, streamRequest, indexedFile, selection>>
    /\ Returns(t, "loaded")

\* Mutant: the reply is installed without looking at the token.
SelectedReplyAlways(t) ==
    /\ t.at = "selected"
    /\ Install([file |-> t.file, stream |-> t.stream])
    /\ UNCHANGED <<file, stream, mode, streamRequest, indexedFile, selection>>
    /\ Returns(t, "loaded")

SelectedReply(t) ==
    /\ t.at = "selected" /\ Current(t)
    /\ Install([file |-> t.file, stream |-> t.stream])
    /\ UNCHANGED <<file, stream, mode, streamRequest, indexedFile, selection>>
    /\ Returns(t, "loaded")

\* 202 passes for success: there is no flow in it, so the page's flow becomes
\* undefined, and the message that follows raises once a capture side is known
ReplyWithoutFlow(t) ==
    /\ IndexLost /\ t.at \in {"bootstrap", "selected"} /\ Current(t)
    /\ t.file \in Supported
    /\ flow' = None
    /\ UNCHANGED <<file, stream, mode, streamRequest, indexedFile, drawn, selection,
                   playback, timelines>>
    /\ Returns(t, "same") \/ Returns(t, "error")

\* Mutant: an empty stream selector is loaded like any other.
LoadSelectedFlowEmpty(s) ==
    /\ Room
    /\ streamRequest' = Token
    /\ stream' = s
    /\ loads' = loads \cup {[at |-> "selected", token |-> Token, file |-> file,
                             stream |-> s, refreshed |-> FALSE]}
    /\ Say("busy", file)
    /\ UNCHANGED <<file, mode, indexedFile, flow, drawn, selection, playback, timelines>>

\* loadSelectedFlow, from the stream selector or the button.  The token moves
\* on even when there is nothing to load yet.
LoadSelectedFlow(s) ==
    /\ Room
    /\ streamRequest' = Token
    /\ stream' = s
    /\ IF s = None
       THEN UNCHANGED <<loads, status>>
       ELSE /\ loads' = loads \cup {[at |-> "selected", token |-> Token, file |-> file,
                                     stream |-> s, refreshed |-> FALSE]}
            /\ Say("busy", file)
    /\ UNCHANGED <<file, mode, indexedFile, flow, drawn, selection, playback, timelines>>

\* the options are those of the last list; the selector fires on a change
ChooseStream(s) ==
    /\ stream # None /\ s \in StreamsOf[file] \ {stream}
    /\ LoadSelectedFlow(s)

ClickLoad == file # None /\ LoadSelectedFlow(stream)

-----------------------------------------------------------------------------
(* What the user does to a flow on the page.                                *)

ChooseMode(m) ==
    /\ m # mode
    /\ mode' = m
    /\ IF flow = None THEN playback' = None /\ UNCHANGED timelines
       ELSE LoadPlayback(flow, m)
    /\ UNCHANGED <<file, stream, streamRequest, indexedFile, flow, drawn, selection, status, loads>>

\* a change of capture side, RTT, rate or markers builds the page again
Rebuild ==
    /\ flow # None
    /\ Draw(flow) /\ LoadPlayback(flow, mode)
    /\ Say("loaded", flow.file)
    /\ UNCHANGED <<file, stream, mode, streamRequest, indexedFile, flow, selection, loads>>

PlaybackReply(t) ==
    /\ timelines' = timelines \ {t}
    /\ playback' \in {t, None}
    /\ UNCHANGED <<file, stream, mode, streamRequest, indexedFile, flow, drawn, selection,
                   status, loads>>

\* a range of the flow on the page, or a packet that is drawn, of whatever flow
Select ==
    /\ selection' \in {flow, drawn} \ {None}
    /\ UNCHANGED <<file, stream, mode, streamRequest, indexedFile, flow, drawn, playback,
                   status, loads, timelines>>

ClearSelection ==
    /\ selection' = None
    /\ UNCHANGED <<file, stream, mode, streamRequest, indexedFile, flow, drawn, playback,
                   status, loads, timelines>>

-----------------------------------------------------------------------------
Answered(t) ==
    \/ FilesReply(t) \/ LoadFails(t) \/ Superseded(t) \/ IndexReady(t)
    \/ NotIndexed(t) \/ BootstrapReply(t) \/ SelectedReply(t) \/ ReplyWithoutFlow(t)

User ==
    \/ \E f \in File : ChooseFile(f)
    \/ \E s \in Stream : ChooseStream(s)
    \/ \E m \in Mode : ChooseMode(m)
    \/ ClickRefresh \/ ClickLoad \/ Rebuild \/ Select \/ ClearSelection

Next ==
    \/ User
    \/ \E t \in loads : Answered(t) \/ PollIndexing(t)
    \/ \E t \in timelines : PlaybackReply(t)

Spec == Init /\ [][Next]_vars

\* Every request is answered, and an index that is polled for is ready one
\* day (PolledCaptureIsIndexed of IndexBuild).  Nothing obliges the user.
Fairness ==
    /\ WF_vars(\E t \in loads : t.at = "files" /\ Answered(t))
    /\ \A n \in 1..MaxRequest :
        WF_vars(\E t \in loads : t.at # "files" /\ t.token = n /\ Answered(t))
FairSpec == Spec /\ Fairness

-----------------------------------------------------------------------------
(* Properties.                                                              *)

TypeOK ==
    /\ file \in File \cup {None} /\ stream \in Stream \cup {None} /\ mode \in Mode
    /\ streamRequest \in 0..MaxRequest /\ indexedFile \in File \cup {None}
    /\ flow \in FlowName \cup {None} /\ drawn \in FlowName \cup {None}
    /\ selection \in FlowName \cup {None}
    /\ playback \in Timeline \cup {None} /\ timelines \subseteq Timeline
    /\ status \in [of: File \cup {None},
                   says: {"choose", "busy", "error", "found", "listed", "loaded"}]
    /\ loads \subseteq Load \cup FileList

\* A late answer never replaces what the user has asked for since: a flow that
\* comes to the page is the one both selectors name at that moment.
OnlyNewestInstalls ==
    [][flow' \notin {flow, None} => flow' = [file |-> file', stream |-> stream']]_vars

\* The flow on the page is never one of another capture than the selected one,
\* so that payload requests, which name the selected capture and the flow's
\* stream, ask for the flow that is shown.
FlowIsOfFile == flow # None => flow.file = file

\* At most one of the calls that await is current: all the others will find a newer token.
OneCurrentLoad ==
    \A t, u \in loads : t.at # "files" /\ u.at # "files" /\ Current(t) /\ Current(u) => t = u

\* Stale loads are cancelled when the capture changes: the status line never
\* speaks of a capture that is no longer selected.
StatusIsCurrent == status.of \in {None, file}

\* Only a change of capture cancels a load: a capture that is chosen and stays
\* chosen gets its streams listed, when no request fails.
ChosenCaptureIsListed ==
    \A f \in File : (file = f /\ stream = None) ~> (stream # None \/ file # f)

\* The timeline the player uses is of the flow on the page and of the mode the
\* selector shows.
PlaybackIsCurrent ==
    playback # None /\ flow # None => playback = [flow |-> flow, mode |-> mode]

\* Changing streams resets stale selections: what is selected was picked in
\* the flow that is on the page.
SelectionIsOfFlow == selection # None /\ flow # None => selection = flow
=============================================================================
